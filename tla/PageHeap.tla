------------------------------ MODULE PageHeap ------------------------------
(***************************************************************************)
(* The page heap of fastMalloc (WTF/wtf/FastMalloc.cpp, TCMalloc_PageHeap):*)
(* runs of pages, called spans, taken from the system, cut up, handed out, *)
(* coalesced when they come back, and given back to the system.  All of it *)
(* runs under pageheap_lock, so its operations are functions from a heap   *)
(* to a heap, which FastMalloc.tla applies one critical section at a time. *)
(*                                                                         *)
(* A span descriptor is known by the number of its Span object, which is   *)
(* recycled.  pagemap_ holds such numbers.  The code leaves the entries of *)
(* pages inside a free span as they were; here they are STALE, so that TLC *)
(* would stop where one is used.  Free lists are sequences, newest first.  *)
(***************************************************************************)
EXTENDS Integers, Sequences, FiniteSets, SequencesExt

CONSTANTS
    NumPages,       \* pages the system can supply
    kMaxPages       \* spans shorter than this have a list for their length

ASSUME PageHeapAssumption == NumPages \in Nat \ {0} /\ kMaxPages \in Nat \ {0, 1}

Pages == 1 .. NumPages
SpanIds == 1 .. NumPages
NULL == 0
STALE == -1

BlankSpan ==
    [valid |-> FALSE, start |-> 0, length |-> 0, free |-> FALSE, decommitted |-> FALSE,
     sizeclass |-> 0, refcount |-> 0, objects |-> <<>>]

PageHeapInit ==
    [span |-> [s \in SpanIds |-> BlankSpan],
     pagemap |-> [p \in 0 .. NumPages + 1 |-> NULL],
     normal |-> [i \in 1 .. kMaxPages |-> <<>>],
     returned |-> [i \in 1 .. kMaxPages |-> <<>>],
     free_pages |-> 0,
     system |-> {},          \* pages obtained from the system
     committed |-> {}]       \* those of them backed by memory

-----------------------------------------------------------------------------
(* Spans and lists of spans                                                *)

PagesOf(span) == span.start .. span.start + span.length - 1
LastPage(span) == span.start + span.length - 1

(* free_[length], or large_.                                               *)
ListOf(length) == IF length < kMaxPages THEN length ELSE kMaxPages

NewSpan(h, p, n) ==
    LET s == CHOOSE s \in SpanIds : ~h.span[s].valid /\ \A x \in 1 .. s - 1 : h.span[x].valid
    IN  [heap |-> [h EXCEPT !.span[s] =
                      [BlankSpan EXCEPT !.valid = TRUE, !.start = p, !.length = n]],
         span |-> s]

RecordSpan(h, s) ==
    [h EXCEPT !.pagemap[h.span[s].start] = s, !.pagemap[LastPage(h.span[s])] = s]

DLL_Remove(h, s) ==
    LET i == ListOf(h.span[s].length)
    IN  [h EXCEPT !.normal[i] = Remove(@, s), !.returned[i] = Remove(@, s)]

DLL_Prepend(h, s) ==
    LET i == ListOf(h.span[s].length)
    IN  IF h.span[s].decommitted
        THEN [h EXCEPT !.returned[i] = <<s>> \o @]
        ELSE [h EXCEPT !.normal[i] = <<s>> \o @]

-----------------------------------------------------------------------------
(* Allocation                                                              *)

(* The span New and AllocLarge settle on: the shortest length below        *)
(* kMaxPages that has a span, a normal one before a returned one, or else  *)
(* the best fit, the lowest in memory, of both large lists.                *)
FindSpan(h, n) ==
    LET Free(i) == h.normal[i] \o h.returned[i]
        lengths == {i \in n .. kMaxPages - 1 : Free(i) # <<>>}
        large == {s \in ToSet(Free(kMaxPages)) : h.span[s].length >= n}
        Fits(s, x) == \/ h.span[s].length < h.span[x].length
                      \/ /\ h.span[s].length = h.span[x].length
                         /\ h.span[s].start <= h.span[x].start
    IN  IF lengths # {} THEN Head(Free(Min(lengths)))
        ELSE IF large # {} THEN CHOOSE s \in large : \A x \in large : Fits(s, x)
        ELSE NULL

Carve(h, s, n) ==
    LET released == s \in ToSet(h.returned[ListOf(h.span[s].length)])
        removed == [DLL_Remove(h, s) EXCEPT !.span[s].free = FALSE]
        taken == IF released
                 THEN [removed EXCEPT !.span[s].decommitted = FALSE,
                                      !.committed = @ \cup PagesOf(h.span[s])]
                 ELSE removed
        new == NewSpan(taken, h.span[s].start + n, h.span[s].length - n)
        rest == RecordSpan([new.heap EXCEPT !.span[new.span].free = TRUE], new.span)
    IN  IF h.span[s].length = n THEN taken
        ELSE [DLL_Prepend(rest, new.span) EXCEPT
                 !.span[s].length = n, !.pagemap[h.span[s].start + n - 1] = s]

TakeSpan(h, n) ==
    LET s == FindSpan(h, n)
    IN  [heap |-> [Carve(h, s, n) EXCEPT !.free_pages = @ - n], span |-> s]

-----------------------------------------------------------------------------
(* Deletion                                                                *)

(* The heap after the memory of span o goes the way of that of d.          *)
mergeDecommittedStates(h, d, o) ==
    IF h.span[d].decommitted = h.span[o].decommitted THEN h
    ELSE IF h.span[d].decommitted
    THEN [h EXCEPT !.committed = @ \ PagesOf(h.span[o])]
    ELSE [h EXCEPT !.committed = @ \ PagesOf(h.span[d]), !.span[d].decommitted = TRUE]

(* Span o, a free neighbour, becomes part of s.                            *)
Absorb(h, s, o) ==
    LET removed == DLL_Remove(mergeDecommittedStates(h, s, o), o)
        start == Min({h.span[s].start, h.span[o].start})
        length == h.span[s].length + h.span[o].length
    IN  [removed EXCEPT !.span[o] = BlankSpan,
                        !.span[s].start = start, !.span[s].length = length,
                        !.pagemap[start] = s, !.pagemap[start + length - 1] = s]

(* The pages of span s, which is on a normal list, go back to the system.  *)
ReturnSpan(h, s) ==
    DLL_Prepend([DLL_Remove(h, s) EXCEPT !.span[s].decommitted = TRUE,
                                         !.committed = @ \ PagesOf(h.span[s])], s)

(* IncrementalScavenge: either it is not time to release memory, or the    *)
(* last span of some normal list is returned.  The counter and the index   *)
(* that pace it are left out: any list may be its turn.                    *)
IncrementalScavenge(h) ==
    {h} \cup {ReturnSpan(h, Last(h.normal[i])) : i \in {j \in 1 .. kMaxPages : h.normal[j] # <<>>}}

(* Span s, which is all free pages now, goes to its list.                  *)
Freed(h, s) ==
    LET span == h.span[s]
    IN  DLL_Prepend([h EXCEPT !.span[s].free = TRUE,
                              !.pagemap = [p \in DOMAIN @ |->
                                  IF p \in span.start + 1 .. LastPage(span) - 1 THEN STALE ELSE @[p]]],
                    s)

(* A Delete that coalesces with the span before it only.                   *)
DeleteWithoutNext(h, s) ==
    LET n == h.span[s].length
        prev == h.pagemap[h.span[s].start - 1]
        cleared == [h EXCEPT !.span[s].sizeclass = 0]
        merged == IF prev # NULL /\ h.span[prev].free THEN Absorb(cleared, s, prev) ELSE cleared
    IN  IncrementalScavenge([Freed(merged, s) EXCEPT !.free_pages = @ + n])

Delete(h, s) ==
    LET n == h.span[s].length
        prev == h.pagemap[h.span[s].start - 1]
        next == h.pagemap[h.span[s].start + n]
        cleared == [h EXCEPT !.span[s].sizeclass = 0]
        left == IF prev # NULL /\ h.span[prev].free THEN Absorb(cleared, s, prev) ELSE cleared
        merged == IF next # NULL /\ h.span[next].free THEN Absorb(left, s, next) ELSE left
    IN  IncrementalScavenge([Freed(merged, s) EXCEPT !.free_pages = @ + n])

ReleaseFreePages(h) ==
    LET spans == UNION {ToSet(h.normal[i]) : i \in 1 .. kMaxPages}
    IN  [h EXCEPT
            !.span = [s \in SpanIds |->
                         IF s \in spans THEN [@[s] EXCEPT !.decommitted = TRUE] ELSE @[s]],
            !.committed = @ \ UNION {PagesOf(h.span[s]) : s \in spans},
            !.returned = [i \in 1 .. kMaxPages |-> h.normal[i] \o @[i]],
            !.normal = [i \in 1 .. kMaxPages |-> <<>>]]

-----------------------------------------------------------------------------
(* Growth, and New as a whole                                              *)

(* TCMalloc_SystemAlloc: where the system may place n pages.               *)
SystemAlloc(h, n) == {p \in Pages : p + n - 1 <= NumPages /\ (p .. p + n - 1) \cap h.system = {}}

(* The system hands out kMinSystemAlloc = kMaxPages pages, or more if asked *)
(* for more, or else just as many as are needed.  The new pages are deleted *)
(* as a span, to join their neighbours.  No heap: the system refused.      *)
GrowHeap(h, n) ==
    LET ask == IF n > kMaxPages THEN n ELSE kMaxPages
        got == IF SystemAlloc(h, ask) # {} THEN ask ELSE n
        Grown(p) ==
            LET new == NewSpan([h EXCEPT !.system = @ \cup (p .. p + got - 1),
                                         !.committed = @ \cup (p .. p + got - 1)], p, got)
            IN  Delete(RecordSpan(new.heap, new.span), new.span)
    IN  UNION {Grown(p) : p \in SystemAlloc(h, got)}

(* The possible outcomes of New(n): a heap and a span of it, or NULL.      *)
New(h, n) ==
    IF FindSpan(h, n) # NULL THEN {TakeSpan(h, n)}
    ELSE IF GrowHeap(h, n) = {} THEN {[heap |-> h, span |-> NULL]}
    ELSE {TakeSpan(g, n) : g \in GrowHeap(h, n)}

(* The interior pages of a span of small objects map to it as well.        *)
RegisterSizeClass(h, s, sc) ==
    LET span == h.span[s]
    IN  [h EXCEPT !.span[s].sizeclass = sc,
                  !.pagemap = [p \in DOMAIN @ |->
                      IF p \in span.start + 1 .. LastPage(span) - 1 THEN s ELSE @[p]]]

-----------------------------------------------------------------------------
(* The spans tile the memory of the heap, pagemap_ finds a span from each  *)
(* of its boundaries and, if it holds small objects, from all its pages,   *)
(* no two free spans are adjacent, a free span is on the list for its      *)
(* length and state and a span in use on none, free_pages_ counts the free *)
(* pages, and exactly the pages of returned spans are not backed by memory.*)
(* This is what Check and CheckList assert, and more.                      *)
HeapConsistent(h) ==
    LET spans == {s \in SpanIds : h.span[s].valid}
        free == {s \in spans : h.span[s].free}
        Owners(p) == {s \in spans : p \in PagesOf(h.span[s])}
    IN  /\ \A p \in Pages :
              /\ Cardinality(Owners(p)) = IF p \in h.system THEN 1 ELSE 0
              /\ p \in h.committed <=> \E s \in Owners(p) : ~h.span[s].decommitted
        /\ \A s \in spans :
              LET span == h.span[s]
              IN  /\ span.length > 0
                  /\ h.pagemap[span.start] = s /\ h.pagemap[LastPage(span)] = s
                  /\ span.sizeclass # 0 => \A p \in PagesOf(span) : h.pagemap[p] = s
                  /\ span.free => \A x \in free : h.span[x].start # LastPage(span) + 1
                  /\ span.decommitted => span.free
        /\ \A i \in 1 .. kMaxPages :
              LET listed == {s \in free : ListOf(h.span[s].length) = i}
                  returned == {s \in listed : h.span[s].decommitted}
              IN  /\ ToSet(h.normal[i]) = listed \ returned /\ ToSet(h.returned[i]) = returned
                  /\ Len(h.normal[i]) + Len(h.returned[i]) = Cardinality(listed)
        /\ h.free_pages = Cardinality(UNION {PagesOf(h.span[s]) : s \in free})
=============================================================================
