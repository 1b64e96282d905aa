----------------------------- MODULE FastMalloc -----------------------------
(***************************************************************************)
(* fastMalloc (WTF/wtf/FastMalloc.cpp): thread caches, which are private,  *)
(* over one central free list per size class, each with its own spin lock, *)
(* over the page heap of PageHeap.tla and its lock.                        *)
(*                                                                         *)
(* An address is a number, on page address \div kPageSize.  Lists of free  *)
(* objects are sequences of addresses, the next one to be taken first.  A  *)
(* step of a thread is what it does between two lock operations; a         *)
(* critical section that neither waits nor unlocks half way is one step,   *)
(* which is enabled when its lock is free.  op[t] is the call thread t is  *)
(* in, with the locals that survive an unlock.                             *)
(***************************************************************************)
EXTENDS PageHeap

CONSTANTS
    Threads,
    NONE,                   \* no thread
    kNumClasses,            \* size classes, counting the unused class 0
    ByteSizeForClass,       \* class -> size of its objects
    class_to_pages,         \* class -> pages of its spans
    num_objects_to_move,    \* class -> objects moved at a time
    kMaxFreeListLength,     \* longest free list of a thread cache
    per_thread_cache_size,  \* size from which a thread cache is scavenged
    kPageSize,
    kCacheSlots,            \* entries of the cache of size classes
    LargeSizes,             \* sizes, in pages, the program asks for
    MaxHeld                 \* bound: blocks the program holds at a time

Classes == 0 .. kNumClasses - 1
SmallClasses == 1 .. kNumClasses - 1
kNumTransferEntries == kNumClasses

ASSUME FastMallocAssumption ==
    /\ NONE \notin Threads
    /\ kNumClasses \in Nat \ {0, 1} /\ kPageSize \in Nat \ {0} /\ kCacheSlots \in Nat \ {0}
    /\ \A c \in SmallClasses :
          /\ num_objects_to_move[c] > 0
          /\ ByteSizeForClass[c] \in 1 .. class_to_pages[c] * kPageSize

NoCache == <<>>
NoEntry == [page |-> 0, class |-> 0]

VARIABLES
    heap,           \* the page heap
    pageheap_lock,  \* owner of the lock of the page heap, or NONE
    central,        \* class -> the central free list
    lock,           \* class -> owner of the lock of that list, or NONE
    cache,          \* thread -> its free lists, or NoCache
    classCache,     \* slot -> a page and its cached size class
    held,           \* the blocks the program holds
    op              \* thread -> the call it is in

vars == <<heap, pageheap_lock, central, lock, cache, classCache, held, op>>

(* after: what a thread does when all of todo, its calls of InsertRange    *)
(* still to come, are done.  victim, force, got: locals of an eviction.    *)
(* rel, relcl: objects being released to the spans of class relcl.         *)
Idle ==
    [pc |-> "idle", cl |-> 0, chain |-> <<>>, todo |-> <<>>, after |-> "idle", victim |-> 0,
     force |-> FALSE, got |-> FALSE, rel |-> <<>>, relcl |-> 0, span |-> NULL]

Init ==
    /\ heap = PageHeapInit
    /\ pageheap_lock = NONE
    /\ central = [c \in Classes |->
          [nonempty |-> <<>>, empty |-> {}, counter |-> 0, slots |-> <<>>, cache_size |-> 1]]
    /\ lock = [c \in Classes |-> NONE]
    /\ cache = [t \in Threads |-> NoCache]
    /\ classCache = [i \in 0 .. kCacheSlots - 1 |-> NoEntry]
    /\ held = {}
    /\ op = [t \in Threads |-> Idle]

-----------------------------------------------------------------------------
(* Pages, objects and the cache of size classes                            *)

PageOf(address) == address \div kPageSize
Descriptor(address) == heap.pagemap[PageOf(address)]

(* An entry replaces that of any other page in its slot.  Class 0 reads as *)
(* no entry.                                                               *)
Put(cc, page, class) ==
    [cc EXCEPT ![page % kCacheSlots] = IF class = 0 THEN NoEntry ELSE [page |-> page, class |-> class]]

GetSizeClassIfCached(page) ==
    IF classCache[page % kCacheSlots].page = page THEN classCache[page % kCacheSlots].class ELSE 0

(* The objects of a span of a small size class, in the order of addresses. *)
ObjectsOf(span, cl) ==
    [i \in 1 .. (span.length * kPageSize) \div ByteSizeForClass[cl] |->
        span.start * kPageSize + (i - 1) * ByteSizeForClass[cl]]

Block(address, cl, pages) == [address |-> address, cl |-> cl, pages |-> pages]

(* NewHeap, when the thread has no cache yet.                              *)
CacheOf(t) == IF cache[t] = NoCache THEN [c \in SmallClasses |-> <<>>] ELSE cache[t]

(* At most n objects of a list, in the chains ReleaseToCentralCache makes. *)
Chains(cl, list, n) ==
    LET num == IF n > Len(list) THEN Len(list) ELSE n
        batch == num_objects_to_move[cl]
        count == (num + batch - 1) \div batch
    IN  [i \in 1 .. count |->
            [cl |-> cl, objects |-> SubSeq(list, (i - 1) * batch + 1,
                                           IF i = count THEN num ELSE i * batch)]]

(* The calls of InsertRange that empty a thread cache, in order of class.  *)
CleanupCalls(lists) ==
    FoldLeft(LAMBDA calls, c : calls \o Chains(c, lists[c], Len(lists[c])), <<>>,
             [c \in SmallClasses |-> c])

-----------------------------------------------------------------------------
(* malloc                                                                  *)

Free(c) == lock[c] = NONE

(* A small block from the thread's free list, or a call of RemoveRange.    *)
MallocSmall(t, c) ==
    /\ op[t].pc = "idle" /\ Cardinality(held) < MaxHeld
    /\ cache[t] = NoCache => pageheap_lock = NONE
    /\ \/ /\ CacheOf(t)[c] = <<>>
          /\ cache' = [cache EXCEPT ![t] = CacheOf(t)]
          /\ op' = [op EXCEPT ![t] = [Idle EXCEPT !.pc = "remove", !.cl = c]]
          /\ UNCHANGED held
       \/ /\ CacheOf(t)[c] # <<>>
          /\ held' = held \cup {Block(Head(cache[t][c]), c, 0)}
          /\ cache' = [cache EXCEPT ![t][c] = Tail(@)]
          /\ UNCHANGED op
    /\ UNCHANGED <<heap, pageheap_lock, central, lock, classCache>>

(* FetchFromSpans, up to num_objects_to_move times.                        *)
FetchFromSpans(state) ==
    IF state.list.nonempty = <<>> THEN state
    ELSE LET s == Head(state.list.nonempty)
             objects == state.heap.span[s].objects
         IN  [got |-> <<Head(objects)>> \o state.got,
              heap |-> [state.heap EXCEPT !.span[s].refcount = @ + 1,
                                          !.span[s].objects = Tail(@)],
              list |-> IF Len(objects) = 1
                       THEN [state.list EXCEPT !.counter = @ - 1, !.nonempty = Tail(@),
                                               !.empty = @ \cup {s}]
                       ELSE [state.list EXCEPT !.counter = @ - 1]]

FetchMany(c, list) ==
    FoldLeft(LAMBDA state, i : FetchFromSpans(state),
             [got |-> <<>>, heap |-> heap, list |-> list],
             [i \in 1 .. num_objects_to_move[c] |-> i])

(* The thread gets a chain of objects of class c, and the first for itself.*)
(* An empty chain: malloc fails.                                           *)
Receive(t, c, chain) ==
    /\ op' = [op EXCEPT ![t] = Idle]
    /\ IF chain = <<>> THEN UNCHANGED <<cache, held>>
       ELSE /\ cache' = [cache EXCEPT ![t][c] = Tail(chain)]
            /\ held' = held \cup {Block(Head(chain), c, 0)}

FetchAndReceive(t, c, list) ==
    LET fetched == FetchMany(c, list)
    IN  /\ Receive(t, c, fetched.got)
        /\ heap' = fetched.heap
        /\ central' = [central EXCEPT ![c] = fetched.list]

RemoveRange(t) ==
    LET c == op[t].cl
    IN  /\ op[t].pc = "remove" /\ Free(c)
        /\ \/ /\ central[c].slots # <<>>
              /\ Receive(t, c, Last(central[c].slots))
              /\ central' = [central EXCEPT ![c].slots = Front(@)]
              /\ UNCHANGED heap
           \/ /\ central[c].slots = <<>> /\ central[c].nonempty # <<>>
              /\ FetchAndReceive(t, c, central[c])
           \/ /\ central[c].slots = <<>> /\ central[c].nonempty = <<>>
              /\ op' = [op EXCEPT ![t].pc = "populate"]
              /\ UNCHANGED <<heap, central, cache, held>>
        /\ UNCHANGED <<pageheap_lock, lock, classCache>>

(* Populate: a span from the page heap, without the lock of the class.     *)
(* The span is private to the thread while it is cut into objects.         *)
Populate(t) ==
    LET c == op[t].cl
        CacheClasses(span) ==
            FoldLeft(LAMBDA cc, i : Put(cc, span.start + i - 1, c), classCache,
                     [i \in 1 .. span.length |-> i])
    IN  /\ op[t].pc = "populate" /\ pageheap_lock = NONE
        /\ \E new \in New(heap, class_to_pages[c]) :
              LET registered == RegisterSizeClass(new.heap, new.span, c)
                  span == registered.span[new.span]
              IN  /\ \/ /\ new.span = NULL
                        /\ heap' = new.heap
                        /\ UNCHANGED classCache
                     \/ /\ new.span # NULL
                        /\ heap' = [registered EXCEPT !.span[new.span].objects = ObjectsOf(span, c)]
                        /\ classCache' = CacheClasses(span)
                  /\ op' = [op EXCEPT ![t].pc = "populated", ![t].span = new.span]
        /\ UNCHANGED <<pageheap_lock, central, lock, cache, held>>

(* The span joins the central list, whose lock is taken again, and which   *)
(* another thread may have filled or emptied in the meantime.              *)
Populated(t) ==
    LET c == op[t].cl
        s == op[t].span
    IN  /\ op[t].pc = "populated" /\ Free(c)
        /\ FetchAndReceive(t, c,
              IF s = NULL THEN central[c]
              ELSE [central[c] EXCEPT !.nonempty = <<s>> \o @,
                                      !.counter = @ + Len(heap.span[s].objects)])
        /\ UNCHANGED <<pageheap_lock, lock, classCache>>

(* A large block that leaves the cached size class of its page alone.      *)
MallocLargeStale(t, n) ==
    /\ op[t].pc = "idle" /\ Cardinality(held) < MaxHeld /\ pageheap_lock = NONE
    /\ cache' = [cache EXCEPT ![t] = CacheOf(t)]
    /\ \E new \in New(heap, n) :
          /\ heap' = new.heap
          /\ new.span # NULL =>
                held' = held \cup {Block(new.heap.span[new.span].start * kPageSize, 0, n)}
          /\ new.span = NULL => UNCHANGED held
    /\ UNCHANGED <<pageheap_lock, central, lock, op, classCache>>

MallocLarge(t, n) ==
    /\ op[t].pc = "idle" /\ Cardinality(held) < MaxHeld /\ pageheap_lock = NONE
    /\ cache' = [cache EXCEPT ![t] = CacheOf(t)]
    /\ \E new \in New(heap, n) :
          /\ heap' = new.heap
          /\ IF new.span = NULL THEN UNCHANGED <<held, classCache>>
             ELSE LET start == new.heap.span[new.span].start
                  IN  /\ held' = held \cup {Block(start * kPageSize, 0, n)}
                      /\ classCache' = Put(classCache, start, 0)
    /\ UNCHANGED <<pageheap_lock, central, lock, op>>

-----------------------------------------------------------------------------
(* free                                                                    *)

(* The next call of InsertRange, or what follows the last one.             *)
NextInsert(o) ==
    IF o.todo = <<>> THEN [Idle EXCEPT !.pc = o.after]
    ELSE [Idle EXCEPT !.pc = "insert", !.cl = Head(o.todo).cl, !.chain = Head(o.todo).objects,
                      !.todo = Tail(o.todo), !.after = o.after]

StartInserts(t, calls, after) ==
    op' = [op EXCEPT ![t] = NextInsert([Idle EXCEPT !.todo = calls, !.after = after])]

Size(lists) == MapThenSumSet(LAMBDA c : Len(lists[c]) * ByteSizeForClass[c], SmallClasses)

(* What Scavenge drops from a list of length n: half of the low-water mark,*)
(* which may be anything up to n, but at least one object.                 *)
Drops(n) == {0} \cup {IF low > 1 THEN low \div 2 ELSE 1 : low \in 1 .. n}

(* ThreadCache::Deallocate, with the object of class c on top of its list. *)
Deallocate(t, c, address) ==
    LET pushed == [cache[t] EXCEPT ![c] = <<address>> \o @]
        Rest(list, calls) == SubSeq(list, Len(FoldLeft(LAMBDA all, x : all \o x.objects, <<>>, calls)) + 1,
                                    Len(list))
        full == IF Len(pushed[c]) > kMaxFreeListLength
                THEN Chains(c, pushed[c], num_objects_to_move[c]) ELSE <<>>
        kept == [pushed EXCEPT ![c] = Rest(@, full)]
    IN  \E drop \in [SmallClasses -> UNION {Drops(Len(kept[x])) : x \in SmallClasses}] :
          LET dropped == [x \in SmallClasses |-> Chains(x, kept[x], drop[x])]
          IN  /\ \A x \in SmallClasses :
                    drop[x] \in IF Size(kept) >= per_thread_cache_size THEN Drops(Len(kept[x])) ELSE {0}
              /\ cache' = [cache EXCEPT ![t] = [x \in SmallClasses |-> Rest(kept[x], dropped[x])]]
              /\ StartInserts(t, full \o FlattenSeq(dropped), "idle")

(* A small block: to the thread's free list if it has one, else straight   *)
(* to the central list.                                                    *)
FreeSmall(t, b) ==
    LET c == heap.span[Descriptor(b.address)].sizeclass
    IN  /\ op[t].pc = "idle" /\ b \in held /\ c # 0
        /\ held' = held \ {b}
        /\ classCache' = Put(classCache, PageOf(b.address), c)
        /\ \/ /\ cache[t] # NoCache
              /\ Deallocate(t, c, b.address)
           \/ /\ cache[t] = NoCache
              /\ StartInserts(t, Chains(c, <<b.address>>, 1), "idle")
              /\ UNCHANGED cache
        /\ UNCHANGED <<heap, pageheap_lock, central, lock>>

FreeLarge(t, b) ==
    LET s == Descriptor(b.address)
    IN  /\ op[t].pc = "idle" /\ b \in held /\ heap.span[s].sizeclass = 0 /\ pageheap_lock = NONE
        /\ held' = held \ {b}
        /\ heap' \in Delete(heap, s)
        /\ UNCHANGED <<pageheap_lock, central, lock, cache, classCache, op>>

(* realloc looks the size class of a block up, without a lock, and caches  *)
(* what it read from the span.  When it moves the block it calls malloc    *)
(* and free, which are the other actions.                                  *)
LookUpSize(t, b) ==
    /\ op[t].pc = "idle" /\ b \in held
    /\ GetSizeClassIfCached(PageOf(b.address)) = 0
    /\ classCache' = Put(classCache, PageOf(b.address), heap.span[Descriptor(b.address)].sizeclass)
    /\ UNCHANGED <<heap, pageheap_lock, central, lock, cache, held, op>>

-----------------------------------------------------------------------------
(* Central_FreeList::InsertRange, and MakeCacheSpace                       *)

(* The thread's own chain is to be released to its spans.                  *)
ReleaseOwn(o) ==
    [Idle EXCEPT !.pc = "release", !.cl = o.cl, !.relcl = o.cl, !.rel = o.chain,
                 !.todo = o.todo, !.after = o.after]

(* A chain of the right length goes to a slot if there is one; if the list *)
(* may have more slots it tries to take one from another list; any other   *)
(* chain is released to its spans.                                         *)
InsertRange(t) ==
    LET c == op[t].cl
        list == central[c]
        whole == Len(op[t].chain) = num_objects_to_move[c]
    IN  /\ op[t].pc = "insert" /\ Free(c)
        /\ \/ /\ whole /\ Len(list.slots) < list.cache_size
              /\ central' = [central EXCEPT ![c].slots = Append(@, op[t].chain)]
              /\ op' = [op EXCEPT ![t] = NextInsert(@)]
              /\ UNCHANGED lock
           \/ /\ whole /\ Len(list.slots) >= list.cache_size
              /\ list.cache_size # kNumTransferEntries
              /\ lock' = [lock EXCEPT ![c] = t]
              /\ op' = [op EXCEPT ![t].pc = "evict"]
              /\ UNCHANGED central
           \/ /\ whole => /\ Len(list.slots) >= list.cache_size
                          /\ list.cache_size = kNumTransferEntries
              /\ lock' = [lock EXCEPT ![c] = t]
              /\ op' = [op EXCEPT ![t] = ReleaseOwn(@)]
              /\ UNCHANGED central
        /\ UNCHANGED <<heap, pageheap_lock, cache, classCache, held>>

(* An attempt failed: it is followed by one with force, or by the release  *)
(* of the chain, under the lock of the class.                              *)
Failed(o) ==
    IF o.force THEN ReleaseOwn(o) ELSE [o EXCEPT !.pc = "evict", !.force = TRUE]

(* An eviction that keeps the lock of its own class.                       *)
EvictRandomSizeClassHolding(t) ==
    /\ op[t].pc = "evict"
    /\ \E v \in Classes :
          IF \/ v = op[t].cl
             \/ central[v].cache_size = 0
             \/ ~op[t].force /\ Len(central[v].slots) = central[v].cache_size
          THEN op' = [op EXCEPT ![t] = Failed(@)] /\ UNCHANGED lock
          ELSE /\ op' = [op EXCEPT ![t].pc = "shrink", ![t].victim = v]
               /\ UNCHANGED lock
    /\ UNCHANGED <<heap, pageheap_lock, central, cache, classCache, held>>

(* EvictRandomSizeClass, and the checks of ShrinkCache without a lock.     *)
(* race_counter is unsynchronised: it may name any class.                  *)
EvictRandomSizeClass(t) ==
    /\ op[t].pc = "evict"
    /\ \E v \in Classes :
          IF \/ v = op[t].cl
             \/ central[v].cache_size = 0
             \/ ~op[t].force /\ Len(central[v].slots) = central[v].cache_size
          THEN op' = [op EXCEPT ![t] = Failed(@)] /\ UNCHANGED lock
          ELSE /\ op' = [op EXCEPT ![t].pc = "shrink", ![t].victim = v]
               /\ lock' = [lock EXCEPT ![op[t].cl] = NONE]
    /\ UNCHANGED <<heap, pageheap_lock, central, cache, classCache, held>>

(* An eviction that trusts the checks made without the lock.              *)
ShrinkCacheUnchecked(t) ==
    LET v == op[t].victim
        list == central[v]
    IN  /\ op[t].pc = "shrink" /\ Free(v)
        /\ \/ /\ list.slots # <<>> /\ Len(list.slots) = list.cache_size
              /\ central' = [central EXCEPT ![v].cache_size = @ - 1, ![v].slots = Front(@)]
              /\ lock' = [lock EXCEPT ![v] = t]
              /\ op' = [op EXCEPT ![t].pc = "release", ![t].victim = 0, ![t].got = TRUE,
                                  ![t].relcl = v, ![t].rel = Last(list.slots)]
           \/ /\ list.slots = <<>> \/ Len(list.slots) # list.cache_size
              /\ central' = [central EXCEPT ![v].cache_size = @ - 1]
              /\ op' = [op EXCEPT ![t].pc = "reinvert", ![t].victim = 0, ![t].got = TRUE]
              /\ UNCHANGED lock
        /\ UNCHANGED <<heap, pageheap_lock, cache, classCache, held>>

(* ShrinkCache, under the lock of the victim: a slot less, if there is one *)
(* to spare, or if forced, when the chain in it is released to its spans.  *)
ShrinkCache(t) ==
    LET v == op[t].victim
        list == central[v]
    IN  /\ op[t].pc = "shrink" /\ Free(v)
        /\ \/ /\ \/ list.cache_size = 0
                 \/ ~op[t].force /\ Len(list.slots) = list.cache_size
              /\ op' = [op EXCEPT ![t].pc = "reinvert", ![t].victim = 0]
              /\ UNCHANGED <<central, lock>>
           \/ /\ list.cache_size # 0 /\ Len(list.slots) = list.cache_size /\ op[t].force
              /\ central' = [central EXCEPT ![v].cache_size = @ - 1, ![v].slots = Front(@)]
              /\ lock' = [lock EXCEPT ![v] = t]
              /\ op' = [op EXCEPT ![t].pc = "release", ![t].victim = 0, ![t].got = TRUE,
                                  ![t].relcl = v, ![t].rel = Last(list.slots)]
           \/ /\ list.cache_size # 0 /\ Len(list.slots) # list.cache_size
              /\ central' = [central EXCEPT ![v].cache_size = @ - 1]
              /\ op' = [op EXCEPT ![t].pc = "reinvert", ![t].victim = 0, ![t].got = TRUE]
              /\ UNCHANGED lock
        /\ UNCHANGED <<heap, pageheap_lock, cache, classCache, held>>

(* The lock inverter takes the first lock again.                           *)
Reinvert(t) ==
    LET c == op[t].cl
    IN  /\ op[t].pc = "reinvert" /\ Free(c)
        /\ \/ /\ op[t].got
              /\ central' = [central EXCEPT ![c].cache_size = @ + 1,
                                            ![c].slots = Append(@, op[t].chain)]
              /\ op' = [op EXCEPT ![t] = NextInsert(@)]
              /\ UNCHANGED lock
           \/ /\ ~op[t].got
              /\ op' = [op EXCEPT ![t] = Failed(@)]
              /\ lock' = [lock EXCEPT ![c] = t]
              /\ UNCHANGED central
        /\ UNCHANGED <<heap, pageheap_lock, cache, classCache, held>>

-----------------------------------------------------------------------------
(* Central_FreeList::ReleaseListToSpans                                    *)

(* What follows a release: the rest of InsertRange, or of an eviction.     *)
AfterRelease(o) ==
    IF o.relcl = o.cl THEN NextInsert(o) ELSE [o EXCEPT !.pc = "reinvert", !.relcl = 0]

(* A release that leaves a span on its list while it is being deleted.     *)
ReleaseToSpansListed(t) ==
    LET c == op[t].relcl
        object == Head(op[t].rel)
        s == Descriptor(object)
        span == heap.span[s]
        rest == [op[t] EXCEPT !.rel = Tail(@)]
        list == IF span.objects = <<>>
                THEN [central[c] EXCEPT !.counter = @ + 1, !.nonempty = <<s>> \o @, !.empty = @ \ {s}]
                ELSE [central[c] EXCEPT !.counter = @ + 1]
    IN  /\ op[t].pc = "release" /\ lock[c] \in {t, NONE}
        /\ heap' = [heap EXCEPT !.span[s].refcount = @ - 1,
                                !.span[s].objects = IF span.refcount = 1 THEN @ ELSE <<object>> \o @]
        /\ \/ /\ span.refcount = 1
              /\ central' = [central EXCEPT ![c] =
                    [list EXCEPT !.counter = @ - Len(ObjectsOf(span, c))]]
              /\ op' = [op EXCEPT ![t] = [rest EXCEPT !.pc = "delete", !.span = s]]
              /\ lock' = [lock EXCEPT ![c] = NONE]
           \/ /\ span.refcount # 1
              /\ central' = [central EXCEPT ![c] = list]
              /\ IF rest.rel = <<>>
                 THEN /\ op' = [op EXCEPT ![t] = AfterRelease(rest)]
                      /\ lock' = [lock EXCEPT ![c] = NONE]
                 ELSE /\ op' = [op EXCEPT ![t] = rest]
                      /\ lock' = [lock EXCEPT ![c] = t]
        /\ UNCHANGED <<pageheap_lock, cache, classCache, held>>

(* ReleaseToSpans of the first object, under the lock of relcl.  The last  *)
(* object of a span to come back takes the span, with the lock released,   *)
(* to the page heap; the lock is taken again for the next object.          *)
ReleaseToSpans(t) ==
    LET c == op[t].relcl
        object == Head(op[t].rel)
        s == Descriptor(object)
        span == heap.span[s]
        rest == [op[t] EXCEPT !.rel = Tail(@)]
        list == IF span.objects = <<>>
                THEN [central[c] EXCEPT !.counter = @ + 1, !.nonempty = <<s>> \o @, !.empty = @ \ {s}]
                ELSE [central[c] EXCEPT !.counter = @ + 1]
    IN  /\ op[t].pc = "release" /\ lock[c] \in {t, NONE}
        /\ heap' = [heap EXCEPT !.span[s].refcount = @ - 1,
                                !.span[s].objects = IF span.refcount = 1 THEN @ ELSE <<object>> \o @]
        /\ \/ /\ span.refcount = 1
              /\ central' = [central EXCEPT ![c] =
                    [list EXCEPT !.counter = @ - Len(ObjectsOf(span, c)), !.nonempty = Remove(@, s)]]
              /\ op' = [op EXCEPT ![t] = [rest EXCEPT !.pc = "delete", !.span = s]]
              /\ lock' = [lock EXCEPT ![c] = NONE]
           \/ /\ span.refcount # 1
              /\ central' = [central EXCEPT ![c] = list]
              /\ IF rest.rel = <<>>
                 THEN /\ op' = [op EXCEPT ![t] = AfterRelease(rest)]
                      /\ lock' = [lock EXCEPT ![c] = NONE]
                 ELSE /\ op' = [op EXCEPT ![t] = rest]
                      /\ lock' = [lock EXCEPT ![c] = t]
        /\ UNCHANGED <<pageheap_lock, cache, classCache, held>>

(* The span goes to the page heap, its list of objects as it was: Populate *)
(* or a new descriptor replaces it.  If it was the last object, the lock   *)
(* is taken again only to be released, which is left out.                  *)
DeleteSpan(t) ==
    /\ op[t].pc = "delete" /\ pageheap_lock = NONE
    /\ heap' \in Delete(heap, op[t].span)
    /\ op' = [op EXCEPT ![t] = IF @.rel = <<>> THEN AfterRelease([@ EXCEPT !.span = NULL])
                               ELSE [@ EXCEPT !.pc = "release", !.span = NULL]]
    /\ UNCHANGED <<pageheap_lock, central, lock, cache, classCache, held>>

-----------------------------------------------------------------------------
(* Threads and the whole allocator                                         *)

(* DestroyThreadCache, when a thread exits: pthread has cleared its key,   *)
(* and DeleteCache empties the cache and takes it off thread_heaps, which  *)
(* only the statistics read.  A thread of the same name may come back.     *)
DestroyThreadCache(t) ==
    /\ op[t].pc = "idle" /\ cache[t] # NoCache
    /\ StartInserts(t, CleanupCalls(cache[t]), "idle")
    /\ cache' = [cache EXCEPT ![t] = NoCache]
    /\ UNCHANGED <<heap, pageheap_lock, central, lock, classCache, held>>

releaseFastMallocFreeMemory(t) ==
    /\ op[t].pc = "idle"
    /\ \/ /\ cache[t] = NoCache
          /\ StartInserts(t, <<>>, "releasePages")
          /\ UNCHANGED cache
       \/ /\ cache[t] # NoCache
          /\ StartInserts(t, CleanupCalls(cache[t]), "releasePages")
          /\ cache' = [cache EXCEPT ![t] = [c \in SmallClasses |-> <<>>]]
    /\ UNCHANGED <<heap, pageheap_lock, central, lock, classCache, held>>

ReleasePages(t) ==
    /\ op[t].pc = "releasePages" /\ pageheap_lock = NONE
    /\ heap' = ReleaseFreePages(heap)
    /\ op' = [op EXCEPT ![t] = Idle]
    /\ UNCHANGED <<pageheap_lock, central, lock, cache, classCache, held>>

(* fastMallocStatistics takes the lock of each class in turn, under the    *)
(* lock of the page heap.  That of class 0 is never held between steps.    *)
fastMallocStatistics(t) ==
    /\ op[t].pc = "idle" /\ pageheap_lock = NONE
    /\ pageheap_lock' = t
    /\ op' = [op EXCEPT ![t] = [Idle EXCEPT !.pc = "statistics", !.cl = 1]]
    /\ UNCHANGED <<heap, central, lock, cache, classCache, held>>

StatisticsOfClass(t) ==
    /\ op[t].pc = "statistics" /\ Free(op[t].cl)
    /\ \/ /\ op[t].cl < kNumClasses - 1
          /\ op' = [op EXCEPT ![t].cl = @ + 1]
          /\ UNCHANGED pageheap_lock
       \/ /\ op[t].cl = kNumClasses - 1
          /\ op' = [op EXCEPT ![t] = Idle]
          /\ pageheap_lock' = NONE
    /\ UNCHANGED <<heap, central, lock, cache, classCache, held>>

Next ==
    \E t \in Threads :
        \/ \E c \in SmallClasses : MallocSmall(t, c)
        \/ \E n \in LargeSizes : MallocLarge(t, n)
        \/ \E b \in held : FreeSmall(t, b) \/ FreeLarge(t, b) \/ LookUpSize(t, b)
        \/ RemoveRange(t) \/ Populate(t) \/ Populated(t)
        \/ InsertRange(t) \/ EvictRandomSizeClass(t) \/ ShrinkCache(t) \/ Reinvert(t)
        \/ ReleaseToSpans(t) \/ DeleteSpan(t)
        \/ DestroyThreadCache(t)
        \/ releaseFastMallocFreeMemory(t) \/ ReleasePages(t)
        \/ fastMallocStatistics(t) \/ StatisticsOfClass(t)

Spec == Init /\ [][Next]_vars

-----------------------------------------------------------------------------
(* Properties                                                              *)

TypeOK ==
    /\ pageheap_lock \in Threads \cup {NONE}
    /\ lock \in [Classes -> Threads \cup {NONE}]
    /\ \A t \in Threads : \/ cache[t] = NoCache
                          \/ /\ DOMAIN cache[t] = SmallClasses
                             /\ \A c \in SmallClasses : Len(cache[t][c]) \in Nat
    /\ \A b \in held : b.address \in Nat /\ b.cl \in Classes /\ b.pages \in {0} \cup LargeSizes

(* The spans, page map, free lists and counters of the page heap agree at  *)
(* every moment, whatever threads do between their critical sections: the  *)
(* page heap tiles its memory, coalesces free neighbours, and backs every  *)
(* page in use by memory (Check, CheckList, Carve, Delete).                *)
SpansConsistent == TypeOK /\ HeapConsistent(heap)

Bytes(b) ==
    b.address .. b.address + (IF b.cl = 0 THEN b.pages * kPageSize ELSE ByteSizeForClass[b.cl]) - 1

(* Every block malloc handed out and free has not taken back lies within a *)
(* span in use, of the size class the block was allocated with, on pages   *)
(* backed by memory, and realloc, which trusts the cached class of a page  *)
(* without a lock, never finds another one there (GetSizeClassIfCached).   *)
BlocksIntact ==
    \A b \in held :
        LET span == heap.span[Descriptor(b.address)]
        IN  /\ span.valid /\ ~span.free /\ span.sizeclass = b.cl
            /\ \A x \in Bytes(b) : PageOf(x) \in PagesOf(span) \cap heap.committed
            /\ GetSizeClassIfCached(PageOf(b.address)) \in {0, b.cl}

(* The sum of the values of a function, counted.                           *)
Total(f) == Cardinality(UNION {{x} \X (1 .. f[x]) : x \in DOMAIN f})

(* The free objects of class c in the cache, or the hands, of thread t.    *)
InFlight(t, c) ==
    FoldLeft(LAMBDA all, x : IF x.cl = c THEN all \o x.objects ELSE all,
             (IF op[t].cl = c THEN op[t].chain ELSE <<>>)
                \o (IF op[t].relcl = c THEN op[t].rel ELSE <<>>)
                \o (IF cache[t] = NoCache THEN <<>> ELSE cache[t][c]),
             op[t].todo)

(* Every object of a span of small objects is in exactly one place: on the *)
(* span's own list, in a transfer slot, in a thread cache, on its way      *)
(* between them, or held by the program.  refcount counts those that are   *)
(* not on the span's list, and counter_ those that are, of all spans of a  *)
(* class.  A span is on the list nonempty_ or empty_ of its class as it    *)
(* has free objects or not (FetchFromSpans, ReleaseToSpans, Populate).     *)
ObjectsConserved ==
    \A c \in SmallClasses :
        LET private == {op[t].span : t \in Threads}
            flying == [t \in Threads |-> InFlight(t, c)]
            spans == {s \in SpanIds \ private : heap.span[s].valid /\ heap.span[s].sizeclass = c}
            slots == central[c].slots
            mine == {b.address : b \in {x \in held : x.cl = c}}
            out == UNION ({mine} \cup {ToSet(slots[i]) : i \in DOMAIN slots}
                          \cup {ToSet(flying[t]) : t \in Threads})
        IN  /\ \A i \in DOMAIN slots : Len(slots[i]) = num_objects_to_move[c]
            /\ Cardinality(out) = Len(slots) * num_objects_to_move[c] + Cardinality(mine)
                                    + Total([t \in Threads |-> Len(flying[t])])
            /\ \A s \in spans :
                  LET objects == heap.span[s].objects
                      all == ToSet(ObjectsOf(heap.span[s], c))
                  IN  /\ all \ ToSet(objects) = out \cap all
                      /\ heap.span[s].refcount = Cardinality(out \cap all)
                      /\ Len(objects) = Cardinality(ToSet(objects)) /\ ToSet(objects) \subseteq all
            /\ ToSet(central[c].nonempty) = {s \in spans : heap.span[s].objects # <<>>}
            /\ central[c].empty = {s \in spans : heap.span[s].objects = <<>>}
            /\ central[c].counter = Total([s \in spans |-> Len(heap.span[s].objects)])
            /\ Len(central[c].nonempty) = Cardinality(ToSet(central[c].nonempty))

(* The transfer slots of the central lists are shared out among them: a    *)
(* slot taken from one is given to another, and no list has more than its  *)
(* array holds, although the check of that limit and the increment are     *)
(* separated by an unlock (MakeCacheSpace, ShrinkCache).                   *)
SlotsShared ==
    LET taken == {t \in Threads : op[t].got}
    IN  /\ Total([c \in Classes |-> central[c].cache_size]) + Cardinality(taken) = kNumClasses
        /\ \A c \in Classes : Len(central[c].slots) <= central[c].cache_size

(* The thread a thread in the allocator cannot go on without, if any.      *)
WaitsFor(t) ==
    CASE op[t].pc \in {"remove", "populated", "insert", "reinvert", "statistics"} -> lock[op[t].cl]
      [] op[t].pc = "shrink" -> lock[op[t].victim]
      [] op[t].pc = "release" /\ lock[op[t].relcl] # t -> lock[op[t].relcl]
      [] op[t].pc \in {"populate", "delete", "releasePages"} -> pageheap_lock
      [] OTHER -> NONE

(* No set of threads waits on itself: the locks of the size classes and of *)
(* the page heap are never taken in an order that closes a circle, though  *)
(* fastMallocStatistics nests them and an eviction needs two classes       *)
(* (LockInverter, Populate, ReleaseToSpans).                               *)
NoLockCycle ==
    \A S \in SUBSET Threads \ {{}} : \E t \in S : WaitsFor(t) \notin S
=============================================================================
