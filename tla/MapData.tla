------------------------------ MODULE MapData ------------------------------
(***************************************************************************)
(* The hash maps behind Map and Set (runtime/MapData.{h,cpp}): an array of  *)
(* entries in insertion order, three hash tables from keys to indices into  *)
(* it, holes left by removals, packing when the array is replaced (to grow  *)
(* it, or by the collector when it evacuates it) and iterators that hold a  *)
(* bare index while the map changes under them.                             *)
(***************************************************************************)
EXTENDS Integers, Sequences, FiniteSets, Functions

CONSTANTS
    Numbers,        \* keys that are not cells: numbers, booleans, undefined
    Strings,        \* string cells
    Objects,        \* other cells
    Values,
    IntOf,          \* the doubles equal to an int, each with that int
    Content,        \* each string with a representative of its content
    Iterators,
    MinimumMapSize, \* minimumMapSize
    MaxCapacity,    \* bound: allocations of a longer array fail
    MaxIterations   \* bound: iterators ever destroyed

Inputs == Numbers \cup Strings \cup Objects

ASSUME MapDataAssumption ==
    /\ MinimumMapSize \in Nat \ {0} /\ MaxCapacity \in Nat /\ MaxIterations \in Nat
    /\ Numbers \cap Strings = {} /\ Numbers \cap Objects = {} /\ Strings \cap Objects = {}
    /\ DOMAIN IntOf \subseteq Numbers
    /\ \A d \in DOMAIN IntOf : IntOf[d] \in Numbers \ DOMAIN IntOf
    /\ Content \in [Strings -> Strings]
    /\ \A s \in Strings : Content[Content[s]] = Content[s]

VARIABLES
    tables,         \* m_valueKeyedTable, m_stringKeyedTable, m_cellKeyedTable
    entries,        \* m_entries[0 .. m_size - 1]
    capacity,       \* m_capacity
    deletedCount,   \* m_deletedCount
    iteratorCount,  \* m_iteratorCount
    iterators,      \* the live const_iterators
    reply,          \* the answer to the last operation
    seen            \* keys each iterator returned and the map has kept since (history)

mapVars == <<tables, entries, capacity, deletedCount>>
iterVars == <<iteratorCount, iterators, seen>>
vars == <<mapVars, iterVars, reply>>

Kinds == {"value", "string", "cell"}
Hole == [key |-> "none", value |-> "none"]  \* an entry whose key was cleared
Nowhere == [kind |-> "none", index |-> 0]   \* no such iterator

(* KeyType: a double with an int's value becomes that int; NaN and -0 stay. *)
KeyType(v) == IF v \in DOMAIN IntOf THEN IntOf[v] ELSE v

KindOf(k) == IF k \in Strings THEN "string" ELSE IF k \in Objects THEN "cell" ELSE "value"

(* What a table compares: strings by content, all else by identity.        *)
TableKey(k) == IF k \in Strings THEN Content[k] ELSE k
KeyOf(v) == TableKey(KeyType(v))

TableFor(k) == tables[KindOf(k)]
Found(k) == k \in DOMAIN TableFor(k)
IndexOf(k) == TableFor(k)[k]

Size == Len(entries)
Keyed(e) == e # Hole
KeyedAt(i) == i < Size /\ Keyed(entries[i + 1])

----------------------------------------------------------------------------
Init ==
    /\ tables = [kind \in Kinds |-> [k \in {} |-> 0]]
    /\ entries = <<>>
    /\ capacity = 0
    /\ deletedCount = 0
    /\ iteratorCount = 0
    /\ iterators = [it \in Iterators |-> Nowhere]
    /\ reply = <<"new", TRUE>>
    /\ seen = [it \in Iterators |-> {}]

----------------------------------------------------------------------------
(* The backing store.                                                       *)

ShouldPack == deletedCount # 0 /\ iteratorCount = 0

(* Where packing moves entry i: the number of keyed entries before it.  The *)
(* value of a hole is empty, which reads as index 0.                        *)
Forward(i) == IF KeyedAt(i) THEN Cardinality({j \in 0..i - 1 : KeyedAt(j)}) ELSE 0

(* Mutant: the string-keyed table is not fixed up either.                   *)
FixedUpValuesOnly(kind) ==
    IF kind # "value" THEN tables[kind]
    ELSE [k \in DOMAIN tables[kind] |-> Forward(tables[kind][k])]

(* The fixup of the hash tables covers two of the three.                    *)
FixedUp(kind) ==
    IF kind = "cell" THEN tables[kind]
    ELSE [k \in DOMAIN tables[kind] |-> Forward(tables[kind][k])]

ReplaceAndPackBackingStore(newCapacity) ==
    [tables |-> [kind \in Kinds |-> FixedUp(kind)], entries |-> SelectSeq(entries, Keyed),
     capacity |-> newCapacity, deletedCount |-> 0]

ReplaceBackingStore(newCapacity) ==
    [tables |-> tables, entries |-> entries,
     capacity |-> newCapacity, deletedCount |-> deletedCount]

Replaced(newCapacity) ==
    IF ShouldPack THEN ReplaceAndPackBackingStore(newCapacity)
                  ELSE ReplaceBackingStore(newCapacity)

RequiredSize ==
    LET grown == capacity + (capacity \div 2) + 1
    IN  IF grown > MinimumMapSize THEN grown ELSE MinimumMapSize

HasSpace == capacity > Size

(* The store ensureSpaceForAppend leaves when it succeeds.                  *)
SpaceEnsured == IF HasSpace THEN ReplaceBackingStore(capacity) ELSE Replaced(RequiredSize)

Become(store) ==
    /\ tables' = store.tables
    /\ entries' = store.entries
    /\ capacity' = store.capacity
    /\ deletedCount' = store.deletedCount

(* Collection: copyBackingStore, when the array's block is evacuated.  It   *)
(* is not asked to when there is no array (visitChildren returns early).    *)
CopyBackingStore ==
    /\ capacity > 0
    /\ Become(Replaced(capacity))
    /\ UNCHANGED <<iterVars, reply>>

----------------------------------------------------------------------------
(* The operations of Map.prototype and Set.prototype on key KeyType(v).     *)

(* set on a key a table knows: the entry its index names gets the value.    *)
(* An index past the entries writes outside them.                           *)
Overwrite(k, value) ==
    /\ Found(k)
    /\ entries' = IF IndexOf(k) < Size THEN [entries EXCEPT ![IndexOf(k) + 1].value = value]
                                       ELSE entries
    /\ UNCHANGED <<tables, capacity, deletedCount>>

AppendEntry(key, value) ==
    LET k == TableKey(key)
        store == SpaceEnsured
    IN  /\ ~Found(k)
        /\ HasSpace \/ RequiredSize <= MaxCapacity
        /\ Become([store EXCEPT
              !.tables[KindOf(k)] = [x \in DOMAIN @ \cup {k} |->
                                        IF x = k THEN Len(store.entries) ELSE @[x]],
              !.entries = Append(@, [key |-> key, value |-> value])])

Set(v, value) ==
    /\ reply' = <<"set", TRUE>>
    /\ Overwrite(KeyOf(v), value) \/ AppendEntry(KeyType(v), value)
    /\ UNCHANGED iterVars

(* set when tryAllocateStorage fails: an exception, and nothing changes.    *)
SetOutOfMemory(v) ==
    /\ ~Found(KeyOf(v)) /\ ~HasSpace
    /\ reply' = <<"set", FALSE>>
    /\ UNCHANGED <<mapVars, iterVars>>

Forget(K) == seen' = [it \in Iterators |-> seen[it] \ K]

Remove(v) ==
    LET k == KeyOf(v)
    IN  /\ reply' = <<"remove", Found(k)>>
        /\ UNCHANGED <<capacity, iteratorCount, iterators>>
        /\ \/ /\ ~Found(k)
              /\ UNCHANGED <<tables, entries, deletedCount, seen>>
           \/ /\ Found(k)
              /\ tables' = [tables EXCEPT ![KindOf(k)] = Restrict(@, DOMAIN @ \ {k})]
              /\ entries' = IF IndexOf(k) < Size THEN [entries EXCEPT ![IndexOf(k) + 1] = Hole]
                                                 ELSE entries
              /\ deletedCount' = deletedCount + 1
              /\ Forget({k})

(* Mutant: the string-keyed table keeps its keys too.                       *)
ClearedTablesButStrings == [tables EXCEPT !["value"] = [k \in {} |-> 0]]

(* clear: the cell-keyed table keeps its keys.                              *)
ClearedTables == [tables EXCEPT !["value"] = [k \in {} |-> 0], !["string"] = [k \in {} |-> 0]]

Clear ==
    /\ Become([tables |-> ClearedTables, entries |-> <<>>, capacity |-> 0, deletedCount |-> 0])
    /\ reply' = <<"clear", TRUE>>
    /\ Forget(Inputs)
    /\ UNCHANGED <<iteratorCount, iterators>>

(* The values get may return through index i: what the entry holds, if not  *)
(* a hole; anything, past the entries.                                      *)
Readable(i) ==
    IF KeyedAt(i) THEN {{entries[i + 1].value}}
    ELSE IF i < Size THEN {{}}
    ELSE {{}} \cup {{value} : value \in Values}

Get(v) ==
    LET k == KeyOf(v)
    IN  /\ \E found \in IF Found(k) THEN Readable(IndexOf(k)) ELSE {{}} : reply' = <<"get", found>>
        /\ UNCHANGED <<mapVars, iterVars>>

Contains(v) == reply' = <<"has", Found(KeyOf(v))>> /\ UNCHANGED <<mapVars, iterVars>>

GetSize == reply' = <<"size", Size - deletedCount>> /\ UNCHANGED <<mapVars, iterVars>>

----------------------------------------------------------------------------
(* Iterators.  Their constructor leaves m_iteratorCount alone, their        *)
(* destructor decrements it.                                                *)

(* Mutant: the increment does not leave the entry it is at.                 *)
NextKeyedFromHere(from) ==
    LET here == IF from = 0 THEN 0 ELSE from - 1
    IN  IF \E i \in here..Size - 1 : KeyedAt(i)
        THEN CHOOSE i \in here..Size - 1 : KeyedAt(i) /\ \A j \in here..i - 1 : ~KeyedAt(j)
        ELSE IF from > Size THEN from ELSE Size

(* The index internalIncrement stops at when it starts with index from.     *)
NextKeyed(from) ==
    IF \E i \in from..Size - 1 : KeyedAt(i)
    THEN CHOOSE i \in from..Size - 1 : KeyedAt(i) /\ \A j \in from..i - 1 : ~KeyedAt(j)
    ELSE IF from > Size THEN from ELSE Size

KeyAt(i) == TableKey(entries[i + 1].key)

At(it, kind, index) == iterators' = [iterators EXCEPT ![it] = [kind |-> kind, index |-> index]]

Gone(it, destroyed) ==
    /\ iterators' = [iterators EXCEPT ![it] = Nowhere]
    /\ iteratorCount' = iteratorCount - destroyed
    /\ seen' = [seen EXCEPT ![it] = {}]

Visit(it, i) == seen' = [seen EXCEPT ![it] = @ \cup {KeyAt(i)}] /\ UNCHANGED iteratorCount

(* values, keys, entries: JSMapIterator's constructor.                      *)
CreateIterator(it) ==
    /\ iterators[it] = Nowhere
    /\ iteratorCount > -MaxIterations
    /\ At(it, "object", NextKeyed(0))
    /\ UNCHANGED <<mapVars, iteratorCount, seen, reply>>

(* The entry ensureSlot settles on.                                         *)
Slot(it) ==
    LET i == iterators[it].index
    IN  IF KeyedAt(i) THEN i ELSE NextKeyed(i + 1)

(* JSMapIterator::next: ensureSlot, the entry's key and value, ++.          *)
IteratorNext(it) ==
    /\ iterators[it].kind = "object"
    /\ iterators[it].index <= MaxCapacity
    /\ \/ /\ Slot(it) < Size
          /\ Visit(it, Slot(it))
          /\ At(it, "object", NextKeyed(Slot(it) + 1))
       \/ /\ Slot(it) >= Size
          /\ At(it, "object", Slot(it))
          /\ UNCHANGED <<seen, iteratorCount>>
    /\ UNCHANGED <<mapVars, reply>>

(* A JSMapIterator is swept.                                                *)
DestroyIterator(it) ==
    /\ iterators[it].kind = "object"
    /\ Gone(it, 1)
    /\ UNCHANGED <<mapVars, reply>>

(* forEach: the loop calls back for entry i, or ends and destroys both its  *)
(* iterators.                                                               *)
ForEachAt(it, i) ==
    \/ /\ i < Size
       /\ At(it, "forEach", i)
       /\ Visit(it, i)
    \/ /\ i >= Size
       /\ Gone(it, 2)

ForEach(it) ==
    /\ iterators[it] = Nowhere
    /\ iteratorCount > -MaxIterations
    /\ ForEachAt(it, NextKeyed(0))
    /\ UNCHANGED <<mapVars, reply>>

(* The callback returns, or throws.                                         *)
ForEachNext(it) ==
    /\ iterators[it].kind = "forEach"
    /\ ForEachAt(it, NextKeyed(iterators[it].index + 1)) \/ Gone(it, 2)
    /\ UNCHANGED <<mapVars, reply>>

----------------------------------------------------------------------------
Next ==
    \/ \E v \in Inputs :
          \/ \E value \in Values : Set(v, value)
          \/ SetOutOfMemory(v) \/ Remove(v) \/ Get(v) \/ Contains(v)
    \/ Clear
    \/ GetSize
    \/ CopyBackingStore
    \/ \E it \in Iterators :
          \/ CreateIterator(it) \/ IteratorNext(it) \/ DestroyIterator(it)
          \/ ForEach(it) \/ ForEachNext(it)

Spec == Init /\ [][Next]_vars

----------------------------------------------------------------------------
TypeOK ==
    /\ \A kind \in Kinds :
          /\ DOMAIN tables[kind] \subseteq {k \in Inputs : KindOf(k) = kind}
          /\ \A k \in DOMAIN tables[kind] : tables[kind][k] \in Nat
    /\ \A i \in DOMAIN entries : entries[i] = Hole \/ entries[i] \in [key : Inputs, value : Values]
    /\ Size <= capacity
    /\ iterators \in [Iterators -> [kind : {"none", "object", "forEach"}, index : Nat]]

(* A table's index is that of the entry with that key, every keyed entry is *)
(* in its table, and m_deletedCount counts the holes: what lookups, packing *)
(* and size() rely on (MapData::find, replaceAndPackBackingStore).          *)
Right(k) == KeyedAt(IndexOf(k)) /\ KeyAt(IndexOf(k)) = k
TablesExact ==
    /\ TypeOK
    /\ \A k \in UNION {DOMAIN tables[kind] : kind \in Kinds} : Right(k)
    /\ \A i \in 0..Size - 1 : KeyedAt(i) => Found(KeyAt(i)) /\ IndexOf(KeyAt(i)) = i
    /\ deletedCount = Cardinality({i \in 0..Size - 1 : ~KeyedAt(i)})

(* An iterator of a map that is changed, packed or cleared under it returns *)
(* no entry a second time (const_iterator::ensureSlot and operator++).      *)
NeverTwice ==
    \A it \in Iterators : \A i \in 0..Size - 1 :
       KeyedAt(i) /\ KeyAt(i) \in seen[it] =>
          \/ iterators[it].kind = "object" /\ i < iterators[it].index
          \/ iterators[it].kind = "forEach" /\ i <= iterators[it].index

(* The map refines the insertion-ordered map: the answers of set, delete,   *)
(* get, has and size, and the order of the entries, are those of a sequence *)
(* of distinct keys, whatever packing and collection do to the entries      *)
(* (MapData::set, remove, get, contains, size, clear).                      *)
Ordered == INSTANCE OrderedMap
           WITH Keys <- {KeyOf(v) : v \in Inputs},
                contents <- [i \in DOMAIN SelectSeq(entries, Keyed) |->
                               [SelectSeq(entries, Keyed)[i] EXCEPT !.key = TableKey(@)]]
ImplementsOrderedMap == Ordered!OMSpec
============================================================================
