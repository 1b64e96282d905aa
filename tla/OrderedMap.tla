---------------------------- MODULE OrderedMap ----------------------------
(***************************************************************************)
(* What Map.prototype and Set.prototype promise of a map: a sequence of    *)
(* distinct keys with their values in the order of insertion.  An operation *)
(* answers from that sequence alone; only an insertion may fail, and then   *)
(* it leaves the map as it was.                                             *)
(***************************************************************************)
EXTENDS Naturals, Sequences, SequencesExt

CONSTANTS Keys, Values

VARIABLES contents,  \* the sequence of [key, value] records
          reply      \* the answer to the last operation: <<operation, answer>>

omVars == <<contents, reply>>

Positions(k) == {i \in DOMAIN contents : contents[i].key = k}
Present(k) == Positions(k) # {}

OMInit == contents = <<>> /\ reply = <<"new", TRUE>>

(* set(k, v): a key that is present keeps its place.                       *)
OMSet(k, v) ==
    /\ reply' = <<"set", TRUE>>
    /\ contents' = IF Present(k)
                   THEN [i \in DOMAIN contents |->
                           IF contents[i].key = k THEN [key |-> k, value |-> v]
                                                  ELSE contents[i]]
                   ELSE Append(contents, [key |-> k, value |-> v])

OMSetFails(k) ==
    /\ ~Present(k)
    /\ reply' = <<"set", FALSE>>
    /\ UNCHANGED contents

OMRemove(k) ==
    /\ reply' = <<"remove", Present(k)>>
    /\ contents' = IF Present(k) THEN RemoveAt(contents, CHOOSE i \in Positions(k) : TRUE)
                                 ELSE contents

OMClear == contents' = <<>> /\ reply' = <<"clear", TRUE>>

OMHas(k) == reply' = <<"has", Present(k)>> /\ UNCHANGED contents

OMGet(k) ==
    /\ reply' = <<"get", {contents[i].value : i \in Positions(k)}>>
    /\ UNCHANGED contents

OMSize == reply' = <<"size", Len(contents)>> /\ UNCHANGED contents

OMNext ==
    \/ \E k \in Keys :
          \/ \E v \in Values : OMSet(k, v)
          \/ OMSetFails(k) \/ OMRemove(k) \/ OMHas(k) \/ OMGet(k)
    \/ OMClear
    \/ OMSize

OMSpec == OMInit /\ [][OMNext]_omVars
=============================================================================
