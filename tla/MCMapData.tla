----------------------------- MODULE MCMapData -----------------------------
(* An int and the double equal to it, two strings with one content, objects. *)
EXTENDS MapData

CONSTANTS int1, double1, string1, string1too, object1, object2, v1, v2, it1

(* 1.0 is the int 1.                                                        *)
MCIntOf == [d \in {double1} |-> int1]
MCContent == [s \in Strings |-> IF s = string1too THEN string1 ELSE s]
============================================================================
