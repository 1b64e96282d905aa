------------------------- MODULE MCParallelMarking -------------------------
(***************************************************************************)
(* Small heaps for ParallelMarking: cells that are reached along several   *)
(* paths, so that markers race for them; an opaque root behind a path; and *)
(* WeakMap entries whose value is the key of another entry, so that more   *)
(* than one weak round is needed.                                          *)
(***************************************************************************)
EXTENDS ParallelMarking

CONSTANTS a, b, c, d, e, f, r, s

Refs(pairs) == [x \in Cells |-> {p[2] : p \in {q \in pairs : q[1] = x}}]
Opaque(cells) == [x \in Cells |-> IF x \in cells THEN {r} ELSE {}]

(* a and b are roots and share the child c, which leads to d; e is free.   *)
Diamond ==
    [roots |-> <<{a}, {b}>>, children |-> Refs({<<a, b>>, <<a, c>>, <<b, c>>, <<c, d>>, <<d, a>>}),
     opaque |-> Opaque({}), weak |-> {}, entries |-> {}]

(* d keeps the opaque root; the weak handle to e depends on it.            *)
WeakChain ==
    [roots |-> <<{a, b}>>, children |-> Refs({<<a, c>>, <<b, c>>, <<b, d>>}),
     opaque |-> Opaque({c, d}), weak |-> {[cell |-> e, root |-> r]}, entries |-> {}]

(* A WeakMap a: b keeps c alive, c keeps d alive, e is never reached.      *)
Ephemerons ==
    [roots |-> <<{a, b}>>, children |-> Refs({}), opaque |-> Opaque({d}),
     weak |-> {[cell |-> e, root |-> r]},
     entries |-> {[map |-> a, key |-> b, value |-> c], [map |-> a, key |-> c, value |-> d],
                  [map |-> c, key |-> d, value |-> b], [map |-> a, key |-> e, value |-> a]}]

(* Nothing holds the opaque root or the key.                               *)
DeadWeaks ==
    [roots |-> <<{}, {a}>>, children |-> Refs({<<a, b>>, <<c, d>>}), opaque |-> Opaque({c}),
     weak |-> {[cell |-> d, root |-> r]}, entries |-> {[map |-> a, key |-> d, value |-> e]}]

(* A wide heap: there is work to donate, and a merge with other roots.     *)
Wide ==
    [roots |-> <<{a}>>, children |-> Refs({<<a, b>>, <<a, c>>, <<a, d>>, <<b, d>>}),
     opaque |-> [x \in Cells |-> IF x = b THEN {r} ELSE IF x = c THEN {s} ELSE {}],
     weak |-> {[cell |-> e, root |-> s]}, entries |-> {[map |-> d, key |-> e, value |-> f]}]

MCHeaps == {Diamond, WeakChain, Ephemerons, DeadWeaks, Wide}
=============================================================================
