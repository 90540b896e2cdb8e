------------------------- MODULE MCCustomizeRequest -------------------------
(***************************************************************************)
(* Model values, bindings and symmetry for CustomizeRequest.               *)
(***************************************************************************)
EXTENDS CustomizeRequest, TLC

CONSTANTS t1, t2, t3, v1, v2, p1, p2

NoBindings == {}
FirstBound == {<<t1, v1>>}

(* Without bindings, cards, vehicles and callers are interchangeable.      *)
CardSymmetry == Permutations(Tids) \cup Permutations(Vehicles) \cup Permutations(Callers)
=============================================================================
