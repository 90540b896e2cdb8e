---------------------------- MODULE MCCardStock ----------------------------
(***************************************************************************)
(* Notes of two applicants, boxes of two tasks, and symmetry.              *)
(***************************************************************************)
EXTENDS CardStock, TLC

CONSTANTS n1, n2, d1, d2, b1, b2, r1, r2

MCApplicant == (n1 :> d1) @@ (n2 :> d2)
MCTaskOf == (b1 :> r1) @@ (b2 :> r2)
CardSymmetry == Permutations(Cards)

=============================================================================
