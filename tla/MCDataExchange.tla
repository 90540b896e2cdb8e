--------------------------- MODULE MCDataExchange ---------------------------
(***************************************************************************)
(* Model values and symmetry for DataExchange.                             *)
(***************************************************************************)
EXTENDS DataExchange, TLC

CONSTANTS r1, r2, c1, c2

MCRows == {r1, r2}
OneRow == {r1}
MCFields == {c1, c2}
OneField == {c1}

(* Rows and columns are interchangeable in the safety runs.                *)
Symmetry == Permutations(MCRows) \cup Permutations(MCFields)
OneRowSymmetry == Permutations(MCFields)
=============================================================================
