---------------------------- MODULE CardBinding ----------------------------
(***************************************************************************)
(* What personalising cards promises, whatever page, reader, tasks and     *)
(* answers implement it: a plate is written on a card, and from then on    *)
(* the card may be bound to the plate that it holds, and to no other, as   *)
(* long as no other card is bound to that plate.  Desk implements it.      *)
(***************************************************************************)
CONSTANTS
  Cards,
  Plates

VARIABLES
  holds,   \* what each card holds: no plate, or the set of just one
  owner    \* what each card is bound to

bvars == <<holds, owner>>

BInit ==
  /\ holds = [c \in Cards |-> {}]
  /\ owner = [c \in Cards |-> {}]

(* Another plate is written on the card.                                   *)
Write(c) ==
  /\ holds'[c] # holds[c]
  /\ \E p \in Plates : holds' = [holds EXCEPT ![c] = {p}]
  /\ UNCHANGED owner

BindCard(c) ==
  /\ owner'[c] # owner[c]
  /\ holds[c] # {}
  /\ \A d \in Cards \ {c} : owner[d] # holds[c]
  /\ owner' = [owner EXCEPT ![c] = holds[c]]
  /\ UNCHANGED holds

BNext == \E c \in Cards : Write(c) \/ BindCard(c)

BSpec == BInit /\ [][BNext]_bvars
=============================================================================
