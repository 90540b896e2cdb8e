--------------------------- MODULE IndexAllocator ---------------------------
(***************************************************************************)
(* What the pools of encryptor indexes promise, whatever memory, rows and  *)
(* waits implement it: an index goes only to a user who asks while nobody  *)
(* has it, comes back from the user who has it, and is lost for good only  *)
(* when users are stopped with it, many at once by a stop, or one by a     *)
(* failure.  EncryptorIndex implements it.                                 *)
(***************************************************************************)
EXTENDS Naturals

CONSTANTS
  Users,      \* those that use indexes
  Items,      \* the indexes
  MaxFaults   \* bound: stops and failures

VARIABLES
  users,   \* the users of each index
  lost,    \* indexes that nobody has and nobody will get
  faults   \* stops and failures so far

avars == <<users, lost, faults>>

AInit ==
  /\ users = [x \in Items |-> {}]
  /\ lost = {}
  /\ faults = 0

Take(u, x) ==
  /\ users[x] = {} /\ x \notin lost
  /\ users' = [users EXCEPT ![x] = {u}]
  /\ UNCHANGED <<lost, faults>>

GiveBack(u, x) ==
  /\ users[x] = {u}
  /\ users' = [users EXCEPT ![x] = {}]
  /\ UNCHANGED <<lost, faults>>

(* Users leave with what they have.                                        *)
Leave(us) ==
  /\ users' = [x \in Items |-> users[x] \ us]
  /\ lost' = lost \cup {x \in Items : users[x] # {} /\ users[x] \subseteq us}

Fault == faults < MaxFaults /\ faults' = faults + 1

(* Users are stopped, all at once.                                         *)
Stop(us) == Fault /\ Leave(us)

(* Something one user does fails, and it has to leave or not.              *)
Fail(u) == Fault /\ (Leave({u}) \/ UNCHANGED <<users, lost>>)

ANext ==
  \/ \E u \in Users : \E x \in Items : Take(u, x) \/ GiveBack(u, x)
  \/ \E us \in SUBSET Users : Stop(us)
  \/ \E u \in Users : Fail(u)

ASpec == AInit /\ [][ANext]_avars
=============================================================================
