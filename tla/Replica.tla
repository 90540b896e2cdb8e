------------------------------ MODULE Replica ------------------------------
(***************************************************************************)
(* What the data exchange promises, whatever carries it: a site publishes  *)
(* versions of its rows; each version may be merged into the other site's  *)
(* copy in any order and more than once, and it leaves the exchange only   *)
(* after it was merged.  Anything else costs a failure: a save that leaves *)
(* the row or the version and not both, a version that is given up or one  *)
(* that is lost.  What is lost never comes back.  DataExchange implements  *)
(* it when files are exchanged through folders; CustomizeRequest builds on *)
(* it.                                                                     *)
(***************************************************************************)
EXTENDS Naturals

CONSTANTS
  Rows,       \* keys of the replicated rows
  Fields,     \* nullable columns of a row
  MaxSaves,   \* bound: number of versions the source publishes
  MaxFaults   \* bound: failures

VARIABLES
  src,        \* the source's rows: each column holds the number of the save
              \* that gave it its value, 0 for null
  last,       \* number of the last save
  pending,    \* versions the exchange still holds
  handled,    \* versions merged at least once, or given up
  lost,       \* versions the exchange lost
  replica,    \* the copy of the rows at the other site
  faults      \* failures so far

rvars == <<src, last, pending, handled, lost, replica, faults>>

NullRow == [f \in Fields |-> 0]

(* One saved version of a row: "sets" are the columns that are not null.   *)
Version == [row : Rows, no : 1 .. MaxSaves, sets : SUBSET Fields]

(* The row as version v holds it.                                          *)
RowOf(v) == [f \in Fields |-> IF f \in v.sets THEN v.no ELSE 0]

(* A null column is absent from the version: merging leaves the old value. *)
Merge(row, v) == [f \in Fields |-> IF f \in v.sets THEN v.no ELSE row[f]]

RInit ==
  /\ src = [r \in Rows |-> NullRow]
  /\ last = 0
  /\ pending = {}
  /\ handled = {}
  /\ lost = {}
  /\ replica = [r \in Rows |-> NullRow]
  /\ faults = 0

Failure == faults < MaxFaults /\ faults' = faults + 1

(* The next version, whose number nobody had.                              *)
Fresh(v) ==
  /\ last < MaxSaves
  /\ v.no = last + 1
  /\ last' = v.no
  /\ UNCHANGED <<handled, lost, replica>>

SaveRow(v) == src' = [src EXCEPT ![v.row] = RowOf(v)]

Publish(v) ==
  /\ Fresh(v)
  /\ SaveRow(v)
  /\ pending' = pending \cup {v}
  /\ UNCHANGED faults

(* The row is saved and its version is not published, or the other way     *)
(* round.                                                                  *)
PublishFails(v) ==
  /\ Fresh(v)
  /\ Failure
  /\ \/ SaveRow(v) /\ UNCHANGED pending
     \/ pending' = pending \cup {v} /\ UNCHANGED src

(* A version is merged, and remembering that may fail.                     *)
MergeVersion(v) ==
  /\ v \in pending
  /\ replica' = [replica EXCEPT ![v.row] = Merge(@, v)]
  /\ handled' = handled \cup {v}
  /\ Failure \/ UNCHANGED faults
  /\ UNCHANGED <<src, last, pending, lost>>

GiveUpVersion(v) ==
  /\ v \in pending
  /\ Failure
  /\ handled' = handled \cup {v}
  /\ UNCHANGED <<src, last, pending, lost, replica>>

Retire(v) ==
  /\ v \in pending \cap handled
  /\ pending' = pending \ {v}
  /\ UNCHANGED <<src, last, handled, lost, replica, faults>>

(* Versions are lost, none of them if the failure is harmless.             *)
Lose(versions) ==
  /\ versions \subseteq pending
  /\ Failure
  /\ pending' = pending \ versions
  /\ lost' = lost \cup versions
  /\ UNCHANGED <<src, last, handled, replica>>

RNext ==
  \/ \E v \in Version :
       Publish(v) \/ PublishFails(v) \/ MergeVersion(v) \/ GiveUpVersion(v) \/ Retire(v)
  \/ \E versions \in SUBSET pending : Lose(versions)

RSpec == RInit /\ [][RNext]_rvars
=============================================================================
