------------------------- MODULE DataExchangeProofs -------------------------
(***************************************************************************)
(* What DataExchange keeps for any number of rows, columns, saves and      *)
(* failures.  Lemma by lemma: an inductive invariant, each step of the     *)
(* source, the ferry and the reader, and the properties that follow.       *)
(***************************************************************************)
EXTENDS DataExchange, TLAPS

(* A file's fields.                                                        *)
LEMMA FileFields ==
  ASSUME NEW f \in File
  PROVE  /\ f.row \in Rows
         /\ f.no \in 1 .. MaxSaves
         /\ f.sets \in SUBSET Fields
  BY DEF File

(* The row a file holds, and what a merge leaves, is a row.                *)
LEMMA RowTypes ==
  ASSUME NEW f \in File,
         NEW row \in [Fields -> 0 .. MaxSaves]
  PROVE  /\ RowOf(f) \in [Fields -> 0 .. MaxSaves]
         /\ Merge(row, f) \in [Fields -> 0 .. MaxSaves]
  BY FileFields, ExchangeAssumption DEF RowOf, Merge

(* A save that the bound allows makes a file with a new number.            *)
LEMMA NewFileType ==
  ASSUME TypeOK, last < MaxSaves, NEW r \in Rows, NEW sets \in SUBSET Fields
  PROVE  /\ NewFile(r, sets) \in File
         /\ NewFile(r, sets).row = r
         /\ NewFile(r, sets).no = last + 1
         /\ NewFile(r, sets).sets = sets
  BY ExchangeAssumption DEF TypeOK, NewFile, File

(* A failure the bound allows keeps the count in its range.                *)
LEMMA FaultType == TypeOK /\ Fault => faults' \in 0 .. MaxFaults
<1> SUFFICES ASSUME faults \in 0 .. MaxFaults, faults < MaxFaults
             PROVE  faults + 1 \in 0 .. MaxFaults
  BY DEF TypeOK, Fault
<1> QED
  BY ExchangeAssumption

-----------------------------------------------------------------------------
(* Type correctness.                                                       *)

(* The folders and lists start empty and the rows null: all have their     *)
(* type.                                                                   *)
LEMMA TypeInit == Init => TypeOK
  BY ExchangeAssumption DEF Init, TypeOK, NullRow

(* A read of the folder, of which it could not read "bad" and deleted      *)
(* "gone".                                                                 *)
Fetched(bad, gone) ==
  /\ gone \subseteq bad
  /\ gone \subseteq sent
  /\ batch' = inbox \ bad
  /\ inbox' \subseteq inbox
  /\ Mode # "FTP" => inbox' = inbox \ gone
  /\ partial' = partial \ gone
  /\ unread' = unread \cup gone
  /\ post' = {}
  /\ phase' \in {"idle", "deal"}
  /\ UNCHANGED <<src, last, out, fails, replica, sent, applied, overlapped, parted>>

(* Both reads, the one that fails and the one that does not, are like      *)
(* that.                                                                   *)
LEMMA FetchSets ==
  ASSUME TypeOK
  PROVE  /\ FetchData => Fetched(partial, partial)
         /\ FetchDataFails => \E bad, gone \in SUBSET inbox : Fetched(bad, gone)
<1>1. ASSUME NEW bad, NEW gone \in SUBSET bad, (bad \ gone) \subseteq inbox,
             gone \subseteq sent, Fetch(bad, gone)
      PROVE  Fetched(bad, gone)
  <2>1. Mode = "FTP" => inbox' \subseteq inbox
    <3>1. SUFFICES ASSUME Mode = "FTP", NEW kept \in SUBSET batch',
                          inbox' = kept \cup (bad \ gone)
                   PROVE  inbox' \subseteq inbox
      BY <1>1 DEF Fetch
    <3> QED
      BY <1>1, <3>1 DEF Fetch
  <2> QED
    BY <1>1, <2>1 DEF Fetch, Fetched
<1>2. FetchData => Fetched(partial, partial)
  BY <1>1 DEF FetchData, TypeOK
<1>3. ASSUME FetchDataFails PROVE \E bad, gone \in SUBSET inbox : Fetched(bad, gone)
  <2>1. PICK bad \in SUBSET inbox : \E gone \in SUBSET bad : Fetch(bad, gone)
    BY <1>3 DEF FetchDataFails
  <2>2. PICK gone \in SUBSET bad : Fetch(bad, gone)
    BY <2>1
  <2>3. gone \subseteq sent
    BY DEF TypeOK
  <2> QED
    BY <1>1, <2>2, <2>3
<1> QED
  BY <1>2, <1>3

(* Every action of the exchange, failures included, keeps the types.       *)
LEMMA TypeNext == TypeOK /\ [Next]_vars => TypeOK'
<1> SUFFICES ASSUME TypeOK, [Next]_vars PROVE TypeOK'
  OBVIOUS
<1>1. ASSUME NEW r \in Rows, NEW sets \in (SUBSET Fields) \ {{}}, NewName(NewFile(r, sets)),
             SaveRow(NewFile(r, sets)) \/ UNCHANGED src,
             parted' \subseteq parted \cup {r},
             out' \subseteq sent', sent' \subseteq sent \cup {NewFile(r, sets)},
             sent \subseteq sent', faults' \in 0 .. MaxFaults
      PROVE  TypeOK'
  <2> DEFINE f == NewFile(r, sets)
  <2>1. f \in File /\ f.row = r /\ f.no = last + 1
    BY <1>1, NewFileType DEF NewName
  <2>2. RowOf(f) \in [Fields -> 0 .. MaxSaves]
    BY <2>1, RowTypes DEF TypeOK
  <2>3. src' \in [Rows -> [Fields -> 0 .. MaxSaves]]
    BY <1>1, <2>1, <2>2 DEF SaveRow, TypeOK
  <2>4. overlapped' \subseteq Rows
    BY <1>1, <2>1 DEF NewName, TypeOK
  <2>5. last' \in 0 .. MaxSaves
    BY <1>1, <2>1, ExchangeAssumption DEF NewName, TypeOK
  <2>6. sent' \subseteq File /\ parted' \subseteq Rows
    BY <1>1, <2>1 DEF TypeOK
  <2> QED
    BY <1>1, <2>1, <2>3, <2>4, <2>5, <2>6 DEF NewName, TypeOK
<1>2. CASE Source
  <2>1. PICK r \in Rows, sets \in (SUBSET Fields) \ {{}} :
          SaveData(r, sets) \/ SaveDataFails(r, sets) \/ SaveRolledBack(r, sets)
    BY <1>2 DEF Source
  <2>2. CASE SaveData(r, sets)
    BY <2>2, <1>1 DEF SaveData, WriteFile, TypeOK
  <2>3. CASE SaveDataFails(r, sets)
    BY <2>3, <1>1, FaultType DEF SaveDataFails, TypeOK
  <2>4. CASE SaveRolledBack(r, sets)
    BY <2>4, <1>1, FaultType DEF SaveRolledBack, WriteFile, TypeOK
  <2> QED
    BY <2>1, <2>2, <2>3, <2>4
<1>3. CASE Ferry
  BY <1>3 DEF Ferry, Carry, BeginCarry, EndCarry, history, TypeOK
<1>4. CASE FetchData \/ FetchDataFails
  <2>1. PICK bad, gone : Fetched(bad, gone)
    BY <1>4, FetchSets
  <2>2. faults' \in 0 .. MaxFaults
    BY <1>4, FaultType DEF FetchData, FetchDataFails, TypeOK
  <2> QED
    BY <2>1, <2>2 DEF Fetched, TypeOK
<1>5. ASSUME NEW f \in File, f \in batch,
             replica' = [replica EXCEPT ![f.row] = Merge(@, f)]
      PROVE  replica' \in [Rows -> [Fields -> 0 .. MaxSaves]]
  BY <1>5, FileFields, RowTypes DEF TypeOK
<1>6. ASSUME NEW f \in File, fails' = [fails EXCEPT ![f.no] = @ + 1]
      PROVE  fails' \in [1 .. MaxSaves -> Nat]
  BY <1>6, FileFields DEF TypeOK
<1>7. ASSUME NEW f \in File, DealData(f) PROVE TypeOK'
  BY <1>5, <1>7 DEF DealData, NextInBatch, TypeOK
<1>8. ASSUME NEW f \in File, UpdateFlag(f) PROVE TypeOK'
  BY <1>8 DEF UpdateFlag, history, TypeOK
<1>9. CASE TriggerTasks
  BY <1>9 DEF TriggerTasks, history, TypeOK
<1>10. ASSUME NEW f \in File, DealDataFails(f) PROVE TypeOK'
  <2>1. fails' \in [1 .. MaxSaves -> Nat]
    BY <1>6, <1>10 DEF DealDataFails
  <2>2. post' \subseteq sent /\ batch' \subseteq sent
    BY <1>10 DEF DealDataFails, NextInBatch, TypeOK
  <2>3. faults' \in 0 .. MaxFaults
    BY <1>10, FaultType DEF DealDataFails
  <2> QED
    BY <1>10, <2>1, <2>2, <2>3 DEF DealDataFails, history, TypeOK
<1>11. ASSUME NEW f \in File, DealDataLogFails(f) PROVE TypeOK'
  BY <1>5, <1>6, <1>11, FaultType DEF DealDataLogFails, NextInBatch, TypeOK
<1>12. ASSUME NEW f \in File, UpdateFlagFails(f) PROVE TypeOK'
  BY <1>12, FaultType DEF UpdateFlagFails, history, TypeOK
<1>13. CASE Crash
  BY <1>13, FaultType DEF Crash, history, TypeOK
<1>14. CASE UNCHANGED vars
  BY <1>14 DEF vars, history, TypeOK
<1> QED
  BY <1>2, <1>3, <1>4, <1>7, <1>8, <1>9, <1>10, <1>11, <1>12, <1>13, <1>14
     DEF Next, Run, Trouble

(* Every variable keeps its type, in every mode.                           *)
THEOREM TypeCorrect == Spec => []TypeOK
<1>1. Init => TypeOK
  BY TypeInit
<1>2. TypeOK /\ [Next]_vars => TypeOK'
  BY TypeNext
<1> QED
  BY <1>1, <1>2, PTL DEF Spec

-----------------------------------------------------------------------------
(* No file is lost, when files appear whole and are deleted only at the    *)
(* end of a run.                                                           *)

(* What the reader holds in memory is still in in/ while it is being       *)
(* handled, and what it is about to delete was handled.                    *)
KeptInv ==
  /\ partial = {}
  /\ batch \subseteq inbox
  /\ post \subseteq Handled
  /\ HandledBeforeGone

KeepsFiles == Mode # "FTP" /\ WholeFiles

(* Failures are only added to, so a file given up stays given up.          *)
LEMMA HandledGrows ==
  TypeOK /\ TypeOK' /\ [Next]_vars => Handled \subseteq Handled'
<1> SUFFICES ASSUME TypeOK, TypeOK', [Next]_vars PROVE Handled \subseteq Handled'
  OBVIOUS
<1>1. sent \subseteq sent' /\ applied \subseteq applied'
  BY DEF Next, vars, Source, SaveData, SaveDataFails, SaveRolledBack, NewName, WriteFile, Ferry,
         Carry, BeginCarry,
         EndCarry, Run, FetchData, DealData, UpdateFlag, TriggerTasks, Trouble, DealDataFails,
         DealDataLogFails, UpdateFlagFails, FetchDataFails, Fetch, Crash, history
<1>2. \A n \in 1 .. MaxSaves : fails'[n] >= fails[n]
  <2>1. CASE fails' = fails
    BY <2>1 DEF TypeOK
  <2>2. ASSUME NEW f \in File, fails' = [fails EXCEPT ![f.no] = @ + 1]
        PROVE  \A n \in 1 .. MaxSaves : fails'[n] >= fails[n]
    <3> TAKE n \in 1 .. MaxSaves
    <3>1. fails \in [1 .. MaxSaves -> Nat] /\ fails[n] \in Nat
      BY DEF TypeOK
    <3>2. fails'[n] = IF n = f.no THEN fails[n] + 1 ELSE fails[n]
      BY <2>2, <3>1
    <3> QED
      BY <3>1, <3>2
  <2>3. fails' = fails \/ \E f \in File : fails' = [fails EXCEPT ![f.no] = @ + 1]
    <3>1. CASE Source \/ Ferry \/ UNCHANGED vars
      BY <3>1 DEF Source, SaveData, SaveDataFails, SaveRolledBack, NewName, Ferry, Carry,
                  BeginCarry, EndCarry, vars
    <3>2. CASE Run
      BY <3>2 DEF Run, FetchData, Fetch, DealData, UpdateFlag, TriggerTasks
    <3>3. CASE Trouble
      BY <3>3 DEF Trouble, DealDataFails, DealDataLogFails, UpdateFlagFails, FetchDataFails, Fetch,
                  Crash
    <3> QED
      BY <3>1, <3>2, <3>3 DEF Next
  <2> QED
    BY <2>1, <2>2, <2>3
<1>3. GivenUp \subseteq GivenUp'
  <2> SUFFICES ASSUME NEW f \in sent, fails[f.no] >= GiveUp
               PROVE  fails'[f.no] >= GiveUp
    BY <1>1 DEF GivenUp
  <2>1. f.no \in 1 .. MaxSaves
    BY FileFields DEF TypeOK
  <2>2. fails[f.no] \in Nat /\ fails'[f.no] \in Nat
    BY <2>1 DEF TypeOK
  <2> QED
    BY <1>2, <2>1, <2>2 DEF GiveUp
<1> QED
  BY <1>1, <1>3 DEF Handled

(* Nothing was sent yet, so nothing is lost.                               *)
LEMMA KeptInit == Init => KeptInv
  BY DEF Init, KeptInv, Handled, GivenUp, HandledBeforeGone

(* No action loses a file, as long as a file stays in in/ while it is      *)
(* handled.                                                                *)
LEMMA KeptNext ==
  ASSUME KeepsFiles, TypeOK, TypeOK', KeptInv, [Next]_vars
  PROVE  KeptInv'
<1> USE DEF KeptInv, HandledBeforeGone
<1>1. Handled \subseteq Handled'
  BY HandledGrows
<1>2. CASE Source
  <2>1. UNCHANGED <<inbox, partial, batch, post, unread>>
    BY <1>2 DEF Source, SaveData, SaveDataFails, SaveRolledBack, NewName, SaveRow, WriteFile
  <2>2. \A f \in sent' : f \in sent \/ f \in out'
    BY <1>2 DEF Source, SaveData, SaveDataFails, SaveRolledBack, WriteFile
  <2>3. out \subseteq out'
    BY <1>2 DEF Source, SaveData, SaveDataFails, SaveRolledBack, WriteFile
  <2> QED
    BY <1>1, <2>1, <2>2, <2>3
<1>3. CASE Ferry
  BY <1>1, <1>3 DEF Ferry, Carry, BeginCarry, EndCarry, history, KeepsFiles
<1>4. CASE FetchData \/ FetchDataFails
  <2>1. PICK bad, gone : Fetched(bad, gone)
    BY <1>4, FetchSets
  <2> QED
    BY <1>1, <2>1 DEF Fetched, KeepsFiles
<1>5. ASSUME NEW f \in File, DealData(f) PROVE KeptInv'
  <2>1. f \in Handled'
    BY <1>5 DEF DealData, Handled
  <2> QED
    BY <1>1, <1>5, <2>1 DEF DealData, NextInBatch
<1>6. ASSUME NEW f \in File, UpdateFlag(f) PROVE KeptInv'
  BY <1>1, <1>6 DEF UpdateFlag, history
<1>7. CASE TriggerTasks
  BY <1>1, <1>7 DEF TriggerTasks, history
<1>8. ASSUME NEW f \in File, DealDataFails(f) PROVE KeptInv'
  <2>1. fails'[f.no] >= GiveUp => f \in Handled'
    BY <1>8 DEF DealDataFails, NextInBatch, Handled, GivenUp, TypeOK
  <2>2. post' \subseteq Handled'
    BY <1>1, <1>8, <2>1 DEF DealDataFails
  <2> QED
    BY <1>1, <1>8, <2>2 DEF DealDataFails, history
<1>9. ASSUME NEW f \in File, DealDataLogFails(f) PROVE KeptInv'
  BY <1>1, <1>9 DEF DealDataLogFails
<1>10. ASSUME NEW f \in File, UpdateFlagFails(f) PROVE KeptInv'
  BY <1>1, <1>10 DEF UpdateFlagFails, history
<1>11. CASE Crash
  BY <1>1, <1>11 DEF Crash, history
<1>12. CASE UNCHANGED vars
  BY <1>1, <1>12 DEF vars, history
<1> QED
  BY <1>2, <1>3, <1>4, <1>5, <1>6, <1>7, <1>8, <1>9, <1>10, <1>11, <1>12
     DEF Next, Run, Trouble

(* Through folders or the exchange table, and whatever fails or crashes, a *)
(* file is gone only after it was merged or its failures reached the limit *)
(* of dealData, or because getFiles could not read it.                     *)
THEOREM NoFileLost ==
  ASSUME KeepsFiles
  PROVE  Spec => []HandledBeforeGone
<1>1. Init => TypeOK /\ KeptInv
  BY TypeInit, KeptInit
<1>2. TypeOK /\ KeptInv /\ [Next]_vars => TypeOK' /\ KeptInv'
  BY TypeNext, KeptNext
<1>3. KeptInv => HandledBeforeGone
  BY DEF KeptInv
<1> QED
  BY <1>1, <1>2, <1>3, PTL DEF Spec

-----------------------------------------------------------------------------
(* No stale overwrite, in every mode.                                      *)

(* Saves are numbered in order, and a row whose files never overlapped has *)
(* at most one file under way, no older than what the reader holds.        *)
OrderInv ==
  /\ \A f \in sent : f.no <= last
  /\ \A r \in Rows, c \in Fields : replica[r][c] <= last
  /\ \A f, g \in Unfinished : f.row = g.row /\ f.row \notin overlapped => f = g
  /\ \A f \in Unfinished : f.row \notin overlapped =>
       \A c \in Fields : replica[f.row][c] <= f.no

(* The rows start null, older than any file.                               *)
LEMMA OrderInit == Init => OrderInv
  BY ExchangeAssumption DEF Init, OrderInv, NullRow, Unfinished

(* Nothing but a save brings a new file under way.                         *)
LEMMA UnfinishedShrinks ==
  ASSUME TypeOK, Ferry \/ Run \/ Trouble \/ UNCHANGED vars
  PROVE  Unfinished' \subseteq Unfinished /\ UNCHANGED <<last, sent, src, overlapped, parted>>
<1>1. CASE FetchData \/ FetchDataFails
  BY <1>1, FetchSets DEF Fetched, Unfinished
<1>2. CASE Ferry \/ UNCHANGED vars
  BY <1>2 DEF Ferry, Carry, BeginCarry, EndCarry, vars, history, Unfinished
<1>3. CASE Run /\ ~FetchData
  BY <1>3 DEF Run, DealData, UpdateFlag, TriggerTasks, history, Unfinished
<1>4. CASE Trouble /\ ~FetchDataFails
  BY <1>4 DEF Trouble, DealDataFails, DealDataLogFails, UpdateFlagFails, Crash, history, Unfinished
<1> QED
  BY <1>1, <1>2, <1>3, <1>4

(* Only merging a file of the batch changes the reader's rows.             *)
LEMMA ReplicaChanges ==
  ASSUME TypeOK, [Next]_vars
  PROVE  \/ replica' = replica
         \/ \E f \in batch :
              /\ f \in File
              /\ replica' = [replica EXCEPT ![f.row] = Merge(@, f)]
              /\ applied' = applied \cup {f}
              /\ UNCHANGED <<src, last, sent, overlapped>>
<1>1. CASE Source \/ Ferry \/ UNCHANGED vars
  BY <1>1 DEF Source, SaveData, SaveDataFails, SaveRolledBack, NewName, Ferry, Carry, BeginCarry,
              EndCarry, vars
<1>2. CASE Run
  BY <1>2 DEF Run, FetchData, Fetch, DealData, NextInBatch, UpdateFlag, TriggerTasks
<1>3. CASE Trouble
  BY <1>3 DEF Trouble, DealDataFails, DealDataLogFails, NextInBatch, UpdateFlagFails,
              FetchDataFails, Fetch, Crash
<1> QED
  BY <1>1, <1>2, <1>3 DEF Next

(* Column by column, what a merge does to the reader's rows.               *)
LEMMA MergedColumns ==
  ASSUME TypeOK, NEW f \in File, NEW r \in Rows, NEW c \in Fields,
         replica' = [replica EXCEPT ![f.row] = Merge(@, f)]
  PROVE  replica'[r][c] = IF r = f.row /\ c \in f.sets THEN f.no ELSE replica[r][c]
<1>1. f.row \in Rows
  BY FileFields
<1>2. CASE r = f.row
  <2>1. replica'[r] = Merge(replica[r], f)
    BY <1>1, <1>2 DEF TypeOK
  <2> QED
    BY <1>2, <2>1 DEF Merge
<1>3. CASE r # f.row
  BY <1>1, <1>3 DEF TypeOK
<1> QED
  BY <1>2, <1>3

(* While its files do not overlap, no row is ahead of the files under      *)
(* way.                                                                    *)
LEMMA OrderNext ==
  ASSUME TypeOK, TypeOK', OrderInv, [Next]_vars
  PROVE  OrderInv'
<1>1. CASE Source
  <2>1. PICK r \in Rows, sets \in (SUBSET Fields) \ {{}} :
          SaveData(r, sets) \/ SaveDataFails(r, sets) \/ SaveRolledBack(r, sets)
    BY <1>1 DEF Source
  <2> DEFINE n == NewFile(r, sets)
  <2>2. NewName(n) /\ sent' \subseteq sent \cup {n} /\ Unfinished' \subseteq Unfinished \cup {n}
    BY <2>1 DEF SaveData, SaveDataFails, SaveRolledBack, NewName, WriteFile, Unfinished
  <2>3. n \in File /\ n.row = r /\ n.no = last + 1 /\ last' = last + 1 /\ last \in Nat
    BY <2>2, NewFileType DEF NewName, TypeOK
  <2>4. replica' = replica
    BY <2>2 DEF NewName
  <2>5. overlapped \subseteq overlapped' /\ (r \notin overlapped' => \A g \in Unfinished : g.row # r)
    BY <2>2, <2>3 DEF NewName
  <2>6. \A f \in sent : f \in File /\ f.no \in Nat /\ f.row \in Rows
    BY FileFields DEF TypeOK
  <2>7. \A x \in Rows, c \in Fields : replica[x][c] \in Nat
    BY DEF TypeOK
  <2>8. \A f \in sent' : f.no <= last'
    BY <2>2, <2>3, <2>6 DEF OrderInv
  <2>9. \A x \in Rows, c \in Fields : replica'[x][c] <= last'
    BY <2>3, <2>4, <2>7 DEF OrderInv
  <2>10. \A f, g \in Unfinished' : f.row = g.row /\ f.row \notin overlapped' => f = g
    BY <2>2, <2>3, <2>5 DEF OrderInv
  <2>11. ASSUME NEW f \in Unfinished', f.row \notin overlapped', NEW c \in Fields
         PROVE  replica'[f.row][c] <= f.no
    <3>1. CASE f = n
      BY <3>1, <2>3, <2>4, <2>7 DEF OrderInv
    <3>2. CASE f \in Unfinished
      BY <3>2, <2>4, <2>5, <2>11 DEF OrderInv
    <3> QED
      BY <3>1, <3>2, <2>2
  <2> QED
    BY <2>8, <2>9, <2>10, <2>11 DEF OrderInv
<1>2. CASE Ferry \/ Run \/ Trouble \/ UNCHANGED vars
  <2>1. Unfinished' \subseteq Unfinished /\ UNCHANGED <<last, sent, src, overlapped, parted>>
    BY <1>2, UnfinishedShrinks
  <2>2. CASE replica' = replica
    BY <2>1, <2>2 DEF OrderInv
  <2>3. ASSUME NEW f \in batch, f \in File,
               replica' = [replica EXCEPT ![f.row] = Merge(@, f)]
        PROVE  OrderInv'
    <3>1. f \in Unfinished /\ f \in sent /\ f.no <= last
      BY DEF Unfinished, TypeOK, OrderInv
    <3>2. \A r \in Rows, c \in Fields :
            replica'[r][c] = IF r = f.row /\ c \in f.sets THEN f.no ELSE replica[r][c]
      BY <2>3, MergedColumns
    <3>3. \A r \in Rows, c \in Fields : replica'[r][c] <= last'
      BY <2>1, <3>1, <3>2 DEF OrderInv
    <3>4. ASSUME NEW g \in Unfinished', g.row \notin overlapped', NEW c \in Fields
          PROVE  replica'[g.row][c] <= g.no
      <4>1. g \in Unfinished /\ g.row \notin overlapped
        BY <2>1, <3>4
      <4>2. g \in File /\ g.row \in Rows /\ g.no \in Nat
        BY <4>1, FileFields DEF Unfinished, TypeOK
      <4>3. g.row = f.row => g = f
        BY <3>1, <4>1 DEF OrderInv
      <4>4. replica[g.row][c] <= g.no
        BY <4>1 DEF OrderInv
      <4> QED
        BY <3>2, <4>2, <4>3, <4>4
    <3> QED
      BY <2>1, <3>3, <3>4 DEF OrderInv
  <2> QED
    BY <2>2, <2>3, ReplicaChanges
<1> QED
  BY <1>1, <1>2 DEF Next

(* In every mode, and however often files are merged again, a row whose    *)
(* files never overlapped never goes back to an older value.               *)
THEOREM NeverStale == Spec => NoStaleOverwrite
<1>1. Init => TypeOK /\ OrderInv
  BY TypeInit, OrderInit
<1>2. TypeOK /\ OrderInv /\ [Next]_vars => TypeOK' /\ OrderInv'
  BY TypeNext, OrderNext
<1>3. TypeOK /\ OrderInv /\ [Next]_vars =>
        [\A r \in Rows \ overlapped', c \in Fields : replica'[r][c] >= replica[r][c]]_vars
  <2> SUFFICES ASSUME TypeOK, OrderInv, [Next]_vars,
                      NEW r \in Rows \ overlapped', NEW c \in Fields
               PROVE  replica'[r][c] >= replica[r][c]
    OBVIOUS
  <2>1. r \in Rows /\ replica[r][c] \in Nat
    BY DEF TypeOK
  <2>2. CASE replica' = replica
    BY <2>1, <2>2
  <2>3. ASSUME NEW f \in batch, f \in File, overlapped' = overlapped,
               replica' = [replica EXCEPT ![f.row] = Merge(@, f)]
        PROVE  replica'[r][c] >= replica[r][c]
    <3>1. replica'[r][c] = IF r = f.row /\ c \in f.sets THEN f.no ELSE replica[r][c]
      BY <2>1, <2>3, MergedColumns
    <3>2. f.no \in Nat
      BY <2>3, FileFields
    <3>3. r = f.row => replica[r][c] <= f.no
      BY <2>3 DEF OrderInv, Unfinished
    <3> QED
      BY <2>1, <3>1, <3>2, <3>3
  <2> QED
    BY <2>2, <2>3, ReplicaChanges
<1> QED
  BY <1>1, <1>2, <1>3, PTL DEF Spec, NoStaleOverwrite

-----------------------------------------------------------------------------
(* Convergence, when no file is lost.                                      *)

Agrees(r) == \A c \in Fields : src[r][c] # 0 => replica[r][c] = src[r][c]

(* A row whose files never overlapped, and whose last save did not fail    *)
(* half way, was never saved, or its last save is a file f, no other file  *)
(* of the row is newer or under way, and once f is merged the reader's row *)
(* is the source's.                                                        *)
NewestFile(r, f) ==
  /\ f.row = r /\ src[r] = RowOf(f) /\ Newest(f)
  /\ \A g \in Unfinished : g.row = r => g = f
  /\ f \in applied => Agrees(r)

NewestInv ==
  \A r \in Rows \ (overlapped \cup parted) :
    src[r] = NullRow \/ \E f \in sent : NewestFile(r, f)

(* A row that was never saved is null at the source.                       *)
LEMMA NewestInit == Init => NewestInv
  BY DEF Init, NewestInv

(* The newest file of a row stays known until a newer one is sent.         *)
LEMMA NewestNext ==
  ASSUME TypeOK, TypeOK', OrderInv, NewestInv, [Next]_vars
  PROVE  NewestInv'
<1> SUFFICES ASSUME NEW r \in Rows, r \notin overlapped' \cup parted', src'[r] # NullRow
             PROVE  \E f \in sent' : NewestFile(r, f)'
  BY DEF NewestInv
<1>1. CASE Source
  <2>1. PICK x \in Rows, sets \in (SUBSET Fields) \ {{}} :
          SaveData(x, sets) \/ SaveDataFails(x, sets) \/ SaveRolledBack(x, sets)
    BY <1>1 DEF Source
  <2>0. PICK n : n = NewFile(x, sets)
    OBVIOUS
  <2>2. n \in File /\ n.row = x /\ n.no = last + 1 /\ last \in Nat
    <3>1. last < MaxSaves /\ last \in Nat
      BY <2>1 DEF SaveData, SaveDataFails, SaveRolledBack, NewName, TypeOK
    <3> QED
      BY <2>0, <3>1, NewFileType
  <2>3. /\ Unfinished' \subseteq Unfinished \cup {n}
        /\ sent \subseteq sent' /\ sent' \subseteq sent \cup {n}
        /\ src' = src \/ src' = [src EXCEPT ![x] = RowOf(n)]
        /\ UNCHANGED <<applied, replica>>
        /\ overlapped \subseteq overlapped'
        /\ x \notin overlapped' => \A g \in Unfinished : g.row # x
        /\ parted \subseteq parted' \cup {x}
    BY <2>1, <2>2, <2>0 DEF SaveData, SaveDataFails, SaveRolledBack, NewName, SaveRow, WriteFile,
                            Unfinished
  <2>6. \A g \in sent : g.no \in Nat /\ g.no <= last
    BY FileFields DEF OrderInv, TypeOK
  <2>4. CASE r = x
    <3>0. SaveData(x, sets)
      BY <2>1, <2>4 DEF SaveDataFails, SaveRolledBack
    <3>1. n \notin sent
      BY <2>2, <2>6
    <3>2. n \notin applied'
      BY <2>3, <3>1 DEF TypeOK
    <3>3. src'[r] = RowOf(n) /\ n \in sent'
      BY <2>0, <2>2, <2>4, <3>0 DEF SaveData, SaveRow, WriteFile, TypeOK
    <3>4. Newest(n)'
      BY <2>2, <2>3, <2>6 DEF Newest
    <3>5. NewestFile(r, n)'
      BY <1>1, <2>2, <2>3, <2>4, <3>2, <3>3, <3>4 DEF NewestFile, RowOf
    <3> QED
      BY <3>3, <3>5
  <2>5. CASE r # x
    <3>1. src'[r] = src[r]
      BY <2>2, <2>3, <2>5 DEF TypeOK
    <3>2. PICK f \in sent : NewestFile(r, f)
      BY <2>3, <2>5, <3>1 DEF NewestInv
    <3>3. Newest(f)'
      BY <2>2, <2>3, <2>5, <3>2 DEF NewestFile, Newest
    <3>4. NewestFile(r, f)'
      BY <2>2, <2>3, <2>5, <3>1, <3>2, <3>3 DEF NewestFile, Agrees, RowOf
    <3> QED
      BY <2>3, <3>2, <3>4
  <2> QED
    BY <2>4, <2>5
<1>2. CASE Ferry \/ Run \/ Trouble \/ UNCHANGED vars
  <2>1. Unfinished' \subseteq Unfinished /\ UNCHANGED <<last, sent, src, overlapped, parted>>
    BY <1>2, UnfinishedShrinks
  <2>2. PICK f \in sent : NewestFile(r, f)
    BY <2>1 DEF NewestInv
  <2>3. Newest(f)'
    BY <2>1, <2>2 DEF NewestFile, Newest
  <2>4. CASE replica' = replica /\ applied' = applied
    BY <2>1, <2>2, <2>3, <2>4 DEF NewestFile, Agrees, RowOf
  <2>5. ASSUME NEW g \in batch, g \in File,
               replica' = [replica EXCEPT ![g.row] = Merge(@, g)],
               applied' = applied \cup {g}
        PROVE  NewestFile(r, f)'
    <3>1. \A c \in Fields :
            replica'[r][c] = IF r = g.row /\ c \in g.sets THEN g.no ELSE replica[r][c]
      BY <2>5, MergedColumns
    <3>2. CASE g.row = r
      <4>1. g = f
        BY <2>2, <3>2 DEF NewestFile, Unfinished
      <4>2. \A c \in Fields : src'[r][c] # 0 => c \in f.sets /\ src'[r][c] = f.no
        BY <2>1, <2>2 DEF NewestFile, RowOf
      <4>3. Agrees(r)'
        BY <3>1, <3>2, <4>1, <4>2 DEF Agrees
      <4> QED
        BY <2>1, <2>2, <2>3, <4>3 DEF NewestFile, RowOf
    <3>3. CASE g.row # r
      <4>1. f \in applied' => f \in applied
        BY <2>2, <2>5, <3>3 DEF NewestFile
      <4>2. f \in applied' => Agrees(r)'
        BY <2>1, <2>2, <3>1, <3>3, <4>1 DEF NewestFile, Agrees
      <4> QED
        BY <2>1, <2>2, <2>3, <4>2 DEF NewestFile, RowOf
    <3> QED
      BY <3>2, <3>3
  <2>6. \/ replica' = replica /\ applied' = applied
        \/ \E g \in batch : /\ g \in File
                            /\ replica' = [replica EXCEPT ![g.row] = Merge(@, g)]
                            /\ applied' = applied \cup {g}
    <3>1. CASE Ferry \/ UNCHANGED vars
      BY <3>1 DEF Ferry, Carry, BeginCarry, EndCarry, vars, history
    <3>2. CASE Run
      BY <3>2 DEF Run, FetchData, Fetch, DealData, NextInBatch, UpdateFlag, TriggerTasks, history
    <3>3. CASE Trouble
      BY <3>3 DEF Trouble, DealDataFails, DealDataLogFails, NextInBatch, UpdateFlagFails,
                  FetchDataFails, Fetch, Crash, history
    <3> QED
      BY <1>2, <3>1, <3>2, <3>3
  <2> QED
    BY <2>1, <2>2, <2>4, <2>5, <2>6
<1> QED
  BY <1>1, <1>2 DEF Next

(* A row whose files never overlapped agrees with the source once none of  *)
(* them is under way and the newest was neither given up nor lost.         *)
LEMMA NewestConverges ==
  ASSUME TypeOK, KeptInv, NewestInv
  PROVE  Converged
<1> SUFFICES ASSUME NEW r \in Rows, r \notin overlapped \cup parted,
                    \A f \in Unfinished : f.row # r,
                    \A f \in (GivenUp \cup unread) \ applied : f.row = r => ~Newest(f)
             PROVE  Agrees(r)
  BY DEF Converged, Agrees
<1>1. CASE src[r] = NullRow
  BY <1>1 DEF Agrees, NullRow
<1>2. CASE \E f \in sent : NewestFile(r, f)
  <2>1. PICK f \in sent : NewestFile(r, f)
    BY <1>2
  <2>2. f \notin Unfinished /\ f \notin (GivenUp \cup unread) \ applied
    BY <2>1 DEF NewestFile
  <2>3. f \in Handled \cup unread
    BY <2>2 DEF KeptInv, HandledBeforeGone, Unfinished
  <2>4. f \in applied
    BY <2>2, <2>3 DEF Handled
  <2> QED
    BY <2>1, <2>4 DEF NewestFile
<1> QED
  BY <1>1, <1>2 DEF NewestInv

(* Whatever failed before, a row whose files never overlapped equals the   *)
(* source's in every column that is set there, once none of its files is   *)
(* under way, if its last save left a file that was not given up or lost.  *)
THEOREM Converges ==
  ASSUME KeepsFiles
  PROVE  Spec => []Converged
<1> DEFINE Inv == TypeOK /\ KeptInv /\ OrderInv /\ NewestInv
<1>1. Init => Inv
  BY TypeInit, KeptInit, OrderInit, NewestInit
<1>2. Inv /\ [Next]_vars => Inv'
  BY TypeNext, KeptNext, OrderNext, NewestNext
<1>3. Inv => Converged
  BY NewestConverges
<1> QED
  BY <1>1, <1>2, <1>3, PTL DEF Spec

-----------------------------------------------------------------------------
(* Refinement: the exchange keeps Replica's promise when no file is lost.  *)

(* A number is given to one file, only a file that was sent fails, and it  *)
(* is in one folder.                                                       *)
NumberInv ==
  /\ out \cap inbox = {}
  /\ \A f, g \in sent : f.no = g.no => f = g
  /\ \A n \in 1 .. MaxSaves : n > last => fails[n] = 0

(* No file was sent, so numbers are unique and no failure is logged.       *)
LEMMA NumberInit == Init => NumberInv
  BY DEF Init, NumberInv

(* File numbers stay unique, and only files sent have logged failures.     *)
LEMMA NumberNext ==
  ASSUME TypeOK, TypeOK', OrderInv, NumberInv, [Next]_vars
  PROVE  NumberInv'
<1>1. CASE Source
  <2>1. PICK x \in Rows, sets \in (SUBSET Fields) \ {{}} :
          SaveData(x, sets) \/ SaveDataFails(x, sets) \/ SaveRolledBack(x, sets)
    BY <1>1 DEF Source
  <2>2. PICK n : n = NewFile(x, sets)
    OBVIOUS
  <2>3. /\ last < MaxSaves /\ last \in Nat /\ last' = n.no /\ fails' = fails
        /\ sent' \subseteq sent \cup {n} /\ out' \subseteq out \cup {n} /\ inbox' = inbox
    BY <2>1, <2>2 DEF SaveData, SaveDataFails, SaveRolledBack, NewName, WriteFile, TypeOK
  <2>4. n.no = last + 1
    BY <2>2 DEF NewFile
  <2>5. \A f \in sent : f.no \in Nat /\ f.no <= last
    BY FileFields DEF TypeOK, OrderInv
  <2>6. \A f, g \in sent' : f.no = g.no => f = g
    BY <2>3, <2>4, <2>5 DEF NumberInv
  <2>7. \A m \in 1 .. MaxSaves : m > last' => fails'[m] = 0
    BY <2>3, <2>4 DEF NumberInv
  <2>8. out' \cap inbox' = {}
    BY <2>3, <2>4, <2>5 DEF NumberInv, TypeOK
  <2> QED
    BY <2>6, <2>7, <2>8 DEF NumberInv
<1>2. CASE Ferry \/ Run \/ Trouble \/ UNCHANGED vars
  <2>1. UNCHANGED <<last, sent>>
    BY <1>2, UnfinishedShrinks
  <2>5. out' \cap inbox' = {}
    <3>1. CASE FetchData \/ FetchDataFails
      BY <3>1, FetchSets DEF Fetched, NumberInv
    <3>2. CASE Ferry \/ UNCHANGED vars
      BY <3>2 DEF Ferry, Carry, BeginCarry, EndCarry, vars, NumberInv
    <3>3. CASE (Run \/ Trouble) /\ ~(FetchData \/ FetchDataFails)
      BY <3>3 DEF Run, DealData, UpdateFlag, TriggerTasks, Trouble, DealDataFails,
                  DealDataLogFails, UpdateFlagFails, Crash, NumberInv
    <3> QED
      BY <1>2, <3>1, <3>2, <3>3
  <2>2. CASE fails' = fails
    BY <2>1, <2>2, <2>5 DEF NumberInv
  <2>3. ASSUME NEW f \in sent, fails' = [fails EXCEPT ![f.no] = @ + 1]
        PROVE  NumberInv'
    <3>1. f.no <= last /\ f.no \in 1 .. MaxSaves /\ last \in Nat
      BY FileFields DEF TypeOK, OrderInv
    <3>2. \A n \in 1 .. MaxSaves : n > last => fails'[n] = 0
      BY <2>3, <3>1 DEF NumberInv, TypeOK
    <3> QED
      BY <2>1, <2>5, <3>2 DEF NumberInv
  <2>4. fails' = fails \/ \E f \in sent : fails' = [fails EXCEPT ![f.no] = @ + 1]
    <3>1. CASE Ferry \/ UNCHANGED vars
      BY <3>1 DEF Ferry, Carry, BeginCarry, EndCarry, vars
    <3>2. CASE Run
      BY <3>2 DEF Run, FetchData, Fetch, DealData, UpdateFlag, TriggerTasks
    <3>3. CASE Trouble
      BY <3>3 DEF Trouble, DealDataFails, DealDataLogFails, NextInBatch, UpdateFlagFails,
                  FetchDataFails, Fetch, Crash, TypeOK
    <3> QED
      BY <1>2, <3>1, <3>2, <3>3
  <2> QED
    BY <2>2, <2>3, <2>4
<1> QED
  BY <1>1, <1>2 DEF Next

(* What is handled changes only with the file that is handled.             *)
LEMMA HandledSame ==
  ASSUME UNCHANGED <<sent, applied, fails>>
  PROVE  Handled' = Handled
  BY DEF Handled, GivenUp

(* Merging or failing one file adds at most that file to those handled.    *)
LEMMA HandledMore ==
  ASSUME TypeOK, NumberInv, NEW f \in sent, UNCHANGED sent,
         applied' \in {applied, applied \cup {f}},
         fails' \in {fails, [fails EXCEPT ![f.no] = @ + 1]}
  PROVE  Handled' \in {Handled, Handled \cup {f}}
<1>1. f.no \in 1 .. MaxSaves /\ fails[f.no] \in Nat
  BY FileFields DEF TypeOK
<1>2. \A g \in sent \ {f} : fails'[g.no] = fails[g.no]
  BY <1>1, FileFields DEF NumberInv, TypeOK
<1>3. fails'[f.no] \in {fails[f.no], fails[f.no] + 1}
  BY <1>1 DEF TypeOK
<1>4. \A g \in sent \ {f} : g \in GivenUp' <=> g \in GivenUp
  BY <1>2 DEF GivenUp
<1>5. f \in GivenUp => f \in GivenUp'
  BY <1>1, <1>3 DEF GivenUp, GiveUp
<1>6. GivenUp' \in {GivenUp, GivenUp \cup {f}}
  BY <1>4, <1>5 DEF GivenUp
<1> QED
  BY <1>6 DEF Handled

(* A failure that loses nothing is one of Replica's.                       *)
LEMMA HarmlessFailure ==
  ASSUME Fault, UNCHANGED <<src, last, out, inbox, replica, sent, applied, fails, unread>>
  PROVE  Exchange!RNext
<1>1. Exchange!Lose({})
  BY HandledSame DEF Exchange!Lose, Exchange!Failure, Fault
<1> QED
  BY <1>1 DEF Exchange!RNext

(* Each step of the exchange is a step of Replica or changes nothing       *)
(* there.                                                                  *)
LEMMA StepImplements ==
  ASSUME KeepsFiles, TypeOK, TypeOK', KeptInv, OrderInv, NumberInv, [Next]_vars
  PROVE  [Exchange!RNext]_(Exchange!rvars)
<1> USE DEF Exchange!rvars
<1>1. Exchange!Version = File
  BY DEF Exchange!Version, File
<1>2. CASE Source
  <2>1. PICK x \in Rows, sets \in (SUBSET Fields) \ {{}} :
          SaveData(x, sets) \/ SaveDataFails(x, sets) \/ SaveRolledBack(x, sets)
    BY <1>2 DEF Source
  <2>2. PICK n : n = NewFile(x, sets)
    OBVIOUS
  <2>3. NewName(n) /\ last < MaxSaves /\ last \in Nat
    BY <2>1, <2>2 DEF SaveData, SaveDataFails, SaveRolledBack, NewName, TypeOK
  <2>4. n \in File /\ n.no = last + 1
    BY <2>2, <2>3, NewFileType
  <2>5. sent' \in {sent, sent \cup {n}}
    BY <2>1, <2>2 DEF SaveData, SaveDataFails, SaveRolledBack, WriteFile
  <2>6. fails[n.no] = 0
    BY <2>3, <2>4, ExchangeAssumption DEF NumberInv
  <2>7. Handled' = Handled
    BY <2>3, <2>5, <2>6 DEF NewName, Handled, GivenUp, GiveUp
  <2>8. Exchange!Fresh(n) /\ UNCHANGED inbox
    BY <2>3, <2>4, <2>7 DEF NewName, Exchange!Fresh
  <2>9. SaveRow(n) => Exchange!SaveRow(n)
    BY DEF SaveRow, Exchange!SaveRow, Exchange!RowOf, RowOf
  <2>10. WriteFile(n) => out' \cup inbox' = (out \cup inbox) \cup {n}
    BY <2>8 DEF WriteFile
  <2>11. CASE SaveData(x, sets)
    <3>1. Exchange!Publish(n)
      BY <2>2, <2>8, <2>9, <2>10, <2>11 DEF SaveData, Exchange!Publish
    <3> QED
      BY <1>1, <2>4, <3>1 DEF Exchange!RNext
  <2>12. CASE SaveDataFails(x, sets)
    <3>1. Exchange!PublishFails(n)
      BY <2>2, <2>8, <2>9, <2>12
         DEF SaveDataFails, Fault, Exchange!Failure, Exchange!PublishFails
    <3> QED
      BY <1>1, <2>4, <3>1 DEF Exchange!RNext
  <2>13. CASE SaveRolledBack(x, sets)
    <3>1. Exchange!PublishFails(n)
      BY <2>2, <2>8, <2>10, <2>13
         DEF SaveRolledBack, Fault, Exchange!Failure, Exchange!PublishFails
    <3> QED
      BY <1>1, <2>4, <3>1 DEF Exchange!RNext
  <2> QED
    BY <2>1, <2>11, <2>12, <2>13
<1>3. CASE Ferry
  <2>1. out' \cup inbox' = out \cup inbox
    BY <1>3 DEF Ferry, Carry, BeginCarry, EndCarry
  <2>2. UNCHANGED <<src, last, replica, sent, applied, fails, unread, faults>>
    BY <1>3 DEF Ferry, Carry, BeginCarry, EndCarry, history
  <2> QED
    BY <2>1, <2>2, HandledSame
<1>4. CASE FetchData
  <2>1. Fetched({}, {}) /\ UNCHANGED faults
    BY <1>4, FetchSets DEF KeptInv, FetchData
  <2>2. UNCHANGED <<src, last, out, inbox, replica, sent, applied, fails, unread, faults>>
    BY <2>1 DEF Fetched, KeepsFiles
  <2> QED
    BY <2>2, HandledSame
<1>5. CASE FetchDataFails
  <2>1. PICK bad, gone \in SUBSET inbox : Fetched(bad, gone)
    BY <1>5, FetchSets
  <2>2. /\ inbox' = inbox \ gone /\ unread' = unread \cup gone
        /\ UNCHANGED <<src, last, out, replica, sent, applied, fails>>
    BY <2>1 DEF Fetched, KeepsFiles
  <2>3. (out \cup inbox)' = (out \cup inbox) \ gone
    BY <2>2 DEF NumberInv
  <2>4. Exchange!Lose(gone)
    BY <1>5, <2>2, <2>3, HandledSame DEF FetchDataFails, Fault, Exchange!Failure, Exchange!Lose
  <2> QED
    BY <2>4 DEF Exchange!RNext
<1>6. CASE TriggerTasks \/ UNCHANGED vars
  <2>1. UNCHANGED <<src, last, out, inbox, replica, sent, applied, fails, unread, faults>>
    BY <1>6 DEF TriggerTasks, vars, history
  <2> QED
    BY <2>1, HandledSame
<1>7. CASE Crash
  BY <1>7, HarmlessFailure DEF Crash, history
<1>8. ASSUME NEW f \in File, DealData(f) \/ DealDataLogFails(f)
      PROVE  Exchange!MergeVersion(f)
  <2>1. f \in batch /\ f \in inbox /\ f \in sent
    BY <1>8 DEF DealData, DealDataLogFails, NextInBatch, KeptInv, TypeOK
  <2>2. /\ replica' = [replica EXCEPT ![f.row] = Merge(@, f)]
        /\ applied' = applied \cup {f}
        /\ fails' \in {fails, [fails EXCEPT ![f.no] = @ + 1]}
        /\ UNCHANGED <<src, last, out, inbox, sent, unread>>
    BY <1>8 DEF DealData, DealDataLogFails
  <2>3. Handled' = Handled \cup {f}
    BY <2>1, <2>2, HandledMore DEF Handled
  <2>4. Exchange!Failure \/ UNCHANGED faults
    BY <1>8 DEF DealData, DealDataLogFails, Fault, Exchange!Failure
  <2> QED
    BY <2>1, <2>2, <2>3, <2>4 DEF Exchange!MergeVersion, Exchange!Merge, Merge
<1>9. ASSUME NEW f \in File, DealDataFails(f)
      PROVE  Exchange!RNext
  <2>1. f \in inbox /\ f \in sent
    BY <1>9 DEF DealDataFails, NextInBatch, KeptInv, TypeOK
  <2>2. /\ fails' = [fails EXCEPT ![f.no] = @ + 1]
        /\ Fault
        /\ UNCHANGED <<src, last, out, inbox, sent, applied, replica, unread>>
    BY <1>9 DEF DealDataFails, history
  <2>3. Handled' \in {Handled, Handled \cup {f}}
    BY <2>1, <2>2, HandledMore
  <2>4. CASE Handled' = Handled
    <3>1. Exchange!Lose({})
      BY <2>2, <2>4 DEF Exchange!Lose, Exchange!Failure, Fault
    <3> QED
      BY <3>1 DEF Exchange!RNext
  <2>5. CASE Handled' = Handled \cup {f}
    <3>1. Exchange!GiveUpVersion(f)
      BY <2>1, <2>2, <2>5 DEF Exchange!GiveUpVersion, Exchange!Failure, Fault
    <3> QED
      BY <1>1, <3>1 DEF Exchange!RNext
  <2> QED
    BY <2>3, <2>4, <2>5
<1>10. ASSUME NEW f \in File, UpdateFlag(f)
       PROVE  Exchange!Retire(f) \/ UNCHANGED Exchange!rvars
  <2>1. f \in Handled /\ inbox' = inbox \ {f}
        /\ UNCHANGED <<src, last, out, sent, applied, fails, replica, unread, faults>>
    BY <1>10 DEF UpdateFlag, KeptInv, history
  <2>2. Handled' = Handled
    BY <2>1, HandledSame
  <2>3. CASE f \in inbox
    <3>1. f \notin out
      BY <2>3 DEF NumberInv
    <3> QED
      BY <2>1, <2>2, <2>3, <3>1 DEF Exchange!Retire
  <2>4. CASE f \notin inbox
    BY <2>1, <2>2, <2>4
  <2> QED
    BY <2>3, <2>4
<1>11. ASSUME NEW f \in File, UpdateFlagFails(f)
       PROVE  Exchange!RNext
  BY <1>11, HarmlessFailure DEF UpdateFlagFails, history
<1>12. ASSUME NEW f \in File, Exchange!MergeVersion(f) \/ Exchange!Retire(f)
       PROVE  Exchange!RNext
  BY <1>1, <1>12 DEF Exchange!RNext
<1> QED
  BY <1>2, <1>3, <1>4, <1>5, <1>6, <1>7, <1>8, <1>9, <1>10, <1>11, <1>12 DEF Next, Run, Trouble

(* The exchange starts where Replica starts.                               *)
LEMMA InitImplements == Init => Exchange!RInit
  BY DEF Init, Exchange!RInit, NullRow, Exchange!NullRow, Handled, GivenUp

(* Through folders or the exchange table, every run of the exchange is one *)
(* of Replica's: a version leaves after it was merged, and what is given   *)
(* up, lost or saved by halves costs a failure each.                       *)
THEOREM Implements ==
  ASSUME KeepsFiles
  PROVE  Spec => KeepsPromise
<1> DEFINE Inv == TypeOK /\ KeptInv /\ OrderInv /\ NumberInv
<1>1. Init => Inv
  BY TypeInit, KeptInit, OrderInit, NumberInit
<1>2. Inv /\ [Next]_vars => Inv'
  BY TypeNext, KeptNext, OrderNext, NumberNext
<1>3. Inv /\ [Next]_vars => [Exchange!RNext]_(Exchange!rvars)
  BY TypeNext, StepImplements
<1> QED
  BY <1>1, <1>2, <1>3, InitImplements, PTL DEF Spec, KeepsPromise, Exchange!RSpec
=============================================================================
