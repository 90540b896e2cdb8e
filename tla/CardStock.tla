----------------------------- MODULE CardStock -----------------------------
(***************************************************************************)
(* Production tasks from their first card to the corps' shelf: stations     *)
(* initialise cards and fill boxes (ProductionTaskServiceImpl,             *)
(* EriServiceImpl.factoryInitialize, saveFactoryInitializeResult), clerks  *)
(* store, issue and store the boxes again (WarehouseServiceImpl,           *)
(* ExWarehouseServiceImpl, InventoryServiceImpl).                          *)
(*                                                                         *)
(* Methods not named *save*, *update*, ... run outside of a transaction:   *)
(* an action is one of their statements, and a call may end, by an         *)
(* exception or a stop of the server, between any two.  One station works  *)
(* at a box, one call at a time, and chooses a number the page shows       *)
(* without a usable card.                                                  *)
(***************************************************************************)
EXTENDS Naturals, FiniteSets

CONSTANTS
  Cards,       \* cards, by their tid
  Boxes,       \* boxes (rfid_inventory), by bzhh
  Tasks,       \* production tasks, by rwh
  TaskOf,      \* the task a box was planned for
  Capacity,    \* BOX_CAPACITY
  Notes,       \* issue notes, by ckdh
  Ministry,    \* the department that issues
  Applicant,   \* the department whose order a note serves
  Examiners,   \* clerks who examine notes, each one note at a time
  None

Numbers == Boxes \X (1 .. Capacity)
BoxOf(kh) == kh[1]
BoxesOf(r) == {b \in Boxes : TaskOf[b] = r}

Row == [kh : Numbers, zt : {"NEW", "AVAILABLE", "DISABLE"}, bzhh : Boxes]

ASSUME StockAssumption ==
  /\ IsFiniteSet(Cards)
  /\ TaskOf \in [Boxes -> Tasks]
  /\ Capacity \in Nat \ {0}
  /\ Ministry # None
  /\ None \notin Boxes \cup Cards \cup Row \cup Notes
  /\ None \notin {"SUBMIT", "APPROVED", "UNAPPROVED"}

VARIABLES
  eri,       \* rfid_eri: number (kh), status (zt) and box (bzhh) of a card
  running,   \* how many initialise records of a card are IN_PROGRESS
  zt,        \* status of a box
  ssbm,      \* the department that has it
  task,      \* status of a production task
  call,      \* the call a box's station makes
  scanned,   \* boxes on the forms "in" and "corps" and on unsaved notes
  note,      \* status of an issue note
  listed,    \* the boxes of a note (rfid_inventory_out_detail)
  approving, \* the note an examiner has approved, whose boxes are not out yet
  approved   \* history: the notes an examiner has ever approved

production == <<eri, running, task, call>>
examined == <<approving, approved>>
shelves == <<scanned, note, listed, examined>>
vars == <<production, zt, ssbm, shelves>>

Idle == [step |-> "idle"]

Init ==
  /\ eri = [c \in Cards |-> None]
  /\ running = [c \in Cards |-> 0]
  /\ zt = [b \in Boxes |-> "PLANNED"]
  /\ ssbm = [b \in Boxes |-> None]
  /\ task = [r \in Tasks |-> "PLANNED"]
  /\ call = [b \in Boxes |-> Idle]
  /\ scanned = [f \in Notes \cup {"in", "corps"} |-> {}]
  /\ note = [n \in Notes |-> None]
  /\ listed = [n \in Notes |-> {}]
  /\ approving = [e \in Examiners |-> None]
  /\ approved = {}

-----------------------------------------------------------------------------
(* Production.  queryByRegion: the usable cards with a number.             *)
Usable(kh) == {c \in Cards : eri[c] # None /\ eri[c].kh = kh /\ eri[c].zt = "AVAILABLE"}
InHand(c) == \E b \in Boxes : call[b].step \notin {"idle", "finish"} /\ call[b].card = c
At(b, step) == call[b].step = step
Goto(b, step) == call' = [call EXCEPT ![b].step = step]
Return(b) == call' = [call EXCEPT ![b] = Idle]

StartTask(r) ==
  /\ task[r] = "PLANNED"
  /\ task' = [task EXCEPT ![r] = "PRODUCING"]
  /\ UNCHANGED <<eri, running, call, zt, ssbm, shelves>>

(* factoryInitialize: the box must be planned or under production.         *)
FactoryInitialize(b, kh, c) ==
  /\ task[TaskOf[b]] # "PLANNED"
  /\ At(b, "idle")
  /\ ~InHand(c)
  /\ BoxOf(kh) = b /\ Usable(kh) = {}
  /\ zt[b] \in {"PLANNED", "PRODUCING"}
  /\ call' = [call EXCEPT ![b] = [step |-> "card", card |-> c, kh |-> kh,
                                  bzhh |-> b, planned |-> zt[b] = "PLANNED"]]
  /\ UNCHANGED <<eri, running, task, zt, ssbm, shelves>>

(* Variant: the records of earlier attempts stay IN_PROGRESS.              *)
LeavesRecords(b) ==
  LET c == call[b].card
  IN  /\ At(b, "card")
      /\ IF eri[c] # None /\ eri[c].zt = "AVAILABLE"
         THEN Return(b)
         ELSE call' = [call EXCEPT ![b] =
                [@ EXCEPT !.step = "row", !.bzhh = IF eri[c] = None THEN b ELSE eri[c].bzhh]]
      /\ UNCHANGED <<eri, running, task, zt, ssbm, shelves>>

(* A known card's open records FAIL before its status is looked at.        *)
ReadCard(b) ==
  LET c == call[b].card
  IN  /\ At(b, "card")
      /\ \/ eri[c] = None /\ Goto(b, "row") /\ UNCHANGED running
         \/ /\ eri[c] # None
            /\ running' = [running EXCEPT ![c] = 0]
            /\ IF eri[c].zt = "AVAILABLE"
               THEN Return(b)
               ELSE call' = [call EXCEPT ![b] = [@ EXCEPT !.step = "row", !.bzhh = eri[c].bzhh]]
      /\ UNCHANGED <<eri, task, zt, ssbm, shelves>>

(* Variant: a known card keeps its number.                                 *)
KeepsNumber(b) ==
  LET c == call[b].card
      kh == IF eri[c] = None THEN call[b].kh ELSE eri[c].kh
  IN  /\ At(b, "row")
      /\ eri' = [eri EXCEPT ![c] = [kh |-> kh, zt |-> "NEW", bzhh |-> call[b].bzhh]]
      /\ Goto(b, "record")
      /\ UNCHANGED <<running, task, zt, ssbm, shelves>>

(* initialize computes the keys, then inserts or overwrites the row.       *)
WriteRow(b) ==
  /\ At(b, "row")
  /\ eri' = [eri EXCEPT ![call[b].card] =
               [kh |-> call[b].kh, zt |-> "NEW", bzhh |-> call[b].bzhh]]
  /\ Goto(b, "record")
  /\ UNCHANGED <<running, task, zt, ssbm, shelves>>

CreateRecord(b) ==
  /\ At(b, "record")
  /\ running' = [running EXCEPT ![call[b].card] = @ + 1]
  /\ Goto(b, IF call[b].planned THEN "inventory" ELSE "report")
  /\ UNCHANGED <<eri, task, zt, ssbm, shelves>>

(* The box's row is written back as it was read, with the new status.      *)
SetProducing(b) ==
  /\ At(b, "inventory")
  /\ zt' = [zt EXCEPT ![b] = "PRODUCING"]
  /\ Goto(b, "report")
  /\ UNCHANGED <<eri, running, task, ssbm, shelves>>

(* saveFactoryInitializeResult, one transaction.                           *)
Report(b) ==
  LET c == call[b].card
  IN  /\ At(b, "report")
      /\ \/ /\ running[c] = 1
            /\ running' = [running EXCEPT ![c] = 0]
            /\ eri' = [eri EXCEPT ![c] = [@ EXCEPT !.zt = "AVAILABLE", !.bzhh = b]]
         \/ /\ running' = [running EXCEPT ![c] = 0]
            /\ eri' = [eri EXCEPT ![c].zt = "DISABLE"]
      /\ Return(b)
      /\ UNCHANGED <<task, zt, ssbm, shelves>>

(* The call fails or is cut off at any of its statements, or the station   *)
(* does not report.                                                        *)
Break(b) ==
  /\ ~At(b, "idle")
  /\ Return(b)
  /\ UNCHANGED <<eri, running, task, zt, ssbm, shelves>>

(* Variant: cards of every status count.                                   *)
FinishedAny(b) == {c \in Cards : eri[c] # None /\ BoxOf(eri[c].kh) = b}

Finished(b) == {c \in Cards : eri[c] # None /\ BoxOf(eri[c].kh) = b /\ eri[c].zt = "AVAILABLE"}

(* finishSubTask: reads the box and its usable cards, which must fill it,  *)
(* then writes the box's row back.  Its status is not looked at, so that   *)
(* the station may repeat the call.                                        *)
FinishSubTask(b) ==
  /\ task[TaskOf[b]] # "PLANNED"
  /\ At(b, "idle")
  /\ Cardinality(Finished(b)) >= Capacity
  /\ call' = [call EXCEPT ![b] = [step |-> "finish", ssbm |-> ssbm[b]]]
  /\ UNCHANGED <<eri, running, task, zt, ssbm, shelves>>

SetProduced(b) ==
  /\ At(b, "finish")
  /\ zt' = [zt EXCEPT ![b] = "PRODUCED"]
  /\ ssbm' = [ssbm EXCEPT ![b] = call[b].ssbm]
  /\ Return(b)
  /\ UNCHANGED <<eri, running, task, shelves>>

(* Variant: only a box that is still PLANNED is unfinished.                *)
FinishTaskEarly(r) ==
  /\ \A b \in BoxesOf(r) : zt[b] \in {"PRODUCING", "PRODUCED"}
  /\ task' = [task EXCEPT ![r] = "PRODUCED"]
  /\ UNCHANGED <<eri, running, call, zt, ssbm, shelves>>

(* finishTask: no box of the task may have another status than PRODUCED.   *)
FinishTask(r) ==
  /\ \A b \in BoxesOf(r) : zt[b] = "PRODUCED"
  /\ task' = [task EXCEPT ![r] = "PRODUCED"]
  /\ UNCHANGED <<eri, running, call, zt, ssbm, shelves>>

-----------------------------------------------------------------------------
(* Shelves.  A box is put on a form if it has the status the form asks for *)
(* (check-query-by-bzhh) and is not on it yet; the form is sent later, and *)
(* nothing is looked at again.                                             *)
Scan(f, b, status) ==
  /\ zt[b] = status
  /\ b \notin scanned[f]
  /\ scanned' = [scanned EXCEPT ![f] = @ \cup {b}]
  /\ UNCHANGED <<production, zt, ssbm, note, listed, examined>>

ScanIn(b) == Scan("in", b, "PRODUCED")
ScanOut(n, b) == note[n] = None /\ Scan(n, b, "STORED")
ScanCorps(b) == Scan("corps", b, "SENDOUT")

(* saveWarehouse, for each box of the form: inventoryIn.                   *)
InventoryIn(b) ==
  /\ b \in scanned["in"]
  /\ scanned' = [scanned EXCEPT !["in"] = @ \ {b}]
  /\ zt' = [zt EXCEPT ![b] = "STORED"]
  /\ ssbm' = [ssbm EXCEPT ![b] = Ministry]
  /\ UNCHANGED <<production, note, listed, examined>>

(* saveExWarehouse, one transaction; the page then offers it for review.   *)
SaveExWarehouse(n) ==
  /\ note[n] = None
  /\ scanned[n] # {}
  /\ note' = [note EXCEPT ![n] = "SUBMIT"]
  /\ listed' = [listed EXCEPT ![n] = scanned[n]]
  /\ scanned' = [scanned EXCEPT ![n] = {}]
  /\ UNCHANGED <<production, zt, ssbm, examined>>

(* Variant: boxes go out whatever the examination says.                    *)
RefusedGoesOut(e, n) ==
  /\ note[n] # None /\ approving[e] = None
  /\ \/ note' = [note EXCEPT ![n] = "UNAPPROVED"] /\ UNCHANGED approved
     \/ note' = [note EXCEPT ![n] = "APPROVED"] /\ approved' = approved \cup {n}
  /\ approving' = [approving EXCEPT ![e] = n]
  /\ UNCHANGED <<production, zt, ssbm, scanned, listed>>

(* examine: the note's status, and if it is approved all its boxes.  The   *)
(* page offers both answers for a note of any status, and nobody looks at  *)
(* the one it has: an approved note can be refused when its boxes are out, *)
(* or approved again.                                                      *)
Examine(e, n) ==
  /\ note[n] # None /\ approving[e] = None
  /\ \/ note' = [note EXCEPT ![n] = "UNAPPROVED"] /\ UNCHANGED examined
     \/ /\ note' = [note EXCEPT ![n] = "APPROVED"]
        /\ approving' = [approving EXCEPT ![e] = n]
        /\ approved' = approved \cup {n}
  /\ UNCHANGED <<production, zt, ssbm, scanned, listed>>

InventoryOutByCkdh(e) ==
  LET n == approving[e]
  IN  /\ n # None
      /\ approving' = [approving EXCEPT ![e] = None]
      /\ zt' = [b \in Boxes |-> IF b \in listed[n] THEN "SENDOUT" ELSE zt[b]]
      /\ ssbm' = [b \in Boxes |-> IF b \in listed[n] THEN Applicant[n] ELSE ssbm[b]]
      /\ UNCHANGED <<production, scanned, note, listed, approved>>

ExamineBreaks(e) ==
  /\ approving[e] # None
  /\ approving' = [approving EXCEPT ![e] = None]
  /\ UNCHANGED <<production, zt, ssbm, scanned, note, listed, approved>>

(* saveCorpsWarehouse: the status written is 6, the value of CANCEL, where *)
(* STOREDCORPS is 9.  The corps enters its own department.                 *)
InventoryInCorps(b) ==
  /\ b \in scanned["corps"]
  /\ scanned' = [scanned EXCEPT !["corps"] = @ \ {b}]
  /\ zt' = [zt EXCEPT ![b] = "CANCEL"]
  /\ UNCHANGED <<production, ssbm, note, listed, examined>>

Initialisation(b) ==
  \/ \E kh \in Numbers : \E c \in Cards : FactoryInitialize(b, kh, c)
  \/ ReadCard(b) \/ WriteRow(b) \/ CreateRecord(b) \/ SetProducing(b)
  \/ Report(b) \/ Break(b) \/ FinishSubTask(b) \/ SetProduced(b)

Clerk ==
  \/ \E b \in Boxes : ScanIn(b) \/ InventoryIn(b) \/ ScanCorps(b) \/ InventoryInCorps(b)
  \/ \E n \in Notes :
       \/ \E b \in Boxes : ScanOut(n, b)
       \/ SaveExWarehouse(n)
       \/ \E e \in Examiners : Examine(e, n)
  \/ \E e \in Examiners : InventoryOutByCkdh(e) \/ ExamineBreaks(e)

Next ==
  \/ \E r \in Tasks : StartTask(r) \/ FinishTask(r)
  \/ \E b \in Boxes : Initialisation(b)
  \/ Clerk

Spec == Init /\ [][Next]_vars

-----------------------------------------------------------------------------
Calls ==
  {Idle} \cup [step : {"finish"}, ssbm : {None, Ministry} \cup {Applicant[n] : n \in Notes}]
  \cup [step : {"card", "row", "record", "inventory", "report"},
        card : Cards, kh : Numbers, bzhh : Boxes, planned : BOOLEAN]

(* Every variable has its type.                                            *)
TypeOK ==
  /\ eri \in [Cards -> {None} \cup Row]
  /\ running \in [Cards -> {0, 1}]
  /\ zt \in [Boxes -> {"PLANNED", "PRODUCING", "PRODUCED", "STORED", "SENDOUT", "CANCEL"}]
  /\ ssbm \in [Boxes -> {None, Ministry} \cup {Applicant[n] : n \in Notes}]
  /\ task \in [Tasks -> {"PLANNED", "PRODUCING", "PRODUCED"}]
  /\ call \in [Boxes -> Calls]
  /\ scanned \in [Notes \cup {"in", "corps"} -> SUBSET Boxes]
  /\ note \in [Notes -> {None, "SUBMIT", "APPROVED", "UNAPPROVED"}]
  /\ listed \in [Notes -> SUBSET Boxes]
  /\ approving \in [Examiners -> Notes \cup {None}]
  /\ approved \subseteq Notes

Full(b) == \A i \in 1 .. Capacity : Usable(<<b, i>>) # {}

(* A box that has left production has a usable card for each of its        *)
(* numbers, though finishSubTask only counts cards, cards move between     *)
(* boxes after a failure, and any call may stop halfway.                   *)
ProducedIsFull == \A b \in Boxes : zt[b] \notin {"PLANNED", "PRODUCING"} => Full(b)

(* No two usable cards carry the same number, and a usable card names the  *)
(* box its number belongs to, whatever box it was in before.               *)
OneCardPerNumber ==
  \A c \in Cards : eri[c] # None /\ eri[c].zt = "AVAILABLE" =>
     /\ Usable(eri[c].kh) = {c}
     /\ eri[c].bzhh = BoxOf(eri[c].kh)

(* When a station has written a card its report finds exactly one record   *)
(* in progress, however many earlier attempts were cut off: a good card is *)
(* never refused for "several records".                                    *)
ReportIsAccepted == \A b \in Boxes : At(b, "report") => running[call[b].card] = 1

(* A finished task has only full boxes, also while some are being stored   *)
(* and others reported again.                                              *)
FinishedIsFull ==
  \A r \in Tasks : task[r] = "PRODUCED" => \A b \in BoxesOf(r) : Full(b)

(* A box that is out is with the applicant of a note that lists it and     *)
(* that an examiner has approved, through refusals, repeated examinations  *)
(* and late answers of others, and whatever becomes of the note later.     *)
OutIsApproved ==
  \A b \in Boxes : zt[b] = "SENDOUT" =>
     \E n \in approved : b \in listed[n] /\ ssbm[b] = Applicant[n]

(* A box that is out stays with the applicant it was issued to: the page   *)
(* refuses a box that "is not in store or is already out".                 *)
IssuedOnce ==
  [][\A b \in Boxes : zt[b] = "SENDOUT" /\ zt'[b] = "SENDOUT" => ssbm'[b] = ssbm[b]]_vars
=============================================================================
