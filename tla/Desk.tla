-------------------------------- MODULE Desk --------------------------------
(***************************************************************************)
(* Personalising a card at a desk: the page customizeEdit.jsp, the card    *)
(* reader it drives, and the server calls it makes (CustomizeTaskEndPoint, *)
(* EriEndPoint, EriServiceImpl).                                           *)
(*                                                                         *)
(* The reader is external: an ActiveX control that takes commands and      *)
(* hands back answers one at a time, in order.  The page polls for an      *)
(* answer for five seconds and then gives up; the answer comes all the     *)
(* same, and the next command takes it for its own.  The clerk may change  *)
(* the card on the reader at any time, and what is typed in whenever no    *)
(* dialog covers the page.  Each server call is served as one step.        *)
(***************************************************************************)
EXTENDS CardContent

CONSTANTS
  Cards,             \* cards, all AVAILABLE, named by their TID
  Vehicles,
  Number,            \* number of each card: <<province, sequence number>>
  AutoGenerateTask,  \* the server creates a task when it finds none
  LongCache,         \* greatest task number two boxed copies of which are ==
  MaxTasks,          \* bound
  Cases              \* settings to explore: the type of business, the rows of
                     \* the vehicles, the tasks there are, whether the clerk
                     \* edits the input of a vehicle shown, and bounds on
                     \* commands and on answers that may be late at a time

ASSUME DeskAssumption ==
  /\ None \notin Cards \cup Vehicles
  /\ Number \in [Cards -> (0 .. 63) \X (0 .. 2^28 - 1)]
  /\ AutoGenerateTask \in BOOLEAN
  /\ LongCache \in Nat /\ MaxTasks \in Nat
  /\ \A x \in Cases :
       /\ x.type \in {"NEW", "MODIFY"} /\ x.edits \in BOOLEAN
       /\ x.rows \in [Vehicles -> Rows]
       /\ x.tasks \in Seq([veh : Vehicles, tid : Cards \cup {None}, st : {"SUBMIT", "DONE"}])
       /\ x.commands \in Nat /\ x.late \in Nat

VARIABLES
  case,      \* the setting
  input,     \* vehicle typed in
  page,      \* the page: what it waits for and what it shows
  onReader,  \* card lying on the reader
  memory,    \* vehicle each card holds
  queue,     \* commands the reader has not carried out
  inbox,     \* its answers the page has not taken
  tasks,     \* customize tasks
  records,   \* customize records IN_PROGRESS
  bound,     \* vehicle each card is bound to (clxxbfid)
  verified,  \* history: <<card, vehicle>> written by the reader and read back
  sent       \* commands sent, for the bound

server == <<tasks, records, bound>>
reader == <<onReader, memory, queue, inbox>>
vars == <<case, input, page, reader, server, verified, sent>>

Row(v) == case.rows[v]

Plate(row) == <<row.fzjg, row.fpdh, row.xh, row.hpzl>>
SamePlate(u, v) == Plate(Row(u)) = Plate(Row(v))

FreshPage ==
  [at |-> "idle", tid |-> None, kh |-> None, texts |-> BlankTexts, xh |-> 0,
   data |-> None, result |-> FALSE]

Init ==
  /\ case \in Cases
  /\ input = None
  /\ page = FreshPage
  /\ onReader = None
  /\ memory = [c \in Cards |-> None]
  /\ queue = <<>> /\ inbox = <<>>
  /\ tasks = case.tasks
  /\ records = {}
  /\ bound = [c \in Cards |-> None]
  /\ verified = {}
  /\ sent = 0

(* What eri.js makes of the data of a card.                                *)
AllRows == UNION {{x.rows[v] : v \in Vehicles} : x \in Cases}
Readout == [c \in Cards |-> [row \in AllRows |-> Parse(CalculateVehicleInfo(Number[c], row))]]
Blank == [c \in Cards |-> Parse(FactoryData(Number[c]))]
Content(c, v) == IF v = None THEN Blank[c] ELSE Readout[c][Row(v)]

-----------------------------------------------------------------------------
(* The clerk and the reader.                                               *)

TypeIn(v) ==
  /\ page.at = "idle" \/ (page.at = "shown" /\ (case.edits \/ input = None))
  /\ v # input
  /\ input' = v
  /\ UNCHANGED <<case, page, reader, server, verified, sent>>

PutCard(c) ==
  /\ c # onReader
  /\ onReader' = c
  /\ UNCHANGED <<case, input, page, memory, queue, inbox, server, verified, sent>>

(* A reload makes a new control: answers are lost, and so are commands,    *)
(* except that a write the reader is at may still be done.                 *)
Reload ==
  /\ page # FreshPage
  /\ page' = FreshPage /\ input' = None
  /\ inbox' = <<>> /\ queue' = <<>>
  /\ \/ UNCHANGED memory
     \/ /\ queue # <<>> /\ Head(queue).op = "write" /\ onReader = Head(queue).data.tid
        /\ memory' = [memory EXCEPT ![onReader] = Head(queue).data.veh]
  /\ UNCHANGED <<case, onReader, server, verified, sent>>

Answer(kind, c, v) ==
  /\ queue' = Tail(queue)
  /\ inbox' = Append(inbox, [kind |-> kind, tid |-> c, veh |-> v])

Fails == \/ Answer("failed", None, None) \/ Answer("alert", None, None)

(* 1001: inventory, and the upper half of the data.                        *)
ReaderSelects ==
  /\ queue # <<>> /\ Head(queue).op = "select"
  /\ \/ onReader # None /\ Answer("selected", onReader, memory[onReader])
     \/ Fails
  /\ UNCHANGED <<onReader, memory, verified>>

(* 1002: the frame is for one card only; written, the card is read back,   *)
(* and even the reading may fail.                                          *)
ReaderWrites ==
  /\ queue # <<>> /\ Head(queue).op = "write"
  /\ LET data == Head(queue).data IN
     \/ /\ onReader = data.tid
        /\ memory' = [memory EXCEPT ![onReader] = data.veh]
        /\ \/ /\ Answer("read", data.tid, data.veh)
              /\ verified' = verified \cup {<<data.tid, data.veh>>}
           \/ Fails /\ UNCHANGED verified
     \/ Fails /\ UNCHANGED <<memory, verified>>
  /\ UNCHANGED onReader

Reader ==
  /\ ReaderSelects \/ ReaderWrites
  /\ UNCHANGED <<case, input, page, server, sent>>

-----------------------------------------------------------------------------
(* The page.                                                               *)

SendCommand(command) ==
  /\ sent < case.commands /\ sent' = sent + 1
  /\ queue' = Append(queue, command)
  /\ UNCHANGED <<onReader, memory, inbox>>

(* checkCard(1).  The vehicle's texts and the task number stay.            *)
CheckCard ==
  /\ page' = [page EXCEPT !.at = "select", !.tid = None, !.kh = None, !.data = None]
  /\ SendCommand([op |-> "select", data |-> None])

Query ==
  /\ page.at \in {"idle", "shown"} /\ input # None
  /\ CheckCard
  /\ UNCHANGED <<case, input, server, verified>>

(* getResponse gives up after 50 polls; the answer is late from then on.    *)
NoResponse ==
  /\ page.at \in {"select", "written"} /\ inbox = <<>>
  /\ Len(queue) <= case.late
  /\ page' = [page EXCEPT !.at = "idle"]
  /\ UNCHANGED <<case, input, reader, server, verified, sent>>

(* Whatever answer is next is taken; an alert is all that becomes of some. *)
TakeAnswer(at) ==
  /\ page.at = at /\ inbox # <<>>
  /\ inbox' = Tail(inbox)
  /\ UNCHANGED <<case, input, onReader, memory, queue, server, verified, sent>>

CardChecked ==
  LET answer == Head(inbox) IN
  /\ TakeAnswer("select")
  /\ page' = CASE answer.kind = "selected" ->
                    [page EXCEPT !.at = "check", !.tid = answer.tid,
                                 !.kh = Content(answer.tid, answer.veh).kh]
               [] answer.kind = "alert" -> [page EXCEPT !.at = "stuck"]
               [] OTHER -> [page EXCEPT !.at = "idle"]

(* Wrong variant: a failure leaves the result of the write before.         *)
CardWrittenKept ==
  LET answer == Head(inbox) IN
  /\ TakeAnswer("written")
  /\ page' = CASE answer.kind = "alert" -> [page EXCEPT !.at = "stuck"]
               [] answer.kind = "failed" -> [page EXCEPT !.at = "upload"]
               [] OTHER -> [page EXCEPT !.at = "upload",
                                        !.result = CheckContent(Content(answer.tid, answer.veh),
                                                                page.kh, page.texts)]

(* The answer's code and content count, not its TID.                       *)
CardWritten ==
  LET answer == Head(inbox) IN
  /\ TakeAnswer("written")
  /\ page' = IF answer.kind = "alert" THEN [page EXCEPT !.at = "stuck"]
             ELSE [page EXCEPT !.at = "upload",
                               !.result = /\ answer.kind = "read"
                                          /\ CheckContent(Content(answer.tid, answer.veh),
                                                          page.kh, page.texts)]

ClearedPage == [FreshPage EXCEPT !.result = page.result]

(* Refused when the card holds another plate, unless the business is to    *)
(* change it, or when another card holds this one.                         *)
HoldsOtherPlate(c, v) ==
  bound[c] # None /\ ~SamePlate(bound[c], v) /\ case.type # "MODIFY"
BoundElsewhere(c, v) ==
  \E d \in Cards \ {c} : bound[d] # None /\ SamePlate(bound[d], v)

OpenRecord(c) == \E r \in records : r.tid = c

(* checkCardStatus.  Only a card bound before is compared with others.     *)
CheckCardStatus ==
  LET refused == \/ HoldsOtherPlate(page.tid, input)
                 \/ bound[page.tid] # None /\ BoundElsewhere(page.tid, input)
  IN
  /\ page.at = "check"
  /\ \/ OpenRecord(page.tid) /\ page' = [page EXCEPT !.at = "reset"] /\ UNCHANGED input
     \/ ~OpenRecord(page.tid) /\ refused /\ page' = ClearedPage /\ input' = None
     \/ /\ ~OpenRecord(page.tid) /\ ~refused
        /\ page' = [page EXCEPT !.at = "shown", !.texts = Show(page.texts, Translate(Row(input)))]
        /\ UNCHANGED input
  /\ UNCHANGED <<case, reader, server, verified, sent>>

(* resetTask: by the task, if the page has one, and by the card.           *)
ResetTask ==
  /\ page.at = "reset"
  /\ records' = {r \in records : r.tid # page.tid /\ (page.xh = 0 \/ r.task # page.xh)}
  /\ CheckCard
  /\ UNCHANGED <<case, input, tasks, bound, verified>>

Decline ==
  /\ page.at \in {"reset", "upload"}
  /\ page' = [page EXCEPT !.at = "idle"]
  /\ UNCHANGED <<case, input, reader, server, verified, sent>>

-----------------------------------------------------------------------------
(* fetchData: the server finds or makes the task, opens a record and       *)
(* answers with the data to write.                                         *)

Submitted == {k \in DOMAIN tasks : tasks[k].st = "SUBMIT"}
TasksOf(v) == {k \in Submitted : SamePlate(tasks[k].veh, v)}
TasksOn(c) == {k \in Submitted : tasks[k].tid = c}

SameLong(k, l) == k = l /\ k <= LongCache

(* CustomizeTaskServiceImpl.fetch: refused when card or vehicle is in      *)
(* another business.                                                       *)
Usable(k, c) ==
  /\ \A l \in TasksOn(c) : SameLong(l, k)
  /\ tasks[k].tid \in {None, c}

MakeTask(c, v) ==
  /\ TasksOf(v) = {} /\ TasksOn(c) = {} /\ AutoGenerateTask /\ Len(tasks) < MaxTasks
  /\ tasks' = Append(tasks, [veh |-> v, tid |-> c, st |-> "SUBMIT"])

FindTask(c, v, k) ==
  /\ Cardinality(TasksOn(c)) <= 1
  /\ \/ TasksOf(v) = {k} /\ Usable(k, c) /\ UNCHANGED tasks
     \/ MakeTask(c, v) /\ k = Len(tasks')

NoTask(c, v) ==
  \/ Cardinality(TasksOn(c)) > 1 \/ Cardinality(TasksOf(v)) > 1
  \/ TasksOf(v) = {} /\ (TasksOn(c) # {} \/ ~AutoGenerateTask)
  \/ \E k \in TasksOf(v) : ~Usable(k, c)

(* Wrong variant: a vehicle with another card is let through.              *)
OutcomeForCard(k) ==
  IF OpenRecord(page.tid) THEN "open"
  ELSE IF tasks'[k].st = "DONE" \/ HoldsOtherPlate(page.tid, tasks'[k].veh) THEN "refused"
  ELSE "data"

(* The checks of EriServiceImpl.customize.                                 *)
Outcome(k) ==
  LET v == tasks'[k].veh IN
  IF OpenRecord(page.tid) THEN "open"
  ELSE IF \/ tasks'[k].st = "DONE"
          \/ HoldsOtherPlate(page.tid, v)
          \/ BoundElsewhere(page.tid, v) THEN "refused"
  ELSE "data"

OpenFor(k, v) ==
  /\ records' = IF Outcome(k) # "data" THEN records
                ELSE records \cup {[task |-> k, tid |-> page.tid, veh |-> v]}
  /\ page' = CASE Outcome(k) = "open" -> [page EXCEPT !.at = "reset"]
               [] Outcome(k) = "refused" -> page
               [] OTHER -> [page EXCEPT !.at = "fetched", !.xh = k,
                                        !.data = [tid |-> page.tid, veh |-> v]]
  /\ input' = IF Outcome(k) = "refused" THEN None ELSE input

(* Wrong variant: the record and the data are for what is typed in.        *)
CustomizeInput(k) == OpenFor(k, input)

(* customize: the record and the data are for the task's vehicle.          *)
Customize(k) == OpenFor(k, tasks'[k].veh)

(* With a task number left from before, the page asks for that task,       *)
(* whatever is typed in.  An error empties the input and leaves the button *)
(* enabled.                                                                *)
FetchData ==
  /\ page.at = "shown"
  /\ \/ page.xh # 0 /\ UNCHANGED tasks /\ Customize(page.xh)
     \/ /\ page.xh = 0 /\ input # None
        /\ \/ \E k \in 1 .. MaxTasks : FindTask(page.tid, input, k) /\ Customize(k)
           \/ /\ NoTask(page.tid, input)
              /\ input' = None
              /\ UNCHANGED <<tasks, records, page>>
  /\ UNCHANGED <<case, reader, bound, verified, sent>>

WriteCard ==
  /\ page.at = "fetched"
  /\ page' = [page EXCEPT !.at = "written"]
  /\ SendCommand([op |-> "write", data |-> page.data])
  /\ UNCHANGED <<case, input, server, verified>>

-----------------------------------------------------------------------------
(* uploadWriteResult and saveCustomizeResult, by the task's number alone.  *)

OfTask(k) == {r \in records : r.task = k}

Bind(r) ==
  /\ records' = records \ {r}
  /\ bound' = [bound EXCEPT ![r.tid] = r.veh]
  /\ tasks' = [tasks EXCEPT ![r.task].tid = r.tid, ![r.task].st = "DONE"]

(* Wrong variant: any record of the task will do.                          *)
UploadAny ==
  /\ page.at = "upload" /\ page.result
  /\ \E r \in OfTask(page.xh) : Bind(r)
  /\ page' = [page EXCEPT !.at = "done"]
  /\ UNCHANGED <<case, input, reader, verified, sent>>

(* Refused unless just one record of the task is open; the page then       *)
(* offers to try again.                                                    *)
UploadSuccess ==
  /\ page.at = "upload" /\ page.result
  /\ \E r \in records : OfTask(page.xh) = {r} /\ Bind(r)
  /\ page' = [page EXCEPT !.at = "done"]
  /\ UNCHANGED <<case, input, reader, verified, sent>>

UploadFailure ==
  /\ page.at = "upload" /\ ~page.result
  /\ records' = records \ OfTask(page.xh)
  /\ page' = [page EXCEPT !.at = "idle"]
  /\ UNCHANGED <<case, input, reader, tasks, bound, verified, sent>>

(* The dialog after a success: go on with the next, or not.                *)
Continue ==
  /\ page.at = "done"
  /\ \/ page' = ClearedPage /\ input' = None
     \/ page' = [page EXCEPT !.at = "idle"] /\ UNCHANGED input
  /\ UNCHANGED <<case, reader, server, verified, sent>>

-----------------------------------------------------------------------------
Clerk ==
  \/ \E v \in Vehicles : TypeIn(v)
  \/ \E c \in Cards \cup {None} : PutCard(c)
  \/ Query \/ Decline \/ Continue \/ Reload

Page ==
  \/ NoResponse \/ CardChecked \/ CardWritten
  \/ CheckCardStatus \/ ResetTask \/ FetchData \/ WriteCard
  \/ UploadSuccess \/ UploadFailure

Next == Clerk \/ Reader \/ Page

Spec == Init /\ [][Next]_vars

-----------------------------------------------------------------------------
MaybeCard == Cards \cup {None}
MaybeVehicle == Vehicles \cup {None}

(* Every variable keeps the form its code gives it: a task is for one      *)
(* vehicle and of one of two states, a record names a task that exists, a  *)
(* page past the inventory has the card's TID and number.                  *)
TypeOK ==
  /\ case \in Cases /\ input \in MaybeVehicle
  /\ page.at \in {"idle", "select", "check", "reset", "shown", "fetched", "written",
                  "upload", "done", "stuck"}
  /\ page.at \in {"check", "reset", "shown", "fetched", "written", "upload"} =>
       page.tid \in Cards /\ page.kh # None
  /\ page.at \in {"fetched", "written"} => page.data.tid = page.tid
  /\ page.xh \in {0} \cup DOMAIN tasks /\ page.result \in BOOLEAN
  /\ onReader \in MaybeCard
  /\ memory \in [Cards -> MaybeVehicle] /\ bound \in [Cards -> MaybeVehicle]
  /\ \A i \in DOMAIN queue : queue[i].op \in {"select", "write"}
  /\ \A i \in DOMAIN inbox : inbox[i].kind \in {"selected", "read", "failed", "alert"}
  /\ \A k \in DOMAIN tasks : tasks[k].veh \in Vehicles /\ tasks[k].tid \in MaybeCard
  /\ \A r \in records : r.task \in DOMAIN tasks /\ tasks[r.task].veh = r.veh

(* The server binds a card to a vehicle only if that card was at some time *)
(* written with that vehicle's data and read back: an answer that came too *)
(* late for its own command and is taken for another's never passes for    *)
(* the writing of another card (checkContent, saveCustomizeResult).        *)
BoundIsReadBack ==
  \A c \in Cards : bound[c] # None => <<c, bound[c]>> \in verified

(* No vehicle ends up with two cards, although one task may have records   *)
(* of two cards open and the server looks for the vehicle's card only when *)
(* it makes the record (customize, saveCustomizeResult).                   *)
OneCardPerVehicle ==
  \A c, d \in Cards :
    c # d /\ bound[c] # None /\ bound[d] # None => ~SamePlate(bound[c], bound[d])

(* A card is bound only to the plate the page shows at that moment, though *)
(* the data may be of a task left on the page from an earlier vehicle, and *)
(* the input may have changed since the texts were shown (fetchData).      *)
BoundAsShown ==
  [][\A c \in Cards : bound'[c] # bound[c] =>
       page.texts.hphm = Translate(Row(bound'[c])).hphm]_vars

(* Refinement: the desk keeps the promise of CardBinding.  At the moment a *)
(* card is bound it holds the plate that it is bound to, whatever was      *)
(* given up, came late or was written in between, and no other card has    *)
(* that plate (writeCard, uploadWriteResult, saveCustomizeResult).         *)
Plates == {Plate(row) : row \in AllRows}
PlateOf(v) == IF v = None THEN {} ELSE {Plate(Row(v))}

Holds == [c \in Cards |-> PlateOf(memory[c])]
Owner == [c \in Cards |-> PlateOf(bound[c])]

Binding == INSTANCE CardBinding WITH holds <- Holds, owner <- Owner

KeepsPromise == Binding!BSpec

(* The number the page shows for a card is the card's, out of 40 bits that *)
(* it shifts as 32 (calculateVehicleInfo, eri.js).                         *)
NumberReadBack ==
  page.tid # None => page.kh = Number[page.tid]

(* A card written right passes the check: whatever the layout has room for *)
(* comes back as the page shows it, at every edge of every field           *)
(* (calculateVehicleInfo, eri.js, translate, checkContent).                *)
GoodCardPasses ==
  \A c \in Cards, v \in Vehicles :
    memory[c] = v /\ page.tid = c /\ Encodable(Row(v)) /\ page.texts = Translate(Row(v)) =>
      CheckContent(Content(c, v), page.kh, page.texts)

(* A card that passes has the plate that is shown, and its kind of plate,  *)
(* usage and type have the number of a code in whose name the shown name   *)
(* occurs: no more than that can be told from what a card holds, as codes  *)
(* share numbers (calculateVehicleInfo, eri.js, checkContent).             *)
WrongVehicleRefused ==
  \A c \in Cards :
    LET row == Row(memory[c]) IN
    memory[c] # None /\ page.texts # BlankTexts
      /\ Encodable(row)
      /\ CheckContent(Content(c, memory[c]), page.kh, page.texts) =>
      /\ page.texts.hphm = Translate(row).hphm
      /\ \A f \in Kinds : \E d \in Codes[f] :
           Packed[f][d] = Packed[f][row[f]] /\ <<page.texts[f], d>> \in Within[f]
=============================================================================
