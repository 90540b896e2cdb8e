----------------------------- MODULE DeskProofs -----------------------------
(***************************************************************************)
(* Personalising cards at a desk, for any number of cards, vehicles, tasks *)
(* and commands: types, that a vehicle keeps one card, and, as long as at  *)
(* most one answer of the reader is late at a time, that only what was     *)
(* written, read back and shown is bound, and that the desk implements     *)
(* CardBinding.                                                            *)
(***************************************************************************)
EXTENDS Desk, CardContentProofs, FiniteSetTheorems

-----------------------------------------------------------------------------
(* The shapes of the page, the commands, the answers and the rows.         *)

PageFields == {"at", "tid", "kh", "texts", "xh", "data", "result"}
WithCard == {"check", "reset", "shown", "fetched", "written", "upload"}
WithData == {"fetched", "written", "upload"}
Ats == {"idle", "select", "done", "stuck"} \cup WithCard

Written == [tid : Cards, veh : Vehicles]
Commands == [op : {"select"}, data : {None}] \cup [op : {"write"}, data : Written]
Answers ==
  [kind : {"selected"}, tid : Cards, veh : MaybeVehicle]
    \cup [kind : {"read"}, tid : Cards, veh : Vehicles]
    \cup [kind : {"failed", "alert"}, tid : {None}, veh : {None}]
Task == [veh : Vehicles, tid : MaybeCard, st : {"SUBMIT", "DONE"}]
Record == [task : DOMAIN tasks, tid : Cards, veh : Vehicles]

PageShape ==
  /\ DOMAIN page = PageFields
  /\ page.at \in Ats /\ page.tid \in MaybeCard
  /\ page.xh \in {0} \cup DOMAIN tasks /\ page.result \in BOOLEAN
  /\ page.at \in WithCard => page.tid \in Cards /\ page.kh # None
  /\ page.at \in WithData => page.data \in Written /\ page.data.tid = page.tid

ReaderShapes ==
  /\ onReader \in MaybeCard /\ memory \in [Cards -> MaybeVehicle]
  /\ queue \in Seq(Commands) /\ inbox \in Seq(Answers)

ServerShapes ==
  /\ tasks \in Seq(Task)
  /\ records \subseteq Record
  /\ \A r \in records : tasks[r.task].veh = r.veh
  /\ bound \in [Cards -> MaybeVehicle]

Shapes ==
  /\ case \in Cases /\ input \in MaybeVehicle
  /\ PageShape /\ ReaderShapes /\ ServerShapes

-----------------------------------------------------------------------------
(* Answers that come late.                                                 *)

OneLate == \A x \in Cases : x.late <= 1

Waiting == page.at \in {"select", "written"}
FewPending == Len(queue) + Len(inbox) <= IF Waiting THEN 2 ELSE 1

NoWrite ==
  /\ \A i \in DOMAIN queue : queue[i].op # "write"
  /\ \A i \in DOMAIN inbox : inbox[i].kind # "read"

LastIsSelect ==
  IF queue # <<>> THEN queue[Len(queue)].op # "write"
  ELSE inbox # <<>> => inbox[Len(inbox)].kind # "read"

OnlyThisWrite ==
  /\ \A i \in DOMAIN queue : queue[i].op = "write" => queue[i].data = page.data
  /\ \A i \in DOMAIN inbox :
       inbox[i].kind = "read" => inbox[i].tid = page.data.tid /\ inbox[i].veh = page.data.veh

(* What may still come, by what the page is doing.                         *)
Pending ==
  /\ FewPending
  /\ page.at = "select" => LastIsSelect
  /\ page.at \in {"check", "reset", "shown", "fetched"} => NoWrite
  /\ page.at = "written" => OnlyThisWrite

ReadIsVerified ==
  \A i \in DOMAIN inbox : inbox[i].kind = "read" => <<inbox[i].tid, inbox[i].veh>> \in verified

SuccessIsVerified ==
  page.at = "upload" /\ page.result => <<page.data.tid, page.data.veh>> \in verified

OwnRecord == [task |-> page.xh, tid |-> page.data.tid, veh |-> page.data.veh]
RecordIsOpen == page.at \in WithData => OwnRecord \in records

ReadBackInv ==
  /\ Shapes /\ Pending /\ ReadIsVerified /\ SuccessIsVerified
  /\ RecordIsOpen /\ BoundIsReadBack

-----------------------------------------------------------------------------
(* What the page shows.                                                    *)

(* Plates have four to six characters after the letter, and so are read    *)
(* back from a card as the page shows them.                                *)
PlatesFit == \A row \in AllRows : Len(row.xh) \in 4 .. 6
PlatesReadBack ==
  \A row \in AllRows :
    /\ Translate(row).hphm # None
    /\ \A c \in Cards : Readout[c][row].hphm = Translate(row).hphm

InputKnown == page.at \in {"select", "check", "reset"} => input \in Vehicles
ShownIsFree == page.at = "shown" => ~OpenRecord(page.tid)
TextsShown == page.at \in {"shown"} \cup WithData => page.texts.hphm # None

SuccessAsShown ==
  page.at = "upload" /\ page.result => page.texts.hphm = Translate(Row(page.data.veh)).hphm

ShownInv == ReadBackInv /\ InputKnown /\ ShownIsFree /\ TextsShown /\ SuccessAsShown

-----------------------------------------------------------------------------
(* Vehicles and cards.                                                     *)

AloneForPlate(k) == TasksOf(tasks[k].veh) = {k}

OpenTasksAlone ==
  /\ \A r \in records : AloneForPlate(r.task)
  /\ page.xh # 0 => tasks[page.xh].st = "DONE" \/ AloneForPlate(page.xh)

PlateFree ==
  \A r \in records, d \in Cards : d # r.tid /\ bound[d] # None => ~SamePlate(bound[d], r.veh)

OneCardInv == Shapes /\ OpenTasksAlone /\ PlateFree /\ OneCardPerVehicle

-----------------------------------------------------------------------------
(* What a content is made from.                                            *)

(* The rows of all settings have the columns' types.                       *)
LEMMA RowsOfVehicles == AllRows \subseteq Rows
<1>1. ASSUME NEW x \in Cases, NEW v \in Vehicles PROVE x.rows[v] \in Rows
  BY DeskAssumption
<1> QED BY <1>1 DEF AllRows

(* The rows and the contents of cards, without their definitions.          *)
LEMMA Contents ==
  ASSUME NEW c \in Cards
  PROVE  /\ Number[c] \in Numbers
         /\ \A v \in Vehicles : case \in Cases => Row(v) \in Rows /\ Row(v) \in AllRows
         /\ \A row \in AllRows :
              row \in Rows /\ Readout[c][row] = Parse(CalculateVehicleInfo(Number[c], row))
         /\ Content(c, None) = Parse(FactoryData(Number[c]))
         /\ \A v \in Vehicles : Content(c, v) = Readout[c][Row(v)]
<1>1. Number[c] \in Numbers
  BY DeskAssumption DEF Numbers
<1>2. ASSUME NEW x \in Cases, NEW v \in Vehicles PROVE x.rows[v] \in Rows
  BY DeskAssumption
<1>3. AllRows \subseteq Rows
  BY RowsOfVehicles
<1>4. ASSUME NEW v \in Vehicles, case \in Cases PROVE Row(v) \in Rows /\ Row(v) \in AllRows
  BY <1>2, <1>4 DEF AllRows, Row
<1>5. \A row \in AllRows : Readout[c][row] = Parse(CalculateVehicleInfo(Number[c], row))
  BY DEF Readout
<1>6. Content(c, None) = Parse(FactoryData(Number[c]))
  BY DEF Content, Blank
<1>7. ASSUME NEW v \in Vehicles PROVE Content(c, v) = Readout[c][Row(v)]
  BY DeskAssumption DEF Content
<1> QED BY <1>1, <1>3, <1>4, <1>5, <1>6, <1>7

(* Every content of a card shows the card's number.                        *)
LEMMA ContentNumber ==
  ASSUME case \in Cases, NEW c \in Cards, NEW v \in MaybeVehicle
  PROVE  Content(c, v).kh = Number[c] /\ Number[c] # None
<1>1. Number[c] \in Numbers
  BY Contents
<1>2. ASSUME v = None PROVE Content(c, v).kh = Number[c]
  <2>1. Content(c, v) = Parse(FactoryData(Number[c]))
    BY <1>2, Contents
  <2> QED BY <1>1, <2>1, NumberOnBlankCard
<1>3. ASSUME v # None PROVE Content(c, v).kh = Number[c]
  <2>1. v \in Vehicles
    BY <1>3 DEF MaybeVehicle
  <2>2. Row(v) \in Rows /\ Content(c, v) = Parse(CalculateVehicleInfo(Number[c], Row(v)))
    BY <2>1, Contents
  <2> QED BY <1>1, <2>2, NumberOnCard
<1>4. Number[c] # None
  BY <1>1, NumbersType, ContentAssumption
<1> QED BY <1>2, <1>3, <1>4

-----------------------------------------------------------------------------
(* Types.                                                                  *)

(* The first of a sequence, and the others in their order.                 *)
LEMMA FirstAndOthers ==
  ASSUME NEW S, NEW s \in Seq(S), s # <<>>
  PROVE  /\ Head(s) \in S /\ Head(s) = s[1] /\ 1 \in DOMAIN s
         /\ Tail(s) \in Seq(S) /\ Len(Tail(s)) = Len(s) - 1 /\ Len(s) \in Nat
         /\ \A i \in DOMAIN Tail(s) : i + 1 \in DOMAIN s /\ Tail(s)[i] = s[i + 1]
  OBVIOUS

(* The page starts idle, with nothing on its way.                          *)
LEMMA ShapesInit == Init => Shapes
<1> SUFFICES ASSUME Init PROVE Shapes
  OBVIOUS
<1>1. case.tasks \in Seq(Task)
  BY DeskAssumption DEF Init, Task, MaybeCard
<1>2. PageShape
  BY DEF Init, PageShape, FreshPage, PageFields, Ats, WithCard, WithData, MaybeCard
<1>3. ReaderShapes
  BY DEF Init, ReaderShapes, MaybeCard, MaybeVehicle
<1>4. ServerShapes
  BY <1>1 DEF Init, ServerShapes, MaybeVehicle
<1> QED BY <1>2, <1>3, <1>4 DEF Shapes, Init, MaybeVehicle

(* The clerk.                                                              *)
LEMMA ShapesClerk ==
  ASSUME Shapes, Clerk
  PROVE  Shapes'
<1> USE DEF Shapes
<1>1. ASSUME NEW v \in Vehicles, TypeIn(v) PROVE Shapes'
  BY <1>1 DEF TypeIn, PageShape, ReaderShapes, ServerShapes, reader, server, MaybeVehicle, Record
<1>2. ASSUME NEW c \in Cards \cup {None}, PutCard(c) PROVE Shapes'
  BY <1>2 DEF PutCard, PageShape, ReaderShapes, ServerShapes, server, MaybeCard, Record
<1>3. CASE Query
  <2>1. PageShape'
    BY <1>3 DEF Query, CheckCard, server, PageShape, PageFields, Ats, WithCard, WithData, MaybeCard
  <2>2. ReaderShapes'
    BY <1>3 DEF Query, CheckCard, SendCommand, ReaderShapes, Commands
  <2>3. ServerShapes' /\ case' = case /\ input' = input
    BY <1>3 DEF Query, server, ServerShapes, Record
  <2> QED BY <2>1, <2>2, <2>3
<1>4. CASE Decline
  BY <1>4 DEF Decline, PageShape, PageFields, Ats, WithCard, WithData, ReaderShapes, ServerShapes,
              reader, server, Record
<1>5. CASE Continue
  BY <1>5 DEF Continue, PageShape, PageFields, Ats, WithCard, WithData, ReaderShapes, ServerShapes,
              reader, server, Record, ClearedPage, FreshPage, MaybeCard, MaybeVehicle
<1>6. CASE Reload
  <2>1. PageShape' /\ ServerShapes' /\ case' = case /\ input' \in MaybeVehicle
    BY <1>6 DEF Reload, PageShape, PageFields, Ats, WithCard, WithData, ServerShapes, server, Record,
                FreshPage, MaybeCard, MaybeVehicle
  <2>2. ASSUME queue # <<>>, Head(queue).op = "write" PROVE Head(queue).data.veh \in MaybeVehicle
    BY <2>2, FirstAndOthers DEF ReaderShapes, Commands, Written, MaybeVehicle
  <2>3. ReaderShapes'
    BY <1>6, <2>2 DEF Reload, ReaderShapes
  <2> QED BY <2>1, <2>3
<1> QED BY <1>1, <1>2, <1>3, <1>4, <1>5, <1>6 DEF Clerk

(* An answer takes the place of the first command.                         *)
LEMMA AnswerShapes ==
  ASSUME ReaderShapes, queue # <<>>, NEW kind, NEW c, NEW v, Answer(kind, c, v),
         [kind |-> kind, tid |-> c, veh |-> v] \in Answers
  PROVE  queue' \in Seq(Commands) /\ inbox' \in Seq(Answers)
BY FirstAndOthers DEF ReaderShapes, Answer

(* A failure takes the command and answers something or nothing.           *)
LEMMA FailsShapes ==
  ASSUME ReaderShapes, queue # <<>>, Fails
  PROVE  queue' \in Seq(Commands) /\ inbox' \in Seq(Answers)
<1>1. \A kind \in {"failed", "alert"} : [kind |-> kind, tid |-> None, veh |-> None] \in Answers
  BY DEF Answers
<1>2. CASE Answer("failed", None, None)
  BY <1>1, <1>2, AnswerShapes
<1>3. CASE Answer("alert", None, None)
  BY <1>1, <1>3, AnswerShapes
<1> QED BY <1>2, <1>3 DEF Fails

(* The reader answers with the TID of a card and the vehicle in its        *)
(* memory.                                                                 *)
LEMMA ShapesReader ==
  ASSUME Shapes, Reader
  PROVE  Shapes'
<1> USE DEF Shapes
<1>1. PageShape' /\ ServerShapes' /\ case' = case /\ input' = input
  BY DEF Reader, PageShape, ServerShapes, server, Record
<1>2. CASE ReaderSelects
  <2>1. onReader' = onReader /\ memory' = memory /\ queue # <<>>
    BY <1>2 DEF ReaderSelects
  <2>2. CASE onReader # None /\ Answer("selected", onReader, memory[onReader])
    <3>1. [kind |-> "selected", tid |-> onReader, veh |-> memory[onReader]] \in Answers
      BY <2>2 DEF Answers, ReaderShapes, MaybeCard
    <3> QED BY <1>1, <2>1, <2>2, <3>1, AnswerShapes DEF ReaderShapes
  <2>3. CASE Fails
    BY <1>1, <2>1, <2>3, FailsShapes DEF ReaderShapes
  <2> QED BY <1>2, <2>2, <2>3 DEF ReaderSelects
<1>3. CASE ReaderWrites
  <2> DEFINE data == Head(queue).data
  <2>1. queue # <<>> /\ data \in Written /\ onReader' = onReader
    BY <1>3, FirstAndOthers DEF ReaderWrites, ReaderShapes, Commands
  <2>2. memory' \in [Cards -> MaybeVehicle]
    BY <1>3, <2>1 DEF ReaderWrites, ReaderShapes, Written, MaybeVehicle
  <2>3. CASE Answer("read", data.tid, data.veh)
    <3>1. [kind |-> "read", tid |-> data.tid, veh |-> data.veh] \in Answers
      BY <2>1 DEF Answers, Written
    <3> QED BY <1>1, <2>1, <2>2, <2>3, <3>1, AnswerShapes DEF ReaderShapes
  <2>4. CASE Fails
    BY <1>1, <2>1, <2>2, <2>4, FailsShapes DEF ReaderShapes
  <2> QED BY <1>3, <2>3, <2>4 DEF ReaderWrites
<1> QED BY <1>2, <1>3 DEF Reader

(* The page, but for the server's tasks.                                   *)
LEMMA AnswerTaken ==
  ASSUME Shapes, NEW at, TakeAnswer(at)
  PROVE  /\ ReaderShapes' /\ case' = case /\ input' = input
         /\ Head(inbox) \in Answers
BY FirstAndOthers DEF TakeAnswer, Shapes, ReaderShapes

(* An answer taken puts a card's TID and number on the page.               *)
LEMMA ShapesAnswer ==
  ASSUME Shapes, CardChecked \/ CardWritten
  PROVE  Shapes'
<1> USE DEF Shapes
<1>1. CASE CardChecked
  <2> DEFINE answer == Head(inbox)
  <2>1. ReaderShapes' /\ case' = case /\ input' = input /\ answer \in Answers
    BY <1>1, AnswerTaken DEF CardChecked
  <2>2. ServerShapes' /\ tasks' = tasks
    BY <1>1 DEF CardChecked, TakeAnswer, server, ServerShapes, Record
  <2>3. ASSUME answer.kind = "selected"
        PROVE  answer.tid \in Cards /\ Content(answer.tid, answer.veh).kh # None
    BY <2>1, <2>3, ContentNumber DEF Answers
  <2>4. page' = CASE answer.kind = "selected" ->
                       [page EXCEPT !.at = "check", !.tid = answer.tid,
                                    !.kh = Content(answer.tid, answer.veh).kh]
                  [] answer.kind = "alert" -> [page EXCEPT !.at = "stuck"]
                  [] OTHER -> [page EXCEPT !.at = "idle"]
    BY <1>1 DEF CardChecked
  <2>5. PageShape'
    <3> HIDE DEF answer
    <3> QED BY <2>2, <2>3, <2>4 DEF PageShape, PageFields, Ats, WithCard, WithData, MaybeCard
  <2> QED BY <2>1, <2>2, <2>5
<1>2. CASE CardWritten
  <2> DEFINE ok == /\ Head(inbox).kind = "read"
                   /\ CheckContent(Content(Head(inbox).tid, Head(inbox).veh), page.kh, page.texts)
  <2>1. ReaderShapes' /\ case' = case /\ input' = input
    BY <1>2, AnswerTaken DEF CardWritten
  <2>2. ServerShapes' /\ tasks' = tasks
    BY <1>2 DEF CardWritten, TakeAnswer, server, ServerShapes, Record
  <2>3. /\ page.at = "written"
        /\ \/ page' = [page EXCEPT !.at = "stuck"]
           \/ page' = [page EXCEPT !.at = "upload", !.result = ok]
    BY <1>2 DEF CardWritten, TakeAnswer
  <2>4. ok \in BOOLEAN
    BY DEF CheckContent
  <2>5. PageShape'
    <3> HIDE DEF ok
    <3> QED BY <2>2, <2>3, <2>4 DEF PageShape, PageFields, Ats, WithCard, WithData
  <2> QED BY <2>1, <2>2, <2>5
<1> QED BY <1>1, <1>2

(* What fetching comes to: no task; or a task, the one on the page, the    *)
(* only one of the vehicle typed in, or a new one, and what is opened.     *)
NewTask == [veh |-> input, tid |-> page.tid, st |-> "SUBMIT"]

Found(k) ==
  \/ tasks' = tasks /\ (k = page.xh \/ (input \in Vehicles /\ TasksOf(input) = {k}))
  \/ /\ input \in Vehicles /\ TasksOf(input) = {}
     /\ tasks' = Append(tasks, NewTask) /\ k = Len(tasks')

(* FetchData finds no task, or customizes with an old or a new one.        *)
LEMMA Fetches ==
  ASSUME Shapes, FetchData
  PROVE  /\ page.at = "shown" /\ page.tid \in Cards
         /\ UNCHANGED <<case, reader, bound, verified, sent>>
         /\ \/ input' = None /\ UNCHANGED <<tasks, records, page>>
            \/ \E k \in DOMAIN tasks' : Found(k) /\ Customize(k)
         /\ tasks' \in Seq(Task) /\ DOMAIN tasks \subseteq DOMAIN tasks'
         /\ \A l \in DOMAIN tasks : tasks'[l] = tasks[l]
<1> USE DEF Shapes
<1>1. page.at = "shown" /\ page.tid \in Cards /\ tasks \in Seq(Task)
  BY DEF FetchData, PageShape, WithCard, ServerShapes
<1>2. UNCHANGED <<case, reader, bound, verified, sent>>
  BY DEF FetchData
<1>3. CASE page.xh # 0 /\ UNCHANGED tasks /\ Customize(page.xh)
  <2>1. page.xh \in DOMAIN tasks'
    BY <1>3 DEF PageShape
  <2> QED BY <1>1, <1>2, <1>3, <2>1 DEF Found
<1>4. ASSUME input # None, NEW k \in 1 .. MaxTasks, FindTask(page.tid, input, k), Customize(k)
      PROVE  /\ k \in DOMAIN tasks' /\ Found(k)
             /\ tasks' \in Seq(Task) /\ DOMAIN tasks \subseteq DOMAIN tasks'
             /\ \A l \in DOMAIN tasks : tasks'[l] = tasks[l]
  <2>1. input \in Vehicles
    BY <1>4 DEF MaybeVehicle
  <2>2. CASE TasksOf(input) = {k} /\ UNCHANGED tasks
    <3>1. k \in DOMAIN tasks
      BY <2>2 DEF TasksOf, Submitted
    <3> QED BY <1>1, <2>1, <2>2, <3>1 DEF Found
  <2>3. CASE MakeTask(page.tid, input) /\ k = Len(tasks')
    <3>1. tasks' = Append(tasks, NewTask) /\ TasksOf(input) = {}
      BY <2>3 DEF MakeTask, NewTask
    <3>2. NewTask \in Task
      BY <1>1, <2>1 DEF NewTask, Task, MaybeCard
    <3>3. tasks' \in Seq(Task) /\ Len(tasks') = Len(tasks) + 1 /\ Len(tasks) \in Nat
      BY <1>1, <3>1, <3>2
    <3>4. k \in DOMAIN tasks' /\ DOMAIN tasks \subseteq DOMAIN tasks'
      BY <1>1, <2>3, <3>3
    <3>5. \A l \in DOMAIN tasks : tasks'[l] = tasks[l]
      BY <1>1, <3>1, <3>2
    <3> QED BY <2>1, <2>3, <3>1, <3>3, <3>4, <3>5 DEF Found
  <2> QED BY <1>4, <2>2, <2>3 DEF FindTask
<1>5. CASE input' = None /\ UNCHANGED <<tasks, records, page>>
  BY <1>1, <1>2, <1>5
<1>6. CASE input # None /\ \E k \in 1 .. MaxTasks : FindTask(page.tid, input, k) /\ Customize(k)
  <2>1. PICK k \in 1 .. MaxTasks : FindTask(page.tid, input, k) /\ Customize(k)
    BY <1>6
  <2>2. /\ k \in DOMAIN tasks' /\ Found(k)
        /\ tasks' \in Seq(Task) /\ DOMAIN tasks \subseteq DOMAIN tasks'
        /\ \A l \in DOMAIN tasks : tasks'[l] = tasks[l]
    BY <1>4, <1>6, <2>1
  <2> QED BY <1>1, <1>2, <2>1, <2>2
<1>7. \/ page.xh # 0 /\ UNCHANGED tasks /\ Customize(page.xh)
      \/ input # None /\ \E k \in 1 .. MaxTasks : FindTask(page.tid, input, k) /\ Customize(k)
      \/ input' = None /\ UNCHANGED <<tasks, records, page>>
  BY DEF FetchData
<1> QED BY <1>3, <1>5, <1>6, <1>7

(* Data are handed out only for a task in progress, a card without an open *)
(* record and a vehicle that no other card has.                            *)
LEMMA Outcomes ==
  ASSUME NEW k
  PROVE  \/ Outcome(k) \in {"open", "refused"}
         \/ /\ Outcome(k) = "data" /\ tasks'[k].st # "DONE"
            /\ ~OpenRecord(page.tid) /\ ~BoundElsewhere(page.tid, tasks'[k].veh)
BY DEF Outcome

(* A customize opens the record it hands out the data of, or none.         *)
LEMMA Customizes ==
  ASSUME Shapes, NEW k, Customize(k)
  PROVE  \/ /\ records' = records /\ input' \in {input, None}
            /\ page' \in {page, [page EXCEPT !.at = "reset"]}
         \/ /\ tasks'[k].st # "DONE" /\ input' = input
            /\ ~OpenRecord(page.tid) /\ ~BoundElsewhere(page.tid, tasks'[k].veh)
            /\ records' = records \cup {[task |-> k, tid |-> page.tid, veh |-> tasks'[k].veh]}
            /\ page' = [page EXCEPT !.at = "fetched", !.xh = k,
                                    !.data = [tid |-> page.tid, veh |-> tasks'[k].veh]]
BY Outcomes DEF Customize, OpenFor

(* The data handed out are the page's card and the task's vehicle.         *)
LEMMA ShapesFetch ==
  ASSUME Shapes, FetchData
  PROVE  Shapes'
<1> USE DEF Shapes
<1>1. /\ page.at = "shown" /\ page.tid \in Cards
      /\ UNCHANGED <<case, reader, bound, verified, sent>>
      /\ tasks' \in Seq(Task) /\ DOMAIN tasks \subseteq DOMAIN tasks'
      /\ \A l \in DOMAIN tasks : tasks'[l] = tasks[l]
  BY Fetches
<1>2. ReaderShapes' /\ case' = case
  BY <1>1 DEF ReaderShapes, reader
<1>3. records \subseteq Record' /\ \A r \in records : tasks'[r.task].veh = r.veh
  BY <1>1 DEF ServerShapes, Record
<1>4. CASE input' = None /\ UNCHANGED <<tasks, records, page>>
  BY <1>1, <1>2, <1>3, <1>4 DEF PageShape, ServerShapes, MaybeVehicle
<1>5. ASSUME NEW k \in DOMAIN tasks', Customize(k) PROVE Shapes'
  <2> DEFINE v == tasks'[k].veh
  <2>1. tasks'[k] \in Task
    BY <1>1, <1>5
  <2>2. v \in Vehicles /\ k \in Nat
    BY <1>1, <2>1 DEF Task
  <2>3. CASE /\ records' = records /\ input' \in {input, None}
             /\ page' \in {page, [page EXCEPT !.at = "reset"]}
    <3>1. PageShape'
      BY <1>1, <2>3 DEF PageShape, PageFields, Ats, WithCard, WithData
    <3> QED BY <1>1, <1>2, <1>3, <2>3, <3>1 DEF ServerShapes, MaybeVehicle
  <2>4. CASE /\ records' = records \cup {[task |-> k, tid |-> page.tid, veh |-> v]}
             /\ page' = [page EXCEPT !.at = "fetched", !.xh = k, !.data = [tid |-> page.tid, veh |-> v]]
             /\ input' = input
    <3>1. PageShape'
      <4> HIDE DEF v
      <4> QED BY <1>1, <2>2, <2>4 DEF PageShape, PageFields, Ats, WithCard, WithData, Written
    <3>2. ServerShapes'
      BY <1>1, <1>3, <2>2, <2>4 DEF ServerShapes, Record
    <3> QED BY <1>2, <2>4, <3>1, <3>2
  <2> QED BY <1>5, <2>3, <2>4, Customizes
<1> QED BY <1>4, <1>5, Fetches

(* An upload of a success takes the task's only record and binds its card. *)
LEMMA Binds ==
  ASSUME Shapes, NEW r \in records, Bind(r)
  PROVE  /\ r \in Record /\ tasks[r.task].veh = r.veh
         /\ records' = records \ {r}
         /\ bound' = [bound EXCEPT ![r.tid] = r.veh]
         /\ tasks' \in Seq(Task) /\ DOMAIN tasks' = DOMAIN tasks
         /\ \A l \in DOMAIN tasks : tasks'[l].veh = tasks[l].veh
         /\ \A l \in DOMAIN tasks \ {r.task} : tasks'[l] = tasks[l]
         /\ tasks'[r.task].st = "DONE"
<1>1. r \in Record /\ tasks[r.task].veh = r.veh /\ tasks \in Seq(Task)
  BY DEF Shapes, ServerShapes
<1>2. r.task \in DOMAIN tasks /\ r.tid \in Cards
  BY <1>1 DEF Record
<1>3. tasks' = [tasks EXCEPT ![r.task] = [[tasks[r.task] EXCEPT !.tid = r.tid] EXCEPT !.st = "DONE"]]
  BY <1>1, <1>2 DEF Bind
<1>4. tasks[r.task] \in Task
  BY <1>1, <1>2
<1> DEFINE done == [[tasks[r.task] EXCEPT !.tid = r.tid] EXCEPT !.st = "DONE"]
<1>5. done \in Task /\ done.veh = tasks[r.task].veh /\ done.st = "DONE"
  BY <1>2, <1>4 DEF Task, MaybeCard
<1>6. tasks' = [tasks EXCEPT ![r.task] = done]
  BY <1>3
<1> HIDE DEF done
<1>7. tasks' \in Seq(Task) /\ DOMAIN tasks' = DOMAIN tasks
  BY <1>1, <1>2, <1>5, <1>6
<1>8. /\ \A l \in DOMAIN tasks \ {r.task} : tasks'[l] = tasks[l]
      /\ tasks'[r.task] = done
  BY <1>1, <1>2, <1>6
<1> QED BY <1>1, <1>5, <1>7, <1>8 DEF Bind

(* An upload removes the record that it ends.                              *)
LEMMA ShapesUpload ==
  ASSUME Shapes, UploadSuccess
  PROVE  Shapes'
<1> USE DEF Shapes
<1>1. PICK r \in records : OfTask(page.xh) = {r} /\ Bind(r)
  BY DEF UploadSuccess
<1>2. /\ r \in Record /\ tasks[r.task].veh = r.veh
      /\ records' = records \ {r}
      /\ bound' = [bound EXCEPT ![r.tid] = r.veh]
      /\ tasks' \in Seq(Task) /\ DOMAIN tasks' = DOMAIN tasks
      /\ \A l \in DOMAIN tasks : tasks'[l].veh = tasks[l].veh
  BY <1>1, Binds
<1>3. PageShape'
  BY <1>2 DEF UploadSuccess, PageShape, PageFields, Ats, WithCard, WithData
<1>4. records' \subseteq Record'
  BY <1>2 DEF ServerShapes, Record
<1>5. \A s \in records' : tasks'[s.task].veh = s.veh
  BY <1>2 DEF ServerShapes, Record
<1>6. r.tid \in Cards /\ r.veh \in MaybeVehicle
  BY <1>2 DEF Record, MaybeVehicle
<1>7. bound' \in [Cards -> MaybeVehicle]
  BY <1>2, <1>6 DEF ServerShapes
<1> QED BY <1>2, <1>3, <1>4, <1>5, <1>7 DEF UploadSuccess, ReaderShapes, ServerShapes, reader

(* No step of the page leaves the shapes.                                  *)
LEMMA ShapesPage ==
  ASSUME Shapes, Page
  PROVE  Shapes'
<1> USE DEF Shapes
<1>1. CASE NoResponse
  <2>1. PageShape'
    BY <1>1 DEF NoResponse, server, PageShape, PageFields, Ats, WithCard, WithData
  <2> QED BY <1>1, <2>1 DEF NoResponse, ReaderShapes, ServerShapes, reader, server, Record
<1>2. CASE CheckCardStatus
  <2>1. ReaderShapes' /\ ServerShapes' /\ case' = case /\ input' \in MaybeVehicle
    BY <1>2 DEF CheckCardStatus, ReaderShapes, ServerShapes, reader, server, Record, MaybeVehicle
  <2>2. page.at = "check" /\ UNCHANGED tasks
    BY <1>2 DEF CheckCardStatus, server
  <2>3. ASSUME page' = [page EXCEPT !.at = "reset"] PROVE PageShape'
    BY <2>2, <2>3 DEF PageShape, PageFields, Ats, WithCard, WithData
  <2>4. ASSUME page' = ClearedPage PROVE PageShape'
    BY <2>2, <2>4 DEF PageShape, PageFields, Ats, WithCard, WithData, ClearedPage, FreshPage, MaybeCard
  <2>5. ASSUME NEW texts, page' = [page EXCEPT !.at = "shown", !.texts = texts] PROVE PageShape'
    BY <2>2, <2>5 DEF PageShape, PageFields, Ats, WithCard, WithData
  <2>6. PageShape'
    BY <1>2, <2>3, <2>4, <2>5 DEF CheckCardStatus
  <2> QED BY <2>1, <2>6
<1>3. CASE ResetTask
  <2>1. PageShape'
    BY <1>3 DEF ResetTask, CheckCard, PageShape, PageFields, Ats, WithCard, WithData, MaybeCard
  <2>2. ReaderShapes'
    BY <1>3 DEF ResetTask, CheckCard, SendCommand, ReaderShapes, Commands
  <2>3. ServerShapes' /\ case' = case /\ input' = input
    BY <1>3 DEF ResetTask, ServerShapes, Record
  <2> QED BY <2>1, <2>2, <2>3
<1>4. CASE WriteCard
  <2>1. PageShape' /\ page.data \in Written
    BY <1>4 DEF WriteCard, PageShape, PageFields, Ats, WithCard, WithData, server
  <2>2. ReaderShapes'
    BY <1>4, <2>1 DEF WriteCard, SendCommand, ReaderShapes, Commands
  <2>3. ServerShapes' /\ case' = case /\ input' = input
    BY <1>4 DEF WriteCard, ServerShapes, Record, server
  <2> QED BY <2>1, <2>2, <2>3
<1>5. CASE UploadFailure
  BY <1>5 DEF UploadFailure, PageShape, PageFields, Ats, WithCard, WithData, ReaderShapes, ServerShapes,
              reader, Record
<1> QED BY <1>1, <1>2, <1>3, <1>4, <1>5, ShapesAnswer, ShapesFetch, ShapesUpload DEF Page

(* Nor does any step of the desk.                                          *)
LEMMA ShapesStep ==
  ASSUME Shapes, [Next]_vars
  PROVE  Shapes'
<1>1. CASE UNCHANGED vars
  BY <1>1 DEF vars, reader, server, Shapes, PageShape, ReaderShapes, ServerShapes, Record
<1> QED BY <1>1, ShapesClerk, ShapesReader, ShapesPage DEF Next

(* In every reachable state the page, the reader and the server fit        *)
(* together as Shapes says (customizeEdit.jsp, EriServiceImpl).            *)
THEOREM ShapesAlways == Spec => []Shapes
<1> QED BY ShapesInit, ShapesStep, PTL DEF Spec

(* TypeOK is the part of the shapes that the run checks.                   *)
LEMMA ShapesAreTypes == Shapes => TypeOK
<1> SUFFICES ASSUME Shapes PROVE TypeOK
  OBVIOUS
<1>1. /\ case \in Cases /\ input \in MaybeVehicle
      /\ page.at \in {"idle", "select", "check", "reset", "shown", "fetched", "written",
                      "upload", "done", "stuck"}
      /\ page.at \in {"check", "reset", "shown", "fetched", "written", "upload"} =>
           page.tid \in Cards /\ page.kh # None
      /\ page.at \in {"fetched", "written"} => page.data.tid = page.tid
      /\ page.xh \in {0} \cup DOMAIN tasks /\ page.result \in BOOLEAN
  BY DEF Shapes, PageShape, Ats, WithCard, WithData
<1>2. /\ onReader \in MaybeCard
      /\ memory \in [Cards -> MaybeVehicle] /\ bound \in [Cards -> MaybeVehicle]
  BY DEF Shapes, ReaderShapes, ServerShapes
<1>3. \A i \in DOMAIN queue : queue[i].op \in {"select", "write"}
  BY DEF Shapes, ReaderShapes, Commands
<1>4. \A i \in DOMAIN inbox : inbox[i].kind \in {"selected", "read", "failed", "alert"}
  BY DEF Shapes, ReaderShapes, Answers
<1>5. \A k \in DOMAIN tasks : tasks[k].veh \in Vehicles /\ tasks[k].tid \in MaybeCard
  <2>1. tasks \in Seq(Task)
    BY DEF Shapes, ServerShapes
  <2> TAKE k \in DOMAIN tasks
  <2>2. tasks[k] \in Task
    BY <2>1
  <2> QED BY <2>2 DEF Task
<1>6. \A r \in records : r.task \in DOMAIN tasks /\ tasks[r.task].veh = r.veh
  BY DEF Shapes, ServerShapes, Record
<1> QED BY <1>1, <1>2, <1>3, <1>4, <1>5, <1>6 DEF TypeOK

(* Desk.TypeOK: every variable keeps its form whatever the reader answers, *)
(* and whenever: a page past the inventory has a card's TID and number, a  *)
(* record names a task that exists and the vehicle of that task            *)
(* (customizeEdit.jsp, EriServiceImpl.customize).                          *)
THEOREM TypeCorrect == Spec => []TypeOK
<1> QED BY ShapesAlways, ShapesAreTypes, PTL

-----------------------------------------------------------------------------
(* A vehicle keeps one card.                                               *)

(* To be of one plate is an equivalence.                                   *)
LEMMA SamePlateIsEquivalence ==
  /\ \A u : SamePlate(u, u)
  /\ \A u, v : SamePlate(u, v) => SamePlate(v, u)
  /\ \A u, v, w : SamePlate(u, v) /\ SamePlate(v, w) => SamePlate(u, w)
BY DEF SamePlate

(* Vehicles of one plate share their tasks.                                *)
LEMMA PlatesHaveTheirTasks ==
  \A u, v : SamePlate(u, v) => TasksOf(u) = TasksOf(v)
BY SamePlateIsEquivalence DEF TasksOf

(* No step changes which vehicles share a plate.                           *)
LEMMA PlatesStay ==
  ASSUME case' = case
  PROVE  \A u, v : SamePlate(u, v)' <=> SamePlate(u, v)
BY DEF SamePlate, Row

(* Steps that leave tasks and bindings alone and open no record.           *)
LEMMA QuietStep ==
  ASSUME OneCardInv, Shapes', UNCHANGED <<case, tasks, bound>>, records' \subseteq records,
         page'.xh \in {0, page.xh}
  PROVE  OneCardInv'
<1>1. \A u, v : SamePlate(u, v)' <=> SamePlate(u, v)
  BY PlatesStay
<1>2. \A k : AloneForPlate(k) => AloneForPlate(k)'
  BY <1>1 DEF AloneForPlate, TasksOf, Submitted
<1>3. OpenTasksAlone'
  BY <1>2 DEF OneCardInv, OpenTasksAlone
<1>4. PlateFree' /\ OneCardPerVehicle'
  BY <1>1 DEF OneCardInv, PlateFree, OneCardPerVehicle
<1> QED BY <1>3, <1>4 DEF OneCardInv

(* The task that is found is the only one open for its plate.              *)
LEMMA FoundAlone ==
  ASSUME Shapes, OpenTasksAlone, case' = case, NEW k \in DOMAIN tasks', Found(k)
  PROVE  /\ \A l \in DOMAIN tasks : AloneForPlate(l) => AloneForPlate(l)'
         /\ tasks'[k].st = "DONE" \/ AloneForPlate(k)'
<1>1. \A u, v : SamePlate(u, v)' <=> SamePlate(u, v)
  BY PlatesStay
<1>2. tasks \in Seq(Task)
  BY DEF Shapes, ServerShapes
<1>3. CASE tasks' = tasks /\ (k = page.xh \/ (input \in Vehicles /\ TasksOf(input) = {k}))
  <2>1. \A l : AloneForPlate(l) => AloneForPlate(l)'
    BY <1>1, <1>3 DEF AloneForPlate, TasksOf, Submitted
  <2>2. CASE k = page.xh
    <3>1. k # 0
      BY <1>2, <1>3
    <3> QED BY <1>3, <2>1, <2>2, <3>1 DEF OpenTasksAlone
  <2>3. CASE TasksOf(input) = {k}
    <3>1. SamePlate(tasks[k].veh, input)
      BY <2>3 DEF TasksOf
    <3>2. AloneForPlate(k)
      BY <2>3, <3>1, PlatesHaveTheirTasks DEF AloneForPlate
    <3> QED BY <2>1, <3>2
  <2> QED BY <1>3, <2>1, <2>2, <2>3
<1>4. CASE /\ input \in Vehicles /\ TasksOf(input) = {}
           /\ tasks' = Append(tasks, NewTask) /\ k = Len(tasks')
  <2>1. /\ k = Len(tasks) + 1 /\ DOMAIN tasks' = DOMAIN tasks \cup {k} /\ k \notin DOMAIN tasks
        /\ tasks'[k] = NewTask /\ \A l \in DOMAIN tasks : tasks'[l] = tasks[l]
    BY <1>2, <1>4
  <2>2. Submitted' = Submitted \cup {k} /\ tasks'[k].veh = input
    BY <2>1 DEF Submitted, NewTask
  <2>3. \A u : TasksOf(u)' = TasksOf(u) \cup (IF SamePlate(input, u) THEN {k} ELSE {})
    <3> TAKE u
    <3>1. TasksOf(u)' = {l \in Submitted' : SamePlate(tasks'[l].veh, u)}
      BY <1>1 DEF TasksOf
    <3> QED BY <2>1, <2>2, <3>1 DEF TasksOf, Submitted
  <2>4. ASSUME NEW l \in DOMAIN tasks, AloneForPlate(l) PROVE AloneForPlate(l)'
    <3>1. ~SamePlate(input, tasks[l].veh)
      BY <1>4, <2>4, PlatesHaveTheirTasks DEF AloneForPlate
    <3> QED BY <2>1, <2>3, <2>4, <3>1 DEF AloneForPlate
  <2>5. AloneForPlate(k)'
    BY <1>4, <2>2, <2>3, SamePlateIsEquivalence DEF AloneForPlate
  <2> QED BY <2>4, <2>5
<1> QED BY <1>3, <1>4 DEF Found

(* A task is made only for a plate without an open one, and a record       *)
(* opened only for a vehicle no other card has.                            *)
LEMMA OneCardFetch ==
  ASSUME OneCardInv, Shapes', FetchData
  PROVE  OneCardInv'
<1>1. /\ page.tid \in Cards /\ case' = case /\ bound' = bound
      /\ DOMAIN tasks \subseteq DOMAIN tasks' /\ \A l \in DOMAIN tasks : tasks'[l] = tasks[l]
  BY Fetches DEF OneCardInv
<1>2. \A u, v : SamePlate(u, v)' <=> SamePlate(u, v)
  BY <1>1, PlatesStay
<1>3. CASE UNCHANGED <<tasks, records, page>>
  BY <1>1, <1>3, QuietStep
<1>4. ASSUME NEW k \in DOMAIN tasks', Found(k), Customize(k) PROVE OneCardInv'
  <2> DEFINE v == tasks'[k].veh
             new == [task |-> k, tid |-> page.tid, veh |-> v]
  <2>1. /\ \A l \in DOMAIN tasks : AloneForPlate(l) => AloneForPlate(l)'
        /\ tasks'[k].st = "DONE" \/ AloneForPlate(k)'
    BY <1>1, <1>4, FoundAlone DEF OneCardInv
  <2>2. \A r \in records : r.task \in DOMAIN tasks
    BY DEF OneCardInv, Shapes, ServerShapes, Record
  <2>3. \A r \in records : AloneForPlate(r.task)'
    BY <2>1, <2>2 DEF OneCardInv, OpenTasksAlone
  <2> PICK h : h = page.xh
    OBVIOUS
  <2>4. h # 0 => tasks'[h].st = "DONE" \/ AloneForPlate(h)'
    <3>1. h # 0 => h \in DOMAIN tasks
      BY DEF OneCardInv, Shapes, PageShape
    <3>2. h # 0 => tasks[h].st = "DONE" \/ AloneForPlate(h)
      BY DEF OneCardInv, OpenTasksAlone
    <3> QED BY <1>1, <2>1, <3>1, <3>2
  <2>5. OneCardPerVehicle'
    BY <1>1, <1>2 DEF OneCardInv, OneCardPerVehicle
  <2>6. CASE records' = records /\ page'.xh = page.xh
    <3>1. PlateFree'
      BY <1>1, <1>2, <2>6 DEF OneCardInv, PlateFree
    <3>2. OpenTasksAlone'
      BY <2>3, <2>4, <2>6 DEF OpenTasksAlone
    <3> QED BY <2>5, <3>1, <3>2 DEF OneCardInv
  <2>7. CASE /\ tasks'[k].st # "DONE" /\ ~BoundElsewhere(page.tid, v)
             /\ records' = records \cup {new} /\ page'.xh = k
    <3>1. AloneForPlate(k)'
      BY <2>1, <2>7
    <3>2. OpenTasksAlone'
      BY <2>3, <2>7, <3>1 DEF OpenTasksAlone
    <3>3. \A d \in Cards : d # page.tid /\ bound[d] # None => ~SamePlate(bound[d], v)
      BY <2>7 DEF BoundElsewhere
    <3>4. PlateFree'
      BY <1>1, <1>2, <2>7, <3>3 DEF OneCardInv, PlateFree
    <3> QED BY <2>5, <3>2, <3>4 DEF OneCardInv
  <2>8. DOMAIN page = PageFields
    BY DEF OneCardInv, Shapes, PageShape
  <2>9. CASE /\ records' = records
             /\ page' \in {page, [page EXCEPT !.at = "reset"]}
    BY <2>6, <2>8, <2>9 DEF PageFields
  <2>10. CASE /\ tasks'[k].st # "DONE" /\ ~BoundElsewhere(page.tid, v)
              /\ records' = records \cup {new}
              /\ page' = [page EXCEPT !.at = "fetched", !.xh = k, !.data = [tid |-> page.tid, veh |-> v]]
    <3> HIDE DEF v, new
    <3> QED BY <2>7, <2>8, <2>10 DEF PageFields
  <2> QED BY <1>4, <2>9, <2>10, Customizes DEF OneCardInv
<1> QED BY <1>3, <1>4, Fetches DEF OneCardInv

(* The first success of a task ends it, so that no other record of its     *)
(* vehicle is open when the vehicle has a card.                            *)
LEMMA OneCardUpload ==
  ASSUME OneCardInv, Shapes', UploadSuccess
  PROVE  OneCardInv'
<1> USE DEF OneCardInv
<1>1. PICK r \in records : OfTask(page.xh) = {r} /\ Bind(r)
  BY DEF UploadSuccess
<1>2. /\ r \in Record /\ tasks[r.task].veh = r.veh
      /\ records' = records \ {r}
      /\ bound' = [bound EXCEPT ![r.tid] = r.veh]
      /\ DOMAIN tasks' = DOMAIN tasks
      /\ \A l \in DOMAIN tasks : tasks'[l].veh = tasks[l].veh
      /\ \A l \in DOMAIN tasks \ {r.task} : tasks'[l] = tasks[l]
      /\ tasks'[r.task].st = "DONE"
  BY <1>1, Binds
<1>3. r.task = page.xh /\ \A s \in records' : s.task # r.task
  BY <1>1, <1>2 DEF OfTask
<1>4. case' = case /\ page'.xh = page.xh
  BY DEF UploadSuccess, Shapes, PageShape, PageFields
<1>5. \A u, v : SamePlate(u, v)' <=> SamePlate(u, v)
  BY <1>4, PlatesStay
<1>6. \A u : TasksOf(u)' = TasksOf(u) \ {r.task}
  <2>1. Submitted' = Submitted \ {r.task}
    BY <1>2 DEF Submitted
  <2>2. \A u : TasksOf(u)' = {l \in Submitted' : SamePlate(tasks'[l].veh, u)}
    BY <1>5 DEF TasksOf
  <2> QED BY <1>2, <2>1, <2>2 DEF TasksOf, Submitted
<1>7. \A s \in records : s.task \in DOMAIN tasks /\ tasks[s.task].veh = s.veh /\ s.tid \in Cards
  BY DEF Shapes, ServerShapes, Record
<1>8. \A s \in records : TasksOf(s.veh) = {s.task}
  BY <1>7 DEF OpenTasksAlone, AloneForPlate
<1>9. \A s \in records' : AloneForPlate(s.task)'
  BY <1>2, <1>3, <1>6, <1>7, <1>8 DEF AloneForPlate
<1>10. OpenTasksAlone'
  BY <1>2, <1>3, <1>4, <1>9 DEF OpenTasksAlone
<1>11. \A s \in records' : ~SamePlate(r.veh, s.veh)
  BY <1>2, <1>3, <1>8, PlatesHaveTheirTasks
<1>12. r.tid \in Cards /\ DOMAIN bound = Cards
  BY <1>2 DEF Record, Shapes, ServerShapes
<1>13. \A d \in Cards : bound'[d] = IF d = r.tid THEN r.veh ELSE bound[d]
  BY <1>2, <1>12
<1>14. PlateFree'
  <2> SUFFICES ASSUME NEW s \in records', NEW d \in Cards, d # s.tid, bound'[d] # None
               PROVE  ~SamePlate(bound'[d], s.veh)
    BY <1>5 DEF PlateFree
  <2> QED BY <1>2, <1>11, <1>13 DEF PlateFree
<1>15. \A d \in Cards : d # r.tid /\ bound[d] # None => ~SamePlate(bound[d], r.veh)
  BY DEF PlateFree
<1>16. OneCardPerVehicle'
  <2> SUFFICES ASSUME NEW c \in Cards, NEW d \in Cards, c # d, bound'[c] # None, bound'[d] # None
               PROVE  ~SamePlate(bound'[c], bound'[d])
    BY <1>5 DEF OneCardPerVehicle
  <2>1. CASE c = r.tid
    BY <1>13, <1>15, <2>1, SamePlateIsEquivalence
  <2>2. CASE d = r.tid
    BY <1>13, <1>15, <2>2
  <2>3. CASE c # r.tid /\ d # r.tid
    BY <1>13, <2>3 DEF OneCardPerVehicle
  <2> QED BY <2>1, <2>2, <2>3
<1> QED BY <1>10, <1>14, <1>16

(* No task of the start has a record, and no vehicle two cards.            *)
LEMMA OneCardInit == Init => OneCardInv
<1> SUFFICES ASSUME Init PROVE OneCardInv
  OBVIOUS
<1>1. records = {} /\ page.xh = 0 /\ \A c \in Cards : bound[c] = None
  BY DEF Init, FreshPage
<1> QED BY <1>1, ShapesInit DEF OneCardInv, OpenTasksAlone, PlateFree, OneCardPerVehicle

(* All other steps leave tasks and bindings alone.                         *)
LEMMA OneCardStep ==
  ASSUME OneCardInv, [Next]_vars
  PROVE  OneCardInv'
<1> DEFINE Quiet == /\ UNCHANGED <<case, tasks, bound>> /\ records' \subseteq records
                    /\ page'.xh \in {0, page.xh}
<1>1. Shapes' /\ DOMAIN page = PageFields
  BY ShapesStep DEF OneCardInv, Shapes, PageShape
<1> USE <1>1 DEF PageFields
<1>2. CASE UNCHANGED vars
  <2>1. Quiet
    BY <1>2 DEF vars, server
  <2> QED BY <2>1, QuietStep
<1>3. CASE Clerk
  <2>1. ASSUME \E v \in Vehicles : TypeIn(v) PROVE Quiet
    BY <2>1 DEF TypeIn, server
  <2>2. ASSUME \E c \in Cards \cup {None} : PutCard(c) PROVE Quiet
    BY <2>2 DEF PutCard, server
  <2>3. ASSUME Query PROVE Quiet
    BY <2>3 DEF Query, CheckCard, server
  <2>4. ASSUME Decline PROVE Quiet
    BY <2>4 DEF Decline, server
  <2>5. ASSUME Continue PROVE Quiet
    BY <2>5 DEF Continue, ClearedPage, FreshPage, server
  <2>6. ASSUME Reload PROVE Quiet
    BY <2>6 DEF Reload, FreshPage, server
  <2>7. Quiet
    BY <1>3, <2>1, <2>2, <2>3, <2>4, <2>5, <2>6 DEF Clerk
  <2> QED BY <2>7, QuietStep
<1>4. CASE Reader
  <2>1. Quiet
    BY <1>4 DEF Reader, server
  <2> QED BY <2>1, QuietStep
<1>5. CASE Page
  <2>1. ASSUME NoResponse PROVE Quiet
    BY <2>1 DEF NoResponse, server
  <2>2. ASSUME CardChecked PROVE Quiet
    BY <2>2 DEF CardChecked, TakeAnswer, server
  <2>3. ASSUME CardWritten PROVE Quiet
    BY <2>3 DEF CardWritten, TakeAnswer, server
  <2>4. ASSUME CheckCardStatus PROVE Quiet
    BY <2>4 DEF CheckCardStatus, ClearedPage, FreshPage, server
  <2>5. ASSUME ResetTask PROVE Quiet
    BY <2>5 DEF ResetTask, CheckCard
  <2>6. ASSUME WriteCard PROVE Quiet
    BY <2>6 DEF WriteCard, server
  <2>7. ASSUME UploadFailure PROVE Quiet
    BY <2>7 DEF UploadFailure
  <2>8. CASE Quiet
    BY <2>8, QuietStep
  <2> HIDE DEF Quiet
  <2> QED BY <1>5, <2>1, <2>2, <2>3, <2>4, <2>5, <2>6, <2>7, <2>8, OneCardFetch, OneCardUpload DEF Page
<1> QED BY <1>2, <1>3, <1>4, <1>5 DEF Next

(* Desk.OneCardPerVehicle: whatever cards the clerk lays down, however     *)
(* late the answers come, and though records of two cards may be open for  *)
(* one task, no vehicle ends up with two cards (EriServiceImpl.customize,  *)
(* saveCustomizeResult).                                                   *)
THEOREM OneCard == Spec => []OneCardPerVehicle
<1>1. OneCardInv => OneCardPerVehicle
  BY DEF OneCardInv
<1> QED BY <1>1, OneCardInit, OneCardStep, PTL DEF Spec

-----------------------------------------------------------------------------
(* With at most one answer late at a time, what is bound was read back.    *)

(* Nothing is pending at the start.                                        *)
LEMMA ReadBackInit == Init => ReadBackInv
<1> SUFFICES ASSUME Init PROVE ReadBackInv
  OBVIOUS
<1>1. page.at = "idle" /\ queue = <<>> /\ inbox = <<>>
  BY DEF Init, FreshPage
<1>2. Pending
  BY <1>1 DEF Pending, FewPending, Waiting
<1>3. ReadIsVerified /\ SuccessIsVerified /\ RecordIsOpen
  BY <1>1 DEF ReadIsVerified, SuccessIsVerified, RecordIsOpen, WithData
<1>4. BoundIsReadBack
  BY DEF Init, BoundIsReadBack
<1> QED BY <1>2, <1>3, <1>4, ShapesInit DEF ReadBackInv

(* Steps that send nothing, take nothing and bind nothing.                 *)
LEMMA QuietPage ==
  ASSUME ReadBackInv, Shapes', UNCHANGED <<queue, inbox, bound, verified>>,
         \/ page'.at \in {"idle", "stuck", "done"} /\ ~Waiting
         \/ page' = page /\ UNCHANGED records
         \/ page.at \in {"check", "shown"} /\ page'.at \in {"check", "reset", "shown"}
  PROVE  ReadBackInv'
<1>1. FewPending'
  BY DEF ReadBackInv, Pending, FewPending, Waiting
<1>2. Pending'
  BY <1>1 DEF ReadBackInv, Pending, NoWrite, LastIsSelect, OnlyThisWrite, Waiting
<1>3. ReadIsVerified' /\ BoundIsReadBack'
  BY DEF ReadBackInv, ReadIsVerified, BoundIsReadBack
<1>4. SuccessIsVerified' /\ RecordIsOpen'
  BY DEF ReadBackInv, SuccessIsVerified, RecordIsOpen, OwnRecord, WithData
<1> QED BY <1>2, <1>3, <1>4 DEF ReadBackInv

(* An inventory is the last command of those that are pending.             *)
LEMMA SendsSelect ==
  ASSUME ReadBackInv, Shapes', CheckCard, ~Waiting, UNCHANGED <<bound, verified>>
  PROVE  ReadBackInv'
<1> DEFINE select == [op |-> "select", data |-> None]
<1>1. /\ page'.at = "select" /\ inbox' = inbox /\ queue' = Append(queue, select)
  BY DEF CheckCard, SendCommand, ReadBackInv, Shapes, PageShape, PageFields
<1>2. queue \in Seq(Commands) /\ inbox \in Seq(Answers) /\ select \in Commands
  BY DEF ReadBackInv, Shapes, ReaderShapes, Commands
<1>3. FewPending'
  BY <1>1, <1>2 DEF ReadBackInv, Pending, FewPending, Waiting
<1>4. LastIsSelect'
  BY <1>1, <1>2 DEF LastIsSelect
<1>5. Pending'
  BY <1>1, <1>3, <1>4 DEF Pending
<1>6. ReadIsVerified' /\ BoundIsReadBack' /\ SuccessIsVerified' /\ RecordIsOpen'
  BY <1>1 DEF ReadBackInv, ReadIsVerified, BoundIsReadBack, SuccessIsVerified, RecordIsOpen, WithData
<1> QED BY <1>5, <1>6 DEF ReadBackInv

(* A write goes out only when no other write is pending.                   *)
LEMMA SendsWrite ==
  ASSUME ReadBackInv, Shapes', WriteCard
  PROVE  ReadBackInv'
<1> DEFINE write == [op |-> "write", data |-> page.data]
<1>1. /\ page.at = "fetched" /\ page'.at = "written" /\ page'.data = page.data
      /\ page'.xh = page.xh /\ inbox' = inbox /\ queue' = Append(queue, write)
      /\ UNCHANGED <<records, bound, verified>>
  BY DEF WriteCard, SendCommand, server, ReadBackInv, Shapes, PageShape, PageFields
<1>2. queue \in Seq(Commands) /\ inbox \in Seq(Answers) /\ write \in Commands
  BY <1>1 DEF ReadBackInv, Shapes, ReaderShapes, PageShape, WithData, Commands
<1>3. FewPending'
  BY <1>1, <1>2 DEF ReadBackInv, Pending, FewPending, Waiting
<1>4. NoWrite
  BY <1>1 DEF ReadBackInv, Pending
<1>5. OnlyThisWrite'
  <2>1. \A i \in DOMAIN queue' : queue'[i].op = "write" => queue'[i].data = page.data
    BY <1>1, <1>2, <1>4 DEF NoWrite
  <2> QED BY <1>1, <1>4, <2>1 DEF OnlyThisWrite, NoWrite
<1>6. Pending'
  BY <1>1, <1>3, <1>5 DEF Pending
<1>7. ReadIsVerified' /\ BoundIsReadBack' /\ SuccessIsVerified' /\ RecordIsOpen'
  BY <1>1 DEF ReadBackInv, ReadIsVerified, BoundIsReadBack, SuccessIsVerified, RecordIsOpen,
              OwnRecord, WithData
<1> QED BY <1>6, <1>7 DEF ReadBackInv

(* The reader answers its first command; a reading is of what it was told  *)
(* to write.                                                               *)
LEMMA ReaderAnswers ==
  ASSUME ReaderShapes, Reader
  PROVE  /\ queue # <<>> /\ verified \subseteq verified' /\ UNCHANGED <<page, records, bound>>
         /\ \E kind, c, v :
              /\ Answer(kind, c, v)
              /\ kind = "read" => /\ Head(queue).op = "write"
                                  /\ c = Head(queue).data.tid /\ v = Head(queue).data.veh
                                  /\ <<c, v>> \in verified'
<1>1. UNCHANGED <<page, records, bound>>
  BY DEF Reader, server
<1>2. ASSUME Fails PROVE \E kind \in {"failed", "alert"} : \E c, v : Answer(kind, c, v)
  BY <1>2 DEF Fails
<1>3. CASE ReaderSelects
  <2>1. queue # <<>> /\ verified' = verified
    BY <1>3 DEF ReaderSelects
  <2>2. Fails \/ \E c, v : Answer("selected", c, v)
    BY <1>3 DEF ReaderSelects
  <2> QED BY <1>1, <1>2, <2>1, <2>2
<1>4. CASE ReaderWrites
  <2>1. queue # <<>> /\ verified \subseteq verified' /\ Head(queue).op = "write"
    BY <1>4 DEF ReaderWrites
  <2>2. CASE Fails
    BY <1>1, <1>2, <2>1, <2>2
  <2>3. CASE /\ Answer("read", Head(queue).data.tid, Head(queue).data.veh)
             /\ <<Head(queue).data.tid, Head(queue).data.veh>> \in verified'
    BY <1>1, <2>1, <2>3
  <2>4. \/ Fails
        \/ /\ Answer("read", Head(queue).data.tid, Head(queue).data.veh)
           /\ <<Head(queue).data.tid, Head(queue).data.veh>> \in verified'
    BY <1>4 DEF ReaderWrites
  <2> QED BY <2>2, <2>3, <2>4
<1> QED BY <1>3, <1>4 DEF Reader

(* The answer of a write comes from its own command and is verified.       *)
LEMMA ReadBackReader ==
  ASSUME ReadBackInv, Shapes', Reader
  PROVE  ReadBackInv'
<1>1. queue \in Seq(Commands) /\ inbox \in Seq(Answers)
  BY DEF ReadBackInv, Shapes, ReaderShapes
<1>2. queue # <<>> /\ verified \subseteq verified' /\ UNCHANGED <<page, records, bound>>
  BY ReaderAnswers DEF ReadBackInv, Shapes
<1>3. PICK kind, c, v :
        /\ Answer(kind, c, v)
        /\ kind = "read" => /\ Head(queue).op = "write"
                            /\ c = Head(queue).data.tid /\ v = Head(queue).data.veh
                            /\ <<c, v>> \in verified'
  BY ReaderAnswers DEF ReadBackInv, Shapes
<1> DEFINE answer == [kind |-> kind, tid |-> c, veh |-> v]
<1>4. queue' = Tail(queue) /\ inbox' = Append(inbox, answer)
  BY <1>3 DEF Answer
<1>5. /\ Len(queue') = Len(queue) - 1 /\ Len(queue) \in Nat /\ 1 \in DOMAIN queue
      /\ Head(queue) = queue[1]
      /\ \A i \in DOMAIN queue' : i + 1 \in DOMAIN queue /\ queue'[i] = queue[i + 1]
  BY <1>1, <1>2, <1>4, FirstAndOthers
<1>6. /\ Len(inbox') = Len(inbox) + 1 /\ Len(inbox) \in Nat
      /\ \A i \in DOMAIN inbox' : \/ i \in DOMAIN inbox /\ inbox'[i] = inbox[i]
                                  \/ i = Len(inbox') /\ inbox'[i] = answer
  BY <1>1, <1>4
<1>7. inbox' # <<>> /\ inbox'[Len(inbox')] = answer
  BY <1>1, <1>4
<1>8. FewPending'
  BY <1>2, <1>5, <1>6 DEF ReadBackInv, Pending, FewPending, Waiting
<1>9. ASSUME LastIsSelect PROVE LastIsSelect'
  <2>1. queue[Len(queue)].op # "write"
    BY <1>2, <1>9 DEF LastIsSelect
  <2>2. CASE queue' = <<>>
    <3>1. Len(queue) = 1
      BY <1>5, <2>2
    <3>2. kind # "read"
      BY <1>3, <1>5, <2>1, <3>1
    <3> QED BY <1>7, <2>2, <3>2 DEF LastIsSelect
  <2>3. CASE queue' # <<>>
    <3>1. queue' \in Seq(Commands)
      BY DEF Shapes, ReaderShapes
    <3>2. Len(queue') \in DOMAIN queue'
      BY <2>3, <3>1
    <3>3. queue'[Len(queue')] = queue[Len(queue)]
      BY <1>5, <3>2
    <3> QED BY <2>1, <2>3, <3>3 DEF LastIsSelect
  <2> QED BY <2>2, <2>3
<1>10. ASSUME NoWrite PROVE NoWrite'
  <2>1. kind # "read"
    BY <1>3, <1>5, <1>10 DEF NoWrite
  <2> QED BY <1>5, <1>6, <1>10, <2>1 DEF NoWrite
<1>11. ASSUME OnlyThisWrite PROVE OnlyThisWrite'
  <2>1. kind = "read" => c = page.data.tid /\ v = page.data.veh
    BY <1>3, <1>5, <1>11 DEF OnlyThisWrite
  <2> QED BY <1>2, <1>5, <1>6, <1>11, <2>1 DEF OnlyThisWrite
<1>12. Pending'
  BY <1>2, <1>8, <1>9, <1>10, <1>11 DEF ReadBackInv, Pending
<1>13. ReadIsVerified'
  BY <1>2, <1>3, <1>6 DEF ReadBackInv, ReadIsVerified
<1>14. SuccessIsVerified' /\ RecordIsOpen' /\ BoundIsReadBack'
  BY <1>2 DEF ReadBackInv, SuccessIsVerified, RecordIsOpen, OwnRecord, BoundIsReadBack
<1> QED BY <1>12, <1>13, <1>14 DEF ReadBackInv

(* The inventory's answer is the last one due when a write is still        *)
(* pending, so that none is pending once it is taken.                      *)
LEMMA ReadBackChecked ==
  ASSUME ReadBackInv, Shapes', CardChecked
  PROVE  ReadBackInv'
<1>1. queue \in Seq(Commands) /\ inbox \in Seq(Answers)
  BY DEF ReadBackInv, Shapes, ReaderShapes
<1>2. /\ page.at = "select" /\ inbox # <<>> /\ inbox' = Tail(inbox)
      /\ UNCHANGED <<queue, records, bound, verified>>
  BY DEF CardChecked, TakeAnswer, server
<1>3. page'.at \in {"check", "stuck", "idle"}
  BY DEF CardChecked, ReadBackInv, Shapes, PageShape, PageFields
<1>4. /\ Len(inbox') = Len(inbox) - 1 /\ Len(inbox) \in Nat /\ Len(queue) \in Nat
      /\ \A i \in DOMAIN inbox' : i + 1 \in DOMAIN inbox /\ inbox'[i] = inbox[i + 1]
  BY <1>1, <1>2, FirstAndOthers
<1>5. Len(queue) + Len(inbox) <= 2 /\ LastIsSelect
  BY <1>2 DEF ReadBackInv, Pending, FewPending, Waiting
<1>6. FewPending'
  BY <1>2, <1>3, <1>4, <1>5 DEF FewPending, Waiting
<1>7. NoWrite'
  <2>1. CASE queue = <<>>
    <3>1. inbox[Len(inbox)].kind # "read"
      BY <1>2, <1>5, <2>1 DEF LastIsSelect
    <3>2. \A i \in DOMAIN inbox' : i + 1 = Len(inbox)
      BY <1>1, <1>4, <1>5
    <3> QED BY <1>2, <1>4, <2>1, <3>1, <3>2 DEF NoWrite
  <2>2. CASE queue # <<>>
    <3>1. Len(queue) = 1 /\ Len(inbox) = 1
      <4>1. 1 \in DOMAIN queue /\ DOMAIN queue = 1 .. Len(queue)
        BY <1>1, <2>2, FirstAndOthers
      <4>2. 1 \in DOMAIN inbox /\ DOMAIN inbox = 1 .. Len(inbox)
        BY <1>1, <1>2, FirstAndOthers
      <4>3. Len(queue) >= 1 /\ Len(inbox) >= 1
        BY <1>4, <4>1, <4>2
      <4>4. Len(queue) + Len(inbox) <= 2
        BY <1>5
      <4>5. \A m, n \in Nat : m >= 1 /\ n >= 1 /\ m + n <= 2 => m = 1 /\ n = 1
        OBVIOUS
      <4>6. Len(queue) \in Nat /\ Len(inbox) \in Nat
        BY <1>4
      <4> QED BY <4>3, <4>4, <4>5, <4>6, Zenon
    <3>2. inbox' = <<>>
      BY <1>1, <1>2, <3>1
    <3>3. queue[1].op # "write"
      BY <1>5, <2>2, <3>1 DEF LastIsSelect
    <3> QED BY <1>1, <1>2, <3>1, <3>2, <3>3 DEF NoWrite
  <2> QED BY <2>1, <2>2
<1>8. Pending'
  BY <1>3, <1>6, <1>7 DEF Pending
<1>9. ReadIsVerified' /\ SuccessIsVerified' /\ RecordIsOpen' /\ BoundIsReadBack'
  BY <1>2, <1>3, <1>4 DEF ReadBackInv, ReadIsVerified, SuccessIsVerified, RecordIsOpen, WithData,
                          BoundIsReadBack
<1> QED BY <1>8, <1>9 DEF ReadBackInv

(* A reading taken for a write is of the data on the page.                 *)
LEMMA ReadBackWritten ==
  ASSUME ReadBackInv, Shapes', CardWritten
  PROVE  ReadBackInv'
<1>1. queue \in Seq(Commands) /\ inbox \in Seq(Answers)
  BY DEF ReadBackInv, Shapes, ReaderShapes
<1>2. /\ page.at = "written" /\ inbox # <<>> /\ inbox' = Tail(inbox)
      /\ UNCHANGED <<queue, records, bound, verified>>
  BY DEF CardWritten, TakeAnswer, server
<1>3. /\ page'.at \in {"upload", "stuck"} /\ page'.xh = page.xh /\ page'.data = page.data
      /\ page'.at = "upload" /\ page'.result => Head(inbox).kind = "read"
  BY DEF CardWritten, ReadBackInv, Shapes, PageShape, PageFields
<1>4. /\ Len(inbox') = Len(inbox) - 1 /\ Len(inbox) \in Nat /\ Len(queue) \in Nat
      /\ Head(inbox) = inbox[1] /\ 1 \in DOMAIN inbox
      /\ \A i \in DOMAIN inbox' : i + 1 \in DOMAIN inbox /\ inbox'[i] = inbox[i + 1]
  BY <1>1, <1>2, FirstAndOthers
<1>5. FewPending'
  BY <1>2, <1>3, <1>4 DEF ReadBackInv, Pending, FewPending, Waiting
<1>6. Pending'
  BY <1>3, <1>5 DEF Pending
<1>7. OnlyThisWrite
  BY <1>2 DEF ReadBackInv, Pending
<1>8. SuccessIsVerified'
  BY <1>2, <1>3, <1>4, <1>7 DEF ReadBackInv, SuccessIsVerified, ReadIsVerified, OnlyThisWrite
<1>9. RecordIsOpen'
  BY <1>2, <1>3 DEF ReadBackInv, RecordIsOpen, OwnRecord, WithData
<1>10. ReadIsVerified' /\ BoundIsReadBack'
  BY <1>2, <1>4 DEF ReadBackInv, ReadIsVerified, BoundIsReadBack
<1> QED BY <1>6, <1>8, <1>9, <1>10 DEF ReadBackInv

(* The data on the page are those of a record just opened.                 *)
LEMMA ReadBackFetch ==
  ASSUME ReadBackInv, Shapes', FetchData
  PROVE  ReadBackInv'
<1>1. /\ page.at = "shown" /\ page.tid \in Cards
      /\ UNCHANGED <<queue, inbox, bound, verified>>
  BY Fetches DEF ReadBackInv, reader
<1>2. CASE UNCHANGED <<tasks, records, page>>
  BY <1>1, <1>2, QuietPage
<1>3. DOMAIN page = PageFields
  BY DEF ReadBackInv, Shapes, PageShape
<1>4. ASSUME NEW k, Customize(k) PROVE ReadBackInv'
  <2> DEFINE v == tasks'[k].veh
             new == [task |-> k, tid |-> page.tid, veh |-> v]
  <2>1. CASE records' = records /\ page' \in {page, [page EXCEPT !.at = "reset"]}
    <3>1. page'.at \in {"shown", "reset"}
      BY <1>1, <1>3, <2>1 DEF PageFields
    <3> QED BY <1>1, <3>1, QuietPage
  <2>2. CASE /\ records' = records \cup {new}
             /\ page' = [page EXCEPT !.at = "fetched", !.xh = k, !.data = [tid |-> page.tid, veh |-> v]]
    <3>1. /\ page'.at = "fetched" /\ page'.xh = k
          /\ page'.data.tid = page.tid /\ page'.data.veh = v
      <4> HIDE DEF v, new
      <4> QED BY <1>3, <2>2 DEF PageFields
    <3>2. NoWrite'
      BY <1>1 DEF ReadBackInv, Pending, NoWrite
    <3>3. FewPending'
      BY <1>1, <3>1 DEF ReadBackInv, Pending, FewPending, Waiting
    <3>4. Pending'
      BY <3>1, <3>2, <3>3 DEF Pending
    <3>5. OwnRecord' = new
      BY <3>1 DEF OwnRecord
    <3>6. RecordIsOpen'
      BY <2>2, <3>5 DEF RecordIsOpen
    <3>7. ReadIsVerified' /\ SuccessIsVerified' /\ BoundIsReadBack'
      BY <1>1, <3>1 DEF ReadBackInv, ReadIsVerified, SuccessIsVerified, BoundIsReadBack
    <3> QED BY <3>4, <3>6, <3>7 DEF ReadBackInv
  <2> QED BY <1>4, <2>1, <2>2, Customizes DEF ReadBackInv
<1> QED BY <1>2, <1>4, Fetches DEF ReadBackInv

(* The record the server binds is the one the page had the data of.        *)
LEMMA BindsOwnRecord ==
  ASSUME ReadBackInv, UploadSuccess
  PROVE  /\ page.data \in Written
         /\ bound' = [bound EXCEPT ![page.data.tid] = page.data.veh]
         /\ <<page.data.tid, page.data.veh>> \in verified
<1>1. page.at = "upload" /\ page.result
  BY DEF UploadSuccess
<1>2. PICK r \in records : OfTask(page.xh) = {r} /\ Bind(r)
  BY DEF UploadSuccess
<1>3. OwnRecord \in OfTask(page.xh)
  BY <1>1 DEF ReadBackInv, RecordIsOpen, WithData, OfTask, OwnRecord
<1>4. r = OwnRecord
  BY <1>2, <1>3
<1> QED BY <1>1, <1>2, <1>4 DEF Bind, OwnRecord, ReadBackInv, SuccessIsVerified, Shapes, PageShape, WithData

(* A success binds what was verified, a failure binds nothing.             *)
LEMMA ReadBackUpload ==
  ASSUME ReadBackInv, Shapes', UploadSuccess
  PROVE  ReadBackInv'
<1>1. /\ page.data \in Written
      /\ bound' = [bound EXCEPT ![page.data.tid] = page.data.veh]
      /\ <<page.data.tid, page.data.veh>> \in verified
  BY BindsOwnRecord
<1>2. page.at = "upload" /\ page'.at = "done" /\ UNCHANGED <<queue, inbox, verified>>
  BY DEF UploadSuccess, reader, ReadBackInv, Shapes, PageShape, PageFields
<1>3. BoundIsReadBack'
  BY <1>1, <1>2 DEF ReadBackInv, BoundIsReadBack, Shapes, ServerShapes, Written
<1>4. FewPending'
  BY <1>2 DEF ReadBackInv, Pending, FewPending, Waiting
<1>5. Pending'
  BY <1>2, <1>4 DEF Pending
<1>6. ReadIsVerified' /\ SuccessIsVerified' /\ RecordIsOpen'
  BY <1>2 DEF ReadBackInv, ReadIsVerified, SuccessIsVerified, RecordIsOpen, WithData
<1> QED BY <1>3, <1>5, <1>6 DEF ReadBackInv

(* A clerk's query is asked only while the page waits for no answer.       *)
LEMMA ReadBackClerk ==
  ASSUME ReadBackInv, Shapes', Clerk
  PROVE  ReadBackInv'
<1>1. DOMAIN page = PageFields
  BY DEF ReadBackInv, Shapes, PageShape
<1> USE <1>1 DEF PageFields
<1>2. CASE \E v \in Vehicles : TypeIn(v)
  BY <1>2, QuietPage DEF TypeIn, reader, server
<1>3. CASE \E c \in Cards \cup {None} : PutCard(c)
  BY <1>3, QuietPage DEF PutCard, server
<1>4. CASE Query
  <2>1. CheckCard /\ ~Waiting /\ UNCHANGED <<bound, verified>>
    BY <1>4 DEF Query, Waiting, server
  <2> QED BY <2>1, SendsSelect
<1>5. CASE Decline
  <2>1. page'.at = "idle" /\ ~Waiting /\ UNCHANGED <<queue, inbox, bound, verified>>
    BY <1>5 DEF Decline, Waiting, reader, server
  <2> QED BY <2>1, QuietPage
<1>6. CASE Continue
  <2>1. page'.at = "idle" /\ ~Waiting /\ UNCHANGED <<queue, inbox, bound, verified>>
    BY <1>6 DEF Continue, ClearedPage, FreshPage, Waiting, reader, server
  <2> QED BY <2>1, QuietPage
<1>7. CASE Reload
  <2>1. page'.at = "idle" /\ queue' = <<>> /\ inbox' = <<>> /\ UNCHANGED <<bound, verified>>
    BY <1>7 DEF Reload, FreshPage, server
  <2>2. Pending'
    BY <2>1 DEF Pending, FewPending, Waiting
  <2>3. ReadIsVerified' /\ SuccessIsVerified' /\ RecordIsOpen' /\ BoundIsReadBack'
    BY <2>1 DEF ReadBackInv, ReadIsVerified, SuccessIsVerified, RecordIsOpen, WithData,
                BoundIsReadBack
  <2> QED BY <2>2, <2>3 DEF ReadBackInv
<1> QED BY <1>2, <1>3, <1>4, <1>5, <1>6, <1>7 DEF Clerk

(* When the page gives up, at most one answer is still to come.            *)
LEMMA ReadBackPage ==
  ASSUME OneLate, ReadBackInv, Shapes', Page
  PROVE  ReadBackInv'
<1>1. DOMAIN page = PageFields
  BY DEF ReadBackInv, Shapes, PageShape
<1> USE <1>1 DEF PageFields
<1>2. CASE NoResponse
  <2>1. /\ page'.at = "idle" /\ inbox = <<>> /\ Len(queue) <= case.late
        /\ UNCHANGED <<queue, inbox, bound, verified>>
    BY <1>2 DEF NoResponse, reader, server
  <2>2. case.late <= 1 /\ case.late \in Nat
    BY DeskAssumption DEF OneLate, ReadBackInv, Shapes
  <2>3. queue \in Seq(Commands) /\ inbox \in Seq(Answers)
    BY DEF ReadBackInv, Shapes, ReaderShapes
  <2>4. Len(queue) \in Nat /\ Len(inbox) = 0
    BY <2>1, <2>3
  <2>5. FewPending'
    BY <2>1, <2>2, <2>4 DEF FewPending, Waiting
  <2>6. Pending'
    BY <2>1, <2>5 DEF Pending
  <2>7. ReadIsVerified' /\ SuccessIsVerified' /\ RecordIsOpen' /\ BoundIsReadBack'
    BY <2>1 DEF ReadBackInv, ReadIsVerified, SuccessIsVerified, RecordIsOpen, WithData,
                BoundIsReadBack
  <2> QED BY <2>6, <2>7 DEF ReadBackInv
<1>3. CASE CheckCardStatus
  <2>1. /\ page.at = "check" /\ page'.at \in {"reset", "shown", "idle"}
        /\ UNCHANGED <<queue, inbox, bound, verified>>
    BY <1>3 DEF CheckCardStatus, ClearedPage, FreshPage, reader, server
  <2> QED BY <2>1, QuietPage DEF Waiting
<1>4. CASE ResetTask
  <2>1. CheckCard /\ ~Waiting /\ UNCHANGED <<bound, verified>>
    BY <1>4 DEF ResetTask, Waiting
  <2> QED BY <2>1, SendsSelect
<1>5. CASE UploadFailure
  <2>1. page'.at = "idle" /\ ~Waiting /\ UNCHANGED <<queue, inbox, bound, verified>>
    BY <1>5 DEF UploadFailure, Waiting, reader
  <2> QED BY <2>1, QuietPage
<1> QED BY <1>2, <1>3, <1>4, <1>5, ReadBackChecked, ReadBackWritten, ReadBackFetch, SendsWrite,
           ReadBackUpload DEF Page

(* The reader, the clerk and the page keep what may be pending.            *)
LEMMA ReadBackStep ==
  ASSUME OneLate, ReadBackInv, [Next]_vars
  PROVE  ReadBackInv'
<1>1. Shapes'
  BY ShapesStep DEF ReadBackInv
<1>2. CASE UNCHANGED vars
  BY <1>1, <1>2, QuietPage DEF vars, reader, server
<1> QED BY <1>1, <1>2, ReadBackClerk, ReadBackReader, ReadBackPage DEF Next

(* Desk.BoundIsReadBack: as long as at most one answer is late at a time,  *)
(* however often that happens, a card is bound only to a vehicle whose     *)
(* data was written to it and read back: the answer of an inventory that   *)
(* comes late never passes for that of a write, and a write's never for    *)
(* another's (customizeEdit.jsp getResponse, writeCard, uploadWriteResult).*)
THEOREM OnlyReadBackBound ==
  ASSUME OneLate
  PROVE  Spec => []BoundIsReadBack
<1>1. ReadBackInv /\ [Next]_vars => ReadBackInv'
  BY ReadBackStep
<1>2. ReadBackInv => BoundIsReadBack
  BY DEF ReadBackInv
<1> QED BY <1>1, <1>2, ReadBackInit, PTL DEF Spec

-----------------------------------------------------------------------------
(* With at most one answer late at a time, a card is bound to the plate    *)
(* that is shown.                                                          *)

ShownParts == InputKnown /\ ShownIsFree /\ TextsShown /\ SuccessAsShown

(* The page shows nothing at the start.                                    *)
LEMMA ShownInit == Init => ShownInv
<1> SUFFICES ASSUME Init PROVE ShownInv
  OBVIOUS
<1>1. page.at = "idle"
  BY DEF Init, FreshPage
<1> QED BY <1>1, ReadBackInit DEF ShownInv, InputKnown, ShownIsFree, TextsShown, SuccessAsShown, WithData

(* Nothing a person does changes the texts of a vehicle that is shown.     *)
LEMMA ShownClerk ==
  ASSUME ShownInv, Clerk
  PROVE  ShownParts'
<1> DEFINE away == page'.at \in {"idle", "stuck", "done"}
<1>1. DOMAIN page = PageFields
  BY DEF ShownInv, ReadBackInv, Shapes, PageShape
<1> USE <1>1 DEF PageFields
<1>2. ASSUME away PROVE ShownParts'
  BY <1>2 DEF ShownParts, InputKnown, ShownIsFree, TextsShown, SuccessAsShown, WithData
<1>3. CASE \E v \in Vehicles : TypeIn(v)
  <2>1. page' = page /\ case' = case /\ records' = records /\ page.at \in {"idle", "shown"}
    BY <1>3 DEF TypeIn, server
  <2> QED BY <2>1 DEF ShownInv, ShownParts, InputKnown, ShownIsFree, OpenRecord, TextsShown,
                      SuccessAsShown
<1>4. CASE \E c \in Cards \cup {None} : PutCard(c)
  <2>1. page' = page /\ case' = case /\ records' = records /\ input' = input
    BY <1>4 DEF PutCard, server
  <2> QED BY <2>1 DEF ShownInv, ShownParts, InputKnown, ShownIsFree, OpenRecord, TextsShown,
                      SuccessAsShown, Row
<1>5. CASE Query
  <2>1. page'.at = "select" /\ input' = input /\ input \in Vehicles
    BY <1>5 DEF Query, CheckCard, ShownInv, ReadBackInv, Shapes, MaybeVehicle
  <2> QED BY <2>1 DEF ShownParts, InputKnown, ShownIsFree, TextsShown, SuccessAsShown, WithData
<1>6. CASE Decline
  BY <1>2, <1>6 DEF Decline
<1>7. CASE Continue
  BY <1>2, <1>7 DEF Continue, ClearedPage, FreshPage
<1>8. CASE Reload
  BY <1>2, <1>8 DEF Reload, FreshPage
<1> QED BY <1>3, <1>4, <1>5, <1>6, <1>7, <1>8 DEF Clerk

(* What passes the check shows the plate of the data.                      *)
LEMMA PassesAsShown ==
  ASSUME PlatesReadBack, case \in Cases, NEW c \in Cards, NEW v \in Vehicles, NEW kh, NEW texts,
         texts.hphm # None, CheckContent(Content(c, v), kh, texts)
  PROVE  texts.hphm = Translate(Row(v)).hphm
<1>1. Row(v) \in AllRows
  BY DEF AllRows, Row
<1>2. Content(c, v) = Readout[c][Row(v)]
  BY DeskAssumption DEF Content
<1>3. Agree(Content(c, v), texts, Exact)
  BY DEF CheckContent, VehicleAgrees
<1>4. \/ Content(c, v).hphm = texts.hphm \/ Content(c, v).hphm = None \/ texts.hphm = None
  BY <1>3 DEF Agree, Exact
<1> QED BY <1>1, <1>2, <1>4 DEF PlatesReadBack

(* Plates of these lengths are read back.                                  *)
LEMMA PlatesAreReadBack == PlatesFit => PlatesReadBack
<1> SUFFICES ASSUME PlatesFit, NEW row \in AllRows
             PROVE  /\ Translate(row).hphm # None
                    /\ \A c \in Cards : Readout[c][row].hphm = Translate(row).hphm
  BY DEF PlatesReadBack
<1>1. Len(row.xh) \in 4 .. 6
  BY DEF PlatesFit
<1>2. Translate(row).hphm = <<row.fzjg, row.fpdh, row.xh>>
  BY DEF Translate
<1>3. ASSUME NEW c \in Cards
      PROVE  row \in Rows /\ Readout[c][row].hphm = Translate(row).hphm
  <2>1. /\ Number[c] \in Numbers /\ row \in Rows
        /\ Readout[c][row] = Parse(CalculateVehicleInfo(Number[c], row))
    BY Contents
  <2> QED BY <1>1, <1>2, <2>1, PlateOnCard
<1>4. Translate(row).hphm # None
  <2>1. row \in Rows
    BY RowsOfVehicles
  <2> QED BY <1>2, <2>1, PlateTextType
<1> QED BY <1>3, <1>4

(* A success is one of a comparison with the texts shown.                  *)
LEMMA ShownAnswer ==
  ASSUME PlatesReadBack, ShownInv, CardChecked \/ CardWritten
  PROVE  ShownParts'
<1>1. DOMAIN page = PageFields /\ case \in Cases
  BY DEF ShownInv, ReadBackInv, Shapes, PageShape
<1> USE <1>1 DEF PageFields
<1>2. CASE CardChecked
  <2>1. page.at = "select" /\ input' = input
    BY <1>2 DEF CardChecked, TakeAnswer
  <2>2. page'.at \in {"check", "stuck", "idle"}
    BY <1>2 DEF CardChecked
  <2> QED BY <2>1, <2>2 DEF ShownInv, ShownParts, InputKnown, ShownIsFree, TextsShown, SuccessAsShown,
                           WithData
<1>3. CASE CardWritten
  <2> DEFINE answer == Head(inbox)
  <2>1. page.at = "written" /\ inbox # <<>> /\ case' = case
    BY <1>3 DEF CardWritten, TakeAnswer
  <2>2. /\ page'.at \in {"upload", "stuck"} /\ page'.data = page.data /\ page'.texts = page.texts
        /\ page'.at = "upload" /\ page'.result =>
             /\ answer.kind = "read"
             /\ CheckContent(Content(answer.tid, answer.veh), page.kh, page.texts)
    BY <1>3 DEF CardWritten
  <2>3. page.texts.hphm # None
    BY <2>1 DEF ShownInv, TextsShown, WithData
  <2>4. inbox \in Seq(Answers) /\ OnlyThisWrite /\ page.data \in Written
    BY <2>1 DEF ShownInv, ReadBackInv, Pending, Shapes, ReaderShapes, PageShape, WithData
  <2>5. ASSUME page'.at = "upload", page'.result
        PROVE  page.texts.hphm = Translate(Row(page.data.veh)).hphm
    <3>1. answer = inbox[1] /\ 1 \in DOMAIN inbox
      BY <2>1, <2>4, FirstAndOthers
    <3>2. answer.tid = page.data.tid /\ answer.veh = page.data.veh
      BY <2>2, <2>4, <2>5, <3>1 DEF OnlyThisWrite
    <3>3. page.data.tid \in Cards /\ page.data.veh \in Vehicles
      BY <2>4 DEF Written
    <3>4. CheckContent(Content(page.data.tid, page.data.veh), page.kh, page.texts)
      BY <2>2, <2>5, <3>2
    <3> QED BY <1>1, <2>3, <3>3, <3>4, PassesAsShown
  <2>6. SuccessAsShown'
    BY <2>1, <2>2, <2>5 DEF SuccessAsShown, Row
  <2> QED BY <2>2, <2>3, <2>6 DEF ShownParts, InputKnown, ShownIsFree, TextsShown
<1> QED BY <1>2, <1>3

(* Texts are set when a card is checked, and have a plate.                 *)
LEMMA ShownPage ==
  ASSUME PlatesReadBack, ShownInv, Page
  PROVE  ShownParts'
<1> DEFINE away == page'.at \in {"idle", "stuck", "done"}
<1>1. DOMAIN page = PageFields
  BY DEF ShownInv, ReadBackInv, Shapes, PageShape
<1> USE <1>1 DEF PageFields
<1>2. ASSUME away PROVE ShownParts'
  BY <1>2 DEF ShownParts, InputKnown, ShownIsFree, TextsShown, SuccessAsShown, WithData
<1>3. CASE NoResponse \/ UploadSuccess \/ UploadFailure
  <2>1. away
    BY <1>3 DEF NoResponse, UploadSuccess, UploadFailure
  <2> QED BY <1>2, <2>1
<1>4. CASE CheckCardStatus
  <2>1. page.at = "check" /\ input \in Vehicles /\ records' = records /\ Row(input) \in AllRows
    BY <1>4 DEF CheckCardStatus, ShownInv, InputKnown, server, ReadBackInv, Shapes, AllRows, Row
  <2>2. CASE page' = ClearedPage
    BY <1>2, <2>2 DEF ClearedPage, FreshPage
  <2>3. CASE page' = [page EXCEPT !.at = "reset"] /\ UNCHANGED input
    BY <2>1, <2>3 DEF ShownParts, InputKnown, ShownIsFree, TextsShown, SuccessAsShown, WithData
  <2>4. CASE /\ ~OpenRecord(page.tid)
             /\ page' = [page EXCEPT !.at = "shown", !.texts = Show(page.texts, Translate(Row(input)))]
    <3>1. /\ page'.at = "shown" /\ page'.tid = page.tid
          /\ page'.texts = Show(page.texts, Translate(Row(input)))
      BY <2>4
    <3>2. Translate(Row(input)).hphm # None
      BY <2>1 DEF PlatesReadBack
    <3>3. page'.texts.hphm # None
      BY <3>1, <3>2 DEF Show, TextFields
    <3> QED BY <2>1, <2>4, <3>1, <3>3 DEF ShownParts, InputKnown, ShownIsFree, OpenRecord, TextsShown,
                                          SuccessAsShown
  <2> QED BY <1>4, <2>2, <2>3, <2>4 DEF CheckCardStatus
<1>5. CASE ResetTask
  <2>1. page.at = "reset" /\ page'.at = "select" /\ input' = input
    BY <1>5 DEF ResetTask, CheckCard
  <2> QED BY <2>1 DEF ShownInv, ShownParts, InputKnown, ShownIsFree, TextsShown, SuccessAsShown, WithData
<1>6. CASE FetchData
  <2>1. page.at = "shown" /\ page.texts.hphm # None /\ ~OpenRecord(page.tid)
    BY <1>6 DEF FetchData, ShownInv, TextsShown, ShownIsFree
  <2>2. CASE UNCHANGED <<tasks, records, page>>
    BY <2>1, <2>2 DEF ShownParts, InputKnown, ShownIsFree, OpenRecord, TextsShown, SuccessAsShown
  <2>3. ASSUME NEW k, Customize(k) PROVE ShownParts'
    <3>1. \/ records' = records /\ page' = page
          \/ page'.at = "fetched" /\ page'.texts = page.texts
      BY <2>1, <2>3 DEF Customize, OpenFor, Outcome
    <3> QED BY <2>1, <3>1 DEF ShownParts, InputKnown, ShownIsFree, OpenRecord, TextsShown,
                              SuccessAsShown
  <2> QED BY <1>6, <2>2, <2>3, Fetches DEF ShownInv, ReadBackInv
<1>7. CASE WriteCard
  <2>1. page.at = "fetched" /\ page'.at = "written" /\ page'.texts = page.texts
    BY <1>7 DEF WriteCard
  <2> QED BY <2>1 DEF ShownInv, ShownParts, InputKnown, ShownIsFree, TextsShown, SuccessAsShown, WithData
<1> HIDE DEF away
<1> QED BY <1>3, <1>4, <1>5, <1>6, <1>7, ShownAnswer DEF Page

(* Together with what is read back, the texts are kept by every step.      *)
LEMMA ShownStep ==
  ASSUME OneLate, PlatesReadBack, ShownInv, [Next]_vars
  PROVE  ShownInv'
<1>1. ReadBackInv'
  BY ReadBackStep DEF ShownInv
<1>2. CASE UNCHANGED <<case, input, page, records>>
  BY <1>1, <1>2 DEF ShownInv, InputKnown, ShownIsFree, OpenRecord, TextsShown, SuccessAsShown, Row
<1>3. CASE UNCHANGED vars
  BY <1>2, <1>3 DEF vars, server
<1>4. CASE Reader
  BY <1>2, <1>4 DEF Reader, server
<1>5. CASE Clerk \/ Page
  BY <1>1, <1>5, ShownClerk, ShownPage DEF ShownInv, ShownParts
<1> QED BY <1>3, <1>4, <1>5 DEF Next

(* Only the upload of a success binds a card.                              *)
LEMMA OnlyUploadBinds ==
  ASSUME Shapes, [Next]_vars
  PROVE  UploadSuccess \/ bound' = bound
<1>1. Clerk => bound' = bound
  BY DEF Clerk, TypeIn, PutCard, Query, Decline, Continue, Reload, server
<1>2. CardChecked \/ CardWritten \/ NoResponse \/ WriteCard => bound' = bound
  BY DEF CardChecked, CardWritten, NoResponse, WriteCard, TakeAnswer, server
<1>3. CheckCardStatus \/ ResetTask \/ FetchData \/ UploadFailure => bound' = bound
  BY DEF CheckCardStatus, ResetTask, FetchData, UploadFailure, server
<1>4. Reader \/ UNCHANGED vars => bound' = bound
  BY DEF Reader, vars, server
<1> QED BY <1>1, <1>2, <1>3, <1>4 DEF Next, Page

(* Desk.BoundAsShown: as long as at most one answer is late at a time, a   *)
(* card is bound only to the plate the page shows at that moment, though   *)
(* the data may be of a task left on the page and the input may have       *)
(* changed since (customizeEdit.jsp fetchData, checkContent).              *)
THEOREM BindsAsShown ==
  ASSUME OneLate, PlatesFit
  PROVE  Spec => BoundAsShown
<1> DEFINE A == \A c \in Cards : bound'[c] # bound[c] =>
                  page.texts.hphm = Translate(Row(bound'[c])).hphm
<1>1. ShownInv /\ [Next]_vars => [A]_vars
  <2> SUFFICES ASSUME ShownInv, [Next]_vars PROVE A
    OBVIOUS
  <2>1. Shapes /\ DOMAIN bound = Cards
    BY DEF ShownInv, ReadBackInv, Shapes, ServerShapes
  <2>2. CASE bound' = bound
    BY <2>2
  <2>3. CASE UploadSuccess
    <3>1. page.at = "upload" /\ page.result
      BY <2>3 DEF UploadSuccess
    <3>2. page.texts.hphm = Translate(Row(page.data.veh)).hphm
      BY <3>1 DEF ShownInv, SuccessAsShown
    <3>3. page.data \in Written /\ bound' = [bound EXCEPT ![page.data.tid] = page.data.veh]
      BY <2>3, BindsOwnRecord DEF ShownInv
    <3>4. page.data.tid \in Cards
      BY <3>3 DEF Written
    <3>5. \A c \in Cards : bound'[c] # bound[c] => bound'[c] = page.data.veh
      BY <2>1, <3>3, <3>4
    <3> QED BY <3>2, <3>5
  <2> HIDE DEF A
  <2> QED BY <2>1, <2>2, <2>3, OnlyUploadBinds
<1>2. ShownInv /\ [Next]_vars => ShownInv'
  BY ShownStep, PlatesAreReadBack
<1> HIDE DEF A
<1>3. Spec => [][A]_vars
  BY <1>1, <1>2, ShownInit, PTL DEF Spec
<1> QED BY <1>3 DEF A, BoundAsShown

-----------------------------------------------------------------------------
(* With at most one answer late at a time, a card is bound to what it      *)
(* holds.                                                                  *)

NoWriteQueued == \A i \in DOMAIN queue : queue[i].op # "write"
Reads == \E i \in DOMAIN inbox : inbox[i].kind = "read"
Held == NoWriteQueued /\ memory[page.data.tid] = page.data.veh

(* The page's write is the last command, its reading the end of it.        *)
WriteIsLast ==
  page.at = "written" => \A i \in DOMAIN queue : queue[i].op = "write" => i = Len(queue)
ReadIsHeld == page.at = "written" /\ Reads => Held
SuccessIsHeld == page.at = "upload" /\ page.result => Held

HeldParts == WriteIsLast /\ ReadIsHeld /\ SuccessIsHeld
HeldInv == ReadBackInv /\ HeldParts

(* The reader writes what it was told last, and nothing after that.        *)
LEMMA HeldReader ==
  ASSUME HeldInv, Shapes', Reader
  PROVE  HeldParts'
<1> USE DEF HeldInv, HeldParts
<1>1. /\ queue \in Seq(Commands) /\ inbox \in Seq(Answers) /\ queue # <<>> /\ page' = page
      /\ memory \in [Cards -> MaybeVehicle]
  BY ReaderAnswers DEF ReadBackInv, Shapes, ReaderShapes
<1>2. PICK kind, c, v :
        /\ Answer(kind, c, v)
        /\ kind = "read" => Head(queue).op = "write"
  BY ReaderAnswers DEF ReadBackInv, Shapes
<1> DEFINE answer == [kind |-> kind, tid |-> c, veh |-> v]
<1>3. queue' = Tail(queue) /\ inbox' = Append(inbox, answer)
  BY <1>2 DEF Answer
<1>4. /\ Len(queue') = Len(queue) - 1 /\ Len(queue) \in Nat /\ 1 \in DOMAIN queue
      /\ Head(queue) = queue[1]
      /\ \A i \in DOMAIN queue' : i + 1 \in DOMAIN queue /\ queue'[i] = queue[i + 1]
  BY <1>1, <1>3, FirstAndOthers
<1>5. \A i \in DOMAIN inbox' : \/ i \in DOMAIN inbox /\ inbox'[i] = inbox[i]
                               \/ inbox'[i] = answer
  BY <1>1, <1>3
<1>6. WriteIsLast'
  <2> SUFFICES ASSUME page.at = "written", NEW i \in DOMAIN queue', queue'[i].op = "write"
               PROVE  i = Len(queue')
    BY <1>1 DEF WriteIsLast
  <2>1. i + 1 = Len(queue) /\ i \in Nat
    <3>1. queue' \in Seq(Commands)
      BY DEF Shapes, ReaderShapes
    <3> QED BY <1>4, <3>1 DEF WriteIsLast
  <2> QED BY <1>4, <2>1
<1>7. CASE Head(queue).op = "write"
  <2>1. ~NoWriteQueued
    BY <1>4, <1>7 DEF NoWriteQueued
  <2>2. SuccessIsHeld'
    BY <1>1, <2>1 DEF SuccessIsHeld, Held
  <2>3. ASSUME page.at = "written", Reads' PROVE Held'
    <3>1. ~Reads
      BY <2>1, <2>3 DEF ReadIsHeld, Held
    <3>2. kind = "read"
      BY <1>5, <2>3, <3>1 DEF Reads
    <3>3. Head(queue).data = page.data /\ page.data \in Written
      BY <1>4, <1>7, <2>3 DEF ReadBackInv, Pending, OnlyThisWrite, Shapes, PageShape, WithData
    <3>4. memory' = [memory EXCEPT ![page.data.tid] = page.data.veh]
      <4>1. ReaderWrites
        BY <1>7 DEF Reader, ReaderSelects
      <4>2. \/ Answer("failed", None, None) \/ Answer("alert", None, None)
            \/ memory' = [memory EXCEPT ![onReader] = Head(queue).data.veh]
               /\ onReader = Head(queue).data.tid
        BY <4>1 DEF ReaderWrites, Fails
      <4>3. \A k \in {"failed", "alert"} : ~Answer(k, None, None)
        <5> SUFFICES ASSUME NEW k \in {"failed", "alert"}, Answer(k, None, None) PROVE FALSE
          OBVIOUS
        <5>1. inbox'[Len(inbox) + 1] = [kind |-> k, tid |-> None, veh |-> None]
          BY <1>1 DEF Answer
        <5>2. inbox'[Len(inbox) + 1] = answer
          BY <1>1, <1>3
        <5> QED BY <3>2, <5>1, <5>2
      <4> QED BY <3>3, <4>2, <4>3
    <3>5. memory'[page.data.tid] = page.data.veh
      BY <1>1, <3>3, <3>4 DEF Written
    <3>6. NoWriteQueued'
      <4>1. 1 = Len(queue)
        BY <1>4, <1>7, <2>3 DEF WriteIsLast
      <4>2. queue' = <<>>
        BY <1>1, <1>3, <4>1
      <4> QED BY <4>2 DEF NoWriteQueued
    <3> QED BY <1>1, <3>5, <3>6 DEF Held
  <2> QED BY <1>1, <1>6, <2>2, <2>3 DEF ReadIsHeld
<1>8. CASE Head(queue).op # "write"
  <2>1. memory' = memory
    BY <1>8 DEF Reader, ReaderSelects, ReaderWrites
  <2>2. Reads' => Reads
    BY <1>2, <1>5, <1>8 DEF Reads
  <2>3. Held => Held'
    BY <1>1, <1>4, <2>1 DEF Held, NoWriteQueued
  <2> QED BY <1>1, <1>6, <2>2, <2>3 DEF ReadIsHeld, SuccessIsHeld
<1> QED BY <1>7, <1>8

(* A reading that is taken as a success is of what the card holds; nothing *)
(* else comes to where it counts.                                          *)
LEMMA HeldWritten ==
  ASSUME HeldInv, CardWritten
  PROVE  HeldParts'
<1> USE DEF HeldInv, HeldParts
<1>1. /\ page.at = "written" /\ inbox # <<>> /\ UNCHANGED <<queue, memory>>
      /\ DOMAIN page = PageFields
      /\ inbox \in Seq(Answers)
  BY DEF CardWritten, TakeAnswer, ReadBackInv, Shapes, PageShape, ReaderShapes
<1>2. \/ page'.at = "stuck"
      \/ /\ page'.at = "upload" /\ page'.data = page.data
         /\ page'.result => Head(inbox).kind = "read"
  BY <1>1 DEF CardWritten, PageFields
<1>3. Head(inbox).kind = "read" => Reads
  BY <1>1, FirstAndOthers DEF Reads
<1>4. page'.result /\ page'.at = "upload" => Held
  BY <1>1, <1>2, <1>3 DEF ReadIsHeld
<1> QED BY <1>1, <1>2, <1>4 DEF WriteIsLast, ReadIsHeld, SuccessIsHeld, Held, NoWriteQueued

(* A write is sent when nothing else that writes or reads is pending.      *)
LEMMA HeldSent ==
  ASSUME HeldInv, WriteCard
  PROVE  HeldParts'
<1> USE DEF HeldInv, HeldParts
<1>1. /\ page.at = "fetched" /\ inbox' = inbox /\ page'.at = "written"
      /\ queue' = Append(queue, [op |-> "write", data |-> page.data])
      /\ queue \in Seq(Commands)
  BY DEF WriteCard, SendCommand, ReadBackInv, Shapes, PageShape, PageFields, ReaderShapes
<1>2. NoWrite
  BY <1>1 DEF ReadBackInv, Pending
<1>3. ~Reads'
  BY <1>1, <1>2 DEF NoWrite, Reads
<1>4. \A i \in DOMAIN queue' : i # Len(queue') => i \in DOMAIN queue /\ queue'[i] = queue[i]
  BY <1>1
<1> QED BY <1>1, <1>2, <1>3, <1>4 DEF NoWrite, WriteIsLast, ReadIsHeld, SuccessIsHeld

(* All other steps leave the page elsewhere, or all of this as it is.      *)
LEMMA HeldStep ==
  ASSUME OneLate, HeldInv, [Next]_vars
  PROVE  HeldInv'
<1> DEFINE away == page'.at \notin {"written", "upload"}
<1>1. ReadBackInv' /\ Shapes' /\ DOMAIN page = PageFields
  BY ReadBackStep DEF HeldInv, ReadBackInv, Shapes, PageShape
<1> USE <1>1 DEF PageFields
<1>2. ASSUME away PROVE HeldParts'
  BY <1>2 DEF HeldParts, WriteIsLast, ReadIsHeld, SuccessIsHeld
<1>3. ASSUME UNCHANGED <<page, memory, queue, inbox>> PROVE HeldParts'
  BY <1>3 DEF HeldInv, HeldParts, WriteIsLast, ReadIsHeld, SuccessIsHeld, Held, NoWriteQueued, Reads
<1>4. CASE Clerk
  <2>1. ASSUME \/ \E v \in Vehicles : TypeIn(v)
               \/ \E c \in Cards \cup {None} : PutCard(c)
        PROVE  HeldParts'
    BY <1>3, <2>1 DEF TypeIn, PutCard, reader
  <2>2. ASSUME Query \/ Decline PROVE away
    BY <2>2 DEF Query, CheckCard, Decline
  <2>3. ASSUME Continue PROVE away
    BY <2>3 DEF Continue, ClearedPage, FreshPage
  <2>4. ASSUME Reload PROVE away
    BY <2>4 DEF Reload, FreshPage
  <2> QED BY <1>1, <1>2, <1>4, <2>1, <2>2, <2>3, <2>4 DEF Clerk, HeldInv
<1>5. CASE Page
  <2>1. ASSUME NoResponse \/ CardChecked \/ CheckCardStatus \/ ResetTask PROVE away
    BY <2>1 DEF NoResponse, CardChecked, CheckCardStatus, ResetTask, CheckCard, ClearedPage,
                FreshPage
  <2>2. ASSUME FetchData PROVE away
    <3>1. page.at = "shown"
      BY <2>2 DEF FetchData
    <3>2. CASE page' = page
      BY <3>1, <3>2
    <3>3. ASSUME \E k : Customize(k) PROVE away
      <4> PICK k : Customize(k)
        BY <3>3
      <4>1. page' \in {page, [page EXCEPT !.at = "reset"]} \/ page'.at = "fetched"
        BY Customizes DEF HeldInv, ReadBackInv
      <4> QED BY <3>1, <4>1
    <3>4. page' = page \/ \E k : Customize(k)
      BY <2>2, Fetches DEF HeldInv, ReadBackInv
    <3> QED BY <3>2, <3>3, <3>4
  <2>3. ASSUME UploadSuccess \/ UploadFailure PROVE away
    BY <2>3 DEF UploadSuccess, UploadFailure
  <2> QED BY <1>1, <1>2, <1>5, <2>1, <2>2, <2>3, HeldWritten, HeldSent DEF Page, HeldInv
<1>6. CASE UNCHANGED vars
  BY <1>1, <1>3, <1>6 DEF vars, reader, HeldInv
<1> QED BY <1>1, <1>4, <1>5, <1>6, HeldReader DEF Next, HeldInv

(* Nothing is written or bound at the start.                               *)
LEMMA HeldInit == Init => HeldInv
<1> SUFFICES ASSUME Init PROVE HeldInv
  OBVIOUS
<1>1. page.at = "idle"
  BY DEF Init, FreshPage
<1> QED BY <1>1, ReadBackInit DEF HeldInv, HeldParts, WriteIsLast, ReadIsHeld, SuccessIsHeld

HolderInv == HeldInv /\ OneCardInv

(* A card whose vehicle stays holds and has the plate it had.              *)
LEMMA PlatesKept ==
  ASSUME case' = case
  PROVE  \A v : PlateOf(v)' = PlateOf(v)
  BY DEF PlateOf, Row

(* The reader writes, and so does a reload while it is at it.              *)
LEMMA OnlyReaderWrites ==
  ASSUME Shapes, [Next]_vars
  PROVE  /\ case' = case
         /\ \/ memory' = memory
            \/ /\ bound' = bound
               /\ \E c \in Cards, v \in Vehicles : memory' = [memory EXCEPT ![c] = v]
<1>1. CASE Reload
  <2>1. queue # <<>> /\ Head(queue).op = "write" => Head(queue).data \in Written
    <3>1. queue \in Seq(Commands)
      BY DEF Shapes, ReaderShapes
    <3> QED BY <3>1, FirstAndOthers DEF Commands
  <2> QED BY <1>1, <2>1 DEF Reload, Written, server
<1>2. CASE Reader
  <2>1. queue # <<>> /\ Head(queue).op = "write" => Head(queue).data \in Written
    <3>1. queue \in Seq(Commands)
      BY DEF Shapes, ReaderShapes
    <3> QED BY <3>1, FirstAndOthers DEF Commands
  <2>2. CASE ReaderSelects
    BY <1>2, <2>2 DEF Reader, ReaderSelects
  <2>3. CASE ReaderWrites
    BY <1>2, <2>1, <2>3 DEF Reader, ReaderWrites, Written, server
  <2> QED BY <1>2, <2>2, <2>3 DEF Reader
<1>3. CASE (\E v \in Vehicles : TypeIn(v)) \/ (\E c \in Cards \cup {None} : PutCard(c))
             \/ Query \/ Decline \/ Continue
  BY <1>3 DEF TypeIn, PutCard, Query, CheckCard, SendCommand, Decline, Continue, reader
<1>4. CASE CardChecked \/ CardWritten \/ NoResponse \/ WriteCard \/ CheckCardStatus
  BY <1>4 DEF CardChecked, CardWritten, NoResponse, WriteCard, TakeAnswer, SendCommand,
              CheckCardStatus, reader
<1>5. CASE ResetTask \/ FetchData \/ UploadFailure \/ UploadSuccess
  BY <1>5 DEF ResetTask, CheckCard, SendCommand, FetchData, UploadFailure, UploadSuccess, reader
<1>6. CASE UNCHANGED vars
  BY <1>6 DEF vars, reader
<1> QED BY <1>1, <1>2, <1>3, <1>4, <1>5, <1>6 DEF Next, Clerk, Page

(* What the reader writes is a Write, unless the card has that plate.      *)
LEMMA WritesPlate ==
  ASSUME Shapes, case' = case, bound' = bound, NEW c \in Cards, NEW v \in Vehicles,
         memory' = [memory EXCEPT ![c] = v]
  PROVE  [Binding!BNext]_(Binding!bvars)
<1>1. Owner' = Owner
  BY PlatesKept DEF Owner
<1>2. PlateOf(v) = {Plate(Row(v))} /\ Plate(Row(v)) \in Plates
  <2>1. Row(v) \in AllRows
    BY DEF Shapes, Row, AllRows
  <2>2. v # None
    BY DeskAssumption
  <2> QED BY <2>1, <2>2 DEF PlateOf, Plates
<1>3. Holds' = [Holds EXCEPT ![c] = {Plate(Row(v))}]
  BY <1>2, PlatesKept DEF Holds, Shapes, ReaderShapes
<1>4. CASE Holds'[c] # Holds[c]
  BY <1>1, <1>2, <1>3, <1>4 DEF Binding!BNext, Binding!Write
<1>5. CASE Holds'[c] = Holds[c]
  <2>1. Holds' = Holds
    BY <1>3, <1>5 DEF Holds
  <2> QED BY <1>1, <2>1 DEF Binding!bvars
<1> QED BY <1>4, <1>5

(* The upload of a success binds the card to the plate it holds, and no    *)
(* other card has that plate.                                              *)
LEMMA UploadBinds ==
  ASSUME HolderInv, OneCardPerVehicle', case' = case, memory' = memory, UploadSuccess
  PROVE  [Binding!BNext]_(Binding!bvars)
<1> PICK c, v : c = page.data.tid /\ v = page.data.veh
  OBVIOUS
<1>1. /\ c \in Cards /\ v \in Vehicles /\ bound' = [bound EXCEPT ![c] = v] /\ bound \in [Cards -> MaybeVehicle]
  BY BindsOwnRecord DEF HolderInv, HeldInv, ReadBackInv, Shapes, ServerShapes, Written
<1>2. memory[c] = v
  BY DEF UploadSuccess, HolderInv, HeldInv, HeldParts, SuccessIsHeld, Held
<1>3. Holds' = Holds
  BY PlatesKept DEF Holds
<1>4. Holds[c] = {Plate(Row(v))} /\ PlateOf(v) = {Plate(Row(v))}
  BY <1>1, <1>2, DeskAssumption DEF Holds, PlateOf
<1>5. Owner' = [Owner EXCEPT ![c] = Holds[c]]
  BY <1>1, <1>4, PlatesKept DEF Owner
<1>6. \A d \in Cards \ {c} : Owner[d] # Holds[c]
  <2> SUFFICES ASSUME NEW d \in Cards, d # c, bound[d] # None PROVE Plate(Row(bound[d])) # Plate(Row(v))
    BY <1>4 DEF Owner, PlateOf
  <2>1. bound'[d] = bound[d] /\ bound'[c] = v /\ v # None
    BY <1>1, DeskAssumption
  <2>2. ~SamePlate(bound[d], bound[c])'
    BY <1>1, <2>1 DEF OneCardPerVehicle
  <2>3. Plate(Row(bound[d]))' # Plate(Row(bound[c]))'
    BY <2>2 DEF SamePlate
  <2> QED BY <2>1, <2>3 DEF Row
<1>7. CASE Owner'[c] # Owner[c]
  BY <1>1, <1>3, <1>4, <1>5, <1>6, <1>7 DEF Binding!BNext, Binding!BindCard
<1>8. CASE Owner'[c] = Owner[c]
  <2>1. Owner' = Owner
    BY <1>5, <1>8 DEF Owner
  <2> QED BY <1>3, <2>1 DEF Binding!bvars
<1> QED BY <1>7, <1>8

(* Desk.KeepsPromise: as long as at most one answer is late at a time, the *)
(* desk implements CardBinding.  A card is bound to the plate that it      *)
(* holds at that moment, not just to one it held once, and to one no other *)
(* card has (customizeEdit.jsp writeCard, uploadWriteResult,               *)
(* EriServiceImpl.saveCustomizeResult).                                    *)
THEOREM Implements ==
  ASSUME OneLate
  PROVE  Spec => KeepsPromise
<1>1. Init => Binding!BInit
  BY DEF Init, Binding!BInit, Holds, Owner, PlateOf
<1>2. HolderInv /\ [Next]_vars => [Binding!BNext]_(Binding!bvars)
  <2> SUFFICES ASSUME HolderInv, [Next]_vars PROVE [Binding!BNext]_(Binding!bvars)
    OBVIOUS
  <2>1. Shapes /\ OneCardPerVehicle'
    BY OneCardStep DEF HolderInv, OneCardInv
  <2>2. CASE memory' # memory
    BY <2>1, <2>2, OnlyReaderWrites, WritesPlate
  <2>3. CASE memory' = memory /\ bound' = bound
    BY <2>1, <2>3, OnlyReaderWrites, PlatesKept DEF Binding!bvars, Holds, Owner
  <2>4. CASE memory' = memory /\ bound' # bound
    BY <2>1, <2>4, OnlyReaderWrites, OnlyUploadBinds, UploadBinds
  <2> QED BY <2>2, <2>3, <2>4
<1>3. HolderInv /\ [Next]_vars => HolderInv'
  BY HeldStep, OneCardStep DEF HolderInv
<1>4. Init => HolderInv
  BY HeldInit, OneCardInit DEF HolderInv
<1> QED BY <1>1, <1>2, <1>3, <1>4, PTL DEF Spec, KeepsPromise, Binding!BSpec

=============================================================================
