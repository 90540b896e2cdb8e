----------------------- MODULE CustomizeBindingProofs -----------------------
(***************************************************************************)
(* The binding of cards and vehicles that the personalising of cards ends  *)
(* in, for any number of cards, vehicles, threads, requests and tasks: it  *)
(* was written on the card, it does not move to another vehicle, and a     *)
(* vehicle has one card.  Each holds where the clerks, the readers and     *)
(* the files' carrier leave out what would break it, which the hypotheses  *)
(* name.                                                                   *)
(***************************************************************************)
EXTENDS CustomizeRequestProofs

Running == {x \in records : x.st = "IN_PROGRESS"}

-----------------------------------------------------------------------------
(* Every step but four leaves cards alone and starts no record.            *)

(* No step changes a task's vehicle or type, or the card that it names     *)
(* already.                                                                *)
LEMMA EveryStepKeepsTasks ==
  ASSUME Common, [Next]_vars
  PROVE  TasksKept
<1>a. UNCHANGED tasks => TasksKept
  BY DEF TasksKept
<1>1. CASE (\E c \in Callers : Call(c)) \/ WwwJob
  BY <1>1, <1>a, WwwKeepsServer
<1>2. CASE Desk
  <2>1. \A k : BeginCancel(k) => UNCHANGED tasks
    BY DEF BeginCancel
  <2> QED
    BY <1>2, <1>a, <2>1, DeskTasks, CreateTaskAppends
<1>3. CASE ServerJob
  <2>1. CASE \E r \in RequestNos :
               HandleReviewed(r) \/ VehicleNotFound(r) \/ HandleRefused(r) \/ HandleFetched(r)
    BY <2>1, <1>a, HandleOutcome
  <2>2. CASE UpdateTask
    BY <2>2, InResultTypes, TaskUpdated DEF UpdateTask, InResult
  <2>3. CASE UNCHANGED tasks
    BY <2>3, <1>a
  <2>4. (\E f \in toServer : ServerReceive(f)) \/ StartRequests \/ HandleCard \/ HandleRecord
          \/ HandleThrows \/ HandleFinish \/ StartResults => UNCHANGED tasks
    BY DEF ServerReceive, StartRequests, HandleCard, HandleRecord, HandleThrows, HandleFinish,
           StartResults, desk
  <2>5. (\E e \in sExt : HandleOrphanResult(e) \/ HandleSuccess(e) \/ HandleFailure(e))
          \/ BindCard \/ ResultDone \/ EndResults => UNCHANGED tasks
    BY DEF HandleOrphanResult, HandleSuccess, HandleFailure, BindCard, ResultDone, EndResults, desk
  <2> QED
    BY <1>3, <2>1, <2>2, <2>3, <2>4, <2>5 DEF ServerJob
<1>4. CASE Breakdown \/ UNCHANGED vars
  BY <1>4, <1>a DEF Breakdown, FinishThrows, HandlingBreaks, ResultThrows, Crash, vars, desk
<1> QED
  BY <1>1, <1>2, <1>3, <1>4 DEF Next

(* The four steps that look at a card, start a record, take a result for a *)
(* success and bind a card.                                                *)
Binding ==
  HandleCard \/ HandleRecord \/ (\E e \in sExt : HandleSuccess(e)) \/ BindCard

(* The others: the job stays where it is, with the rows it handles, or     *)
(* goes to a place where it has no card in hand, or begins with a request  *)
(* or with the failure of one.                                             *)
LEMMA QuietSteps ==
  ASSUME Common, [Next]_vars, ~ Binding
  PROVE  /\ UNCHANGED cards
         /\ \A x \in Running' : x \in Running
         /\ \/ UNCHANGED <<job, sReq>>
            \/ job'.at \notin {"card", "record", "bind", "task"}
            \/ /\ job'.at = "card"
               /\ \E r \in RequestNos : HandleReviewed(r) \/ HandleFetched(r)
            \/ job'.at = "task" /\ \E e \in sExt : HandleFailure(e)
<1> DEFINE Quiet == job'.at \notin {"card", "record", "bind", "task"}
<1>0. UNCHANGED cards
  BY CardsKept DEF Binding
<1>a. UNCHANGED records => \A x \in Running' : x \in Running
  BY DEF Running
<1>b. \A which \in SUBSET records : \A st \in {"SUCCESS", "FAIL"} :
        SetRecords(which, st) => \A x \in Running' : x \in Running
  BY RecordsEnd DEF Running
<1>1. CASE (\E c \in Callers : Call(c)) \/ WwwJob
  BY <1>0, <1>1, <1>a, WwwKeepsServer
<1>2. CASE Desk
  <2>1. \A k : BeginCancel(k) => (\A x \in Running' : x \in Running) /\ UNCHANGED <<job, sReq>>
    BY <1>b DEF BeginCancel
  <2>2. \A k : Review(k) => UNCHANGED <<job, sReq, records>>
    BY DEF Review
  <2>3. EndCancel => UNCHANGED <<job, sReq, records>>
    BY DEF EndCancel
  <2>4. \A tid, veh, type, st : CreateTask(tid, veh, type, st) => UNCHANGED <<job, sReq, records>>
    BY DEF CreateTask
  <2> QED
    BY <1>0, <1>2, <1>a, <2>1, <2>2, <2>3, <2>4, DeskTasks
<1>3. ASSUME NEW r \in RequestNos, HandleReviewed(r) \/ HandleFetched(r)
      PROVE  (\A x \in Running' : x \in Running) /\ (Quiet \/ job'.at = "card")
  <2>1. UNCHANGED records /\ (FailRequest(r) \/ \E veh, k : GoOn(r, veh, k))
    BY <1>3, HandleOutcome
  <2> QED
    BY <1>a, <2>1 DEF FailRequest, Finish, GoOn
<1>4. ASSUME NEW r \in RequestNos, VehicleNotFound(r) \/ HandleRefused(r)
      PROVE  (\A x \in Running' : x \in Running) /\ Quiet
  <2>1. UNCHANGED records
    BY <1>4, HandleOutcome
  <2> QED
    BY <1>4, <1>a, <2>1 DEF VehicleNotFound, HandleRefused, FailRequest, Finish
<1>5. ASSUME NEW e \in sExt, HandleOrphanResult(e)
      PROVE  (\A x \in Running' : x \in Running) /\ Quiet
  <2>1. job \in ResultsJobs
    BY <1>5, JobTypes DEF HandleOrphanResult, Common, Shapes, ServerShapes
  <2> QED
    BY <1>5, <1>a, <2>1 DEF HandleOrphanResult, ResultsJobs, desk
<1>6. ASSUME NEW e \in sExt, HandleFailure(e)
      PROVE  (\A x \in Running' : x \in Running) /\ job'.at = "task"
  BY <1>6, <1>b DEF HandleFailure, GoBind
<1>7. CASE UpdateTask \/ ResultDone
  <2>1. UNCHANGED records
    BY <1>7 DEF UpdateTask, ResultDone, desk
  <2>2. Quiet
    BY <1>7, StepsOn DEF UpdateTask, ResultDone, InResult
  <2> QED
    BY <1>0, <1>a, <2>1, <2>2
<1>8. CASE \/ \E f \in toServer : ServerReceive(f)
           \/ StartRequests \/ HandleFinish \/ StartResults \/ EndResults \/ Crash
  <2>1. UNCHANGED records
    BY <1>8 DEF ServerReceive, StartRequests, HandleFinish, StartResults, EndResults, Crash, desk
  <2>2. job'.at \in {"fetch", "handle", "results"}
    BY <1>8 DEF ServerReceive, StartRequests, HandleFinish, StartResults, EndResults, Crash,
                AtFetch, Finish
  <2> QED
    BY <1>0, <1>a, <2>1, <2>2
<1>9. CASE Broken
  BY <1>0, <1>9, BrokenOff DEF Running
<1>10. CASE UNCHANGED vars
  BY <1>10, <1>0, <1>a DEF vars, desk
<1> QED
  BY <1>0, <1>1, <1>2, <1>3, <1>4, <1>5, <1>6, <1>7, <1>8, <1>9, <1>10
     DEF Next, ServerJob, Binding, Breakdown, Broken

-----------------------------------------------------------------------------
(* A card stays bound to its vehicle.                                      *)

NoCardlessTasks == "SaveCustomize" \notin Offered

(* The record of a task is of the card that the task names, and a card has *)
(* one record in progress.                                                 *)
OneRecordPerCard ==
  /\ \A x \in Running : x.tid = tasks[x.task].tid
  /\ \A x, y \in Running : x.tid = y.tid => x = y
  /\ job.at = "record" => \A x \in Running : x.tid # sReq[job.req].tid
  /\ job.at = "bind" => \A x \in Running : x.tid # sReq[job.ext.req].tid

(* From the moment the card is looked at until it is bound, it is bound to *)
(* no other vehicle than its record's, unless the binding is modified.     *)
RecordsOnFreeCards ==
  /\ \A x \in Running : tasks[x.task].type # "MODIFY" => cards[x.tid].veh \in {None, x.veh}
  /\ job.at = "record" /\ job.task # 0 /\ tasks[job.task].type # "MODIFY" =>
       cards[sReq[job.req].tid].veh \in {None, job.veh}
  /\ job.at = "bind" /\ job.task.type # "MODIFY" =>
       cards[sReq[job.ext.req].tid].veh \in {None, job.veh}

StaysInv == Common /\ OneRecordPerCard /\ RecordsOnFreeCards

(* Without tasks that name no card, every step keeps these.                *)
LEMMA StaysNext ==
  ASSUME NoCardlessTasks, StaysInv, [Next]_vars
  PROVE  StaysInv'
<1>a. /\ Common /\ Common' /\ DeskShapes /\ TasksKept
      /\ OneRecordPerCard /\ RecordsOnFreeCards
      /\ \A type : NamesCard(type)
  BY CommonNext, EveryStepKeepsTasks DEF StaysInv, Common, Shapes, NamesCard, NoCardlessTasks
<1>b. /\ Running \subseteq records
      /\ \A x \in records : x \in [tid : Tids, veh : Vehicles, task : DOMAIN tasks,
                                   st : {"IN_PROGRESS", "SUCCESS", "FAIL"}]
      /\ cards \in [Tids -> [st : {"AVAILABLE", "DISABLED"}, veh : Vehicles \cup {None}]]
  BY <1>a DEF DeskShapes, Running
<1>c. job.at \in InHand /\ job.task # 0 =>
        /\ Fits(sReq[job.req], job.task) /\ tasks[job.task].tid = sReq[job.req].tid
        /\ tasks[job.task].veh = job.veh
  BY <1>a DEF Common, JobFits, Fits
<1> SUFFICES OneRecordPerCard' /\ RecordsOnFreeCards'
  BY <1>a DEF StaysInv
<1>1. CASE ~ Binding
  <2>1. /\ UNCHANGED cards /\ Running' \subseteq Running
        /\ UNCHANGED <<job, sReq>> \/ job'.at \notin {"record", "bind"}
    BY <1>1, <1>a, QuietSteps
  <2>2. OneRecordPerCard'
    BY <1>a, <1>b, <2>1 DEF OneRecordPerCard, TasksKept
  <2>3. job.at = "record" /\ job.task # 0 => job.task \in DOMAIN tasks
    BY <1>c DEF Fits, InHand
  <2>4. RecordsOnFreeCards'
    BY <1>a, <1>b, <2>1, <2>3 DEF RecordsOnFreeCards, TasksKept
  <2> QED
    BY <2>2, <2>4
<1>2. CASE HandleCard
  <2> DEFINE tid == sReq[job.req].tid
  <2>0. job.at \in InHand /\ job.at = "card"
    BY <1>2 DEF HandleCard, InHand
  <2>1. /\ UNCHANGED tasks
        /\ \A t \in Tids : cards'[t].veh = cards[t].veh
        /\ Running' \subseteq Running
    BY <1>2, <1>a, CardOutcome DEF Running
  <2>2. CASE FailRequest(job.req)
    <3>1. job'.at = "handle"
      BY <2>2 DEF FailRequest, Finish
    <3> QED
      BY <1>a, <1>b, <2>1, <3>1 DEF OneRecordPerCard, RecordsOnFreeCards
  <2>3. CASE /\ job' = [job EXCEPT !.at = "record"] /\ UNCHANGED <<sReq, toWww>>
             /\ CardUsable(tid, job.veh, sReq[job.req].type)
             /\ \A x \in records' : x.st = "IN_PROGRESS" => x.tid # tid
    <3>1. job'.at = "record" /\ job'.req = job.req /\ job'.veh = job.veh /\ job'.task = job.task
      BY <1>a, <2>0, <2>3, StepsOn
    <3>2. tid \in Tids
      BY <1>a, <2>0, InHandTypes
    <3>3. OneRecordPerCard'
      BY <1>a, <1>b, <2>1, <2>3, <3>1 DEF OneRecordPerCard, Running
    <3>4. job.task # 0 => tasks[job.task].type = sReq[job.req].type
      BY <1>c, <2>0 DEF Fits
    <3>5. RecordsOnFreeCards'
      BY <1>a, <1>b, <2>1, <2>3, <3>1, <3>2, <3>4 DEF RecordsOnFreeCards, CardUsable
    <3> QED
      BY <3>3, <3>5
  <2> QED
    BY <1>2, <1>a, <2>2, <2>3, CardOutcome
<1>3. CASE HandleRecord
  <2> DEFINE new == [tid |-> sReq[job.req].tid, veh |-> job.veh, task |-> job.task, st |-> "IN_PROGRESS"]
  <2>1. /\ job.at = "record" /\ job.at \in InHand /\ job.task # 0
        /\ records' = records \cup {new}
        /\ job' = [job EXCEPT !.at = "finish"] /\ UNCHANGED <<sReq, tasks, cards>>
    BY <1>3 DEF HandleRecord, InHand
  <2>2. job'.at = "finish"
    BY <1>a, <2>1, StepsOn
  <2>3. Running' = Running \cup {new}
    BY <2>1 DEF Running
  <2>4. new.tid = sReq[job.req].tid /\ new.veh = job.veh /\ new.task = job.task
    OBVIOUS
  <2> HIDE DEF new
  <2>5. OneRecordPerCard'
    BY <1>a, <1>c, <2>1, <2>2, <2>3, <2>4 DEF OneRecordPerCard
  <2>6. RecordsOnFreeCards'
    BY <1>a, <2>1, <2>2, <2>3, <2>4 DEF RecordsOnFreeCards
  <2> QED
    BY <2>5, <2>6
<1>4. ASSUME NEW e \in sExt, HandleSuccess(e)
      PROVE  OneRecordPerCard' /\ RecordsOnFreeCards'
  <2> DEFINE k == sReq[e.req].task
             tid == sReq[e.req].tid
  <2>0. /\ k # 0 /\ UNCHANGED <<sReq, tasks, cards>>
        /\ e \in Exts
    BY <1>4, <1>a DEF HandleSuccess, resultKeeps, Common, Shapes, ServerShapes
  <2>1. e.req \in RequestNos
    BY <2>0 DEF Exts
  <2>2. k \in DOMAIN tasks /\ tasks[k].tid = tid
    BY <1>a, <2>0, <2>1 DEF Common, RowTasks, Fits
  <2>3. CASE /\ SetRecords({x \in records : x.task = k}, "SUCCESS")
             /\ \E x \in InProgress(k) : GoBind(e, "bind", "DONE", x.veh)
    <3>1. PICK x \in InProgress(k) : GoBind(e, "bind", "DONE", x.veh)
      BY <2>3
    <3>2. x \in Running /\ x.task = k /\ x.tid = tid
      BY <1>a, <2>2, <3>1 DEF InProgress, Running, OneRecordPerCard
    <3>3. {y \in records : y.task = k} \in SUBSET records
      OBVIOUS
    <3>4. \A y \in Running' : y \in Running /\ y.task # k
      BY <1>a, <2>3, <3>3, RecordsEnd DEF Running
    <3>5. \A y \in Running' : y.tid # tid
      BY <1>a, <3>2, <3>4 DEF OneRecordPerCard
    <3>6. /\ job'.at = "bind" /\ job'.ext = e /\ job'.veh = x.veh
          /\ job'.task = [tasks[k] EXCEPT !.st = "DONE", !.tid = tid]
      BY <3>1 DEF GoBind
    <3>7. job'.task.type = tasks[k].type
      <4>1. tasks[k] \in Task
        BY <1>a, <2>2 DEF DeskShapes
      <4> QED
        BY <3>6, <4>1 DEF Task
    <3>8. OneRecordPerCard'
      BY <1>a, <2>0, <3>4, <3>5, <3>6 DEF OneRecordPerCard
    <3>9. RecordsOnFreeCards'
      BY <1>a, <2>0, <3>2, <3>4, <3>6, <3>7 DEF RecordsOnFreeCards
    <3> QED
      BY <3>8, <3>9
  <2>4. CASE GoBind(e, "task", "DONE", None) /\ UNCHANGED records
    <3>1. job'.at = "task" /\ Running' = Running
      BY <2>4 DEF GoBind, Running
    <3> QED
      BY <1>a, <2>0, <3>1 DEF OneRecordPerCard, RecordsOnFreeCards
  <2> QED
    BY <1>4, <2>3, <2>4 DEF HandleSuccess
<1>5. CASE BindCard
  <2> DEFINE t == sReq[job.ext.req].tid
  <2>1. /\ job.at = "bind" /\ job.at \in InResult /\ job' = [job EXCEPT !.at = "task"]
        /\ cards' = [cards EXCEPT ![t].veh = job.veh]
        /\ UNCHANGED <<sReq, tasks, records>>
    BY <1>5 DEF BindCard, resultKeeps, InResult
  <2>2. job'.at = "task"
    BY <1>a, <2>1, StepsOn
  <2>3. Running' = Running
    BY <2>1 DEF Running
  <2>4. \A u \in Tids : u # t => cards'[u] = cards[u]
    BY <1>b, <2>1
  <2>5. OneRecordPerCard'
    BY <1>a, <2>1, <2>2, <2>3 DEF OneRecordPerCard
  <2>6. \A x \in Running : x.tid # t /\ x.tid \in Tids
    BY <1>a, <1>b, <2>1 DEF OneRecordPerCard
  <2>7. RecordsOnFreeCards'
    BY <1>a, <2>1, <2>2, <2>3, <2>4, <2>6 DEF RecordsOnFreeCards
  <2> QED
    BY <2>5, <2>7
<1> QED
  BY <1>1, <1>2, <1>3, <1>4, <1>5 DEF Binding

(* They are true in every state.                                           *)
LEMMA StaysAlways ==
  ASSUME NoCardlessTasks
  PROVE  Spec => []StaysInv
<1>1. Init => StaysInv
  <2>1. Init => OneRecordPerCard /\ RecordsOnFreeCards
    BY DEF Init, OneRecordPerCard, RecordsOnFreeCards, Running
  <2> QED
    BY <2>1, CommonInit DEF StaysInv
<1>2. StaysInv /\ [Next]_vars => StaysInv'
  BY StaysNext
<1> QED
  BY <1>1, <1>2, PTL DEF Spec

(* A step rebinds a bound card only at the end of a request to modify its  *)
(* binding.                                                                *)
LEMMA StepRebinds ==
  ASSUME StaysInv, [Next]_vars, NEW t \in Tids
  PROVE  \/ cards[t].veh \in {None, cards'[t].veh}
         \/ job.at = "bind" /\ job.task.type = "MODIFY"
<1>a. Common /\ cards \in [Tids -> [st : {"AVAILABLE", "DISABLED"}, veh : Vehicles \cup {None}]]
  BY DEF StaysInv, Common, Shapes, DeskShapes
<1>1. CASE HandleCard
  BY <1>1, <1>a, CardOutcome
<1>2. CASE BindCard
  <2>1. job.at = "bind" /\ cards' = [cards EXCEPT ![sReq[job.ext.req].tid].veh = job.veh]
    BY <1>2 DEF BindCard
  <2> QED
    BY <1>a, <2>1 DEF StaysInv, RecordsOnFreeCards
<1>3. CASE UNCHANGED cards
  BY <1>3
<1> QED
  BY <1>1, <1>2, <1>3, CardsKept

(* Where no clerk makes tasks that name no card, a card that is bound stays*)
(* bound to its vehicle, unless a request to modify the binding ends: what *)
(* is looked up when a request is handled still holds when its result comes*)
(* back, whatever is handled in between.                                   *)
THEOREM CardsStayBound ==
  ASSUME NoCardlessTasks
  PROVE  Spec => OnlyModifyRebinds
<1> DEFINE Kept ==
      \A t \in Tids :
        \/ cards[t].veh \in {None, cards'[t].veh}
        \/ job.at = "bind" /\ job.task.type = "MODIFY"
<1>1. StaysInv /\ [Next]_vars => [Kept]_vars
  BY StepRebinds
<1> QED
  BY <1>1, StaysAlways, PTL DEF Spec, OnlyModifyRebinds

-----------------------------------------------------------------------------
(* Where the rows, the data and the results under way come from.           *)

(* The server's desk and job leave the www site alone, and send it files   *)
(* only.                                                                   *)
LEMMA ServerKeepsWww ==
  ASSUME Desk \/ ServerJob \/ Breakdown
  PROVE  UNCHANGED <<www, written>> /\ toServer' \subseteq toServer
<1>1. CASE Desk
  BY <1>1 DEF Desk, SaveCustomize, CreateChange, CreateModify, CreateAnnualInspection, CreateTask,
              Review, BeginCancel, EndCancel, history
<1>2. CASE ServerJob
  <2>1. (\E f \in toServer : ServerReceive(f)) \/ StartRequests =>
          UNCHANGED <<www, written>> /\ toServer' \subseteq toServer
    BY DEF ServerReceive, StartRequests, history
  <2>2. (\E r \in RequestNos :
           HandleReviewed(r) \/ VehicleNotFound(r) \/ HandleRefused(r) \/ HandleFetched(r)) =>
          UNCHANGED <<www, written>> /\ toServer' \subseteq toServer
    BY DEF HandleReviewed, VehicleNotFound, HandleRefused, HandleFetched, jobKeeps, history
  <2>3. HandleCard \/ HandleRecord \/ HandleThrows \/ HandleFinish =>
          UNCHANGED <<www, written>> /\ toServer' \subseteq toServer
    BY DEF HandleCard, HandleRecord, HandleThrows, HandleFinish, jobKeeps, history
  <2>4. (\E e \in sExt : HandleOrphanResult(e) \/ HandleSuccess(e) \/ HandleFailure(e)) =>
          UNCHANGED <<www, written>> /\ toServer' \subseteq toServer
    BY DEF HandleOrphanResult, HandleSuccess, HandleFailure, resultKeeps, history
  <2>5. StartResults \/ BindCard \/ UpdateTask \/ ResultDone \/ EndResults =>
          UNCHANGED <<www, written>> /\ toServer' \subseteq toServer
    BY DEF StartResults, BindCard, UpdateTask, ResultDone, EndResults, jobKeeps, resultKeeps, history
  <2> QED
    BY <1>2, <2>1, <2>2, <2>3, <2>4, <2>5 DEF ServerJob
<1>3. CASE Breakdown
  BY <1>3 DEF Breakdown, FinishThrows, HandlingBreaks, ResultThrows, Crash, jobKeeps, history
<1> QED
  BY <1>1, <1>2, <1>3

(* A row that was sent again: its status changed.                          *)
SentAgain(f) == f.row.st # "NEW" /\ f.row.task = wReq[f.xh].task

(* A row that was inserted just now.                                       *)
SentFirst(f) == wReq[f.xh] = NoRow /\ f.row = wReq'[f.xh] /\ f.row.task = 0

(* The result of a write or of a call to cancel changes the status of the  *)
(* request's row, and sends it and the result.                             *)
LEMMA ResultSent ==
  ASSUME Common, NEW r \in RequestNos, wReq[r] # NoRow, NEW result \in Results,
         UpdateCustomizeResult(r, result)
  PROVE  /\ \A q \in RequestNos : wReq'[q].task = wReq[q].task
         /\ wData' \subseteq wData
         /\ \A f \in toServer' : f \in toServer \/ f = ExternalFile([req |-> r, result |-> result])
                                   \/ (f.kind = "request" /\ f.xh \in RequestNos /\ SentAgain(f))
<1> DEFINE st == CASE result = "SUCCESS" -> "WRITTEN"
                   [] result = "CANCEL" -> "CANCELLED"
                   [] OTHER -> "FAIL"
           row == [wReq[r] EXCEPT !.st = st]
<1>1. wReq \in [RequestNos -> Rows \cup {NoRow}] /\ wReq[r] \in Rows
  BY RowIsThere DEF Common, Shapes, WwwShapes
<1>2. row.task = wReq[r].task /\ row.st # "NEW"
  BY <1>1 DEF Rows, Row
<1>3. \/ UNCHANGED <<wReq, wData, toServer>>
      \/ /\ wReq' = [wReq EXCEPT ![r] = row]
         /\ wData' \subseteq wData
         /\ toServer' = toServer \cup {RequestFile(r, row),
                                       ExternalFile([req |-> r, result |-> result])}
  BY DEF UpdateCustomizeResult
<1> HIDE DEF row
<1>4. /\ RequestFile(r, row).kind = "request" /\ RequestFile(r, row).xh = r
      /\ RequestFile(r, row).row = row
  BY DEF RequestFile
<1> QED
  BY <1>1, <1>2, <1>3, <1>4 DEF SentAgain

(* The rows at the www site and the files it sends.                        *)
LEMMA WwwOrigins ==
  ASSUME Common, [Next]_vars
  PROVE  /\ \A r \in RequestNos :
              \/ wReq'[r].task \in {0, wReq[r].task}
              \/ \E f \in toWww : f.kind = "request" /\ f.xh = r /\ wReq'[r].task = f.row.task
         /\ \A f \in toServer' : f.kind = "request" /\ f \notin toServer =>
              f.xh \in RequestNos /\ (SentAgain(f) \/ SentFirst(f))
         /\ \A d \in wData' : d \in wData \/ \E f \in toWww : f.kind = "data" /\ f.data = d
<1>a. /\ wReq \in [RequestNos -> Rows \cup {NoRow}] /\ callers \in [Callers -> Calls]
      /\ toWww \subseteq RequestFiles \cup DataFiles
  BY DEF Common, Shapes, WwwShapes, FileShapes
<1> DEFINE Rests == /\ UNCHANGED <<wReq, wData>>
                    /\ \A f \in toServer' : f.kind = "request" => f \in toServer
           Inserts(c) ==
             /\ callers[c].op = "insert" /\ UNCHANGED wData
             /\ \E r \in RequestNos :
                  /\ wReq[r] = NoRow
                  /\ wReq' = [wReq EXCEPT ![r] = callers[c].row]
                  /\ toServer' \subseteq toServer \cup {RequestFile(r, callers[c].row)}
<1>1. CASE Rests
  BY <1>1
<1>2. ASSUME NEW c \in Callers, Call(c)
      PROVE  \/ Rests
             \/ Inserts(c)
             \/ \E r \in RequestNos, result \in Results :
                  wReq[r] # NoRow /\ UpdateCustomizeResult(r, result)
  <2>1. CASE CancelReplaced(c)
    <3>1. callers[c] \in CreateCalls /\ callers[c].req # 0 /\ wReq[callers[c].req] # NoRow
      BY <2>1, <1>a, CallTypes DEF CancelReplaced, Creating, Common, NumbersKnown
    <3> QED
      BY <2>1, <3>1 DEF CancelReplaced, CreateCalls, Results
  <2>2. CASE ApplyResult(c)
    <3>1. callers[c] \in ReportCalls /\ wReq[callers[c].req] # NoRow
      BY <2>2, <1>a, CallTypes DEF ApplyResult, Reporting, Common, NumbersKnown
    <3> QED
      BY <2>2, <3>1 DEF ApplyResult, ReportCalls
  <2>3. CASE InsertRequest(c)
    BY <2>3 DEF InsertRequest
  <2>4. CASE CallBreaks(c)
    <3>1. UNCHANGED wData
      BY <2>4 DEF CallBreaks
    <3>2. CASE UNCHANGED wReq
      <4>1. UNCHANGED toServer \/ \E e : toServer' = toServer \cup {ExternalFile(e)}
        BY <2>4 DEF CallBreaks
      <4>2. \A e : ExternalFile(e).kind # "request"
        BY DEF ExternalFile
      <4> QED
        BY <3>1, <3>2, <4>1, <4>2
    <3>3. UNCHANGED wReq \/ Inserts(c)
      BY <2>4, <3>1 DEF CallBreaks
    <3> QED
      BY <3>2, <3>3
  <2>5. CASE \/ \E t \in Tids, ty \in Types : \E v \in Named(ty) : CallCreate(c, t, v, ty)
             \/ CheckNoActive(c)
             \/ \E t \in Tids, result \in {"SUCCESS", "FAIL"} : Customize(c, t, result)
             \/ LeaveCall(c) \/ \E r \in RequestNos : CallCancel(c, r)
             \/ CheckRequestStatus(c)
    BY <2>5 DEF CallCreate, CheckNoActive, Customize, LeaveCall, CallCancel, CheckRequestStatus
  <2> HIDE DEF Rests, Inserts
  <2> QED
    BY <1>2, <2>1, <2>2, <2>3, <2>4, <2>5 DEF Call
<1>3. ASSUME NEW r \in RequestNos, NEW result \in Results, wReq[r] # NoRow,
             UpdateCustomizeResult(r, result)
      PROVE  /\ \A q \in RequestNos : wReq'[q].task = wReq[q].task
             /\ wData' \subseteq wData
             /\ \A f \in toServer' : f.kind = "request" /\ f \notin toServer =>
                  f.xh \in RequestNos /\ SentAgain(f)
  <2>1. ExternalFile([req |-> r, result |-> result]).kind # "request"
    BY DEF ExternalFile
  <2> QED
    BY <1>3, <2>1, ResultSent
<1>4. ASSUME NEW c \in Callers, Inserts(c)
      PROVE  /\ \A q \in RequestNos : wReq'[q].task \in {0, wReq[q].task}
             /\ UNCHANGED wData
             /\ \A f \in toServer' : f \notin toServer => f.xh \in RequestNos /\ SentFirst(f)
  <2>1. callers[c] \in CreateCalls
    BY <1>4, <1>a, CallTypes DEF Creating
  <2>2. callers[c].row.task = 0
    BY <2>1 DEF CreateCalls, Args
  <2>3. PICK r \in RequestNos :
          /\ wReq[r] = NoRow
          /\ wReq' = [wReq EXCEPT ![r] = callers[c].row]
          /\ toServer' \subseteq toServer \cup {RequestFile(r, callers[c].row)}
    BY <1>4
  <2>4. /\ RequestFile(r, callers[c].row).xh = r
        /\ RequestFile(r, callers[c].row).row = callers[c].row
    BY DEF RequestFile
  <2> QED
    BY <1>4, <1>a, <2>2, <2>3, <2>4 DEF SentFirst
<1>5. ASSUME NEW f \in toWww, WwwReceive(f)
      PROVE  /\ UNCHANGED toServer
             /\ \A r \in RequestNos :
                  \/ wReq'[r].task \in {0, wReq[r].task}
                  \/ f.kind = "request" /\ f.xh = r /\ wReq'[r].task = f.row.task
             /\ \A d \in wData' : d \in wData \/ (f.kind = "data" /\ f.data = d)
  <2>1. CASE f.kind = "request"
    <3>1. f.xh \in RequestNos /\ f.row \in Rows
      BY <1>a, <2>1 DEF RequestFiles, DataFiles
    <3>2. wReq' = [wReq EXCEPT ![f.xh] = MergeRow(wReq[f.xh], f.row)] /\ UNCHANGED <<wData, toServer>>
      BY <1>5, <2>1 DEF WwwReceive
    <3>3. MergeRow(wReq[f.xh], f.row).task \in {wReq[f.xh].task, f.row.task}
      BY <3>1 DEF MergeRow, Rows, Row
    <3> QED
      BY <1>a, <2>1, <3>1, <3>2, <3>3
  <2>2. CASE f.kind # "request"
    <3>1. f.kind = "data"
      BY <1>a, <2>2 DEF RequestFiles, DataFiles
    <3> QED
      BY <1>5, <2>2, <3>1 DEF WwwReceive
  <2> QED
    BY <2>1, <2>2
<1>6. Desk \/ ServerJob \/ Breakdown \/ UNCHANGED vars => Rests
  BY ServerKeepsWww DEF www, vars
<1> HIDE DEF Rests, Inserts
<1> QED
  BY <1>1, <1>2, <1>3, <1>4, <1>5, <1>6 DEF Next, WwwJob

(* A row that the job took from a file, which stays only when a crash lets *)
(* it come back.                                                           *)
TakenFrom(r, f) ==
  /\ f.kind = "request" /\ f.xh = r
  /\ sReq'[r] = MergeRow(sReq[r], f.row)
  /\ f \notin toServer' \/ "redelivery" \in Troubles

(* A row whose request got its data, if only to fail after that.           *)
GotData(r) ==
  /\ job.at = "finish" /\ r = job.req
  /\ \E st \in {"FETCHED", "FAIL"} :
       sReq'[r] = [sReq[r] EXCEPT !.st = st, !.task = job.task, !.veh = job.veh]

(* A file the job sends: a row with the task that the request has now, or  *)
(* the data for the row's card.                                            *)
AnswersWith(f) ==
  \/ f.kind = "request" /\ f.xh \in RequestNos /\ f.row.task = sReq'[f.xh].task
  \/ /\ f.kind = "data" /\ f.data.req \in RequestNos /\ GotData(f.data.req)
     /\ f.data.tid = sReq[f.data.req].tid /\ f.data.veh = job.veh

(* The rows at the server and the files it sends.                          *)
LEMMA ServerOrigins ==
  ASSUME Common, [Next]_vars
  PROVE  /\ \A r \in RequestNos :
              \/ sReq'[r] = sReq[r]
              \/ sReq'[r] = [sReq[r] EXCEPT !.st = "FAIL"] /\ sReq[r] \in Rows
              \/ \E f \in toServer : TakenFrom(r, f)
              \/ GotData(r)
         /\ \A f \in toWww' : f \in toWww \/ AnswersWith(f)
<1> DEFINE Rest(r) ==
      \/ sReq'[r] = sReq[r]
      \/ sReq'[r] = [sReq[r] EXCEPT !.st = "FAIL"] /\ sReq[r] \in Rows
      \/ \E f \in toServer : TakenFrom(r, f)
      \/ GotData(r)
<1> DEFINE Origins == /\ \A q \in RequestNos : Rest(q)
                      /\ \A f \in toWww' : f \in toWww \/ AnswersWith(f)
<1> SUFFICES Origins
  OBVIOUS
<1>a. sReq \in [RequestNos -> Rows \cup {NoRow}] /\ toServer \subseteq RequestFiles \cup ExternalFiles
  BY DEF Common, Shapes, ServerShapes, FileShapes
<1>1. CASE UNCHANGED sReq /\ toWww' \subseteq toWww
  BY <1>1
<1>2. ASSUME NEW r \in RequestNos, sReq[r] \in Rows,
             NEW st \in {"NEW", "FAIL"}, st = "NEW" => sReq[r].st = "NEW",
             sReq' = [sReq EXCEPT ![r] = [sReq[r] EXCEPT !.st = st]],
             toWww' \subseteq toWww \cup {RequestFile(r, [sReq[r] EXCEPT !.st = st])}
      PROVE  Origins
  <2> DEFINE row == [sReq[r] EXCEPT !.st = st]
  <2>1. sReq'[r] = row /\ \A q \in RequestNos : q # r => sReq'[q] = sReq[q]
    BY <1>a, <1>2
  <2>2. st = "NEW" => row = sReq[r]
    BY <1>2 DEF Rows, Row
  <2>3. AnswersWith(RequestFile(r, row))
    BY <2>1 DEF AnswersWith, RequestFile
  <2>4. \A q \in RequestNos : Rest(q)
    BY <1>2, <2>1, <2>2
  <2> QED
    BY <1>2, <2>3, <2>4
<1>b. ASSUME NEW r \in RequestNos, sReq[r] \in Rows, FailRequest(r) PROVE Origins
  BY <1>b, <1>2 DEF FailRequest, Finish
<1>3. ASSUME job.at = "finish", NEW st \in {"FETCHED", "FAIL"}, NEW sent,
             sent \subseteq {RequestFile(job.req, Fetched), FetchedData,
                            RequestFile(job.req, [Fetched EXCEPT !.st = st])},
             sReq' = [sReq EXCEPT ![job.req] = [Fetched EXCEPT !.st = st]],
             toWww' = toWww \cup sent
      PROVE  Origins
  <2> DEFINE r == job.req
             row == [Fetched EXCEPT !.st = st]
  <2>1. r \in RequestNos /\ sReq[r] \in Rows
    BY <1>3, InHandTypes DEF InHand
  <2>2. sReq'[r] = row /\ \A q \in RequestNos : q # r => sReq'[q] = sReq[q]
    BY <1>a, <1>3, <2>1
  <2>3. /\ Fetched.tid = sReq[r].tid /\ Fetched.veh = job.veh
        /\ Fetched.task = job.task /\ row.task = job.task
        /\ row = [sReq[r] EXCEPT !.st = st, !.task = job.task, !.veh = job.veh]
    BY <2>1 DEF Fetched, Rows, Row
  <2>4. GotData(r)
    BY <1>3, <2>2, <2>3 DEF GotData
  <2>5. /\ AnswersWith(RequestFile(r, Fetched)) /\ AnswersWith(RequestFile(r, row))
        /\ AnswersWith(FetchedData)
    BY <2>1, <2>2, <2>3, <2>4 DEF AnswersWith, RequestFile, FetchedData, DataFile
  <2>6. \A f \in sent : AnswersWith(f)
    BY <1>3, <2>5
  <2>7. \A q \in RequestNos : Rest(q)
    BY <2>2, <2>4
  <2> QED
    BY <1>3, <2>6, <2>7
<1>c. CASE HandleFinish
  <2>1. /\ job.at = "finish" /\ job.req \in RequestNos /\ sReq[job.req] \in Rows
        /\ sReq' = [sReq EXCEPT ![job.req] = Fetched]
        /\ toWww' = toWww \cup {RequestFile(job.req, Fetched), FetchedData}
    BY <1>c, InHandTypes DEF HandleFinish, Finish, InHand
  <2>2. Fetched = [Fetched EXCEPT !.st = "FETCHED"]
    BY <2>1 DEF Fetched, Rows, Row
  <2> QED
    BY <1>3, <2>1, <2>2
<1>d. CASE FinishThrows
  <2>1. PICK sent \in SentSoFar : Finish(job.req, [Fetched EXCEPT !.st = "FAIL"], sent)
    BY <1>d DEF FinishThrows
  <2> DEFINE out == {RequestFile(job.req, [Fetched EXCEPT !.st = "FAIL"])} \cup sent
  <2>2. out \subseteq {RequestFile(job.req, Fetched), FetchedData,
                      RequestFile(job.req, [Fetched EXCEPT !.st = "FAIL"])}
    BY <2>1 DEF SentSoFar
  <2>3. /\ job.at = "finish" /\ toWww' = toWww \cup out
        /\ sReq' = [sReq EXCEPT ![job.req] = [Fetched EXCEPT !.st = "FAIL"]]
    BY <1>d, <2>1 DEF FinishThrows, Finish
  <2> HIDE DEF out
  <2> QED
    BY <1>3, <2>2, <2>3
<1>e. CASE HandlingBreaks
  <2>1. ASSUME job.at \in {"handle", "card", "record", "finish"}, job.todo # {},
               NEW r, r = IF job.at = "handle" THEN Max(job.todo) ELSE job.req,
               NEW st \in {"NEW", "FAIL"}, EndRun(r, [sReq[r] EXCEPT !.st = st], {})
        PROVE  Origins
    <3>1. r \in RequestNos /\ sReq[r] \in Rows /\ sReq[r].st = "NEW"
      <4>1. CASE job.at = "handle"
        <5>1. Handling(r)
          BY <2>1, <4>1 DEF Handling
        <5> QED
          BY <5>1, HandledIsToDo DEF Common, Shapes
      <4>2. CASE job.at \in InHand
        <5>1. r = job.req
          BY <2>1, <4>2 DEF InHand
        <5> QED
          BY <4>2, <5>1, InHandTypes
      <4> QED
        BY <2>1, <4>1, <4>2 DEF InHand
    <3>2. /\ sReq' = [sReq EXCEPT ![r] = [sReq[r] EXCEPT !.st = st]]
          /\ toWww' \subseteq toWww
      BY <2>1 DEF EndRun
    <3> QED
      BY <1>2, <2>1, <3>1, <3>2
  <2>2. ASSUME job.at = "finish", NEW st \in {"FETCHED", "FAIL"}, NEW sent \in SentSoFar,
               EndRun(job.req, [Fetched EXCEPT !.st = st], sent)
        PROVE  Origins
    <3>1. sent \subseteq {RequestFile(job.req, Fetched), FetchedData,
                         RequestFile(job.req, [Fetched EXCEPT !.st = st])}
      BY <2>2 DEF SentSoFar
    <3> QED
      BY <1>3, <2>2, <3>1 DEF EndRun
  <2> QED
    BY <1>e, <2>1, <2>2 DEF HandlingBreaks
<1>4. ASSUME NEW f \in toServer, ServerReceive(f)
      PROVE  (\A q \in RequestNos : Rest(q)) /\ UNCHANGED toWww
  <2>1. CASE f.kind = "request"
    <3>1. f.xh \in RequestNos
      BY <1>a, <2>1 DEF RequestFiles, ExternalFiles
    <3>2. /\ sReq' = [sReq EXCEPT ![f.xh] = MergeRow(sReq[f.xh], f.row)] /\ UNCHANGED toWww
          /\ toServer' = toServer \ {f} \/ "redelivery" \in Troubles
      BY <1>4, <2>1 DEF ServerReceive, Fault
    <3>3. TakenFrom(f.xh, f)
      BY <1>a, <2>1, <3>1, <3>2 DEF TakenFrom
    <3>4. \A q \in RequestNos : q # f.xh => sReq'[q] = sReq[q]
      BY <1>a, <3>2
    <3> QED
      BY <3>1, <3>2, <3>3, <3>4
  <2>2. CASE f.kind # "request"
    BY <1>4, <2>2 DEF ServerReceive
  <2> QED
    BY <2>1, <2>2
<1>5. ASSUME NEW f \in toWww, WwwReceive(f)
      PROVE  UNCHANGED sReq /\ toWww' \subseteq toWww
  BY <1>5 DEF WwwReceive, serverSide
<1>6. ASSUME NEW c \in Callers, Call(c)
      PROVE  UNCHANGED <<sReq, toWww>>
  BY <1>6 DEF Call, CallCreate, CancelReplaced, CheckNoActive, InsertRequest, Customize, LeaveCall,
              CallCancel, CheckRequestStatus, ApplyResult, CallBreaks, serverSide
<1>7. ASSUME NEW r \in RequestNos,
             HandleReviewed(r) \/ VehicleNotFound(r) \/ HandleRefused(r) \/ HandleFetched(r)
      PROVE  UNCHANGED <<sReq, toWww>> \/ (FailRequest(r) /\ sReq[r] \in Rows)
  BY <1>7, HandleOutcome DEF GoOn
<1>8. CASE HandleCard \/ HandleThrows
  <2>1. job.at \in InHand
    BY <1>8 DEF HandleCard, HandleThrows, InHand
  <2>2. job.req \in RequestNos /\ sReq[job.req] \in Rows
    BY <2>1, InHandTypes
  <2>3. UNCHANGED <<sReq, toWww>> \/ FailRequest(job.req)
    BY <1>8 DEF HandleCard, HandleThrows
  <2> QED
    BY <1>1, <1>b, <2>2, <2>3
<1>9. CASE \/ StartRequests \/ HandleRecord \/ StartResults
           \/ (\E e \in sExt : HandleOrphanResult(e) \/ HandleSuccess(e) \/ HandleFailure(e))
           \/ BindCard \/ UpdateTask \/ ResultDone \/ EndResults
           \/ ResultThrows \/ Crash \/ UNCHANGED vars
  BY <1>1, <1>9 DEF StartRequests, HandleRecord, StartResults, HandleOrphanResult, HandleSuccess,
                    HandleFailure, BindCard, UpdateTask, ResultDone, EndResults, ResultThrows,
                    Crash, jobKeeps, resultKeeps, vars, www
<1>10. CASE Desk
  BY <1>1, <1>10 DEF Desk, SaveCustomize, CreateChange, CreateModify, CreateAnnualInspection,
                     CreateTask, Review, BeginCancel, EndCancel
<1>11. ASSUME NEW r \in RequestNos,
              HandleReviewed(r) \/ VehicleNotFound(r) \/ HandleRefused(r) \/ HandleFetched(r)
       PROVE  Origins
  BY <1>1, <1>7, <1>11, <1>b
<1>12. ASSUME NEW f \in toServer, ServerReceive(f) PROVE Origins
  BY <1>4, <1>12
<1> HIDE DEF Origins, Rest
<1> QED
  BY <1>1, <1>5, <1>6, <1>8, <1>9, <1>10, <1>11, <1>12, <1>c, <1>d, <1>e
     DEF Next, ServerJob, WwwJob, Breakdown

(* A reader, or a file, is on its way to report that request r succeeded,  *)
(* or the server has not handled that yet.                                 *)
Succeeding(r) ==
  \/ \E c \in Callers :
       callers[c].op \in Reporting /\ callers[c].req = r /\ callers[c].result = "SUCCESS"
  \/ ExternalFile([req |-> r, result |-> "SUCCESS"]) \in toServer
  \/ [req |-> r, result |-> "SUCCESS"] \in sExt

(* A reader wrote the vehicle that the request's data named.               *)
WrittenAsTold(r) == \E d \in wData : d.req = r /\ <<d.tid, d.veh>> \in written'

(* A success begins with a write.                                          *)
LEMMA SuccessOrigins ==
  ASSUME Common, [Next]_vars
  PROVE  /\ written \subseteq written'
         /\ \A r \in RequestNos : Succeeding(r)' => Succeeding(r) \/ WrittenAsTold(r)
<1>a. /\ callers \in [Callers -> Calls]
      /\ toServer \subseteq RequestFiles \cup ExternalFiles
  BY DEF Common, Shapes, WwwShapes, FileShapes
<1>1. CASE UNCHANGED <<callers, written>> /\ toServer' \subseteq toServer /\ sExt' \subseteq sExt
  BY <1>1 DEF Succeeding
<1>2. ASSUME NEW c \in Callers, NEW call, Become(c, call),
             call.op \in Reporting /\ call.result = "SUCCESS" =>
               \/ /\ callers[c].op \in Reporting /\ callers[c].result = "SUCCESS"
                  /\ callers[c].req = call.req
               \/ WrittenAsTold(call.req),
             \A f \in toServer' : \A r \in RequestNos :
               f = ExternalFile([req |-> r, result |-> "SUCCESS"]) => f \in toServer \/ Succeeding(r),
             UNCHANGED sExt
      PROVE  \A r \in RequestNos : Succeeding(r)' => Succeeding(r) \/ WrittenAsTold(r)
  <2>1. \A b \in Callers : callers'[b] = IF b = c THEN call ELSE callers[b]
    BY <1>2, <1>a DEF Become
  <2> QED
    BY <1>2, <2>1 DEF Succeeding
<1>3. ASSUME NEW c \in Callers, Call(c)
      PROVE  /\ written \subseteq written'
             /\ \A r \in RequestNos : Succeeding(r)' => Succeeding(r) \/ WrittenAsTold(r)
  <2>a. UNCHANGED sExt
    BY <1>3, WwwKeepsServer
  <2>b. Idle.op \notin Reporting
    BY DEF Idle, Reporting
  <2>1. ASSUME NEW t \in Tids, NEW result \in {"SUCCESS", "FAIL"}, Customize(c, t, result)
        PROVE  /\ written \subseteq written'
               /\ \A r \in RequestNos : Succeeding(r)' => Succeeding(r) \/ WrittenAsTold(r)
    <3>1. PICK d \in wData :
            /\ d.tid = t
            /\ written' = IF result = "SUCCESS" THEN written \cup {<<t, d.veh>>} ELSE written
            /\ Become(c, [op |-> "report", req |-> d.req, result |-> result])
      BY <2>1 DEF Customize
    <3>2. result = "SUCCESS" => WrittenAsTold(d.req)
      BY <3>1 DEF WrittenAsTold
    <3>3. UNCHANGED toServer
      BY <2>1 DEF Customize
    <3> QED
      BY <1>2, <2>a, <3>1, <3>2, <3>3
  <2>2. CASE \/ \E t \in Tids, ty \in Types : \E v \in Named(ty) : CallCreate(c, t, v, ty)
             \/ CheckNoActive(c) \/ LeaveCall(c) \/ \E r \in RequestNos : CallCancel(c, r)
             \/ CheckRequestStatus(c)
    <3>1. UNCHANGED <<written, toServer>>
      BY <2>2 DEF CallCreate, CheckNoActive, LeaveCall, CallCancel, CheckRequestStatus, history
    <3>2. CASE CheckNoActive(c)
      <4>1. callers[c] \in CreateCalls
        BY <1>a, <3>2, CallTypes DEF CheckNoActive, Creating
      <4>2. [callers[c] EXCEPT !.op = "insert"].op \notin Reporting
        BY <4>1 DEF CreateCalls, Reporting
      <4> QED
        BY <1>2, <2>a, <2>b, <3>1, <3>2, <4>2 DEF CheckNoActive
    <3>3. CASE CheckRequestStatus(c)
      <4>1. callers[c] \in ReportCalls
        BY <1>a, <3>3, CallTypes DEF CheckRequestStatus, Reporting
      <4>2. /\ [callers[c] EXCEPT !.op = "result"].req = callers[c].req
            /\ [callers[c] EXCEPT !.op = "result"].result = callers[c].result
            /\ callers[c].op \in Reporting
        BY <4>1 DEF ReportCalls
      <4> QED
        BY <1>2, <2>a, <2>b, <3>1, <3>3, <4>2 DEF CheckRequestStatus
    <3>4. ASSUME NEW t \in Tids, NEW ty \in Types, NEW v \in Named(ty), CallCreate(c, t, v, ty)
          PROVE  \A r \in RequestNos : Succeeding(r)' => Succeeding(r) \/ WrittenAsTold(r)
      <4>1. PICK call : Become(c, call) /\ call.op \notin Reporting
        BY <3>4 DEF CallCreate, Reporting
      <4> QED
        BY <1>2, <2>a, <3>1, <4>1
    <3>5. ASSUME NEW r \in RequestNos, CallCancel(c, r)
          PROVE  \A q \in RequestNos : Succeeding(q)' => Succeeding(q) \/ WrittenAsTold(q)
      <4>1. PICK call : Become(c, call) /\ call.result # "SUCCESS"
        BY <3>5 DEF CallCancel
      <4> QED
        BY <1>2, <2>a, <3>1, <4>1
    <3>6. CASE LeaveCall(c)
      BY <1>2, <2>a, <2>b, <3>1, <3>6 DEF LeaveCall
    <3> QED
      BY <2>2, <3>1, <3>2, <3>3, <3>4, <3>5, <3>6
  <2>3. CASE InsertRequest(c)
    <3>1. UNCHANGED written /\ Become(c, Idle)
      BY <2>3 DEF InsertRequest, history
    <3>2. \A f \in toServer' : f \in toServer \/ f.kind = "request"
      BY <2>3 DEF InsertRequest, RequestFile
    <3>3. \A r \in RequestNos : ExternalFile([req |-> r, result |-> "SUCCESS"]).kind # "request"
      BY DEF ExternalFile
    <3> QED
      BY <1>2, <2>a, <2>b, <3>1, <3>2, <3>3
  <2>4. CASE CancelReplaced(c)
    <3>1. callers[c] \in CreateCalls /\ callers[c].req # 0 /\ wReq[callers[c].req] # NoRow
      BY <2>4, <1>a, CallTypes DEF CancelReplaced, Creating, Common, NumbersKnown
    <3>2. callers[c].req \in RequestNos /\ "CANCEL" \in Results
      BY <3>1 DEF CreateCalls, Results
    <3>3. \A f \in toServer' : f \in toServer \/ f.kind = "request"
                                 \/ f = ExternalFile([req |-> callers[c].req, result |-> "CANCEL"])
      BY <2>4, <3>1, <3>2, ResultSent DEF CancelReplaced
    <3>4. \A r \in RequestNos :
            /\ ExternalFile([req |-> r, result |-> "SUCCESS"]).kind # "request"
            /\ ExternalFile([req |-> r, result |-> "SUCCESS"])
                 # ExternalFile([req |-> callers[c].req, result |-> "CANCEL"])
      BY DEF ExternalFile
    <3>5. UNCHANGED written /\ Become(c, [callers[c] EXCEPT !.op = "check"])
      BY <2>4 DEF CancelReplaced, history
    <3>6. [callers[c] EXCEPT !.op = "check"].op \notin Reporting
      BY <3>1 DEF CreateCalls, Reporting
    <3> QED
      BY <1>2, <2>a, <3>3, <3>4, <3>5, <3>6
  <2>5. CASE ApplyResult(c)
    <3>1. callers[c] \in ReportCalls /\ wReq[callers[c].req] # NoRow /\ callers[c].op \in Reporting
      BY <2>5, <1>a, CallTypes DEF ApplyResult, Reporting, Common, NumbersKnown
    <3>2. callers[c].req \in RequestNos /\ callers[c].result \in Results
      BY <3>1 DEF ReportCalls
    <3>3. \A f \in toServer' :
            f \in toServer \/ f.kind = "request"
              \/ f = ExternalFile([req |-> callers[c].req, result |-> callers[c].result])
      BY <2>5, <3>1, <3>2, ResultSent DEF ApplyResult
    <3>4. \A r \in RequestNos :
            /\ ExternalFile([req |-> r, result |-> "SUCCESS"]).kind # "request"
            /\ ExternalFile([req |-> r, result |-> "SUCCESS"])
                 = ExternalFile([req |-> callers[c].req, result |-> callers[c].result])
               => callers[c].req = r /\ callers[c].result = "SUCCESS"
      BY DEF ExternalFile
    <3>5. UNCHANGED written /\ Become(c, Idle)
      BY <2>5 DEF ApplyResult, history
    <3> QED
      BY <1>2, <2>a, <2>b, <3>1, <3>3, <3>4, <3>5 DEF Succeeding
  <2>6. CASE CallBreaks(c)
    <3>1. UNCHANGED written /\ Become(c, Idle)
      BY <2>6 DEF CallBreaks
    <3>2. CASE UNCHANGED toServer
      BY <1>2, <2>a, <2>b, <3>1, <3>2
    <3>3. CASE /\ callers[c].op \in {"replace", "result"}
               /\ toServer' = toServer \cup {ExternalFile([req |-> callers[c].req, result |->
                    IF callers[c].op = "replace" THEN "CANCEL" ELSE callers[c].result])}
      <4>1. \A f \in toServer' : \A r \in RequestNos :
              f = ExternalFile([req |-> r, result |-> "SUCCESS"]) =>
                \/ f \in toServer
                \/ callers[c].op = "result" /\ callers[c].req = r /\ callers[c].result = "SUCCESS"
        BY <3>3 DEF ExternalFile
      <4> QED
        BY <1>2, <2>a, <2>b, <3>1, <4>1 DEF Succeeding, Reporting
    <3> QED
      BY <2>6, <3>1, <3>2, <3>3 DEF CallBreaks
  <2> QED
    BY <1>3, <2>1, <2>2, <2>3, <2>4, <2>5, <2>6 DEF Call
<1>4. ASSUME NEW f \in toServer, ServerReceive(f)
      PROVE  /\ UNCHANGED written
             /\ \A r \in RequestNos : Succeeding(r)' => Succeeding(r)
  <2>1. UNCHANGED <<callers, written>> /\ toServer' \subseteq toServer
    BY <1>4 DEF ServerReceive, www, history
  <2>2. CASE f.kind = "request"
    BY <1>4, <2>1, <2>2 DEF ServerReceive, Succeeding
  <2>3. CASE f.kind # "request"
    <3>1. f \in ExternalFiles /\ sExt' = sExt \cup {f.ext}
      BY <1>4, <1>a, <2>3 DEF ServerReceive, RequestFiles
    <3>2. f = ExternalFile(f.ext)
      BY <3>1 DEF ExternalFiles, ExternalFile
    <3> QED
      BY <2>1, <3>1, <3>2 DEF Succeeding
  <2> QED
    BY <2>2, <2>3, <2>1
<1>5. (\E f \in toWww : WwwReceive(f)) \/ UNCHANGED vars =>
        UNCHANGED <<callers, written, toServer, sExt>>
  BY DEF WwwReceive, serverSide, history, vars, www
<1>6. ASSUME \/ Desk \/ StartRequests
             \/ \E r \in RequestNos :
                  HandleReviewed(r) \/ VehicleNotFound(r) \/ HandleRefused(r) \/ HandleFetched(r)
             \/ HandleCard \/ HandleRecord \/ HandleThrows \/ HandleFinish \/ StartResults
             \/ \E e \in sExt : HandleOrphanResult(e) \/ HandleSuccess(e) \/ HandleFailure(e)
             \/ BindCard \/ UpdateTask \/ ResultDone \/ EndResults \/ Breakdown
      PROVE  sExt' \subseteq sExt
  <2>1. Desk => sExt' \subseteq sExt
    BY DEF Desk, SaveCustomize, CreateChange, CreateModify, CreateAnnualInspection, CreateTask,
           Review, BeginCancel, EndCancel
  <2>2. (\E r \in RequestNos :
           HandleReviewed(r) \/ VehicleNotFound(r) \/ HandleRefused(r) \/ HandleFetched(r)) =>
          sExt' \subseteq sExt
    BY DEF HandleReviewed, VehicleNotFound, HandleRefused, HandleFetched, jobKeeps
  <2>3. StartRequests \/ HandleCard \/ HandleRecord \/ HandleThrows \/ HandleFinish
          \/ StartResults => sExt' \subseteq sExt
    BY DEF StartRequests, HandleCard, HandleRecord, HandleThrows, HandleFinish, StartResults, jobKeeps
  <2>4. (\E e \in sExt : HandleOrphanResult(e) \/ HandleSuccess(e) \/ HandleFailure(e))
          \/ BindCard \/ UpdateTask \/ ResultDone \/ EndResults => sExt' \subseteq sExt
    BY DEF HandleOrphanResult, HandleSuccess, HandleFailure, BindCard, UpdateTask, ResultDone,
           EndResults
  <2>5. Breakdown => sExt' \subseteq sExt
    BY DEF Breakdown, FinishThrows, HandlingBreaks, ResultThrows, Crash, jobKeeps
  <2> QED
    BY <1>6, <2>1, <2>2, <2>3, <2>4, <2>5
<1>7. CASE (\E f \in toWww : WwwReceive(f)) \/ UNCHANGED vars
  BY <1>1, <1>5, <1>7
<1>8. CASE (Desk \/ ServerJob \/ Breakdown) /\ sExt' \subseteq sExt
  <2>1. UNCHANGED <<callers, written>> /\ toServer' \subseteq toServer
    BY <1>8, ServerKeepsWww DEF www
  <2> QED
    BY <1>1, <1>8, <2>1
<1> QED
  BY <1>3, <1>4, <1>6, <1>7, <1>8 DEF Next, ServerJob, WwwJob

-----------------------------------------------------------------------------
(* The server binds what a reader has written.                             *)

(* No file comes back, or every request names its vehicle.                 *)
HandledOnce == "redelivery" \notin Troubles \/ Types \cap ReviewedTypes = {}

(* The vehicle of the task that the server has for a request.              *)
TaskVeh(r) == tasks[sReq[r].task].veh

(* Every copy of a request's row that names a task names one for the same  *)
(* vehicle.                                                                *)
OneVehicle ==
  /\ \A r \in RequestNos :
       wReq[r].task # 0 => sReq[r].task # 0 /\ tasks[wReq[r].task].veh = TaskVeh(r)
  /\ \A f \in toServer \cup toWww :
       f.kind = "request" /\ f.row.task # 0 =>
         sReq[f.xh].task # 0 /\ tasks[f.row.task].veh = TaskVeh(f.xh)

(* A new request has not been handled, and is not handled twice.           *)
NewFile(f) == f.kind = "request" /\ f.row.st = "NEW"

NewOnce ==
  "redelivery" \notin Troubles =>
    /\ \A f \in toServer : NewFile(f) => sReq[f.xh].st # "NEW" /\ sReq[f.xh].task = 0
    /\ \A f, g \in toServer : NewFile(f) /\ NewFile(g) /\ f.xh = g.xh => f = g
    /\ \A r \in RequestNos : sReq[r].st = "NEW" => sReq[r].task = 0

(* The data for a request are those of its card and its task's vehicle.    *)
TaskData(d) ==
  sReq[d.req].task # 0 /\ d.tid = sReq[d.req].tid /\ d.veh = TaskVeh(d.req)

DataOfTask ==
  /\ \A d \in wData : TaskData(d)
  /\ \A f \in toWww : f.kind = "data" => TaskData(f.data)

(* A success tells of a write of just that.                                *)
SuccessWritten ==
  \A r \in RequestNos :
    Succeeding(r) => sReq[r].task # 0 /\ <<sReq[r].tid, TaskVeh(r)>> \in written

BindWritten == job.at = "bind" => <<sReq[job.ext.req].tid, job.veh>> \in written

WrittenInv ==
  /\ Common /\ OneVehicle /\ NewOnce /\ DataOfTask
  /\ SuccessWritten /\ BindWritten /\ BoundImpliesWritten

(* A row that the job takes from a file keeps its card and, if it has one, *)
(* the vehicle of its task.                                                *)
LEMMA TakenKeeps ==
  ASSUME WrittenInv, NEW r \in RequestNos, NEW f \in toServer, TakenFrom(r, f)
  PROVE  /\ f.row \in Rows /\ sReq'[r].st = f.row.st
         /\ sReq[r] # NoRow => sReq'[r].tid = sReq[r].tid
         /\ sReq'[r].task = IF f.row.task = 0 THEN sReq[r].task ELSE f.row.task
         /\ f.row.task # 0 => sReq[r].task # 0 /\ tasks[f.row.task].veh = TaskVeh(r)
         /\ sReq'[r].task # 0 <=> sReq[r].task # 0
<1>1. f \in RequestFiles \cup ExternalFiles
  BY DEF WrittenInv, Common, Shapes, FileShapes
<1>2. f.row \in Rows /\ sReq'[r] = MergeRow(sReq[r], f.row)
  BY <1>1 DEF TakenFrom, RequestFiles, ExternalFiles
<1>3. /\ sReq'[r].st = f.row.st /\ sReq'[r].tid = f.row.tid
      /\ sReq'[r].task = IF f.row.task = 0 THEN sReq[r].task ELSE f.row.task
  BY <1>2 DEF MergeRow, Rows, Row
<1>4. sReq[r] # NoRow => f.row.tid = sReq[r].tid
  BY DEF WrittenInv, Common, RowsAgree, Same, TakenFrom
<1>5. f.row.task # 0 => sReq[r].task # 0 /\ tasks[f.row.task].veh = TaskVeh(r)
  BY DEF WrittenInv, OneVehicle, TakenFrom
<1> QED
  BY <1>2, <1>3, <1>4, <1>5

(* The job gives a request that has a task already one for the same        *)
(* vehicle: none has, or the request names the vehicle.                    *)
LEMMA GotDataKeeps ==
  ASSUME HandledOnce, WrittenInv, NEW r \in RequestNos, GotData(r)
  PROVE  /\ sReq[r].st = "NEW" /\ sReq'[r].st # "NEW" /\ sReq'[r].tid = sReq[r].tid
         /\ sReq'[r].task = job.task /\ job.task # 0 /\ job.task \in DOMAIN tasks
         /\ tasks[job.task].veh = job.veh
         /\ sReq[r].task # 0 => job.veh = TaskVeh(r)
<1>1. job.at \in InHand /\ job.at = "finish" /\ r = job.req /\ Common
  BY DEF GotData, InHand, WrittenInv
<1>2. sReq[r] \in Rows /\ sReq[r].st = "NEW"
  BY <1>1, InHandTypes
<1>3. sReq'[r].st # "NEW" /\ sReq'[r].tid = sReq[r].tid /\ sReq'[r].task = job.task
  BY <1>2 DEF GotData, Rows, Row
<1>4. /\ job.task # 0 /\ job.task \in DOMAIN tasks /\ tasks[job.task].veh = job.veh
      /\ sReq[r].type \notin ReviewedTypes => job.veh = sReq[r].veh
  BY <1>1 DEF Common, JobFits, Fits
<1>5. ASSUME sReq[r].task # 0 PROVE job.veh = TaskVeh(r)
  <2>1. "redelivery" \in Troubles
    BY <1>2, <1>5 DEF WrittenInv, NewOnce
  <2>2. sReq[r].type \notin ReviewedTypes
    BY <1>2, <2>1 DEF HandledOnce, Rows, Row
  <2>3. TaskVeh(r) = sReq[r].veh
    BY <1>1, <1>5, <2>2 DEF Common, RowTasks, Fits, TaskVeh
  <2> QED
    BY <1>4, <2>2, <2>3
<1> QED
  BY <1>2, <1>3, <1>4, <1>5

(* A request keeps its card and, from when it has a task, its vehicle.     *)
LEMMA VehicleStays ==
  ASSUME HandledOnce, WrittenInv, [Next]_vars, NEW r \in RequestNos
  PROVE  /\ sReq[r] # NoRow => sReq'[r].tid = sReq[r].tid
         /\ sReq[r].task # 0 => sReq'[r].task # 0 /\ TaskVeh(r)' = TaskVeh(r)
<1>a. TasksKept /\ Common
  BY EveryStepKeepsTasks DEF WrittenInv
<1>b. \A k \in DOMAIN tasks : tasks'[k].veh = tasks[k].veh
  BY <1>a DEF TasksKept
<1>c. sReq[r].task # 0 => sReq[r].task \in DOMAIN tasks
  BY <1>a DEF Common, RowTasks, Fits
<1>1. CASE sReq'[r] = sReq[r]
  BY <1>1, <1>b, <1>c DEF TaskVeh
<1>2. CASE sReq'[r] = [sReq[r] EXCEPT !.st = "FAIL"] /\ sReq[r] \in Rows
  <2>1. sReq'[r].tid = sReq[r].tid /\ sReq'[r].task = sReq[r].task
    BY <1>2 DEF Rows, Row
  <2> QED
    BY <2>1, <1>b, <1>c DEF TaskVeh
<1>3. ASSUME NEW f \in toServer, TakenFrom(r, f)
      PROVE  /\ sReq[r] # NoRow => sReq'[r].tid = sReq[r].tid
             /\ sReq[r].task # 0 => sReq'[r].task # 0 /\ TaskVeh(r)' = TaskVeh(r)
  <2>1. f.row.task # 0 => f.row.task \in DOMAIN tasks
    BY <1>a, <1>3 DEF Common, RowTasks, Fits, TakenFrom
  <2> QED
    BY <1>3, <1>b, <1>c, <2>1, TakenKeeps DEF TaskVeh
<1>4. CASE GotData(r)
  BY <1>4, <1>b, GotDataKeeps DEF TaskVeh
<1> QED
  BY <1>a, <1>1, <1>2, <1>3, <1>4, ServerOrigins

(* The copies of a row keep one vehicle.                                   *)
LEMMA OneVehicleNext ==
  ASSUME HandledOnce, WrittenInv, [Next]_vars
  PROVE  OneVehicle'
<1>a. TasksKept /\ Common /\ Common'
  BY EveryStepKeepsTasks, CommonNext DEF WrittenInv
<1>b. ASSUME NEW r \in RequestNos, NEW k, k # 0, k \in DOMAIN tasks, sReq[r].task # 0,
             tasks[k].veh = TaskVeh(r)
      PROVE  sReq'[r].task # 0 /\ tasks'[k].veh = TaskVeh(r)'
  BY <1>a, <1>b, VehicleStays DEF TasksKept
<1>c. /\ \A r \in RequestNos : wReq[r].task # 0 => wReq[r].task \in DOMAIN tasks
      /\ \A f \in toServer \cup toWww :
           f.kind = "request" /\ f.row.task # 0 => f.row.task \in DOMAIN tasks
  BY <1>a DEF Common, RowTasks, Fits
<1>d. \A f \in toServer \cup toWww : f.kind = "request" => f.xh \in RequestNos
  BY <1>a DEF Common, Shapes, FileShapes, RequestFiles, ExternalFiles, DataFiles
<1>1. ASSUME NEW r \in RequestNos, wReq[r].task # 0
      PROVE  sReq'[r].task # 0 /\ tasks'[wReq[r].task].veh = TaskVeh(r)'
  BY <1>1, <1>b, <1>c DEF WrittenInv, OneVehicle
<1>2. ASSUME NEW f \in toServer \cup toWww, f.kind = "request", f.row.task # 0
      PROVE  sReq'[f.xh].task # 0 /\ tasks'[f.row.task].veh = TaskVeh(f.xh)'
  BY <1>2, <1>b, <1>c, <1>d DEF WrittenInv, OneVehicle
<1>3. ASSUME NEW r \in RequestNos, wReq'[r].task # 0
      PROVE  sReq'[r].task # 0 /\ tasks'[wReq'[r].task].veh = TaskVeh(r)'
  <2>1. CASE wReq'[r].task \in {0, wReq[r].task}
    BY <1>1, <1>3, <2>1
  <2>2. ASSUME NEW f \in toWww, f.kind = "request", f.xh = r, wReq'[r].task = f.row.task
        PROVE  sReq'[r].task # 0 /\ tasks'[wReq'[r].task].veh = TaskVeh(r)'
    BY <1>2, <1>3, <2>2
  <2> QED
    BY <1>a, <2>1, <2>2, WwwOrigins
<1>4. ASSUME NEW f \in toServer', f.kind = "request", f.row.task # 0
      PROVE  sReq'[f.xh].task # 0 /\ tasks'[f.row.task].veh = TaskVeh(f.xh)'
  <2>1. CASE f \in toServer
    BY <1>2, <1>4, <2>1
  <2>2. CASE f \notin toServer
    <3>1. f.xh \in RequestNos /\ f.row.task = wReq[f.xh].task
      BY <1>a, <1>4, <2>2, WwwOrigins DEF SentAgain, SentFirst
    <3> QED
      BY <1>1, <1>4, <3>1
  <2> QED
    BY <2>1, <2>2
<1>5. ASSUME NEW f \in toWww', f.kind = "request", f.row.task # 0
      PROVE  sReq'[f.xh].task # 0 /\ tasks'[f.row.task].veh = TaskVeh(f.xh)'
  <2>1. CASE f \in toWww
    BY <1>2, <1>5, <2>1
  <2>2. CASE f.xh \in RequestNos /\ f.row.task = sReq'[f.xh].task
    BY <1>5, <2>2 DEF TaskVeh
  <2> QED
    BY <1>a, <1>5, <2>1, <2>2, ServerOrigins DEF AnswersWith
<1> QED
  BY <1>3, <1>4, <1>5 DEF OneVehicle

(* Without files that come back a request is handled once.                 *)
LEMMA NewOnceNext ==
  ASSUME HandledOnce, WrittenInv, [Next]_vars
  PROVE  NewOnce'
<1> SUFFICES ASSUME "redelivery" \notin Troubles PROVE NewOnce'
  BY DEF NewOnce
<1>a. Common /\ Common' /\ NewOnce
  BY CommonNext DEF WrittenInv
<1>b. /\ toServer' \subseteq RequestFiles \cup ExternalFiles
      /\ \A f \in toServer : f.kind = "request" => f.xh \in RequestNos /\ wReq[f.xh] # NoRow
      /\ \A r \in RequestNos : sReq[r] # NoRow => wReq[r] # NoRow
  BY <1>a DEF Common, Shapes, FileShapes, RequestFiles, ExternalFiles, RowsAgree
<1>c. NoRow.st # "NEW" /\ NoRow.task = 0
  BY RequestAssumption DEF NoRow, RowStatus
<1>d. \A f \in toServer' : NewFile(f) /\ f \notin toServer => SentFirst(f) /\ f.xh \in RequestNos
  BY <1>a, WwwOrigins DEF NewFile, SentAgain
<1>1. ASSUME NEW f \in toServer', NEW g \in toServer', NewFile(f), NewFile(g), f.xh = g.xh
      PROVE  f = g
  <2>1. CASE f \in toServer /\ g \in toServer
    BY <1>1, <1>a, <2>1 DEF NewOnce
  <2>2. CASE f \notin toServer /\ g \notin toServer
    <3>1. f.row = g.row
      BY <1>1, <1>d, <2>2 DEF SentFirst
    <3>2. f \in RequestFiles /\ g \in RequestFiles
      BY <1>1, <1>b DEF NewFile, ExternalFiles
    <3> QED
      BY <1>1, <3>1, <3>2 DEF RequestFiles
  <2>3. CASE \/ f \in toServer /\ g \notin toServer
             \/ f \notin toServer /\ g \in toServer
    BY <1>1, <1>b, <1>d, <2>3 DEF SentFirst, NewFile
  <2> QED
    BY <2>1, <2>2, <2>3
<1>2. ASSUME NEW r \in RequestNos
      PROVE  /\ sReq'[r].st = "NEW" => sReq'[r].task = 0
             /\ \A f \in toServer : f \in toServer' /\ NewFile(f) /\ f.xh = r =>
                  sReq'[r].st # "NEW" /\ sReq'[r].task = 0
  <2>1. CASE sReq'[r] = sReq[r]
    BY <1>a, <2>1 DEF NewOnce
  <2>2. CASE sReq'[r] = [sReq[r] EXCEPT !.st = "FAIL"] /\ sReq[r] \in Rows
    <3>1. sReq'[r].st = "FAIL" /\ sReq'[r].task = sReq[r].task
      BY <2>2 DEF Rows, Row
    <3> QED
      BY <1>a, <3>1 DEF NewOnce
  <2>3. ASSUME NEW g \in toServer, TakenFrom(r, g)
        PROVE  /\ sReq'[r].st = "NEW" => sReq'[r].task = 0
               /\ \A f \in toServer : f \in toServer' /\ NewFile(f) /\ f.xh = r =>
                    sReq'[r].st # "NEW" /\ sReq'[r].task = 0
    <3>1. sReq'[r].st = g.row.st /\ (sReq'[r].task # 0 <=> sReq[r].task # 0)
      BY <2>3, TakenKeeps
    <3>2. g.kind = "request" /\ g.xh = r /\ g \notin toServer'
      BY <2>3 DEF TakenFrom
    <3>3. sReq'[r].st = "NEW" => sReq'[r].task = 0
      BY <1>a, <3>1, <3>2 DEF NewOnce, NewFile
    <3>4. ASSUME NEW f \in toServer, f \in toServer', NewFile(f), f.xh = r
          PROVE  sReq'[r].st # "NEW" /\ sReq'[r].task = 0
      BY <1>a, <3>1, <3>2, <3>4 DEF NewOnce, NewFile
    <3> QED
      BY <3>3, <3>4
  <2>4. CASE GotData(r)
    BY <1>a, <2>4, GotDataKeeps DEF NewOnce
  <2> QED
    BY <1>a, <2>1, <2>2, <2>3, <2>4, ServerOrigins
<1>3. ASSUME NEW f \in toServer', NewFile(f)
      PROVE  sReq'[f.xh].st # "NEW" /\ sReq'[f.xh].task = 0
  <2>1. CASE f \in toServer
    BY <1>2, <1>3, <1>b, <2>1 DEF NewFile
  <2>2. CASE f \notin toServer
    <3>1. f.xh \in RequestNos /\ wReq[f.xh] = NoRow /\ sReq[f.xh] = NoRow
      BY <1>3, <1>b, <1>d, <2>2 DEF SentFirst
    <3>2. sReq'[f.xh] = sReq[f.xh]
      <4>1. NoRow \notin Rows
        BY <1>c, RowIsThere, RequestAssumption DEF Rows, Row, NoRow
      <4>2. ~ \E g \in toServer : TakenFrom(f.xh, g)
        BY <1>b, <3>1 DEF TakenFrom
      <4>3. ~ GotData(f.xh)
        BY <3>1, <1>c, GotDataKeeps
      <4> QED
        BY <1>a, <3>1, <4>1, <4>2, <4>3, ServerOrigins
    <3> QED
      BY <1>c, <3>1, <3>2
  <2> QED
    BY <2>1, <2>2
<1> QED
  BY <1>1, <1>2, <1>3 DEF NewOnce

(* The data for a request stay true, and the successes with them.          *)
LEMMA DataNext ==
  ASSUME HandledOnce, WrittenInv, [Next]_vars
  PROVE  DataOfTask' /\ SuccessWritten'
<1>a. TasksKept /\ Common /\ Common' /\ DataOfTask
  BY EveryStepKeepsTasks, CommonNext DEF WrittenInv
<1>b. \A d \in wData : d.req \in RequestNos
  BY <1>a DEF Common, Shapes, WwwShapes, Data
<1>c. \A f \in toWww : f.kind = "data" => f.data.req \in RequestNos
  BY <1>a DEF Common, Shapes, FileShapes, RequestFiles, DataFiles, Data
<1>d. NoRow.task = 0
  BY DEF NoRow
<1>1. ASSUME NEW d, d.req \in RequestNos, TaskData(d) PROVE TaskData(d)'
  BY <1>1, <1>d, VehicleStays DEF TaskData
<1>2. ASSUME NEW f \in toWww', f.kind = "data", f \notin toWww PROVE TaskData(f.data)'
  <2>1. /\ f.data.req \in RequestNos /\ GotData(f.data.req)
        /\ f.data.tid = sReq[f.data.req].tid /\ f.data.veh = job.veh
    BY <1>a, <1>2, ServerOrigins DEF AnswersWith
  <2>2. /\ sReq'[f.data.req].task = job.task /\ job.task # 0 /\ job.task \in DOMAIN tasks
        /\ tasks[job.task].veh = job.veh /\ sReq'[f.data.req].tid = sReq[f.data.req].tid
    BY <2>1, GotDataKeeps
  <2>3. tasks'[job.task].veh = job.veh
    BY <1>a, <2>2 DEF TasksKept
  <2> QED
    BY <2>1, <2>2, <2>3 DEF TaskData, TaskVeh
<1>3. DataOfTask'
  <2>1. \A d \in wData' : TaskData(d)'
    BY <1>a, <1>b, <1>c, <1>1, WwwOrigins DEF DataOfTask
  <2>2. \A f \in toWww' : f.kind = "data" => TaskData(f.data)'
    BY <1>a, <1>c, <1>1, <1>2 DEF DataOfTask
  <2> QED
    BY <2>1, <2>2 DEF DataOfTask
<1>4. ASSUME NEW r \in RequestNos, Succeeding(r)'
      PROVE  sReq'[r].task # 0 /\ <<sReq'[r].tid, TaskVeh(r)'>> \in written'
  <2>1. CASE Succeeding(r)
    <3>1. sReq[r].task # 0 /\ <<sReq[r].tid, TaskVeh(r)>> \in written'
      BY <1>a, <2>1, SuccessOrigins DEF WrittenInv, SuccessWritten
    <3> QED
      BY <1>d, <3>1, VehicleStays
  <2>2. CASE WrittenAsTold(r)
    <3>1. PICK d \in wData : d.req = r /\ <<d.tid, d.veh>> \in written'
      BY <2>2 DEF WrittenAsTold
    <3>2. TaskData(d)'
      BY <1>a, <1>b, <1>1, <3>1 DEF DataOfTask
    <3> QED
      BY <3>1, <3>2 DEF TaskData
  <2> QED
    BY <1>a, <1>4, <2>1, <2>2, SuccessOrigins
<1> QED
  BY <1>3, <1>4 DEF SuccessWritten

(* A card is bound to the vehicle that its success tells of.               *)
LEMMA BindNext ==
  ASSUME HandledOnce, WrittenInv, [Next]_vars
  PROVE  BindWritten' /\ BoundImpliesWritten'
<1>a. Common /\ BindWritten /\ BoundImpliesWritten /\ written \subseteq written'
  BY SuccessOrigins DEF WrittenInv
<1>b. cards \in [Tids -> [st : {"AVAILABLE", "DISABLED"}, veh : Vehicles \cup {None}]]
  BY <1>a DEF Common, Shapes, DeskShapes
<1>1. CASE BindCard
  <2>1. /\ job.at = "bind" /\ job.at \in InResult /\ job' = [job EXCEPT !.at = "task"]
        /\ cards' = [cards EXCEPT ![sReq[job.ext.req].tid].veh = job.veh]
    BY <1>1 DEF BindCard, InResult
  <2>2. job'.at = "task"
    BY <1>a, <2>1, StepsOn
  <2> QED
    BY <1>a, <1>b, <2>1, <2>2 DEF BindWritten, BoundImpliesWritten
<1>2. CASE ~ BindCard
  <2>1. \A t \in Tids : cards'[t].veh = cards[t].veh
    BY <1>2, <1>a, CardsKept, CardOutcome
  <2>2. BoundImpliesWritten'
    BY <1>a, <2>1 DEF BoundImpliesWritten
  <2>3. CASE ~ Binding
    <3>1. UNCHANGED <<job, sReq>> \/ job'.at \notin {"record", "bind"}
      BY <1>a, <2>3, QuietSteps
    <3> QED
      BY <1>a, <2>2, <3>1 DEF BindWritten
  <2>4. CASE HandleCard \/ HandleRecord
    <3>1. job.at \in InHand
      BY <2>4 DEF HandleCard, HandleRecord, InHand
    <3>2. \/ FailRequest(job.req)
          \/ job' = [job EXCEPT !.at = "record"] \/ job' = [job EXCEPT !.at = "finish"]
      BY <2>4 DEF HandleCard, HandleRecord
    <3>3. job'.at # "bind"
      BY <1>a, <3>1, <3>2, StepsOn DEF FailRequest, Finish
    <3> QED
      BY <2>2, <3>3 DEF BindWritten
  <2>5. ASSUME NEW e \in sExt, HandleSuccess(e) PROVE BindWritten'
    <3>1. /\ sReq[e.req].task # 0 /\ e.result = "SUCCESS" /\ UNCHANGED <<sReq, written>>
          /\ e \in Exts
      BY <2>5, <1>a DEF HandleSuccess, resultKeeps, history, Common, Shapes, ServerShapes
    <3>2. e.req \in RequestNos /\ e = [req |-> e.req, result |-> "SUCCESS"]
      BY <3>1 DEF Exts
    <3>3. <<sReq[e.req].tid, TaskVeh(e.req)>> \in written
      BY <3>2 DEF WrittenInv, SuccessWritten, Succeeding
    <3>4. ASSUME NEW x \in InProgress(sReq[e.req].task), GoBind(e, "bind", "DONE", x.veh)
          PROVE  job'.ext = e /\ job'.veh = TaskVeh(e.req)
      BY <1>a, <3>4 DEF GoBind, InProgress, Common, RecordsFit, TaskVeh
    <3>5. GoBind(e, "task", "DONE", None) => job'.at = "task"
      BY DEF GoBind
    <3> QED
      BY <2>5, <3>1, <3>3, <3>4, <3>5 DEF HandleSuccess, BindWritten
  <2> QED
    BY <1>2, <2>2, <2>3, <2>4, <2>5 DEF Binding
<1> QED
  BY <1>1, <1>2

(* At the start nothing is under way, and what was bound was written.      *)
LEMMA WrittenInit == Init => WrittenInv
<1> SUFFICES ASSUME Init PROVE WrittenInv
  OBVIOUS
<1>1. /\ \A r \in RequestNos : wReq[r] = NoRow /\ sReq[r] = NoRow
      /\ toServer = {} /\ toWww = {} /\ wData = {} /\ sExt = {}
      /\ \A c \in Callers : callers[c].op = "idle"
      /\ job.at = "fetch" /\ written = EarlierBindings
  BY DEF Init
<1>2. NoRow.task = 0
  BY DEF NoRow
<1>3. OneVehicle /\ NewOnce /\ DataOfTask /\ BindWritten
  BY <1>1, <1>2 DEF OneVehicle, NewOnce, DataOfTask, BindWritten
<1>4. SuccessWritten
  BY <1>1 DEF SuccessWritten, Succeeding, Reporting
<1>5. ASSUME NEW t \in Tids, cards[t].veh # None
      PROVE  <<t, cards[t].veh>> \in EarlierBindings
  <2>1. cards[t].veh = IF \E v \in Vehicles : <<t, v>> \in EarlierBindings
                       THEN CHOOSE v \in Vehicles : <<t, v>> \in EarlierBindings ELSE None
    BY DEF Init
  <2> QED
    BY <1>5, <2>1
<1> QED
  BY <1>1, <1>3, <1>4, <1>5, CommonInit DEF WrittenInv, BoundImpliesWritten

(* The server binds a vehicle to a card only when a reader has written it  *)
(* on that card, although a result names only its request, and task and    *)
(* vehicle are looked up when it arrives: where files do not come back, or *)
(* all requests name their vehicle.                                        *)
THEOREM OnlyWrittenBound ==
  ASSUME HandledOnce
  PROVE  Spec => []BoundImpliesWritten
<1>1. WrittenInv /\ [Next]_vars => WrittenInv'
  <2>1. WrittenInv /\ [Next]_vars => Common'
    BY CommonNext DEF WrittenInv
  <2> QED
    BY <2>1, OneVehicleNext, NewOnceNext, DataNext, BindNext DEF WrittenInv
<1>2. WrittenInv => BoundImpliesWritten
  BY DEF WrittenInv
<1> QED
  BY <1>1, <1>2, WrittenInit, PTL DEF Spec

-----------------------------------------------------------------------------
(* A vehicle has one card.                                                 *)

(* No clerk cancels a task, no request changes a card or its binding, a    *)
(* request to inspect a card has a task that names it, and the vehicles    *)
(* had one card each.                                                      *)
OneCardEach ==
  /\ "CancelTask" \notin Offered
  /\ Types \cap {"CHANGE", "MODIFY"} = {}
  /\ NoCardlessTasks \/ "ANNUAL_INSPECTION" \notin Types
  /\ \A p, q \in EarlierBindings : p[2] = q[2] => p[1] = q[1]

AllAvailable == \A t \in Tids : cards[t].st = "AVAILABLE"

Unbound(veh) == \A t \in Tids : cards[t].veh # veh

OneEach == \A t, u \in Tids : cards[t].veh = cards[u].veh /\ cards[t].veh # None => t = u

IsNew(k) == tasks[k].type = "NEW"

(* A task is over only when it has no record in progress.                  *)
NotOver ==
  /\ cancelling = 0
  /\ \A x \in Running : tasks[x.task].st = "SUBMIT"
  /\ job.at \in {"card", "record"} /\ job.task # 0 => tasks[job.task].st = "SUBMIT"
  /\ job.at \in {"bind", "task"} => \A x \in Running : x.task # sReq[job.ext.req].task

(* A card to inspect is bound to the vehicle of the task.                  *)
InspectedBound ==
  "ANNUAL_INSPECTION" \in Types =>
    \A k \in DOMAIN tasks : tasks[k].type = "ANNUAL_INSPECTION" =>
      tasks[k].tid \in Tids /\ cards[tasks[k].tid].veh = tasks[k].veh

(* A vehicle that is being given a card has none ...                       *)
VehicleFree ==
  /\ \A x \in Running : IsNew(x.task) => Unbound(x.veh)
  /\ job.at = "record" /\ job.task # 0 /\ IsNew(job.task) => Unbound(job.veh)
  /\ job.at = "bind" /\ job.task.type = "NEW" => Unbound(job.veh)

(* ... and all that give it one share a task, which ends with the first.   *)
OneNewTask ==
  /\ \A x, y \in Running : IsNew(x.task) /\ IsNew(y.task) /\ x.veh = y.veh => x.task = y.task
  /\ job.at \in {"card", "record"} /\ job.task # 0 /\ IsNew(job.task) =>
       \A x \in Running : x.veh = job.veh /\ IsNew(x.task) => x.task = job.task
  /\ job.at = "bind" /\ job.task.type = "NEW" =>
       \A x \in Running : x.veh = job.veh => ~ IsNew(x.task)

OneCardInv ==
  /\ Common /\ (NoCardlessTasks => StaysInv)
  /\ AllAvailable /\ OneEach /\ NotOver /\ InspectedBound /\ VehicleFree /\ OneNewTask

(* A task's status changes by a review or, when it has no record in        *)
(* progress, at the end of a result.                                       *)
LEMMA StatusMoves ==
  ASSUME OneCardEach, OneCardInv, [Next]_vars
  PROVE  /\ cancelling' = 0
         /\ \A k \in DOMAIN tasks :
              \/ tasks'[k].st \in {tasks[k].st, "SUBMIT"}
              \/ job.at = "task" /\ k = sReq[job.ext.req].task
         /\ \A k \in DOMAIN tasks' \ DOMAIN tasks :
              "ANNUAL_INSPECTION" \in Types /\ tasks'[k].type = "ANNUAL_INSPECTION" =>
                tasks'[k].tid \in Tids /\ cards[tasks'[k].tid].veh = tasks'[k].veh
<1>a. Common /\ cancelling = 0 /\ DeskShapes
  BY DEF OneCardInv, NotOver, Common, Shapes
<1>1. CASE UNCHANGED <<tasks, cancelling>>
  BY <1>1, <1>a
<1>2. CASE Desk
  <2> DEFINE Moves ==
        /\ cancelling' = 0
        /\ \A k \in DOMAIN tasks : tasks'[k].st \in {tasks[k].st, "SUBMIT"}
        /\ \A k \in DOMAIN tasks' \ DOMAIN tasks :
             "ANNUAL_INSPECTION" \in Types /\ tasks'[k].type = "ANNUAL_INSPECTION" =>
               tasks'[k].tid \in Tids /\ cards[tasks'[k].tid].veh = tasks'[k].veh
  <2>1. ASSUME NEW tid \in Tids \cup {None}, NEW veh \in Vehicles, NEW type \in TaskTypes,
               NEW st \in {"PENDING", "SUBMIT"}, CreateTask(tid, veh, type, st),
               \/ tid = None /\ st = "SUBMIT" /\ type \in Types /\ "SaveCustomize" \in Offered
               \/ st = "PENDING" /\ Reviewed(type)
               \/ type = "ANNUAL_INSPECTION" /\ st = "SUBMIT" /\ tid \in Tids /\ cards[tid].veh = veh
        PROVE  Moves
    <3>1. UNCHANGED cancelling /\ \A k \in DOMAIN tasks : tasks'[k] = tasks[k]
      BY <2>1, <1>a, CreateTaskAppends
    <3>2. \A k \in DOMAIN tasks' \ DOMAIN tasks :
            tasks'[k].tid = tid /\ tasks'[k].veh = veh /\ tasks'[k].type = type
      BY <2>1, <1>a, CreateTaskAppends DEF NewTask
    <3>3. "ANNUAL_INSPECTION" \in Types /\ type = "ANNUAL_INSPECTION" =>
            tid \in Tids /\ cards[tid].veh = veh
      BY <2>1 DEF OneCardEach, NoCardlessTasks, Reviewed
    <3> QED
      BY <1>a, <3>1, <3>2, <3>3
  <2>2. ASSUME NEW k \in DOMAIN tasks, Review(k), DOMAIN tasks' = DOMAIN tasks,
               \A j \in DOMAIN tasks :
                 tasks'[j] = IF j = k THEN [tasks[k] EXCEPT !.st = "SUBMIT"] ELSE tasks[j]
        PROVE  Moves
    <3>1. tasks[k] \in Task
      BY <1>a DEF DeskShapes
    <3>2. [tasks[k] EXCEPT !.st = "SUBMIT"].st = "SUBMIT"
      BY <3>1 DEF Task
    <3> QED
      BY <1>a, <2>2, <3>2 DEF Review
  <2>3. ~ EndCancel /\ "CancelTask" \notin Offered
    BY <1>a DEF EndCancel, OneCardEach
  <2> HIDE DEF Moves
  <2>4. Moves
    BY <1>2, <1>a, <2>1, <2>2, <2>3, DeskTasks
  <2> QED
    BY <2>4 DEF Moves
<1>3. ASSUME NEW r \in RequestNos,
             HandleReviewed(r) \/ VehicleNotFound(r) \/ HandleRefused(r) \/ HandleFetched(r)
      PROVE  /\ UNCHANGED cancelling
             /\ \A k \in DOMAIN tasks : tasks'[k] = tasks[k]
             /\ \A k \in DOMAIN tasks' \ DOMAIN tasks : tasks'[k].type = "NEW"
  BY <1>3, <1>a, HandleOutcome DEF jobKeeps
<1>4. CASE UpdateTask
  <2>1. job.at \in InResult /\ job.at = "task" /\ UNCHANGED cancelling
        /\ tasks' = [tasks EXCEPT ![sReq[job.ext.req].task] = job.task]
    BY <1>4 DEF UpdateTask, InResult, resultKeeps
  <2> QED
    BY <1>a, <2>1
<1>5. (\E c \in Callers : Call(c)) \/ WwwJob => UNCHANGED <<tasks, cancelling>>
  BY WwwKeepsServer
<1>6. (\E f \in toServer : ServerReceive(f)) \/ StartRequests \/ HandleCard \/ HandleRecord
        \/ HandleThrows \/ HandleFinish \/ StartResults => UNCHANGED <<tasks, cancelling>>
  BY DEF ServerReceive, StartRequests, HandleCard, HandleRecord, HandleThrows, HandleFinish,
         StartResults, desk, jobKeeps
<1>7. (\E e \in sExt : HandleOrphanResult(e) \/ HandleSuccess(e) \/ HandleFailure(e))
        \/ BindCard \/ ResultDone \/ EndResults \/ UNCHANGED vars =>
        UNCHANGED <<tasks, cancelling>>
  BY DEF HandleOrphanResult, HandleSuccess, HandleFailure, BindCard, ResultDone, EndResults,
         desk, resultKeeps, vars
<1>8. Breakdown => UNCHANGED <<tasks, cancelling>>
  BY DEF Breakdown, FinishThrows, HandlingBreaks, ResultThrows, Crash, desk, jobKeeps
<1> QED
  BY <1>a, <1>1, <1>2, <1>3, <1>4, <1>5, <1>6, <1>7, <1>8 DEF Next, ServerJob

(* What holds of the cards and the tasks before a step holds after it.     *)
LEMMA OneCardKept ==
  ASSUME OneCardEach, OneCardInv, [Next]_vars
  PROVE  /\ AllAvailable' /\ InspectedBound'
         /\ \A x \in Running : x \in Running' => tasks'[x.task].st = "SUBMIT"
         /\ \A k \in DOMAIN tasks : IsNew(k)' <=> IsNew(k)
<1>a. /\ Common /\ Common' /\ TasksKept /\ DeskShapes /\ (NoCardlessTasks => StaysInv)
      /\ InspectedBound /\ AllAvailable /\ NotOver
  BY CommonNext, EveryStepKeepsTasks DEF OneCardInv, Common, Shapes
<1>b. cards \in [Tids -> [st : {"AVAILABLE", "DISABLED"}, veh : Vehicles \cup {None}]]
  BY <1>a DEF DeskShapes
<1>1. \A k \in DOMAIN tasks : IsNew(k)' <=> IsNew(k)
  BY <1>a DEF TasksKept, IsNew
<1>2. ASSUME NEW x \in Running PROVE tasks'[x.task].st = "SUBMIT"
  <2>1. x.task \in DOMAIN tasks /\ tasks[x.task].st = "SUBMIT"
    BY <1>a DEF DeskShapes, Running, NotOver
  <2>2. ~ (job.at = "task" /\ x.task = sReq[job.ext.req].task)
    BY <1>a DEF NotOver
  <2> QED
    BY <2>1, <2>2, StatusMoves
<1>3. ASSUME HandleCard PROVE TypeOfTask(job.task) # "CHANGE"
  <2>1. job.at \in InHand
    BY <1>3 DEF HandleCard, InHand
  <2>2. sReq[job.req].type \in Types
    BY <1>a, <2>1, InHandTypes DEF Rows, Row
  <2>3. job.task # 0 => tasks[job.task].type = sReq[job.req].type
    BY <1>a, <2>1 DEF Common, JobFits, Fits
  <2>4. None # "CHANGE"
    BY RequestAssumption DEF TaskTypes
  <2> QED
    BY <2>2, <2>3, <2>4 DEF TypeOfTask, OneCardEach
<1>4. \A t \in Tids : cards'[t].st = cards[t].st
  <2>1. CASE HandleCard
    BY <1>a, <1>3, <2>1, CardOutcome
  <2>2. CASE BindCard
    BY <1>b, <2>2 DEF BindCard
  <2> QED
    BY <2>1, <2>2, CardsKept
<1>5. AllAvailable'
  BY <1>a, <1>4 DEF AllAvailable
<1>6. InspectedBound'
  <2> SUFFICES ASSUME "ANNUAL_INSPECTION" \in Types, NEW k \in DOMAIN tasks',
                      tasks'[k].type = "ANNUAL_INSPECTION"
               PROVE  tasks'[k].tid \in Tids /\ cards'[tasks'[k].tid].veh = tasks'[k].veh
    BY DEF InspectedBound
  <2>1. StaysInv
    BY <1>a DEF OneCardEach
  <2>2. tasks'[k].tid \in Tids /\ cards[tasks'[k].tid].veh = tasks'[k].veh
    <3>1. CASE k \in DOMAIN tasks
      <4>1. /\ tasks'[k].type = tasks[k].type /\ tasks'[k].veh = tasks[k].veh
            /\ tasks'[k].tid = tasks[k].tid
        BY <1>a, <3>1 DEF TasksKept, NamesCard, ReviewedTypes
      <4> QED
        BY <1>a, <3>1, <4>1 DEF InspectedBound
    <3>2. CASE k \notin DOMAIN tasks
      BY <3>2, StatusMoves
    <3> QED
      BY <3>1, <3>2
  <2>3. tasks'[k].veh # None
    <3>1. tasks' \in Seq(Task)
      BY <1>a DEF Common, Shapes, DeskShapes
    <3>2. tasks'[k] \in Task
      BY <3>1
    <3> QED
      BY <3>2, RequestAssumption DEF Task
  <2>4. job.at = "bind" => job.task.type # "MODIFY"
    <3>1. job.at = "bind" => job.at \in InResult
      BY DEF InResult
    <3>2. job.at = "bind" =>
            /\ sReq[job.ext.req] \in Rows /\ job.task.type = tasks[sReq[job.ext.req].task].type
            /\ Fits(sReq[job.ext.req], sReq[job.ext.req].task)
      BY <1>a, <3>1, InResultTypes
    <3> QED
      BY <3>2 DEF Rows, Row, Fits, OneCardEach
  <2> QED
    BY <2>1, <2>2, <2>3, <2>4, StepRebinds
<1> QED
  BY <1>1, <1>2, <1>5, <1>6

(* The quiet steps keep what is left.                                      *)
LEMMA OneCardQuiet ==
  ASSUME OneCardEach, OneCardInv, [Next]_vars, ~ Binding
  PROVE  OneEach' /\ NotOver' /\ VehicleFree' /\ OneNewTask'
<1>a. /\ Common /\ TasksKept /\ DeskShapes /\ RecordsFit
      /\ OneEach /\ NotOver /\ VehicleFree /\ OneNewTask
  BY EveryStepKeepsTasks DEF OneCardInv, Common, Shapes
<1>b. \A x \in Running : x.task \in DOMAIN tasks /\ tasks[x.task].veh = x.veh
  BY <1>a DEF Running, DeskShapes, RecordsFit
<1>c. /\ UNCHANGED cards
      /\ \A x \in Running' : x \in Running
      /\ \/ UNCHANGED <<job, sReq>>
         \/ job'.at \notin {"card", "record", "bind", "task"}
         \/ /\ job'.at = "card"
            /\ \E r \in RequestNos : HandleReviewed(r) \/ HandleFetched(r)
         \/ job'.at = "task" /\ \E e \in sExt : HandleFailure(e)
  BY <1>a, QuietSteps
<1>d. /\ \A x \in Running' : tasks'[x.task].st = "SUBMIT" /\ (IsNew(x.task)' <=> IsNew(x.task))
      /\ cancelling' = 0
  BY <1>b, <1>c, OneCardKept, StatusMoves
<1>e. \A v : Unbound(v)' <=> Unbound(v)
  BY <1>c DEF Unbound
<1>1. OneEach'
  BY <1>a, <1>c DEF OneEach
<1>2. CASE UNCHANGED <<job, sReq>>
  <2>1. job.at \in {"card", "record"} /\ job.task # 0 =>
          job.task \in DOMAIN tasks /\ tasks'[job.task].st = "SUBMIT"
    <3>1. job.at \in {"card", "record"} /\ job.task # 0 =>
            job.task \in DOMAIN tasks /\ tasks[job.task].st = "SUBMIT"
      BY <1>a DEF Common, JobFits, Fits, InHand, NotOver
    <3> QED
      BY <3>1, StatusMoves
  <2>2. job.at \in {"card", "record"} /\ job.task # 0 => (IsNew(job.task)' <=> IsNew(job.task))
    BY <1>2, <2>1, OneCardKept DEF IsNew
  <2>3. NotOver'
    BY <1>2, <1>a, <1>c, <1>d, <2>1 DEF NotOver
  <2>4. VehicleFree'
    BY <1>2, <1>a, <1>c, <1>d, <1>e, <2>2 DEF VehicleFree
  <2>5. OneNewTask'
    BY <1>2, <1>a, <1>c, <1>d, <2>2 DEF OneNewTask
  <2> QED
    BY <1>1, <2>3, <2>4, <2>5
<1>3. CASE job'.at \notin {"card", "record", "bind", "task"}
  BY <1>3, <1>1, <1>a, <1>c, <1>d, <1>e DEF NotOver, VehicleFree, OneNewTask
<1>4. ASSUME job'.at = "card", NEW r \in RequestNos, HandleReviewed(r) \/ HandleFetched(r)
      PROVE  OneEach' /\ NotOver' /\ VehicleFree' /\ OneNewTask'
  <2>1. ~ FailRequest(r)
    BY <1>4 DEF FailRequest, Finish
  <2>2. PICK veh \in Vehicles, k \in 0 .. MaxTasks :
          /\ GoOn(r, veh, k)
          /\ k # 0 =>
               /\ k \in DOMAIN tasks' /\ tasks'[k].st = "SUBMIT" /\ tasks'[k].veh = veh
               /\ tasks'[k].type = sReq[r].type
          /\ sReq[r].type \notin ReviewedTypes =>
               \A j \in DOMAIN tasks' : tasks'[j].st = "SUBMIT" /\ tasks'[j].veh = veh => j = k
    BY <1>4, <1>a, <2>1, HandleOutcome
  <2>3. job'.task = k /\ job'.veh = veh
    BY <2>2 DEF GoOn
  <2>4. NotOver'
    BY <1>4, <1>d, <2>2, <2>3 DEF NotOver
  <2>5. VehicleFree'
    BY <1>4, <1>a, <1>c, <1>d, <1>e DEF VehicleFree
  <2>6. ASSUME k # 0, IsNew(k)', NEW x \in Running', x.veh = veh PROVE x.task = k
    <3>1. x.task \in DOMAIN tasks' /\ tasks'[x.task].veh = veh /\ tasks'[x.task].st = "SUBMIT"
      BY <1>a, <1>b, <1>c, <1>d, <2>6 DEF TasksKept
    <3>2. sReq[r].type \notin ReviewedTypes
      BY <2>2, <2>6 DEF IsNew, ReviewedTypes
    <3> QED
      BY <2>2, <3>1, <3>2
  <2>7. OneNewTask'
    BY <1>4, <1>a, <1>c, <1>d, <2>3, <2>6 DEF OneNewTask
  <2> QED
    BY <1>1, <2>4, <2>5, <2>7
<1>5. ASSUME job'.at = "task", NEW e \in sExt, HandleFailure(e)
      PROVE  OneEach' /\ NotOver' /\ VehicleFree' /\ OneNewTask'
  <2> DEFINE k == sReq[e.req].task
  <2>1. /\ SetRecords({x \in records : x.task = k}, "FAIL") /\ job'.ext = e /\ UNCHANGED sReq
    BY <1>5 DEF HandleFailure, GoBind, resultKeeps
  <2>2. \A x \in Running' : x.task # k
    <3>1. {x \in records : x.task = k} \in SUBSET records
      OBVIOUS
    <3> QED
      BY <1>a, <2>1, <3>1, RecordsEnd DEF Running
  <2>3. NotOver'
    BY <1>5, <1>d, <2>1, <2>2 DEF NotOver
  <2>4. VehicleFree' /\ OneNewTask'
    BY <1>5, <1>a, <1>c, <1>d, <1>e DEF VehicleFree, OneNewTask
  <2> QED
    BY <1>1, <2>3, <2>4
<1> QED
  BY <1>c, <1>2, <1>3, <1>4, <1>5

(* So do the steps that look at a card, start a record, take a result for  *)
(* a success and bind a card.                                              *)
LEMMA OneCardBinding ==
  ASSUME OneCardEach, OneCardInv, [Next]_vars, Binding
  PROVE  OneEach' /\ NotOver' /\ VehicleFree' /\ OneNewTask'
<1>a. /\ Common /\ TasksKept /\ DeskShapes /\ RecordsFit
      /\ AllAvailable /\ OneEach /\ NotOver /\ InspectedBound /\ VehicleFree /\ OneNewTask
      /\ cancelling' = 0
  BY EveryStepKeepsTasks, StatusMoves DEF OneCardInv, Common, Shapes
<1>b. \A x \in Running : x.task \in DOMAIN tasks /\ tasks[x.task].veh = x.veh
  BY <1>a DEF Running, DeskShapes, RecordsFit
<1>c. cards \in [Tids -> [st : {"AVAILABLE", "DISABLED"}, veh : Vehicles \cup {None}]]
  BY <1>a DEF DeskShapes
<1>1. CASE HandleCard
  <2> DEFINE type == TypeOfTask(job.task)
  <2>1. job.at \in InHand /\ job.at = "card"
    BY <1>1 DEF HandleCard, InHand
  <2>2. /\ UNCHANGED tasks
        /\ \A t \in Tids : cards'[t].veh = cards[t].veh
        /\ \A x \in Running' : x \in Running
    BY <1>1, <1>a, CardOutcome DEF Running
  <2>3. OneEach' /\ \A v : Unbound(v)' <=> Unbound(v)
    BY <1>a, <2>2 DEF OneEach, Unbound
  <2>4. CASE FailRequest(job.req)
    <3>1. job'.at = "handle"
      BY <2>4 DEF FailRequest, Finish
    <3> QED
      BY <1>a, <2>2, <2>3, <3>1 DEF NotOver, VehicleFree, OneNewTask, IsNew
  <2>5. CASE /\ job' = [job EXCEPT !.at = "record"] /\ UNCHANGED <<sReq, toWww>>
             /\ BoundCards(job.veh) = {} \/ type \in {"CHANGE", "ANNUAL_INSPECTION"}
    <3>1. job'.at = "record" /\ job'.veh = job.veh /\ job'.task = job.task
      BY <1>a, <2>1, <2>5, StepsOn
    <3>2. job.task # 0 /\ IsNew(job.task) => Unbound(job.veh)
      BY <1>a, <2>5 DEF TypeOfTask, IsNew, BoundCards, Unbound, AllAvailable
    <3>3. NotOver'
      BY <1>a, <2>1, <2>2, <3>1 DEF NotOver
    <3>4. VehicleFree'
      BY <1>a, <2>1, <2>2, <2>3, <3>1, <3>2 DEF VehicleFree, IsNew
    <3>5. OneNewTask'
      BY <1>a, <2>1, <2>2, <3>1 DEF OneNewTask, IsNew
    <3> QED
      BY <2>3, <3>3, <3>4, <3>5
  <2> QED
    BY <1>1, <1>a, <2>4, <2>5, CardOutcome
<1>2. CASE HandleRecord
  <2> DEFINE new == [tid |-> sReq[job.req].tid, veh |-> job.veh, task |-> job.task, st |-> "IN_PROGRESS"]
  <2>1. /\ job.at = "record" /\ job.at \in InHand /\ job.task # 0
        /\ records' = records \cup {new}
        /\ job' = [job EXCEPT !.at = "finish"] /\ UNCHANGED <<sReq, tasks, cards>>
    BY <1>2 DEF HandleRecord, InHand
  <2>2. job'.at = "finish"
    BY <1>a, <2>1, StepsOn
  <2>3. Running' = Running \cup {new} /\ new.veh = job.veh /\ new.task = job.task
    BY <2>1 DEF Running
  <2> HIDE DEF new
  <2>4. OneEach' /\ \A v : Unbound(v)' <=> Unbound(v)
    BY <1>a, <2>1 DEF OneEach, Unbound
  <2>5. NotOver'
    BY <1>a, <2>1, <2>2, <2>3 DEF NotOver
  <2>6. VehicleFree'
    BY <1>a, <2>1, <2>2, <2>3, <2>4 DEF VehicleFree, IsNew
  <2>7. OneNewTask'
    BY <1>a, <2>1, <2>2, <2>3 DEF OneNewTask, IsNew
  <2> QED
    BY <2>4, <2>5, <2>6, <2>7
<1>3. ASSUME NEW e \in sExt, HandleSuccess(e)
      PROVE  OneEach' /\ NotOver' /\ VehicleFree' /\ OneNewTask'
  <2> DEFINE k == sReq[e.req].task
  <2>0. /\ k # 0 /\ UNCHANGED <<sReq, tasks, cards>> /\ e \in Exts
    BY <1>3, <1>a DEF HandleSuccess, resultKeeps, Common, Shapes, ServerShapes
  <2>1. e.req \in RequestNos
    BY <2>0 DEF Exts
  <2>2. k \in DOMAIN tasks /\ tasks[k] \in Task
    BY <1>a, <2>0, <2>1 DEF Common, RowTasks, Fits, DeskShapes
  <2>3. OneEach' /\ \A v : Unbound(v)' <=> Unbound(v)
    BY <1>a, <2>0 DEF OneEach, Unbound
  <2>4. CASE /\ SetRecords({x \in records : x.task = k}, "SUCCESS")
             /\ \E x \in InProgress(k) : GoBind(e, "bind", "DONE", x.veh)
    <3>1. PICK x \in InProgress(k) : GoBind(e, "bind", "DONE", x.veh)
      BY <2>4
    <3>2. x \in Running /\ x.task = k
      BY <3>1 DEF InProgress, Running
    <3>3. \A y \in Running' : y \in Running /\ y.task # k
      <4>1. {y \in records : y.task = k} \in SUBSET records
        OBVIOUS
      <4> QED
        BY <1>a, <2>4, <4>1, RecordsEnd DEF Running
    <3>4. job'.at = "bind" /\ job'.ext = e /\ job'.veh = x.veh /\ job'.task.type = tasks[k].type
      <4>1. /\ job'.at = "bind" /\ job'.ext = e /\ job'.veh = x.veh
            /\ job'.task = [tasks[k] EXCEPT !.st = "DONE", !.tid = sReq[e.req].tid]
        BY <3>1 DEF GoBind
      <4> QED
        BY <2>2, <4>1 DEF Task
    <3>5. NotOver'
      BY <1>a, <2>0, <3>3, <3>4 DEF NotOver
    <3>6. VehicleFree'
      BY <1>a, <2>0, <2>3, <3>2, <3>3, <3>4 DEF VehicleFree, IsNew
    <3>7. OneNewTask'
      BY <1>a, <2>0, <3>2, <3>3, <3>4 DEF OneNewTask, IsNew
    <3> QED
      BY <2>3, <3>5, <3>6, <3>7
  <2>5. CASE InProgress(k) = {} /\ GoBind(e, "task", "DONE", None) /\ UNCHANGED records
    <3>1. job'.at = "task" /\ job'.ext = e /\ Running' = Running
      BY <2>5 DEF GoBind, Running
    <3>2. \A x \in Running : x.task # k
      BY <2>5 DEF InProgress, Running
    <3>3. NotOver'
      BY <1>a, <2>0, <3>1, <3>2 DEF NotOver
    <3>4. VehicleFree' /\ OneNewTask'
      BY <1>a, <2>0, <2>3, <3>1 DEF VehicleFree, OneNewTask, IsNew
    <3> QED
      BY <2>3, <3>3, <3>4
  <2> QED
    BY <1>3, <2>4, <2>5 DEF HandleSuccess
<1>4. CASE BindCard
  <2> DEFINE t == sReq[job.ext.req].tid
             k == sReq[job.ext.req].task
  <2>1. /\ job.at = "bind" /\ job.at \in InResult /\ job' = [job EXCEPT !.at = "task"]
        /\ cards' = [cards EXCEPT ![t].veh = job.veh]
        /\ UNCHANGED <<sReq, tasks, records>>
    BY <1>4 DEF BindCard, resultKeeps, InResult
  <2>2. job'.at = "task" /\ job'.ext = job.ext
    BY <1>a, <2>1, StepsOn
  <2>3. Running' = Running
    BY <2>1 DEF Running
  <2>4. /\ sReq[job.ext.req] \in Rows /\ t \in Tids /\ Fits(sReq[job.ext.req], k)
        /\ job.task.type = tasks[k].type /\ job.task.veh = tasks[k].veh
        /\ job.veh = tasks[k].veh
    BY <1>a, <2>1, InResultTypes DEF Common, JobFits
  <2>5. cards'[t].veh = job.veh /\ \A u \in Tids : u # t => cards'[u].veh = cards[u].veh
    BY <1>c, <2>1, <2>4
  <2>6. CASE job.task.type = "NEW"
    <3>1. Unbound(job.veh)
      BY <1>a, <2>1, <2>6 DEF VehicleFree
    <3>2. OneEach'
      BY <1>a, <2>5, <3>1 DEF OneEach, Unbound
    <3>3. \A x \in Running : IsNew(x.task) => x.veh # job.veh
      BY <1>a, <2>1, <2>6 DEF OneNewTask
    <3>4. VehicleFree'
      BY <1>a, <2>1, <2>2, <2>3, <2>5, <3>3 DEF VehicleFree, Unbound, IsNew
    <3> QED
      BY <1>a, <2>1, <2>2, <2>3, <3>2, <3>4 DEF NotOver, OneNewTask, IsNew
  <2>7. CASE job.task.type # "NEW"
    <3>1. tasks[k].type = "ANNUAL_INSPECTION" /\ tasks[k].type \in Types
      BY <2>4, <2>7, RequestAssumption DEF Fits, Rows, Row, OneCardEach, TaskTypes
    <3>2. cards[t].veh = job.veh
      BY <1>a, <2>4, <3>1 DEF InspectedBound, Fits, NamesCard, ReviewedTypes
    <3>3. \A u \in Tids : cards'[u].veh = cards[u].veh
      BY <2>5, <3>2
    <3> QED
      BY <1>a, <2>1, <2>2, <2>3, <3>3 DEF OneEach, NotOver, VehicleFree, OneNewTask, Unbound, IsNew
  <2> QED
    BY <2>6, <2>7
<1> QED
  BY <1>1, <1>2, <1>3, <1>4 DEF Binding

(* One card each is one at the most.                                       *)
LEMMA OneEachCounts ==
  ASSUME OneEach, None \notin Vehicles
  PROVE  OneCardPerVehicle
<1> SUFFICES ASSUME NEW v \in Vehicles PROVE Cardinality(BoundCards(v)) <= 1
  BY DEF OneCardPerVehicle
<1>1. CASE BoundCards(v) = {}
  BY <1>1, FS_EmptySet
<1>2. CASE BoundCards(v) # {}
  <2>1. PICK t \in Tids : t \in BoundCards(v)
    BY <1>2 DEF BoundCards
  <2>2. BoundCards(v) = {t}
    BY <2>1 DEF BoundCards, OneEach
  <2> QED
    BY <2>2, FS_Singleton
<1> QED
  BY <1>1, <1>2

(* At the start a card is bound to a vehicle it was personalised for.      *)
LEMMA OneCardInit ==
  ASSUME OneCardEach, Init
  PROVE  OneCardInv
<1>1. /\ records = {} /\ tasks = <<>> /\ job.at = "fetch" /\ cancelling = 0
      /\ cards = [t \in Tids |->
           [st |-> "AVAILABLE",
            veh |-> IF \E v \in Vehicles : <<t, v>> \in EarlierBindings
                    THEN CHOOSE v \in Vehicles : <<t, v>> \in EarlierBindings ELSE None]]
  BY DEF Init
<1>2. Common /\ (NoCardlessTasks => StaysInv)
  <2>1. OneRecordPerCard /\ RecordsOnFreeCards
    BY <1>1 DEF OneRecordPerCard, RecordsOnFreeCards, Running
  <2> QED
    BY <2>1, CommonInit DEF StaysInv
<1>3. AllAvailable
  BY <1>1 DEF AllAvailable
<1>4. \A t \in Tids : cards[t].veh # None => <<t, cards[t].veh>> \in EarlierBindings
  BY <1>1
<1>5. OneEach
  <2> SUFFICES ASSUME NEW t \in Tids, NEW u \in Tids, cards[t].veh = cards[u].veh,
                      cards[t].veh # None
               PROVE  t = u
    BY DEF OneEach
  <2>1. <<t, cards[t].veh>> \in EarlierBindings /\ <<u, cards[u].veh>> \in EarlierBindings
    BY <1>4
  <2> QED
    BY <2>1 DEF OneCardEach
<1>6. NotOver /\ InspectedBound /\ VehicleFree /\ OneNewTask
  BY <1>1 DEF NotOver, InspectedBound, VehicleFree, OneNewTask, Running
<1> QED
  BY <1>2, <1>3, <1>5, <1>6 DEF OneCardInv

(* CustomizeRequest.OneCardPerVehicle: no vehicle has two usable cards,    *)
(* where no clerk cancels a task, no card is changed or rebound, and tasks *)
(* to inspect a card name it.  Two requests for one vehicle share the one  *)
(* task it may have, and the first result ends that task and all its       *)
(* records (CustomizeResultHandler.execute), whatever crashes, comes twice *)
(* or fails in between.                                                    *)
THEOREM OneCard ==
  ASSUME OneCardEach
  PROVE  Spec => []OneCardPerVehicle
<1>1. Init => OneCardInv
  BY OneCardInit
<1>2. OneCardInv /\ [Next]_vars => OneCardInv'
  <2> SUFFICES ASSUME OneCardInv, [Next]_vars PROVE OneCardInv'
    OBVIOUS
  <2>1. Common' /\ (NoCardlessTasks => StaysInv')
    BY CommonNext, StaysNext DEF OneCardInv
  <2>2. AllAvailable' /\ InspectedBound'
    BY OneCardKept
  <2>3. OneEach' /\ NotOver' /\ VehicleFree' /\ OneNewTask'
    BY OneCardQuiet, OneCardBinding
  <2> QED
    BY <2>1, <2>2, <2>3 DEF OneCardInv, NoCardlessTasks
<1>3. OneCardInv => OneCardPerVehicle
  BY OneEachCounts, RequestAssumption DEF OneCardInv
<1> QED
  BY <1>1, <1>2, <1>3, PTL DEF Spec

=============================================================================
