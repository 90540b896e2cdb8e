-------------------------- MODULE CustomizeRequest --------------------------
(***************************************************************************)
(* Personalising a card (an electronic vehicle identification tag) over    *)
(* the two sites.  At the internet site ("www") a handheld reader creates  *)
(* a request, fetches the data the police-network site (the "server")      *)
(* prepared for it, writes the card and reports the outcome.  At the       *)
(* server the clerks' desk creates and reviews tasks, and after each       *)
(* exchange of files the job handles the new requests and the reported     *)
(* results.  Rows travel as files, which arrive in any order and, when the *)
(* reader of the files stops too early, more than once (DataExchange).     *)
(***************************************************************************)
EXTENDS Naturals, Sequences, FiniteSets, FiniteSetsExt

CONSTANTS
  None,              \* null
  Tids,              \* cards
  Vehicles,
  Callers,           \* threads of the www site's web server
  Types,             \* kinds of requests the readers send
  AutoGenerateTask,  \* the server creates a task when a request finds none
  LongCache,         \* greatest task number two boxed copies of which are ==
  FailLimit,         \* failed writes that end a request (5 in the code)
  EarlierBindings,   \* <<card, vehicle>> pairs personalised before
  Troubles,          \* what may go wrong, MaxFaults times in all
  Offered,           \* the operations clerks and readers may choose
  MaxRequests, MaxTasks, MaxFaults   \* bounds

TaskTypes == {"NEW", "CHANGE", "MODIFY", "ANNUAL_INSPECTION"}

(* Requests of these types need a task made and reviewed at the desk.      *)
ReviewedTypes == {"CHANGE", "MODIFY", "ANNUAL_INSPECTION"}

Operations == {"SaveCustomize", "CreateChange", "CreateModify", "CreateAnnualInspection",
            "Review", "CancelTask", "CancelRequest", "ReplaceRequest"}

RowStatus == {"NEW", "FETCHED", "WRITTEN", "FAIL", "CANCELLED"}
Active == {"NEW", "FETCHING", "FETCHED"}

ASSUME RequestAssumption ==
  /\ Offered \subseteq Operations
  /\ Types \subseteq TaskTypes
  /\ AutoGenerateTask \in BOOLEAN
  /\ Troubles \subseteq {"crash", "redelivery", "throw"}
  /\ None \notin Tids \cup Vehicles \cup TaskTypes \cup RowStatus \cup Active
  /\ LongCache \in Nat /\ FailLimit \in Nat \ {0}
  /\ MaxRequests \in Nat /\ MaxTasks \in Nat /\ MaxFaults \in Nat
  /\ EarlierBindings \subseteq Tids \X Vehicles

VARIABLES
  \* www
  wReq,      \* request rows, by number; each request was created here
  wData,     \* data to write on cards
  wFails,    \* failed writes logged, by request
  callers,   \* what each thread is doing
  \* server
  sReq,      \* the copies of the request rows
  sExt,      \* external requests (results) not yet done
  tasks,     \* customize tasks
  records,   \* customize records
  cards,     \* state of each card and the vehicle bound to it
  job,       \* where the scheduled job is
  cancelling,\* the task a clerk is cancelling, 0 for none
  \* files under way
  toServer, toWww,
  \* history
  written,   \* <<card, vehicle>> pairs a reader has written
  approved,  \* tasks a reviewer has approved
  refused,   \* <<vehicle, task>>: a request for the vehicle was refused since
             \* its card's task is for another vehicle
  cutOff,    \* requests of which half a step was committed, and the other half
             \* is never made good
  faults

www == <<wReq, wData, wFails, callers>>
desk == <<tasks, records, cards>>
history == <<written, approved, refused, cutOff>>
vars == <<www, sReq, sExt, desk, job, cancelling, toServer, toWww, history, faults>>

RequestNos == 1 .. MaxRequests

NoRow == [st |-> None, tid |-> None, veh |-> None, type |-> None, task |-> 0]

Fault(trouble) ==
  trouble \in Troubles /\ faults < MaxFaults /\ faults' = faults + 1

(* A statement throws, or the process stops.                               *)
Breaks == Fault("throw") \/ Fault("crash")

Init ==
  /\ wReq = [r \in RequestNos |-> NoRow]
  /\ wData = {}
  /\ wFails = [r \in RequestNos |-> 0]
  /\ callers = [c \in Callers |-> [op |-> "idle"]]
  /\ sReq = [r \in RequestNos |-> NoRow]
  /\ sExt = {}
  /\ tasks = <<>>
  /\ records = {}
  /\ cards = [t \in Tids |->
       [st |-> "AVAILABLE",
        veh |-> IF \E v \in Vehicles : <<t, v>> \in EarlierBindings
                THEN CHOOSE v \in Vehicles : <<t, v>> \in EarlierBindings ELSE None]]
  /\ job = [at |-> "fetch", got |-> FALSE]
  /\ cancelling = 0
  /\ toServer = {} /\ toWww = {}
  /\ written = EarlierBindings
  /\ approved = {} /\ refused = {} /\ cutOff = {}
  /\ faults = 0

RequestFile(r, row) == [kind |-> "request", xh |-> r, row |-> row]
DataFile(d) == [kind |-> "data", data |-> d]
ExternalFile(e) == [kind |-> "external", ext |-> e]

(* A null column leaves the old value: only qqxh, the task, is ever null.  *)
MergeRow(old, new) ==
  [new EXCEPT !.task = IF new.task = 0 THEN old.task ELSE new.task]

-----------------------------------------------------------------------------
(* The www site: CustomizeRequestEndPoint and CustomizeRequestServiceImpl. *)

ActiveRequests(tid) == {r \in RequestNos : wReq[r].tid = tid /\ wReq[r].st \in Active}

(* fetchActiveByTid: the newest.                                           *)
FetchActiveByTid(tid) ==
  IF ActiveRequests(tid) = {} THEN 0 ELSE Max(ActiveRequests(tid))

Become(c, call) == callers' = [callers EXCEPT ![c] = call]
Idle == [op |-> "idle"]

(* Wrong variant: the result is kept at the www site.                      *)
UpdateWithoutResult(r, result) ==
  LET row == [wReq[r] EXCEPT !.st = IF result = "SUCCESS" THEN "WRITTEN" ELSE "CANCELLED"] IN
  /\ wReq' = [wReq EXCEPT ![r] = row]
  /\ wData' = {d \in wData : d.tid # row.tid}
  /\ toServer' = toServer \cup {RequestFile(r, row)}
  /\ UNCHANGED wFails

(* updateCustomizeResult, one transaction: a failed write counts, and ends *)
(* the request only at the limit; otherwise the row, the data and the      *)
(* external request change together.                                       *)
UpdateCustomizeResult(r, result) ==
  LET fails == wFails[r] + 1
      st == CASE result = "SUCCESS" -> "WRITTEN"
              [] result = "CANCEL" -> "CANCELLED"
              [] OTHER -> "FAIL"
      row == [wReq[r] EXCEPT !.st = st]
  IN
  /\ wFails' = IF result = "FAIL" THEN [wFails EXCEPT ![r] = fails] ELSE wFails
  /\ IF result = "FAIL" /\ fails < FailLimit
     THEN UNCHANGED <<wReq, wData, toServer>>
     ELSE /\ wReq' = [wReq EXCEPT ![r] = row]
          /\ wData' = {d \in wData : d.tid # row.tid}
          /\ toServer' = toServer \cup {RequestFile(r, row),
                                        ExternalFile([req |-> r, result |-> result])}

serverSide == <<sReq, sExt, desk, job, cancelling>>

(* The vehicle a request names.  For a type that is reviewed it may be left*)
(* out, and is not looked at: the task names the vehicle.                  *)
Named(type) == IF type \in ReviewedTypes THEN {None} ELSE Vehicles

(* method=create: the card's active request is looked up.  If there is    *)
(* none (create looks once more, here in the same step) the call goes on   *)
(* to insert its row, though another may do so now.                        *)
(* One that is for another vehicle and older than 5 minutes, or older than *)
(* 12 hours, is cancelled first; else the call is refused.                 *)
CallCreate(c, tid, veh, type) ==
  LET args == [tid |-> tid, veh |-> veh, type |-> type, st |-> "NEW", task |-> 0]
      old == FetchActiveByTid(tid)
  IN
  /\ callers[c] = Idle
  /\ \E r \in RequestNos : wReq[r] = NoRow
  /\ old # 0 => "ReplaceRequest" \in Offered
  /\ Become(c, [op |-> IF old = 0 THEN "insert" ELSE "replace", req |-> old, row |-> args])
  /\ UNCHANGED <<wReq, wData, wFails, serverSide, toServer, toWww, history, faults>>

CancelReplaced(c) ==
  /\ callers[c].op = "replace"
  /\ UpdateCustomizeResult(callers[c].req, "CANCEL")
  /\ Become(c, [callers[c] EXCEPT !.op = "check"])
  /\ UNCHANGED <<serverSide, toWww, history, faults>>

(* create: the card must have no active request ...                        *)
CheckNoActive(c) ==
  /\ callers[c].op = "check"
  /\ Become(c, IF FetchActiveByTid(callers[c].row.tid) = 0
               THEN [callers[c] EXCEPT !.op = "insert"] ELSE Idle)
  /\ UNCHANGED <<wReq, wData, wFails, serverSide, toServer, toWww, history, faults>>

(* ... then the row is inserted and sent, in statements of their own.      *)
InsertRequest(c) ==
  /\ callers[c].op = "insert"
  /\ \E r \in RequestNos :
       /\ wReq[r] = NoRow /\ \A q \in RequestNos : q < r => wReq[q] # NoRow
       /\ wReq' = [wReq EXCEPT ![r] = callers[c].row]
       /\ toServer' = toServer \cup {RequestFile(r, callers[c].row)}
  /\ Become(c, Idle)
  /\ UNCHANGED <<wData, wFails, serverSide, toWww, history, faults>>

(* method=customize gives the reader the data of the card's newest active  *)
(* request; it writes the card, or fails to, and may then report.          *)
Customize(c, tid, result) ==
  /\ callers[c] = Idle
  /\ \E d \in wData :
       /\ d.tid = tid /\ d.req = FetchActiveByTid(tid)
       /\ written' = IF result = "SUCCESS" THEN written \cup {<<tid, d.veh>>} ELSE written
       /\ Become(c, [op |-> "report", req |-> d.req, result |-> result])
  /\ UNCHANGED <<wReq, wData, wFails, serverSide, toServer, toWww, approved, refused, cutOff,
                 faults>>

(* method=customize-result: the status is checked in a query ...           *)
CheckRequestStatus(c) ==
  /\ callers[c].op = "report"
  /\ Become(c, IF wReq[callers[c].req].st \in Active
               THEN [callers[c] EXCEPT !.op = "result"] ELSE Idle)
  /\ UNCHANGED <<wReq, wData, wFails, serverSide, toServer, toWww, history, faults>>

(* (also for a user who cancels a request he knows)                        *)
CallCancel(c, r) ==
  /\ callers[c] = Idle
  /\ wReq[r].st \in Active
  /\ Become(c, [op |-> "result", req |-> r, result |-> "CANCEL"])
  /\ UNCHANGED <<wReq, wData, wFails, serverSide, toServer, toWww, history, faults>>

(* ... and the result applied in a transaction, whatever the status is now.*)
ApplyResult(c) ==
  /\ callers[c].op = "result"
  /\ UpdateCustomizeResult(callers[c].req, callers[c].result)
  /\ Become(c, Idle)
  /\ UNCHANGED <<serverSide, toWww, history, faults>>

(* A reader that goes away before it reports.                              *)
LeaveCall(c) ==
  /\ callers[c].op = "report"
  /\ Become(c, Idle)
  /\ UNCHANGED <<wReq, wData, wFails, serverSide, toServer, toWww, history, faults>>

(* A call throws, or the www site stops.  An inserted row may stay unsent; *)
(* a result is rolled back, but its external request, written to a file    *)
(* before the row's, may be on its way.                                    *)
CallBreaks(c) ==
  LET call == callers[c]
      result == IF call.op = "replace" THEN "CANCEL" ELSE call.result
  IN
  /\ Breaks
  /\ Become(c, Idle)
  /\ \/ call.op \in {"replace", "check", "insert", "result"}
        /\ UNCHANGED <<wReq, toServer, cutOff>>
     \/ /\ call.op = "insert"
        /\ \E r \in RequestNos :
             /\ wReq[r] = NoRow /\ \A q \in RequestNos : q < r => wReq[q] # NoRow
             /\ wReq' = [wReq EXCEPT ![r] = call.row]
             /\ cutOff' = cutOff \cup {r}
        /\ UNCHANGED toServer
     \/ /\ call.op \in {"replace", "result"}
        /\ result = "FAIL" => wFails[call.req] + 1 >= FailLimit
        /\ toServer' = toServer \cup {ExternalFile([req |-> call.req, result |-> result])}
        /\ cutOff' = cutOff \cup {call.req}
        /\ UNCHANGED wReq
  /\ UNCHANGED <<wData, wFails, serverSide, toWww, written, approved, refused>>

(* DataPassTask at www merges a file; a crash before its deletion makes it *)
(* come back.                                                              *)
WwwReceive(f) ==
  /\ f \in toWww
  /\ IF f.kind = "request"
     THEN wReq' = [wReq EXCEPT ![f.xh] = MergeRow(@, f.row)] /\ UNCHANGED wData
     ELSE wData' = wData \cup {f.data} /\ UNCHANGED wReq
  /\ \/ toWww' = toWww \ {f} /\ UNCHANGED faults
     \/ Fault("redelivery") /\ UNCHANGED toWww
  /\ UNCHANGED <<wFails, callers, serverSide, toServer, history>>

-----------------------------------------------------------------------------
(* The server's desk: CustomizeTaskCtrl.                                   *)

NewTask(tid, veh, type, st) == [tid |-> tid, veh |-> veh, type |-> type, st |-> st]

(* Any statuses of a task that is not over.                                *)
OpenTasksOf(tid) ==
  {k \in DOMAIN tasks : tasks[k].tid = tid /\ tasks[k].st \in {"PENDING", "SUBMIT"}}

CreateTask(tid, veh, type, st) ==
  /\ Len(tasks) < MaxTasks
  /\ tasks' = Append(tasks, NewTask(tid, veh, type, st))
  /\ UNCHANGED <<www, sReq, sExt, records, cards, job, cancelling, toServer, toWww, history, faults>>

(* save-customize names no card and needs no review.                       *)
SaveCustomize(veh, type) == CreateTask(None, veh, type, "SUBMIT")

(* createChange: the new card, if named, must have no open task; the old   *)
(* card's state, and other tasks of the vehicle, are not looked at.        *)
CreateChange(old, tid) ==
  /\ cards[old].veh # None
  /\ tid # None => OpenTasksOf(tid) = {}
  /\ CreateTask(tid, cards[old].veh, "CHANGE", "PENDING")

CreateModify(tid, veh) ==
  /\ cards[tid].veh # None
  /\ OpenTasksOf(tid) = {}
  /\ CreateTask(tid, veh, "MODIFY", "PENDING")

CreateAnnualInspection(tid) ==
  /\ cards[tid].veh # None
  /\ CreateTask(tid, cards[tid].veh, "ANNUAL_INSPECTION", "SUBMIT")

(* review with approval; the task's status is not looked at.               *)
Review(k) ==
  /\ k \in DOMAIN tasks
  /\ tasks' = [tasks EXCEPT ![k].st = "SUBMIT"]
  /\ approved' = approved \cup {k}
  /\ UNCHANGED <<www, sReq, sExt, records, cards, job, cancelling, toServer, toWww, written,
                 refused, cutOff, faults>>

(* updateByCondition on some of the records.                              *)
SetRecords(which, st) ==
  records' = (records \ which) \cup {[x EXCEPT !.st = st] : x \in which}

(* cancel, two transactions: saveCustomizeResult fails the task's records  *)
(* in progress ...                                                         *)
BeginCancel(k) ==
  /\ cancelling = 0
  /\ k \in DOMAIN tasks
  /\ SetRecords({x \in records : x.task = k /\ x.st = "IN_PROGRESS"}, "FAIL")
  /\ cancelling' = k
  /\ UNCHANGED <<www, sReq, sExt, tasks, cards, job, toServer, toWww, history, faults>>

(* ... then the task is cancelled.                                         *)
EndCancel ==
  /\ cancelling # 0
  /\ tasks' = [tasks EXCEPT ![cancelling].st = "CANCEL"]
  /\ cancelling' = 0
  /\ UNCHANGED <<www, sReq, sExt, records, cards, job, toServer, toWww, history, faults>>

-----------------------------------------------------------------------------
(* The server's job: DataPassTask merges files, then its trigger tasks run.*)

AtFetch(got) == [at |-> "fetch", got |-> got]

ServerReceive(f) ==
  /\ job.at = "fetch"
  /\ f \in toServer
  /\ IF f.kind = "request"
     THEN sReq' = [sReq EXCEPT ![f.xh] = MergeRow(@, f.row)] /\ UNCHANGED sExt
     ELSE sExt' = sExt \cup {f.ext} /\ UNCHANGED sReq
  /\ \/ toServer' = toServer \ {f} /\ UNCHANGED faults
     \/ Fault("redelivery") /\ UNCHANGED toServer
  /\ job' = AtFetch(TRUE)
  /\ UNCHANGED <<www, desk, cancelling, toWww, history>>

(* The run ends and, having read a file, starts CustomizeRequestTask.      *)
StartRequests ==
  /\ job = AtFetch(TRUE)
  /\ job' = [at |-> "handle", todo |-> {r \in RequestNos : sReq[r].st = "NEW"}]
  /\ UNCHANGED <<www, sReq, sExt, desk, cancelling, toServer, toWww, history, faults>>

(* Wrong variant: only a request that got its data is answered.            *)
FinishFetched(r, row, files) ==
  /\ sReq' = [sReq EXCEPT ![r] = row]
  /\ toWww' = IF files = {} THEN toWww ELSE toWww \cup {RequestFile(r, row)} \cup files
  /\ job' = [at |-> "handle", todo |-> job.todo \ {r}]

(* finish: the row is updated and sent, and the job goes on.               *)
Finish(r, row, files) ==
  /\ sReq' = [sReq EXCEPT ![r] = row]
  /\ toWww' = toWww \cup {RequestFile(r, row)} \cup files
  /\ job' = [at |-> "handle", todo |-> job.todo \ {r}]

FailRequest(r) == Finish(r, [sReq[r] EXCEPT !.st = "FAIL"], {})

(* Requests are handled newest first.                                      *)
Handling(r) == job.at = "handle" /\ job.todo # {} /\ r = Max(job.todo)

GoOn(r, veh, k) ==
  /\ job' = [at |-> "card", todo |-> job.todo, req |-> r, veh |-> veh, task |-> k]
  /\ UNCHANGED <<sReq, toWww>>

(* Wrong variant: tasks that wait for their review are found as well.      *)
OpenFor(tid) == {k \in DOMAIN tasks : tasks[k].st \in {"PENDING", "SUBMIT"} /\ tasks[k].tid = tid}

SubmittedFor(tid) == {k \in DOMAIN tasks : tasks[k].st = "SUBMIT" /\ tasks[k].tid = tid}
SubmittedOf(veh) == {k \in DOMAIN tasks : tasks[k].st = "SUBMIT" /\ tasks[k].veh = veh}

jobKeeps == <<www, sExt, cancelling, toServer>>

(* Types that are reviewed: the card's newest task of that type.           *)
HandleReviewed(r) ==
  LET found == {k \in SubmittedFor(sReq[r].tid) : tasks[k].type = sReq[r].type} IN
  /\ Handling(r)
  /\ sReq[r].type \in ReviewedTypes
  /\ IF found = {} THEN FailRequest(r) ELSE GoOn(r, tasks[Max(found)].veh, Max(found))
  /\ UNCHANGED <<jobKeeps, desk, history, faults>>

(* The vehicle is not found, or its query throws.                          *)
VehicleNotFound(r) ==
  /\ Handling(r)
  /\ Fault("throw")
  /\ FailRequest(r)
  /\ UNCHANGED <<jobKeeps, desk, history>>

(* CustomizeTaskServiceImpl.fetch compares two Long objects with !=.       *)
SameLong(k, l) == k = l /\ k <= LongCache

(* "The card is being used for another vehicle": the card's one task.      *)
ForOtherVehicle(tid, veh) ==
  {l \in SubmittedFor(tid) :
     IF SubmittedOf(veh) = {} THEN AutoGenerateTask
     ELSE \E k \in SubmittedOf(veh) : ~SameLong(l, k)}

Refuses(tid, veh) ==
  \/ cards[tid].st # "AVAILABLE"
  \/ Cardinality(SubmittedFor(tid)) > 1 \/ Cardinality(SubmittedOf(veh)) > 1
  \/ \E k \in SubmittedFor(tid) \cup SubmittedOf(veh) : tasks[k].type # "NEW"
  \/ \E k \in SubmittedOf(veh) : tasks[k].tid \notin {None, tid}

HandleRefused(r) ==
  LET tid == sReq[r].tid
      veh == sReq[r].veh
      other == IF Refuses(tid, veh) THEN {} ELSE ForOtherVehicle(tid, veh)
  IN
  /\ Handling(r)
  /\ sReq[r].type \notin ReviewedTypes
  /\ Refuses(tid, veh) \/ other # {}
  /\ FailRequest(r)
  /\ refused' = refused \cup {<<veh, l>> : l \in other}
  /\ UNCHANGED <<jobKeeps, desk, written, approved, cutOff, faults>>

(* The vehicle's task, or a new one committed at once, or none.            *)
HandleFetched(r) ==
  LET tid == sReq[r].tid
      veh == sReq[r].veh
      found == SubmittedOf(veh)
  IN
  /\ Handling(r)
  /\ sReq[r].type \notin ReviewedTypes
  /\ ~Refuses(tid, veh) /\ ForOtherVehicle(tid, veh) = {}
  /\ IF found = {} /\ AutoGenerateTask
     THEN /\ Len(tasks) < MaxTasks
          /\ tasks' = Append(tasks, NewTask(tid, veh, "NEW", "SUBMIT"))
          /\ GoOn(r, veh, Len(tasks'))
     ELSE /\ GoOn(r, veh, IF found = {} THEN 0 ELSE Max(found))
          /\ UNCHANGED tasks
  /\ UNCHANGED <<jobKeeps, records, cards, history, faults>>

TypeOfTask(k) == IF k = 0 THEN None ELSE tasks[k].type

(* Wrong variant: a card may be given to another vehicle.                  *)
CardInUse(tid, veh, type) == cards[tid].st = "AVAILABLE"

(* The card must be usable, and bound to no other vehicle.                 *)
CardUsable(tid, veh, type) ==
  /\ cards[tid].st = "AVAILABLE"
  /\ cards[tid].veh \in {None, veh} \/ type = "MODIFY"

(* Wrong variant: the vehicle's cards are not looked for.                  *)
NoBoundCheck ==
  LET r == job.req IN
  /\ job.at = "card"
  /\ IF CardUsable(sReq[r].tid, job.veh, sReq[r].type)
     THEN job' = [job EXCEPT !.at = "record"] /\ UNCHANGED <<sReq, toWww>>
     ELSE FailRequest(r)
  /\ UNCHANGED <<jobKeeps, desk, history, faults>>

(* Wrong variant: the vehicle's card is put out of use for an inspection.  *)
DisableAtInspection ==
  LET bound == {t \in Tids : cards[t].st = "AVAILABLE" /\ cards[t].veh = job.veh} IN
  /\ job.at = "card"
  /\ job' = [job EXCEPT !.at = "record"]
  /\ cards' = IF TypeOfTask(job.task) \in {"CHANGE", "ANNUAL_INSPECTION"}
              THEN [t \in Tids |-> IF t \in bound
                                   THEN [cards[t] EXCEPT !.st = "DISABLED"] ELSE cards[t]]
              ELSE cards
  /\ UNCHANGED <<jobKeeps, sReq, toWww, tasks, records, history, faults>>

(* fetchByVehicle.                                                         *)
BoundCards(veh) == {t \in Tids : cards[t].st = "AVAILABLE" /\ cards[t].veh = veh}

(* The card's records in progress fail, then the vehicle must have no card *)
(* yet: a change disables the old one, an inspection keeps it.             *)
HandleCard ==
  LET r == job.req
      tid == sReq[r].tid
      bound == BoundCards(job.veh)
      type == TypeOfTask(job.task)
  IN
  /\ job.at = "card"
  /\ IF ~CardUsable(tid, job.veh, sReq[r].type)
     THEN FailRequest(r) /\ UNCHANGED <<records, cards>>
     ELSE /\ SetRecords({x \in records : x.tid = tid /\ x.st = "IN_PROGRESS"}, "FAIL")
          /\ IF \/ bound = {}
                \/ Cardinality(bound) = 1 /\ type \in {"CHANGE", "ANNUAL_INSPECTION"}
             THEN /\ job' = [job EXCEPT !.at = "record"]
                  /\ UNCHANGED <<sReq, toWww>>
             ELSE FailRequest(r)
          /\ cards' = IF Cardinality(bound) = 1 /\ type = "CHANGE"
                      THEN [t \in Tids |-> IF t \in bound
                                           THEN [cards[t] EXCEPT !.st = "DISABLED"] ELSE cards[t]]
                      ELSE cards
  /\ UNCHANGED <<jobKeeps, tasks, history, faults>>

(* Wrong variant: the missing task is not noticed.                         *)
RecordWithoutTask ==
  /\ job.at = "record"
  /\ records' = records \cup {[tid |-> sReq[job.req].tid, veh |-> job.veh, task |-> job.task,
                               st |-> "IN_PROGRESS"]}
  /\ job' = [job EXCEPT !.at = "finish"]
  /\ UNCHANGED <<jobKeeps, sReq, tasks, cards, toWww, history, faults>>

(* The data are made; with no task the handler fails here.                 *)
HandleRecord ==
  /\ job.at = "record"
  /\ job.task # 0
  /\ records' = records \cup {[tid |-> sReq[job.req].tid, veh |-> job.veh, task |-> job.task,
                               st |-> "IN_PROGRESS"]}
  /\ job' = [job EXCEPT !.at = "finish"]
  /\ UNCHANGED <<jobKeeps, sReq, tasks, cards, toWww, history, faults>>

(* What is committed of HandleCard when a statement of it throws: the      *)
(* records may have failed.                                                *)
RecordsSoFar ==
  LET tid == sReq[job.req].tid IN
  \/ UNCHANGED records
  \/ /\ job.at = "card" /\ CardUsable(tid, job.veh, sReq[job.req].type)
     /\ SetRecords({x \in records : x.tid = tid /\ x.st = "IN_PROGRESS"}, "FAIL")

(* A statement throws before or while the data are made: the request fails *)
(* and what was committed stays.  A null task always throws.               *)
HandleThrows ==
  /\ job.at \in {"card", "record"}
  /\ IF job.at = "record" /\ job.task = 0 THEN UNCHANGED faults ELSE Fault("throw")
  /\ FailRequest(job.req)
  /\ RecordsSoFar
  /\ UNCHANGED <<jobKeeps, tasks, cards, history>>

(* The row that finish commits, and the files it sends, one by one.        *)
Fetched == [sReq[job.req] EXCEPT !.st = "FETCHED", !.task = job.task, !.veh = job.veh]
FetchedData == DataFile([req |-> job.req, tid |-> Fetched.tid, veh |-> Fetched.veh])
SentSoFar ==
  {{}, {RequestFile(job.req, Fetched)}, {RequestFile(job.req, Fetched), FetchedData}}

HandleFinish ==
  /\ job.at = "finish"
  /\ Finish(job.req, Fetched, {FetchedData})
  /\ UNCHANGED <<jobKeeps, desk, history, faults>>

(* finish throws: the request fails after all, with what was sent sent.    *)
FinishThrows ==
  /\ job.at = "finish"
  /\ Fault("throw")
  /\ \E sent \in SentSoFar : Finish(job.req, [Fetched EXCEPT !.st = "FAIL"], sent)
  /\ UNCHANGED <<jobKeeps, desk, history>>

(* The run ends with a row committed but perhaps not sent.                 *)
EndRun(r, row, sent) ==
  /\ sReq' = [sReq EXCEPT ![r] = row]
  /\ toWww' = toWww \cup sent
  /\ job' = AtFetch(FALSE)
  /\ cutOff' = IF sent = {} /\ row.st # "NEW" THEN cutOff \cup {r} ELSE cutOff

(* The handler of the exception throws as well, which ends the run and     *)
(* leaves the requests after this one for a later run, or the server stops.*)
HandlingBreaks ==
  /\ Breaks
  /\ \/ /\ job.at \in {"handle", "card", "record", "finish"} /\ job.todo # {}
        /\ LET r == IF job.at = "handle" THEN Max(job.todo) ELSE job.req IN
             \E st \in {"NEW", "FAIL"} : EndRun(r, [sReq[r] EXCEPT !.st = st], {})
     \/ /\ job.at = "finish"
        /\ \E st \in {"FETCHED", "FAIL"}, sent \in SentSoFar :
             EndRun(job.req, [Fetched EXCEPT !.st = st], sent)
  /\ RecordsSoFar
  /\ UNCHANGED <<jobKeeps, tasks, cards, written, approved, refused>>

(* ExternalRequestTask runs once the requests are handled.                 *)
StartResults ==
  /\ job.at = "handle" /\ job.todo = {}
  /\ job' = [at |-> "results", todo |-> sExt]
  /\ UNCHANGED <<jobKeeps, sReq, desk, toWww, history, faults>>

(* CustomizeResultHandler.execute of a result that names no task.          *)
HandleOrphanResult(e) ==
  /\ job.at = "results" /\ e \in job.todo
  /\ sReq[e.req].task = 0
  /\ sExt' = sExt \ {e}
  /\ job' = [job EXCEPT !.todo = @ \ {e}]
  /\ UNCHANGED <<www, sReq, desk, cancelling, toServer, toWww, history, faults>>

(* Each statement of the handler is committed by itself.  The task's row   *)
(* is read here and written back last, with its new status.                *)
GoBind(e, at, st, veh) ==
  LET k == sReq[e.req].task
      tid == IF st = "DONE" THEN sReq[e.req].tid ELSE tasks[k].tid
  IN
  job' = [at |-> at, todo |-> job.todo, ext |-> e, veh |-> veh,
          task |-> [tasks[k] EXCEPT !.st = st, !.tid = tid]]

InProgress(k) == {x \in records : x.task = k /\ x.st = "IN_PROGRESS"}

resultKeeps == <<www, sReq, cancelling, toServer, toWww, history, faults>>

(* Wrong variant: every result is taken for a success.                     *)
AnyIsSuccess(e) ==
  LET k == sReq[e.req].task IN
  /\ job.at = "results" /\ e \in job.todo
  /\ k # 0 /\ InProgress(k) # {}
  /\ SetRecords({x \in records : x.task = k}, "SUCCESS")
  /\ \E x \in InProgress(k) : GoBind(e, "bind", "DONE", x.veh)
  /\ UNCHANGED <<resultKeeps, sExt, tasks, cards>>

(* Success: if the task has a record in progress, all its records succeed  *)
(* and the request's card will be bound.                                   *)
HandleSuccess(e) ==
  LET k == sReq[e.req].task IN
  /\ job.at = "results" /\ e \in job.todo
  /\ e.result = "SUCCESS" /\ k # 0
  /\ \/ /\ SetRecords({x \in records : x.task = k}, "SUCCESS")
        /\ \E x \in InProgress(k) : GoBind(e, "bind", "DONE", x.veh)
     \/ /\ InProgress(k) = {}
        /\ GoBind(e, "task", "DONE", None)
        /\ UNCHANGED records
  /\ UNCHANGED <<resultKeeps, sExt, tasks, cards>>

(* Failure or cancellation: all records of the task fail, the task ends.   *)
HandleFailure(e) ==
  LET k == sReq[e.req].task IN
  /\ job.at = "results" /\ e \in job.todo
  /\ e.result # "SUCCESS" /\ k # 0
  /\ SetRecords({x \in records : x.task = k}, "FAIL")
  /\ GoBind(e, "task", "CANCEL", None)
  /\ UNCHANGED <<resultKeeps, sExt, tasks, cards>>

BindCard ==
  /\ job.at = "bind"
  /\ cards' = [cards EXCEPT ![sReq[job.ext.req].tid].veh = job.veh]
  /\ job' = [job EXCEPT !.at = "task"]
  /\ UNCHANGED <<resultKeeps, sExt, tasks, records>>

UpdateTask ==
  /\ job.at = "task"
  /\ tasks' = [tasks EXCEPT ![sReq[job.ext.req].task] = job.task]
  /\ job' = [job EXCEPT !.at = "done"]
  /\ UNCHANGED <<resultKeeps, sExt, records, cards>>

ResultDone ==
  /\ job.at = "done"
  /\ sExt' = sExt \ {job.ext}
  /\ job' = [at |-> "results", todo |-> job.todo \ {job.ext}]
  /\ UNCHANGED <<resultKeeps, desk>>

EndResults ==
  /\ job.at = "results" /\ job.todo = {}
  /\ job' = AtFetch(FALSE)
  /\ UNCHANGED <<www, sReq, sExt, desk, cancelling, toServer, toWww, history, faults>>

(* The card's update is not made up for: its records have succeeded, and   *)
(* the result, handled again in a later run, finds none in progress.       *)
CutOffResult ==
  cutOff' = IF job.at = "bind" THEN cutOff \cup {job.ext.req} ELSE cutOff

(* A statement of the handler throws: the task goes on with the others.    *)
ResultThrows ==
  /\ Fault("throw")
  /\ \/ /\ job.at = "results"
        /\ \E e \in job.todo : job' = [job EXCEPT !.todo = @ \ {e}]
     \/ /\ job.at \in {"bind", "task", "done"}
        /\ job' = [at |-> "results", todo |-> job.todo \ {job.ext}]
  /\ CutOffResult
  /\ UNCHANGED <<www, sReq, sExt, desk, cancelling, toServer, toWww, written, approved, refused>>

(* The server stops, or the query that one of its tasks begins with throws:*)
(* what was committed stays, nothing is rolled back, and the job starts    *)
(* again with its next file.                                               *)
Crash ==
  /\ job # AtFetch(FALSE)
  /\ \/ Fault("crash")
     \/ job.at = "fetch" /\ Fault("throw")
     \/ job.at = "handle" /\ job.todo = {} /\ Fault("throw")
  /\ job' = AtFetch(FALSE)
  /\ CutOffResult
  /\ UNCHANGED <<www, sReq, sExt, desk, cancelling, toServer, toWww, written, approved, refused>>

-----------------------------------------------------------------------------
Call(c) ==
  \/ \E t \in Tids, ty \in Types : \E v \in Named(ty) : CallCreate(c, t, v, ty)
  \/ CancelReplaced(c) \/ CheckNoActive(c) \/ InsertRequest(c)
  \/ \E t \in Tids, result \in {"SUCCESS", "FAIL"} : Customize(c, t, result)
  \/ LeaveCall(c)
  \/ "CancelRequest" \in Offered /\ \E r \in RequestNos : CallCancel(c, r)
  \/ CheckRequestStatus(c) \/ ApplyResult(c) \/ CallBreaks(c)

Desk ==
  \/ "SaveCustomize" \in Offered /\ \E v \in Vehicles, ty \in Types : SaveCustomize(v, ty)
  \/ "CreateChange" \in Offered /\ \E o \in Tids, t \in Tids \cup {None} : CreateChange(o, t)
  \/ "CreateModify" \in Offered /\ \E t \in Tids, v \in Vehicles : CreateModify(t, v)
  \/ "CreateAnnualInspection" \in Offered /\ \E t \in Tids : CreateAnnualInspection(t)
  \/ "Review" \in Offered /\ \E k \in 1 .. MaxTasks : Review(k)
  \/ "CancelTask" \in Offered /\ \E k \in 1 .. MaxTasks : BeginCancel(k)
  \/ EndCancel

WwwJob == \E f \in toWww : WwwReceive(f)

ServerJob ==
  \/ \E f \in toServer : ServerReceive(f)
  \/ StartRequests
  \/ \E r \in RequestNos :
       HandleReviewed(r) \/ VehicleNotFound(r) \/ HandleRefused(r) \/ HandleFetched(r)
  \/ HandleCard \/ HandleRecord \/ HandleThrows \/ HandleFinish
  \/ StartResults
  \/ \E e \in sExt : HandleOrphanResult(e) \/ HandleSuccess(e) \/ HandleFailure(e)
  \/ BindCard \/ UpdateTask \/ ResultDone
  \/ EndResults

Breakdown == FinishThrows \/ HandlingBreaks \/ ResultThrows \/ Crash

Next == (\E c \in Callers : Call(c)) \/ Desk \/ WwwJob \/ ServerJob \/ Breakdown

Spec == Init /\ [][Next]_vars

(* Both sites' jobs are scheduled again and again, and the ferry keeps     *)
(* carrying files; readers and clerks may stop at any time.                *)
Fairness == WF_vars(WwwJob) /\ WF_vars(ServerJob)

FairSpec == Spec /\ Fairness

-----------------------------------------------------------------------------
(* Properties.                                                             *)

Results == {"SUCCESS", "FAIL", "CANCEL"}
Row == [st : RowStatus, tid : Tids, veh : Vehicles \cup {None}, type : Types,
        task : 0 .. MaxTasks]

(* Every variable has its type, and numbers refer to rows that exist.      *)
TypeOK ==
  /\ wReq \in [RequestNos -> Row \cup {NoRow}]
  /\ sReq \in [RequestNos -> Row \cup {NoRow}]
  /\ wData \subseteq [req : RequestNos, tid : Tids, veh : Vehicles]
  /\ wFails \in [RequestNos -> Nat]
  /\ \A c \in Callers : callers[c].op \in
       {"idle", "replace", "check", "insert", "report", "result"}
  /\ sExt \subseteq [req : RequestNos, result : Results]
  /\ tasks \in Seq([tid : Tids \cup {None}, veh : Vehicles, type : TaskTypes,
                    st : {"PENDING", "SUBMIT", "DONE", "CANCEL"}])
  /\ records \subseteq [tid : Tids, veh : Vehicles, task : DOMAIN tasks,
                        st : {"IN_PROGRESS", "SUCCESS", "FAIL"}]
  /\ cards \in [Tids -> [st : {"AVAILABLE", "DISABLED"}, veh : Vehicles \cup {None}]]
  /\ job.at \in {"fetch", "handle", "card", "record", "finish", "results", "bind", "task", "done"}
  /\ cancelling \in {0} \cup DOMAIN tasks
  /\ written \subseteq Tids \X Vehicles
  /\ approved \subseteq DOMAIN tasks
  /\ \A r \in RequestNos : sReq[r].task \in {0} \cup DOMAIN tasks

(* The server binds a vehicle to a card only when a reader has written the *)
(* vehicle on that card, although the result that binds it names a request *)
(* number only, and task and vehicle are looked up when it arrives.        *)
BoundImpliesWritten ==
  \A t \in Tids : cards[t].veh # None => <<t, cards[t].veh>> \in written

(* No vehicle has two usable cards.  fetchByVehicle throws "data error,    *)
(* several bound cards found" when it meets two.                           *)
OneCardPerVehicle ==
  \A v \in Vehicles : Cardinality(BoundCards(v)) <= 1

(* A card that is bound stays bound to its vehicle, unless a request to    *)
(* modify the binding ends: the check is made when a request is handled,   *)
(* the binding only when its result comes back.                            *)
OnlyModifyRebinds ==
  [][\A t \in Tids :
       \/ cards[t].veh \in {None, cards'[t].veh}
       \/ job.at = "bind" /\ job.task.type = "MODIFY"]_vars

(* A card is put out of use only for a change of the vehicle's card that a *)
(* reviewer approved.                                                      *)
OnlyApprovedChangeDisables ==
  [][\A t \in Tids : cards[t].st # cards'[t].st =>
       \E k \in approved : tasks[k].type = "CHANGE" /\ tasks[k].veh = cards[t].veh]_vars

(* A request to change a card or its binding is handled only when its task *)
(* passed the review (CustomizeRequestServiceImpl.java:165 says so; tasks  *)
(* to inspect a card are made as if they had).                             *)
HandledAfterReview ==
  \A x \in records : tasks[x.task].type \in {"CHANGE", "MODIFY"} => x.task \in approved

(* CustomizeRequestServiceImpl.java:92: "you have already sent a request;  *)
(* cancel it before you send another": a card has one active request.      *)
OneActiveRequest ==
  \A t \in Tids : Cardinality(ActiveRequests(t)) <= 1

(* CustomizeTaskServiceImpl.java:228: a request is refused with "the card  *)
(* is being used for another vehicle" only when it is.                     *)
RefusedForOtherVehicle ==
  \A p \in refused : tasks[p[2]].veh # p[1]

(* The server waits for a file, and none is under way.  What a run that    *)
(* ended early has left over waits as well: only a file starts the next.   *)
Waiting == job = AtFetch(FALSE) /\ toServer = {}

(* A card that was written, as its reader reported, is bound to the vehicle*)
(* in the end, unless it was requested more than once, its result was cut  *)
(* off between two statements, or waits for the next run.  The result      *)
(* reaches the server as a number and the binding goes through the task and*)
(* its record, which a second request for the card shares with the first.  *)
WrittenIsBound ==
  \A r \in RequestNos :
    wReq[r].st = "WRITTEN"
      ~> \/ \E t \in Tids : wReq[r].tid = t /\ cards[t].veh = wReq[r].veh
         \/ \E q \in RequestNos : q # r /\ wReq[q].tid = wReq[r].tid
         \/ r \in cutOff
         \/ Waiting /\ \E e \in sExt : e.req = r

(* Every request is answered at the www site: it leaves the state NEW,     *)
(* whatever the order of the files, and whatever throws or stops while it  *)
(* or another one is handled; only one that itself was committed and not   *)
(* sent is left, and one that a run left over waits for the next.          *)
EveryRequestAnswered ==
  \A r \in RequestNos :
    wReq[r].st = "NEW"
      ~> wReq[r].st # "NEW" \/ r \in cutOff \/ (Waiting /\ sReq[r].st = "NEW")
=============================================================================
