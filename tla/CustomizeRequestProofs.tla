----------------------- MODULE CustomizeRequestProofs -----------------------
(***************************************************************************)
(* Personalising a card over the two sites, for any number of cards,       *)
(* vehicles, threads, requests and tasks, and whatever goes wrong: types,  *)
(* how the copies of a request's row and its task stay together, and what  *)
(* a review protects.                                                      *)
(***************************************************************************)
EXTENDS CustomizeRequest, FiniteSetTheorems, WellFoundedInduction, TLAPS

-----------------------------------------------------------------------------
(* The shapes of rows, calls, files and of the job.                        *)

Rows == {row \in Row : row.type \notin ReviewedTypes => row.veh \in Vehicles}
Args == {row \in Rows : row.st = "NEW" /\ row.task = 0}
Data == [req : RequestNos, tid : Tids, veh : Vehicles]
Exts == [req : RequestNos, result : Results]
Task == [tid : Tids \cup {None}, veh : Vehicles, type : TaskTypes,
         st : {"PENDING", "SUBMIT", "DONE", "CANCEL"}]

Creating == {"replace", "check", "insert"}
Reporting == {"report", "result"}
CreateCalls == [op : Creating, req : {0} \cup RequestNos, row : Args]
ReportCalls == [op : Reporting, req : RequestNos, result : Results]
Calls == {Idle} \cup CreateCalls \cup ReportCalls

RequestFiles == [kind : {"request"}, xh : RequestNos, row : Rows]
DataFiles == [kind : {"data"}, data : Data]
ExternalFiles == [kind : {"external"}, ext : Exts]

InHand == {"card", "record", "finish"}
InResult == {"bind", "task", "done"}
FetchJobs == [at : {"fetch"}, got : BOOLEAN]
HandleJobs == [at : {"handle"}, todo : SUBSET RequestNos]
RequestJobs == [at : InHand, todo : SUBSET RequestNos, req : RequestNos,
                veh : Vehicles, task : 0 .. MaxTasks]
ResultsJobs == [at : {"results"}, todo : SUBSET Exts]
ResultJobs == [at : InResult, todo : SUBSET Exts, ext : Exts,
               veh : Vehicles \cup {None}, task : Task]
Jobs == FetchJobs \cup HandleJobs \cup RequestJobs \cup ResultsJobs \cup ResultJobs

WwwShapes ==
  /\ wReq \in [RequestNos -> Rows \cup {NoRow}]
  /\ wData \subseteq Data
  /\ wFails \in [RequestNos -> Nat]
  /\ callers \in [Callers -> Calls]

ServerShapes ==
  /\ sReq \in [RequestNos -> Rows \cup {NoRow}]
  /\ sExt \subseteq Exts
  /\ job \in Jobs

DeskShapes ==
  /\ tasks \in Seq(Task) /\ Len(tasks) <= MaxTasks
  /\ records \subseteq [tid : Tids, veh : Vehicles, task : DOMAIN tasks,
                        st : {"IN_PROGRESS", "SUCCESS", "FAIL"}]
  /\ cards \in [Tids -> [st : {"AVAILABLE", "DISABLED"}, veh : Vehicles \cup {None}]]
  /\ cancelling \in {0} \cup DOMAIN tasks
  /\ written \subseteq Tids \X Vehicles
  /\ approved \subseteq DOMAIN tasks

FileShapes ==
  /\ toServer \subseteq RequestFiles \cup ExternalFiles
  /\ toWww \subseteq RequestFiles \cup DataFiles

Shapes == WwwShapes /\ ServerShapes /\ DeskShapes /\ FileShapes

-----------------------------------------------------------------------------
(* What the steps keep together.                                           *)

(* Copies of one request: its type and card, and the vehicle it named.     *)
Same(a, b) ==
  /\ a.tid = b.tid /\ a.type = b.type
  /\ a.type \notin ReviewedTypes => a.veh = b.veh

(* Every row under way, or at the server, is a copy of the www site's row. *)
RowsAgree ==
  /\ \A r \in RequestNos : sReq[r] # NoRow => wReq[r] # NoRow /\ Same(sReq[r], wReq[r])
  /\ \A f \in toServer \cup toWww :
       f.kind = "request" => wReq[f.xh] # NoRow /\ Same(f.row, wReq[f.xh])

(* Calls and the job hold numbers of rows that exist.                      *)
NumbersKnown ==
  /\ \A c \in Callers : callers[c].op \in Reporting \cup {"replace"} =>
       callers[c].req # 0 /\ wReq[callers[c].req] # NoRow
  /\ job.at \in {"handle"} \cup InHand => \A r \in job.todo : sReq[r].st = "NEW"
  /\ job.at \in InHand => job.req \in job.todo

(* A task names its card when no clerk saves one without, or when it has   *)
(* to be found by its card.                                                *)
NamesCard(type) == type \in ReviewedTypes \/ "SaveCustomize" \notin Offered

(* Task k is one a request with this row can be given.                     *)
Fits(row, k) ==
  /\ k \in DOMAIN tasks
  /\ tasks[k].type = row.type
  /\ NamesCard(row.type) => tasks[k].tid = row.tid
  /\ row.type \notin ReviewedTypes => tasks[k].veh = row.veh

RowTasks ==
  /\ \A r \in RequestNos : sReq[r].task # 0 => Fits(sReq[r], sReq[r].task)
  /\ \A r \in RequestNos : wReq[r].task # 0 => Fits(wReq[r], wReq[r].task)
  /\ \A f \in toServer \cup toWww :
       f.kind = "request" /\ f.row.task # 0 => Fits(f.row, f.row.task)

(* So is the task of the request in hand, and the task that the handler of *)
(* a result holds differs from its row by the status and, unless it names  *)
(* it already, the card.                                                   *)
JobFits ==
  /\ job.at \in InHand =>
       /\ job.task # 0 => Fits(sReq[job.req], job.task) /\ tasks[job.task].veh = job.veh
       /\ sReq[job.req].type \notin ReviewedTypes => job.veh = sReq[job.req].veh
  /\ job.at = "finish" => job.task # 0
  /\ job.at \in InResult =>
       LET k == sReq[job.ext.req].task IN
       /\ k # 0
       /\ job.task.veh = tasks[k].veh /\ job.task.type = tasks[k].type
       /\ NamesCard(job.task.type) => job.task.tid = tasks[k].tid
       /\ job.task.st \in {"DONE", "CANCEL"}
  /\ job.at = "bind" => job.veh = job.task.veh /\ job.ext.result = "SUCCESS"

RecordsFit == \A x \in records : x.veh = tasks[x.task].veh

NewNamesCard ==
  NamesCard("NEW") => \A k \in DOMAIN tasks : tasks[k].type = "NEW" => tasks[k].tid # None

Common ==
  /\ Shapes /\ NumbersKnown /\ RowsAgree /\ RowTasks /\ JobFits
  /\ RecordsFit /\ NewNamesCard

-----------------------------------------------------------------------------
(* Lemmas about the operators.                                             *)

(* The greatest number of a finite set is in it, and none is greater.      *)
LEMMA MaxInSet ==
  ASSUME NEW T, T \subseteq Nat, IsFiniteSet(T), T # {}
  PROVE  Max(T) \in T /\ \A y \in T : y <= Max(T)
<1> DEFINE From(x) == {y \in T : y >= x}
           F == {From(x) : x \in T}
<1>1. IsWellFoundedOn(StrictSubsetOrdering(T), SUBSET T)
  BY FS_StrictSubsetOrderingWellFounded, FS_FiniteSubsetsOfFinite
<1>2. F \subseteq SUBSET T /\ F # {}
  OBVIOUS
<1>3. PICK U \in F : \A V \in F : ~ (<<V, U>> \in StrictSubsetOrdering(T))
  BY <1>1, <1>2, WFMin
<1>4. PICK x \in T : U = From(x)
  BY <1>3
<1>5. ASSUME NEW z \in T, ~(x >= z) PROVE FALSE
  <2>1. From(z) \in F
    OBVIOUS
  <2>2. From(z) \subseteq U
    <3>1. \A y \in T : y >= z => y >= x
      BY <1>5
    <3> QED
      BY <1>4, <3>1
  <2>3. x \in U /\ x \notin From(z)
    BY <1>4, <1>5
  <2>4. From(z) \in SUBSET T /\ U \in SUBSET T
    BY <1>4
  <2> HIDE DEF From, F
  <2>5. <<From(z), U>> \in StrictSubsetOrdering(T)
    BY <2>2, <2>3, <2>4 DEF StrictSubsetOrdering
  <2> QED
    BY <2>1, <2>5, <1>3
<1>6. \E w \in T : \A y \in T : w >= y
  BY <1>5
<1>7. Max(T) \in T /\ \A y \in T : Max(T) >= y
  BY <1>6 DEF Max
<1>8. Max(T) \in Nat
  BY <1>7
<1> QED
  BY <1>7, <1>8

(* The same, for numbers of requests and of tasks.                         *)
LEMMA MaxOfNumbers ==
  ASSUME NEW n \in Nat, NEW T \in SUBSET (1 .. n), T # {}
  PROVE  Max(T) \in T /\ \A y \in T : y <= Max(T)
<1>1. 1 \in Int /\ n \in Int
  OBVIOUS
<1>2. IsFiniteSet(1 .. n)
  BY <1>1, FS_Interval
<1>3. IsFiniteSet(T)
  BY <1>2, FS_Subset
<1>4. T \subseteq Nat
  OBVIOUS
<1> QED
  BY <1>3, <1>4, MaxInSet

(* What a thread's call is made of at each of its steps.                   *)
LEMMA CallTypes ==
  ASSUME callers \in [Callers -> Calls], NEW c \in Callers
  PROVE  /\ callers[c] \in Calls
         /\ callers[c].op \in {"idle"} \cup Creating \cup Reporting
         /\ callers[c].op \in Creating => callers[c] \in CreateCalls
         /\ callers[c].op \in Reporting => callers[c] \in ReportCalls
<1>1. callers[c] \in Calls
  OBVIOUS
<1>2. callers[c] = Idle \/ callers[c] \in CreateCalls \/ callers[c] \in ReportCalls
  BY <1>1 DEF Calls
<1> QED
  BY <1>1, <1>2 DEF Idle, CreateCalls, ReportCalls, Creating, Reporting

(* What the job is made of at each of its steps.                           *)
LEMMA JobTypes ==
  ASSUME job \in Jobs
  PROVE  /\ job.at \in {"fetch", "handle", "results"} \cup InHand \cup InResult
         /\ job.at = "fetch" => job \in FetchJobs
         /\ job.at = "handle" => job \in HandleJobs
         /\ job.at \in InHand => job \in RequestJobs
         /\ job.at = "results" => job \in ResultsJobs
         /\ job.at \in InResult => job \in ResultJobs
<1>1. \/ job \in FetchJobs \/ job \in HandleJobs \/ job \in RequestJobs
      \/ job \in ResultsJobs \/ job \in ResultJobs
  BY DEF Jobs
<1> QED
  BY <1>1 DEF FetchJobs, HandleJobs, RequestJobs, ResultsJobs, ResultJobs, InHand, InResult

(* The number of a card's active request, if it is not 0, is that of one.  *)
LEMMA ActiveFound ==
  ASSUME NEW tid \in Tids
  PROVE  LET r == FetchActiveByTid(tid) IN
         r # 0 => r \in RequestNos /\ wReq[r].tid = tid /\ wReq[r].st \in Active
<1> DEFINE T == ActiveRequests(tid)
<1>1. T \in SUBSET (1 .. MaxRequests)
  BY DEF ActiveRequests, RequestNos
<1>2. CASE T = {}
  BY <1>2 DEF FetchActiveByTid
<1>3. CASE T # {}
  <2>1. Max(T) \in T
    BY <1>1, <1>3, MaxOfNumbers, RequestAssumption
  <2>2. FetchActiveByTid(tid) \in ActiveRequests(tid)
    BY <2>1, <1>3 DEF FetchActiveByTid
  <2> QED
    BY <2>2, RequestAssumption DEF ActiveRequests, RequestNos
<1> QED
  BY <1>2, <1>3

(* A row that is there is none of the missing ones.                        *)
LEMMA RowIsThere ==
  ASSUME NEW row \in Rows \cup {NoRow}
  PROVE  /\ row # NoRow <=> row \in Rows
         /\ row.st \in Active => row \in Rows
         /\ row.task # 0 => row \in Rows
<1>1. NoRow.st \notin RowStatus \cup Active /\ NoRow.task = 0
  BY RequestAssumption DEF NoRow
<1>2. row \in Rows => row.st \in RowStatus
  BY DEF Rows, Row
<1> QED
  BY <1>1, <1>2

(* The request the job handles is one of those to do.                      *)
LEMMA HandledIsToDo ==
  ASSUME ServerShapes, NumbersKnown, NEW r, Handling(r)
  PROVE  r \in job.todo /\ r \in RequestNos /\ sReq[r].st = "NEW" /\ sReq[r] \in Rows
<1>1. job \in HandleJobs /\ job.todo \in SUBSET (1 .. MaxRequests) /\ job.todo # {}
  BY JobTypes DEF ServerShapes, Handling, HandleJobs, RequestNos
<1>2. r \in job.todo
  BY <1>1, MaxOfNumbers, RequestAssumption DEF Handling
<1>3. r \in RequestNos /\ sReq[r].st = "NEW"
  BY <1>1, <1>2 DEF NumbersKnown, Handling, RequestNos
<1>4. sReq[r] \in Rows \cup {NoRow}
  BY <1>3 DEF ServerShapes
<1> QED
  BY <1>2, <1>3, <1>4, RowIsThere DEF Active

-----------------------------------------------------------------------------
(* Every step of the specification keeps what is common.                   *)

(* What a step does not touch it keeps.                                    *)
LEMMA Frame ==
  ASSUME Common
  PROVE  /\ UNCHANGED <<wReq, wData, wFails, callers>> => WwwShapes'
         /\ UNCHANGED <<sReq, sExt, job>> => ServerShapes'
         /\ UNCHANGED <<tasks, records, cards, cancelling, written, approved>> => DeskShapes'
         /\ UNCHANGED <<toServer, toWww>> => FileShapes'
         /\ UNCHANGED <<callers, wReq, sReq, job>> => NumbersKnown'
         /\ UNCHANGED <<sReq, wReq, toServer, toWww>> => RowsAgree'
         /\ UNCHANGED <<sReq, wReq, toServer, toWww, tasks>> => RowTasks'
         /\ UNCHANGED <<job, sReq, tasks>> => JobFits'
         /\ UNCHANGED <<records, tasks>> => RecordsFit'
         /\ UNCHANGED tasks => NewNamesCard'
<1> USE DEF Common, Shapes
<1>1. UNCHANGED <<wReq, wData, wFails, callers>> => WwwShapes'
  BY DEF WwwShapes
<1>2. UNCHANGED <<sReq, sExt, job>> => ServerShapes'
  BY DEF ServerShapes
<1>3. UNCHANGED <<tasks, records, cards, cancelling, written, approved>> => DeskShapes'
  BY DEF DeskShapes
<1>4. UNCHANGED <<toServer, toWww>> => FileShapes'
  BY DEF FileShapes
<1>5. UNCHANGED <<callers, wReq, sReq, job>> => NumbersKnown'
  BY DEF NumbersKnown
<1>6. UNCHANGED <<sReq, wReq, toServer, toWww>> => RowsAgree'
  BY DEF RowsAgree, Same
<1>7. UNCHANGED <<sReq, wReq, toServer, toWww, tasks>> => RowTasks'
  BY DEF RowTasks, Fits
<1>8. UNCHANGED <<job, sReq, tasks>> => JobFits'
  BY DEF JobFits, Fits
<1>9. UNCHANGED <<records, tasks>> => RecordsFit'
  BY DEF RecordsFit
<1>10. UNCHANGED tasks => NewNamesCard'
  BY DEF NewNamesCard
<1> QED
  BY <1>1, <1>2, <1>3, <1>4, <1>5, <1>6, <1>7, <1>8, <1>9, <1>10

(* A thread's call moves on, and nothing else but what has been written on *)
(* cards changes.                                                          *)
LEMMA OneCallMoves ==
  ASSUME Common, NEW c \in Callers, NEW call \in Calls, Become(c, call),
         call.op \in Reporting \cup {"replace"} => call.req # 0 /\ wReq[call.req] # NoRow,
         written' \subseteq Tids \X Vehicles,
         UNCHANGED <<wReq, wData, wFails, serverSide, toServer, toWww, approved>>
  PROVE  Common'
<1>1. WwwShapes'
  BY DEF Common, Shapes, WwwShapes, Become
<1>2. ServerShapes' /\ FileShapes'
  BY Frame DEF serverSide, desk
<1>3. DeskShapes'
  BY DEF Common, Shapes, DeskShapes, serverSide, desk
<1>4. NumbersKnown'
  <2>1. \A b \in Callers : callers'[b] = IF b = c THEN call ELSE callers[b]
    BY DEF Common, Shapes, WwwShapes, Become
  <2> QED
    BY <2>1 DEF Common, NumbersKnown, serverSide
<1>5. RowsAgree' /\ RowTasks' /\ JobFits' /\ RecordsFit' /\ NewNamesCard'
  BY Frame DEF serverSide, desk
<1> QED
  BY <1>1, <1>2, <1>3, <1>4, <1>5 DEF Common, Shapes

(* The steps of a call that only look.                                     *)
LEMMA CommonLook ==
  ASSUME Common, NEW c \in Callers,
         \/ \E t \in Tids, ty \in Types : \E v \in Named(ty) : CallCreate(c, t, v, ty)
         \/ CheckNoActive(c)
         \/ \E t \in Tids, result \in {"SUCCESS", "FAIL"} : Customize(c, t, result)
         \/ LeaveCall(c)
         \/ \E r \in RequestNos : CallCancel(c, r)
         \/ CheckRequestStatus(c)
  PROVE  Common'
<1>a. WwwShapes /\ NumbersKnown /\ written \subseteq Tids \X Vehicles
  BY DEF Common, Shapes, DeskShapes
<1>b. Idle \in Calls /\ Idle.op \notin Reporting \cup {"replace"}
  BY DEF Calls, Idle, Reporting
<1>c. \A r \in RequestNos : wReq[r] \in Rows \cup {NoRow}
  BY <1>a DEF WwwShapes
<1>1. ASSUME NEW t \in Tids, NEW ty \in Types, NEW v \in Named(ty), CallCreate(c, t, v, ty)
      PROVE  Common'
  <2> DEFINE args == [tid |-> t, veh |-> v, type |-> ty, st |-> "NEW", task |-> 0]
             old == FetchActiveByTid(t)
             call == [op |-> IF old = 0 THEN "insert" ELSE "replace", req |-> old, row |-> args]
  <2>1. args \in Args
    <3>1. v \in Vehicles \cup {None} /\ (ty \notin ReviewedTypes => v \in Vehicles)
      BY DEF Named
    <3>2. 0 \in 0 .. MaxTasks
      BY RequestAssumption
    <3> QED
      BY <3>1, <3>2 DEF Args, Rows, Row, RowStatus
  <2>2. old # 0 => old \in RequestNos /\ wReq[old].st \in Active
    BY ActiveFound
  <2>3. call \in Calls
    BY <2>1, <2>2 DEF Calls, CreateCalls, Creating
  <2>4. call.op \in Reporting \cup {"replace"} => call.req # 0 /\ wReq[call.req] # NoRow
    BY <2>2, <1>c, RowIsThere DEF Reporting
  <2>5. Become(c, call)
    BY <1>1 DEF CallCreate
  <2> HIDE DEF call
  <2> QED
    BY <1>1, <1>a, <2>3, <2>4, <2>5, OneCallMoves DEF CallCreate, history
<1>2. CASE CheckNoActive(c)
  <2>1. callers[c] \in CreateCalls
    BY <1>2, <1>a, CallTypes DEF CheckNoActive, WwwShapes, Creating
  <2>2. [callers[c] EXCEPT !.op = "insert"] \in Calls
    BY <2>1 DEF Calls, CreateCalls, Creating
  <2>3. [callers[c] EXCEPT !.op = "insert"].op = "insert"
    BY <2>1 DEF CreateCalls
  <2>4. Become(c, Idle) \/ Become(c, [callers[c] EXCEPT !.op = "insert"])
    BY <1>2 DEF CheckNoActive
  <2>5. CASE Become(c, Idle)
    BY <1>2, <1>a, <1>b, <2>5, OneCallMoves DEF CheckNoActive, history
  <2>6. CASE Become(c, [callers[c] EXCEPT !.op = "insert"])
    BY <1>2, <1>a, <2>2, <2>3, <2>6, OneCallMoves DEF CheckNoActive, history, Reporting
  <2> QED
    BY <2>4, <2>5, <2>6
<1>3. ASSUME NEW t \in Tids, NEW result \in {"SUCCESS", "FAIL"}, Customize(c, t, result)
      PROVE  Common'
  <2>1. PICK d \in wData :
          /\ d.tid = t /\ d.req = FetchActiveByTid(t)
          /\ written' = IF result = "SUCCESS" THEN written \cup {<<t, d.veh>>} ELSE written
          /\ Become(c, [op |-> "report", req |-> d.req, result |-> result])
    BY <1>3 DEF Customize
  <2>2. d \in Data
    BY <1>a DEF WwwShapes
  <2>3. d.req \in RequestNos /\ d.veh \in Vehicles /\ d.req # 0
    BY <2>2, RequestAssumption DEF Data, RequestNos
  <2>4. wReq[d.req] # NoRow
    BY <2>1, <2>3, <1>c, ActiveFound, RowIsThere
  <2>5. [op |-> "report", req |-> d.req, result |-> result] \in Calls
    BY <2>3 DEF Calls, ReportCalls, Reporting, Results
  <2>6. written' \subseteq Tids \X Vehicles
    BY <2>1, <2>3, <1>a
  <2> QED
    BY <1>3, <2>1, <2>3, <2>4, <2>5, <2>6, OneCallMoves DEF Customize
<1>4. CASE LeaveCall(c)
  BY <1>4, <1>a, <1>b, OneCallMoves DEF LeaveCall, history
<1>5. ASSUME NEW r \in RequestNos, CallCancel(c, r) PROVE Common'
  <2>1. [op |-> "result", req |-> r, result |-> "CANCEL"] \in Calls
    BY DEF Calls, ReportCalls, Reporting, Results
  <2>2. wReq[r] # NoRow /\ r # 0
    BY <1>5, <1>c, RowIsThere DEF CallCancel, RequestNos
  <2> QED
    BY <1>5, <1>a, <2>1, <2>2, OneCallMoves DEF CallCancel, history
<1>6. CASE CheckRequestStatus(c)
  <2>1. callers[c] \in ReportCalls /\ wReq[callers[c].req] # NoRow /\ callers[c].req # 0
    BY <1>6, <1>a, CallTypes DEF CheckRequestStatus, WwwShapes, Reporting, NumbersKnown
  <2>2. /\ [callers[c] EXCEPT !.op = "result"] \in Calls
        /\ [callers[c] EXCEPT !.op = "result"].req = callers[c].req
    BY <2>1 DEF Calls, ReportCalls, Reporting
  <2>4. Become(c, Idle) \/ Become(c, [callers[c] EXCEPT !.op = "result"])
    BY <1>6 DEF CheckRequestStatus
  <2>5. CASE Become(c, Idle)
    BY <1>6, <1>a, <1>b, <2>5, OneCallMoves DEF CheckRequestStatus, history
  <2>6. CASE Become(c, [callers[c] EXCEPT !.op = "result"])
    BY <1>6, <1>a, <2>1, <2>2, <2>6, OneCallMoves DEF CheckRequestStatus, history
  <2> QED
    BY <2>4, <2>5, <2>6
<1> QED
  BY <1>1, <1>2, <1>3, <1>4, <1>5, <1>6

(* A row of the www site is inserted, updated or merged, and sent.         *)
LEMMA RowWritten ==
  ASSUME Common, NEW r \in RequestNos, NEW row \in Rows,
         wReq' = [wReq EXCEPT ![r] = row],
         wReq[r] # NoRow => Same(row, wReq[r]),
         row.task # 0 => Fits(row, row.task),
         \A f \in toServer' : f \in toServer \cup ExternalFiles \/ f = RequestFile(r, row),
         toWww' \subseteq toWww,
         wData' \subseteq Data, wFails' \in [RequestNos -> Nat],
         callers' \in [Callers -> Calls],
         \A b \in Callers : callers'[b].op \in Reporting \cup {"replace"} =>
           callers'[b].req # 0 /\ wReq[callers'[b].req] # NoRow,
         UNCHANGED <<serverSide, written, approved>>
  PROVE  Common'
<1> USE DEF serverSide, desk
<1>a. row # NoRow
  BY RowIsThere
<1>b. /\ wReq \in [RequestNos -> Rows \cup {NoRow}] /\ wReq' \in [RequestNos -> Rows \cup {NoRow}]
      /\ wReq'[r] = row
      /\ \A q \in RequestNos : q # r => wReq'[q] = wReq[q]
  BY DEF Common, Shapes, WwwShapes
<1>c. \A q \in RequestNos : wReq[q] # NoRow => wReq'[q] # NoRow /\ Same(wReq'[q], wReq[q])
  BY <1>a, <1>b DEF Same
<1>d. \A f \in toServer' \cup toWww' :
        f.kind = "request" => f \in toServer \cup toWww \/ (f.xh = r /\ f.row = row)
  BY DEF ExternalFiles, RequestFile
<1>e. \A f \in toServer \cup toWww : f.kind = "request" => f.xh \in RequestNos
  BY DEF Common, Shapes, FileShapes, RequestFiles, ExternalFiles, DataFiles
<1>1. WwwShapes'
  BY <1>b DEF WwwShapes
<1>2. FileShapes'
  <2>1. RequestFile(r, row) \in RequestFiles
    BY DEF RequestFile, RequestFiles
  <2> QED
    BY <2>1 DEF Common, Shapes, FileShapes
<1>3. NumbersKnown'
  <2>1. ASSUME NEW b \in Callers, callers'[b].op \in Reporting \cup {"replace"}
        PROVE  callers'[b].req # 0 /\ wReq'[callers'[b].req] # NoRow
    <3>1. callers'[b].req \in RequestNos
      BY <2>1 DEF Calls, Idle, CreateCalls, ReportCalls, Reporting, Creating
    <3> QED
      BY <2>1, <3>1, <1>c
  <2> QED
    BY <2>1 DEF Common, NumbersKnown
<1>4. RowsAgree'
  <2>1. \A q \in RequestNos : sReq[q] # NoRow => wReq'[q] # NoRow /\ Same(sReq[q], wReq'[q])
    BY <1>c DEF Common, RowsAgree, Same
  <2>2. \A f \in toServer' \cup toWww' :
          f.kind = "request" => wReq'[f.xh] # NoRow /\ Same(f.row, wReq'[f.xh])
    BY <1>a, <1>b, <1>c, <1>d, <1>e DEF Common, RowsAgree, Same
  <2> QED
    BY <2>1, <2>2 DEF RowsAgree, Same
<1>5. RowTasks'
  BY <1>b, <1>d DEF Common, RowTasks, Fits
<1>6. ServerShapes' /\ DeskShapes' /\ JobFits' /\ RecordsFit' /\ NewNamesCard'
  BY Frame
<1> QED
  BY <1>1, <1>2, <1>3, <1>4, <1>5, <1>6 DEF Common, Shapes

(* A result is applied: the row keeps its card, type, vehicle and task.    *)
LEMMA ResultApplied ==
  ASSUME Common, NEW c \in Callers, callers[c].req \in RequestNos,
         wReq[callers[c].req] # NoRow, NEW result \in Results,
         UpdateCustomizeResult(callers[c].req, result),
         NEW call \in Calls, Become(c, call), call.op \notin Reporting \cup {"replace"},
         UNCHANGED <<serverSide, toWww, history, faults>>
  PROVE  Common'
<1> DEFINE r == callers[c].req
           st == CASE result = "SUCCESS" -> "WRITTEN"
                   [] result = "CANCEL" -> "CANCELLED"
                   [] OTHER -> "FAIL"
           row == [wReq[r] EXCEPT !.st = st]
<1>a. WwwShapes /\ NumbersKnown /\ RowTasks /\ wReq[r] \in Rows
  BY RowIsThere DEF Common, Shapes, WwwShapes
<1>b. /\ row \in Rows /\ Same(row, wReq[r])
      /\ row.task # 0 => Fits(row, row.task)
  <2>1. st \in RowStatus
    BY DEF RowStatus
  <2> HIDE DEF st
  <2>2. row \in Rows /\ row.type = wReq[r].type /\ row.tid = wReq[r].tid
        /\ row.veh = wReq[r].veh /\ row.task = wReq[r].task
    BY <1>a, <2>1 DEF Rows, Row
  <2> HIDE DEF row
  <2> QED
    BY <1>a, <2>2 DEF Same, RowTasks, Fits
<1>c. /\ callers' \in [Callers -> Calls]
      /\ \A b \in Callers : callers'[b].op \in Reporting \cup {"replace"} =>
           callers'[b].req # 0 /\ wReq[callers'[b].req] # NoRow
  <2>1. \A b \in Callers : callers'[b] = IF b = c THEN call ELSE callers[b]
    BY <1>a DEF WwwShapes, Become
  <2> QED
    BY <1>a, <2>1 DEF WwwShapes, NumbersKnown, Become
<1>d. wFails' \in [RequestNos -> Nat]
  BY <1>a DEF UpdateCustomizeResult, WwwShapes
<1>1. CASE UNCHANGED <<wReq, wData, toServer>>
  <2>1. WwwShapes'
    BY <1>a, <1>c, <1>d, <1>1 DEF WwwShapes
  <2>2. NumbersKnown'
    BY <1>a, <1>c, <1>1 DEF NumbersKnown, serverSide
  <2> QED
    BY <1>1, <2>1, <2>2, Frame DEF Common, Shapes, serverSide, desk, history
<1>2. CASE ~ UNCHANGED <<wReq, wData, toServer>>
  <2>1. /\ wReq' = [wReq EXCEPT ![r] = row]
        /\ wData' \subseteq wData
        /\ toServer' = toServer \cup {RequestFile(r, row), ExternalFile([req |-> r, result |-> result])}
    BY <1>2 DEF UpdateCustomizeResult
  <2>2. ExternalFile([req |-> r, result |-> result]) \in ExternalFiles
    BY DEF ExternalFile, ExternalFiles, Exts
  <2>3. wData' \subseteq Data
    BY <1>a, <2>1 DEF WwwShapes
  <2> HIDE DEF row
  <2> QED
    BY <1>b, <1>c, <1>d, <2>1, <2>2, <2>3, RowWritten DEF history
<1> QED
  BY <1>1, <1>2

(* A call ends, and at most a result's file gets out.                      *)
LEMMA CallEnds ==
  ASSUME Common, NEW c \in Callers, Become(c, Idle),
         \A f \in toServer' : f \in toServer \cup ExternalFiles,
         UNCHANGED <<wReq, wData, wFails, serverSide, toWww, written, approved>>
  PROVE  Common'
<1>1. /\ WwwShapes'
      /\ \A b \in Callers : callers'[b] = IF b = c THEN Idle ELSE callers[b]
  BY DEF Common, Shapes, WwwShapes, Become, Calls
<1>2. NumbersKnown'
  BY <1>1 DEF Common, NumbersKnown, Idle, Reporting, serverSide
<1>3. FileShapes'
  BY DEF Common, Shapes, FileShapes
<1>4. \A f \in toServer' \cup toWww' : f.kind = "request" => f \in toServer \cup toWww
  BY DEF ExternalFiles
<1>5. RowsAgree' /\ RowTasks'
  BY <1>4 DEF Common, RowsAgree, RowTasks, Same, Fits, serverSide, desk
<1> QED
  BY <1>1, <1>2, <1>3, <1>5, Frame DEF Common, Shapes, serverSide, desk

(* The steps of the www site that write rows.                              *)
LEMMA CommonWww ==
  ASSUME Common, NEW c \in Callers,
         CancelReplaced(c) \/ InsertRequest(c) \/ ApplyResult(c) \/ CallBreaks(c)
  PROVE  Common'
<1>a. WwwShapes /\ NumbersKnown
  BY DEF Common, Shapes
<1>1. CASE CancelReplaced(c)
  <2>1. callers[c] \in CreateCalls /\ callers[c].req # 0 /\ wReq[callers[c].req] # NoRow
    BY <1>1, <1>a, CallTypes DEF CancelReplaced, WwwShapes, Creating, NumbersKnown
  <2>2. callers[c].req \in RequestNos /\ "CANCEL" \in Results
    BY <2>1 DEF CreateCalls, Results
  <2>3. /\ [callers[c] EXCEPT !.op = "check"] \in Calls
        /\ [callers[c] EXCEPT !.op = "check"].op = "check"
    BY <2>1 DEF Calls, CreateCalls, Creating
  <2> QED
    BY <1>1, <2>1, <2>2, <2>3, ResultApplied DEF CancelReplaced, Reporting
<1>b. Idle \in Calls /\ Idle.op \notin Reporting \cup {"replace"}
  BY DEF Calls, Idle, Reporting
<1>2. ASSUME callers[c].op = "insert", Become(c, Idle),
             NEW r \in RequestNos, wReq[r] = NoRow, wReq' = [wReq EXCEPT ![r] = callers[c].row],
             toServer' \subseteq toServer \cup {RequestFile(r, callers[c].row)},
             UNCHANGED <<wData, wFails, serverSide, toWww, written, approved>>
      PROVE  Common'
  <2>1. callers[c] \in CreateCalls
    BY <1>2, <1>a, CallTypes DEF WwwShapes, Creating
  <2>2. callers[c].row \in Rows /\ callers[c].row.task = 0
    BY <2>1 DEF CreateCalls, Args
  <2>3. /\ callers' \in [Callers -> Calls]
        /\ \A b \in Callers : callers'[b].op \in Reporting \cup {"replace"} =>
             callers'[b].req # 0 /\ wReq[callers'[b].req] # NoRow
    <3>1. \A b \in Callers : callers'[b] = IF b = c THEN Idle ELSE callers[b]
      BY <1>2, <1>a DEF WwwShapes, Become
    <3> QED
      BY <1>2, <1>a, <1>b, <3>1 DEF WwwShapes, NumbersKnown, Become
  <2>4. wData' \subseteq Data /\ wFails' \in [RequestNos -> Nat]
    BY <1>2, <1>a DEF WwwShapes
  <2> QED
    BY <1>2, <2>2, <2>3, <2>4, RowWritten
<1>3. CASE ApplyResult(c)
  <2>1. callers[c] \in ReportCalls /\ wReq[callers[c].req] # NoRow
    BY <1>3, <1>a, CallTypes DEF ApplyResult, WwwShapes, Reporting, NumbersKnown
  <2>2. callers[c].req \in RequestNos /\ callers[c].result \in Results
    BY <2>1 DEF ReportCalls
  <2> QED
    BY <1>3, <1>b, <2>1, <2>2, ResultApplied DEF ApplyResult
<1>4. CASE InsertRequest(c)
  BY <1>4, <1>2 DEF InsertRequest, history
<1>5. CASE CallBreaks(c)
  <2> DEFINE result == IF callers[c].op = "replace" THEN "CANCEL" ELSE callers[c].result
  <2>1. /\ Become(c, Idle)
        /\ UNCHANGED <<wData, wFails, serverSide, toWww, written, approved>>
    BY <1>5 DEF CallBreaks
  <2>2. CASE UNCHANGED <<wReq, toServer>>
    BY <1>a, <1>b, <2>1, <2>2, OneCallMoves DEF Common, Shapes, DeskShapes
  <2>3. ASSUME callers[c].op = "insert", NEW r \in RequestNos, wReq[r] = NoRow,
               wReq' = [wReq EXCEPT ![r] = callers[c].row], UNCHANGED toServer
        PROVE  Common'
    BY <1>2, <2>1, <2>3
  <2>4. CASE /\ callers[c].op \in {"replace", "result"}
             /\ toServer' = toServer \cup {ExternalFile([req |-> callers[c].req, result |-> result])}
             /\ UNCHANGED wReq
    <3>1. callers[c].req \in RequestNos /\ result \in Results
      <4>1. CASE callers[c].op = "replace"
        <5>1. callers[c] \in CreateCalls /\ callers[c].req # 0
          BY <4>1, <1>a, CallTypes DEF WwwShapes, Creating, NumbersKnown
        <5> QED
          BY <4>1, <5>1 DEF CreateCalls, Results
      <4>2. CASE callers[c].op = "result"
        <5>1. callers[c] \in ReportCalls
          BY <4>2, <1>a, CallTypes DEF WwwShapes, Reporting
        <5> QED
          BY <4>2, <5>1 DEF ReportCalls
      <4> QED
        BY <2>4, <4>1, <4>2
    <3>2. \A f \in toServer' : f \in toServer \cup ExternalFiles
      BY <2>4, <3>1 DEF ExternalFile, ExternalFiles, Exts
    <3> QED
      BY <1>a, <1>b, <2>1, <2>4, <3>2, CallEnds
  <2> QED
    BY <1>5, <2>2, <2>3, <2>4 DEF CallBreaks
<1> QED
  BY <1>1, <1>3, <1>4, <1>5

(* Merging a file's row into the row that is there keeps them copies, and  *)
(* gives it one of their tasks.                                            *)
LEMMA Merged ==
  ASSUME NEW old \in Rows \cup {NoRow}, NEW new \in Rows,
         old # NoRow => Same(old, new),
         old.task # 0 => Fits(old, old.task),
         new.task # 0 => Fits(new, new.task)
  PROVE  LET row == MergeRow(old, new) IN
         /\ row \in Rows /\ Same(row, new) /\ row.st = new.st
         /\ row.task # 0 => Fits(row, row.task)
<1> DEFINE row == MergeRow(old, new)
<1>1. new.task \in 0 .. MaxTasks /\ old.task \in 0 .. MaxTasks
  BY RequestAssumption DEF Rows, Row, NoRow
<1>2. /\ row \in Rows /\ row.st = new.st /\ row.tid = new.tid
      /\ row.type = new.type /\ row.veh = new.veh
      /\ row.task = IF new.task = 0 THEN old.task ELSE new.task
  BY <1>1 DEF MergeRow, Rows, Row
<1>3. row.task # 0 => Fits(row, row.task)
  BY <1>2, RowIsThere DEF Fits, Same
<1> QED
  BY <1>2, <1>3 DEF Same

(* The www site merges a file.                                             *)
LEMMA CommonWwwReceive ==
  ASSUME Common, NEW f \in toWww, WwwReceive(f)
  PROVE  Common'
<1>a. f \in RequestFiles \/ f \in DataFiles
  BY DEF Common, Shapes, FileShapes
<1>b. /\ WwwShapes /\ NumbersKnown /\ RowTasks /\ RowsAgree
      /\ wData \subseteq Data /\ wFails' \in [RequestNos -> Nat]
      /\ callers' \in [Callers -> Calls] /\ callers' = callers
      /\ toWww' \subseteq toWww /\ toServer' = toServer
      /\ UNCHANGED <<serverSide, history>>
  BY DEF Common, Shapes, WwwShapes, WwwReceive
<1>1. CASE f \in RequestFiles
  <2>1. f.kind = "request" /\ f.xh \in RequestNos /\ f.row \in Rows
    BY <1>1 DEF RequestFiles
  <2> DEFINE row == MergeRow(wReq[f.xh], f.row)
  <2>2. wReq' = [wReq EXCEPT ![f.xh] = row] /\ wData' = wData
    BY <2>1 DEF WwwReceive
  <2>3. wReq[f.xh] \in Rows \cup {NoRow} /\ wReq[f.xh] # NoRow /\ Same(f.row, wReq[f.xh])
    BY <1>b, <2>1 DEF WwwShapes, RowsAgree
  <2>4. /\ wReq[f.xh].task # 0 => Fits(wReq[f.xh], wReq[f.xh].task)
        /\ f.row.task # 0 => Fits(f.row, f.row.task)
    BY <1>b, <2>1 DEF RowTasks
  <2>5. Same(wReq[f.xh], f.row)
    BY <2>3 DEF Same
  <2>6. row \in Rows /\ Same(row, f.row) /\ (row.task # 0 => Fits(row, row.task))
    BY <2>1, <2>3, <2>4, <2>5, Merged
  <2> HIDE DEF row
  <2>7. Same(row, wReq[f.xh])
    BY <2>3, <2>6 DEF Same
  <2>8. \A b \in Callers : callers'[b].op \in Reporting \cup {"replace"} =>
          callers'[b].req # 0 /\ wReq[callers'[b].req] # NoRow
    BY <1>b DEF NumbersKnown
  <2> QED
    BY <1>b, <2>1, <2>2, <2>6, <2>7, <2>8, RowWritten DEF history
<1>2. CASE f \in DataFiles
  <2>1. f.kind = "data" /\ f.data \in Data
    BY <1>2 DEF DataFiles
  <2>2. wData' = wData \cup {f.data} /\ wReq' = wReq /\ wFails' = wFails
    BY <2>1 DEF WwwReceive
  <2>3. WwwShapes'
    BY <1>b, <2>1, <2>2 DEF WwwShapes
  <2>4. FileShapes'
    BY <1>b DEF Common, Shapes, FileShapes
  <2>5. RowsAgree' /\ RowTasks'
    BY <1>b, <2>2 DEF Common, RowsAgree, RowTasks, Same, Fits, serverSide, desk
  <2> QED
    BY <1>b, <2>2, <2>3, <2>4, <2>5, Frame DEF Common, Shapes, serverSide, desk, history
<1> QED
  BY <1>a, <1>1, <1>2

(* Tasks are never removed, and a task keeps its vehicle, its type and, if *)
(* it names it already, its card.                                          *)
TasksKept ==
  \A k \in DOMAIN tasks :
    /\ k \in DOMAIN tasks'
    /\ tasks'[k].veh = tasks[k].veh /\ tasks'[k].type = tasks[k].type
    /\ NamesCard(tasks[k].type) => tasks'[k].tid = tasks[k].tid

(* A step that keeps the tasks' own data and leaves the rows, the calls,   *)
(* the files and the job's place alone.                                    *)
LEMMA TasksChange ==
  ASSUME Common, TasksKept,
         tasks' \in Seq(Task), Len(tasks') <= MaxTasks,
         cancelling' \in {0} \cup DOMAIN tasks', approved' \subseteq DOMAIN tasks',
         \A k \in DOMAIN tasks' \ DOMAIN tasks :
           NamesCard("NEW") /\ tasks'[k].type = "NEW" => tasks'[k].tid # None,
         UNCHANGED <<wReq, sReq, toServer, toWww, records, cards, written>>
  PROVE  /\ DeskShapes' /\ RowsAgree' /\ RowTasks' /\ RecordsFit' /\ NewNamesCard'
         /\ job' = job => JobFits'
<1>a. DeskShapes /\ ServerShapes
  BY DEF Common, Shapes
<1>1. DeskShapes'
  BY <1>a DEF DeskShapes, TasksKept
<1>2. RowsAgree'
  BY Frame
<1>3. RowTasks'
  BY DEF Common, RowTasks, Fits, TasksKept
<1>4. RecordsFit'
  BY <1>a DEF Common, RecordsFit, TasksKept, DeskShapes
<1>5. ASSUME job' = job PROVE JobFits'
  <2>1. CASE job.at \in InHand
    BY <1>5, <2>1 DEF Common, JobFits, Fits, TasksKept, InHand, InResult
  <2>2. CASE job.at \in InResult
    <3>1. job \in ResultJobs
      BY <1>a, <2>2, JobTypes DEF ServerShapes
    <3>2. job.ext.req \in RequestNos
      BY <3>1 DEF ResultJobs, Exts
    <3> DEFINE k == sReq[job.ext.req].task
    <3>3. k # 0 /\ k \in DOMAIN tasks
      BY <2>2, <3>2 DEF Common, JobFits, RowTasks, Fits
    <3> QED
      BY <1>5, <2>2, <3>3 DEF Common, JobFits, TasksKept, InHand, InResult
  <2>3. CASE job.at \notin InHand \cup InResult
    BY <1>5, <2>3 DEF JobFits, InHand, InResult
  <2> QED
    BY <2>1, <2>2, <2>3
<1>6. NewNamesCard'
  BY DEF Common, NewNamesCard, TasksKept
<1> QED
  BY <1>1, <1>2, <1>3, <1>4, <1>5, <1>6

(* Appending a task.                                                       *)
LEMMA TaskAppended ==
  ASSUME Common, NEW task \in Task, Len(tasks) < MaxTasks, tasks' = Append(tasks, task)
  PROVE  /\ tasks' \in Seq(Task) /\ Len(tasks') <= MaxTasks
         /\ TasksKept /\ DOMAIN tasks \subseteq DOMAIN tasks'
         /\ Len(tasks') \in DOMAIN tasks' /\ tasks'[Len(tasks')] = task
         /\ Len(tasks') = Len(tasks) + 1
         /\ \A k \in DOMAIN tasks : tasks'[k] = tasks[k]
<1>1. tasks \in Seq(Task) /\ Len(tasks) \in Nat
  BY DEF Common, Shapes, DeskShapes
<1>2. Len(tasks') = Len(tasks) + 1 /\ tasks' \in Seq(Task)
  BY <1>1
<1>3. \A k \in DOMAIN tasks : k \in DOMAIN tasks' /\ tasks'[k] = tasks[k]
  BY <1>1
<1>4. Len(tasks') \in DOMAIN tasks' /\ tasks'[Len(tasks')] = task
  BY <1>1, <1>2
<1> QED
  BY <1>1, <1>2, <1>3, <1>4, RequestAssumption DEF TasksKept

(* Changing the status of a task, and its card if it need not name one.    *)
LEMMA TaskUpdated ==
  ASSUME Common, NEW k \in DOMAIN tasks, NEW task \in Task, tasks' = [tasks EXCEPT ![k] = task],
         task.veh = tasks[k].veh, task.type = tasks[k].type,
         NamesCard(task.type) => task.tid = tasks[k].tid
  PROVE  /\ tasks' \in Seq(Task) /\ Len(tasks') <= MaxTasks
         /\ TasksKept /\ DOMAIN tasks' = DOMAIN tasks
<1>1. tasks \in Seq(Task) /\ Len(tasks) <= MaxTasks
  BY DEF Common, Shapes, DeskShapes
<1>2. /\ tasks' \in Seq(Task) /\ Len(tasks') = Len(tasks)
      /\ DOMAIN tasks' = DOMAIN tasks
      /\ \A j \in DOMAIN tasks : tasks'[j] = IF j = k THEN task ELSE tasks[j]
  BY <1>1
<1> QED
  BY <1>1, <1>2 DEF TasksKept

(* The clerks' tasks.                                                      *)
LEMMA TaskCreated ==
  ASSUME Common, NEW tid \in Tids \cup {None}, NEW veh \in Vehicles, NEW type \in TaskTypes,
         NEW st \in {"PENDING", "SUBMIT"}, CreateTask(tid, veh, type, st),
         type = "NEW" => "SaveCustomize" \in Offered
  PROVE  Common'
<1>1. NewTask(tid, veh, type, st) \in Task
  BY DEF NewTask, Task
<1>2. /\ tasks' \in Seq(Task) /\ Len(tasks') <= MaxTasks /\ TasksKept
      /\ cancelling' \in {0} \cup DOMAIN tasks' /\ approved' \subseteq DOMAIN tasks'
      /\ Len(tasks') \in DOMAIN tasks' /\ tasks'[Len(tasks')].type = type
      /\ Len(tasks') = Len(tasks) + 1
  BY <1>1, TaskAppended DEF CreateTask, history, Common, Shapes, DeskShapes, NewTask
<1>3. \A k \in DOMAIN tasks' \ DOMAIN tasks : k = Len(tasks')
  BY <1>2 DEF Common, Shapes, DeskShapes
<1>4. NamesCard("NEW") => type # "NEW"
  BY DEF NamesCard, ReviewedTypes
<1>5. DeskShapes' /\ RowsAgree' /\ RowTasks' /\ RecordsFit' /\ NewNamesCard' /\ JobFits'
  BY <1>2, <1>3, <1>4, TasksChange DEF CreateTask, history, www
<1> QED
  BY <1>5, Frame DEF CreateTask, www, Common, Shapes

(* updateByCondition changes the status of some records only.              *)
LEMMA RecordsSet ==
  ASSUME DeskShapes, RecordsFit, NEW which \in SUBSET records,
         NEW st \in {"IN_PROGRESS", "SUCCESS", "FAIL"}, SetRecords(which, st), tasks' = tasks
  PROVE  /\ \A x \in records' : \E y \in records :
              x = y \/ (y \in which /\ x = [y EXCEPT !.st = st])
         /\ records' \subseteq [tid : Tids, veh : Vehicles, task : DOMAIN tasks,
                                st : {"IN_PROGRESS", "SUCCESS", "FAIL"}]
         /\ RecordsFit'
<1>1. \A x \in records' : \E y \in records :
        x = y \/ (y \in which /\ x = [y EXCEPT !.st = st])
  BY DEF SetRecords
<1>2. \A y \in records :
        /\ [y EXCEPT !.st = st] \in [tid : Tids, veh : Vehicles, task : DOMAIN tasks,
                                st : {"IN_PROGRESS", "SUCCESS", "FAIL"}]
        /\ [y EXCEPT !.st = st].veh = y.veh /\ [y EXCEPT !.st = st].task = y.task
  BY DEF DeskShapes
<1>3. RecordsFit'
  BY <1>1, <1>2 DEF RecordsFit
<1> QED
  BY <1>1, <1>2, <1>3 DEF DeskShapes

(* The clerks' steps keep what is common.                                  *)
LEMMA CommonDesk ==
  ASSUME Common, Desk
  PROVE  Common'
<1>a. DeskShapes
  BY DEF Common, Shapes
<1>b. \A t \in Tids : cards[t].veh # None => cards[t].veh \in Vehicles
  BY <1>a DEF DeskShapes
<1>c. \A k \in DOMAIN tasks : tasks[k] \in Task
  BY <1>a DEF DeskShapes
<1>d. Types \subseteq TaskTypes
  BY RequestAssumption
<1>1. ASSUME NEW v \in Vehicles, NEW ty \in Types, SaveCustomize(v, ty),
             "SaveCustomize" \in Offered
      PROVE  Common'
  BY <1>1, <1>d, TaskCreated DEF SaveCustomize
<1>2. ASSUME NEW o \in Tids, NEW t \in Tids \cup {None}, CreateChange(o, t) PROVE Common'
  BY <1>2, <1>b, TaskCreated DEF CreateChange, TaskTypes
<1>3. ASSUME NEW t \in Tids, NEW v \in Vehicles, CreateModify(t, v) PROVE Common'
  BY <1>3, TaskCreated DEF CreateModify, TaskTypes
<1>4. ASSUME NEW t \in Tids, CreateAnnualInspection(t) PROVE Common'
  BY <1>4, <1>b, TaskCreated DEF CreateAnnualInspection, TaskTypes
<1>5. ASSUME NEW k \in 1 .. MaxTasks, Review(k) PROVE Common'
  <2> DEFINE task == [tasks[k] EXCEPT !.st = "SUBMIT"]
  <2>1. k \in DOMAIN tasks /\ tasks' = [tasks EXCEPT ![k] = task]
    BY <1>5 DEF Review
  <2>2. /\ task \in Task /\ task.veh = tasks[k].veh /\ task.type = tasks[k].type
        /\ task.tid = tasks[k].tid
    BY <1>c, <2>1 DEF Task
  <2> HIDE DEF task
  <2>3. /\ tasks' \in Seq(Task) /\ Len(tasks') <= MaxTasks /\ TasksKept
        /\ DOMAIN tasks' = DOMAIN tasks
    BY <2>1, <2>2, TaskUpdated
  <2>4. cancelling' \in {0} \cup DOMAIN tasks' /\ approved' \subseteq DOMAIN tasks'
    BY <1>5, <1>a, <2>1, <2>3 DEF Review, DeskShapes
  <2>5. DeskShapes' /\ RowsAgree' /\ RowTasks' /\ RecordsFit' /\ NewNamesCard' /\ JobFits'
    BY <1>5, <2>3, <2>4, TasksChange DEF Review, www
  <2> QED
    BY <1>5, <2>5, Frame DEF Review, www, Common, Shapes
<1>6. ASSUME NEW k \in 1 .. MaxTasks, BeginCancel(k) PROVE Common'
  <2>1. /\ records' \subseteq [tid : Tids, veh : Vehicles, task : DOMAIN tasks,
                                st : {"IN_PROGRESS", "SUCCESS", "FAIL"}]
        /\ RecordsFit'
    BY <1>6, <1>a, RecordsSet DEF BeginCancel, Common
  <2>2. DeskShapes'
    BY <1>6, <1>a, <2>1 DEF BeginCancel, DeskShapes, history
  <2> QED
    BY <1>6, <2>1, <2>2, Frame DEF BeginCancel, www, Common, Shapes
<1>7. CASE EndCancel
  <2> DEFINE k == cancelling
             task == [tasks[k] EXCEPT !.st = "CANCEL"]
  <2>1. k \in DOMAIN tasks /\ tasks' = [tasks EXCEPT ![k] = task]
    BY <1>7, <1>a DEF EndCancel, DeskShapes
  <2>2. /\ task \in Task /\ task.veh = tasks[k].veh /\ task.type = tasks[k].type
        /\ task.tid = tasks[k].tid
    BY <1>c, <2>1 DEF Task
  <2> HIDE DEF task
  <2>3. /\ tasks' \in Seq(Task) /\ Len(tasks') <= MaxTasks /\ TasksKept
        /\ DOMAIN tasks' = DOMAIN tasks
    BY <2>1, <2>2, TaskUpdated
  <2>4. cancelling' \in {0} \cup DOMAIN tasks' /\ approved' \subseteq DOMAIN tasks'
    BY <1>7, <1>a, <2>3 DEF EndCancel, DeskShapes, history
  <2>5. DeskShapes' /\ RowsAgree' /\ RowTasks' /\ RecordsFit' /\ NewNamesCard' /\ JobFits'
    BY <1>7, <2>3, <2>4, TasksChange DEF EndCancel, www, history
  <2> QED
    BY <1>7, <2>5, Frame DEF EndCancel, www, Common, Shapes
<1> QED
  BY <1>1, <1>2, <1>3, <1>4, <1>5, <1>6, <1>7 DEF Desk

(* A copy of a request's row that a step may leave, and a file of it.      *)
CopyOf(row, r) ==
  /\ row \in Rows /\ Same(row, sReq[r])
  /\ row.task # 0 => Fits(row, row.task)

FileOf(f, r) == f \in DataFiles \/ \E row : CopyOf(row, r) /\ f = RequestFile(r, row)

(* The row of the request in hand is updated, files of it are sent, and    *)
(* the job goes on to the next, or its run ends.                           *)
LEMMA RequestEnds ==
  ASSUME Common, job.at \in {"handle"} \cup InHand,
         NEW r \in RequestNos, sReq[r] \in Rows, NEW row, CopyOf(row, r),
         NEW sent, \A f \in sent : FileOf(f, r),
         sReq' = [sReq EXCEPT ![r] = row], toWww' = toWww \cup sent,
         job' = [at |-> "handle", todo |-> job.todo \ {r}] \/ job' = AtFetch(FALSE),
         DeskShapes', RecordsFit',
         UNCHANGED <<jobKeeps, tasks>>
  PROVE  Common'
<1> USE DEF jobKeeps, www
<1>a. ServerShapes /\ NumbersKnown
  BY DEF Common, Shapes
<1>b. job.todo \in SUBSET RequestNos
  BY <1>a, JobTypes DEF ServerShapes, HandleJobs, RequestJobs
<1>c. row \in Rows /\ row # NoRow /\ sReq[r] # NoRow /\ Same(row, sReq[r])
  BY RowIsThere DEF CopyOf
<1>d. \A q \in RequestNos : sReq'[q] = IF q = r THEN row ELSE sReq[q]
  BY <1>a DEF ServerShapes
<1>e. \/ job' \in HandleJobs /\ job'.at = "handle" /\ job'.todo = job.todo \ {r}
      \/ job' \in FetchJobs /\ job'.at = "fetch"
  <2>1. CASE job' = [at |-> "handle", todo |-> job.todo \ {r}]
    BY <1>b, <2>1 DEF HandleJobs
  <2>2. CASE job' = AtFetch(FALSE)
    BY <2>2 DEF FetchJobs, AtFetch
  <2> QED
    BY <2>1, <2>2
<1>f. \A f \in toServer' \cup toWww' : f.kind = "request" =>
        \/ f \in toServer \cup toWww
        \/ f.xh = r /\ CopyOf(f.row, r)
  <2>1. \A f \in sent : f.kind = "request" => f.xh = r /\ CopyOf(f.row, r)
    BY DEF FileOf, DataFiles, RequestFile
  <2> QED
    BY <2>1
<1>1. ServerShapes'
  BY <1>a, <1>c, <1>e DEF ServerShapes, Jobs
<1>2. FileShapes'
  <2>1. \A f \in sent : f \in RequestFiles \cup DataFiles
    BY DEF FileOf, CopyOf, RequestFile, RequestFiles
  <2> QED
    BY <2>1 DEF Common, Shapes, FileShapes
<1>3. NumbersKnown'
  BY <1>a, <1>b, <1>d, <1>e DEF NumbersKnown, InHand
<1>4. RowsAgree'
  <2>1. wReq[r] # NoRow /\ Same(sReq[r], wReq[r])
    BY <1>c DEF Common, RowsAgree
  <2>2. \A q \in RequestNos : sReq'[q] # NoRow => wReq'[q] # NoRow /\ Same(sReq'[q], wReq'[q])
    BY <1>c, <1>d, <2>1 DEF Common, RowsAgree, Same
  <2>3. \A f \in toServer' \cup toWww' :
          f.kind = "request" => wReq'[f.xh] # NoRow /\ Same(f.row, wReq'[f.xh])
    BY <1>f, <2>1 DEF Common, RowsAgree, Same, CopyOf
  <2> QED
    BY <2>2, <2>3 DEF RowsAgree, Same
<1>5. RowTasks'
  BY <1>d, <1>f DEF Common, RowTasks, Fits, CopyOf
<1>6. JobFits'
  BY <1>e DEF JobFits, InHand, InResult
<1>7. WwwShapes' /\ NewNamesCard'
  BY Frame
<1> QED
  BY <1>1, <1>2, <1>3, <1>4, <1>5, <1>6, <1>7 DEF Common, Shapes

(* A row that only changes its status is a copy.                           *)
LEMMA StatusCopies ==
  ASSUME Common, NEW r \in RequestNos, sReq[r] \in Rows, NEW st \in RowStatus
  PROVE  CopyOf([sReq[r] EXCEPT !.st = st], r)
<1> DEFINE row == [sReq[r] EXCEPT !.st = st]
<1>1. /\ row \in Rows /\ row.type = sReq[r].type /\ row.tid = sReq[r].tid
      /\ row.veh = sReq[r].veh /\ row.task = sReq[r].task
  BY DEF Rows, Row
<1> HIDE DEF row
<1>2. CopyOf(row, r)
  BY <1>1 DEF CopyOf, Same, Common, RowTasks, Fits
<1> QED
  BY <1>2 DEF row

(* The row of the request in hand is updated and sent with other files of  *)
(* it, and the job goes on to the next.                                    *)
LEMMA RequestFinished ==
  ASSUME Common, job.at \in {"handle"} \cup InHand,
         NEW r \in RequestNos, sReq[r] \in Rows, NEW row, CopyOf(row, r),
         NEW files, \A f \in files : FileOf(f, r), Finish(r, row, files),
         DeskShapes', RecordsFit',
         UNCHANGED <<jobKeeps, tasks>>
  PROVE  Common'
<1> DEFINE sent == {RequestFile(r, row)} \cup files
<1>1. \A f \in sent : FileOf(f, r)
  BY DEF FileOf
<1>2. /\ sReq' = [sReq EXCEPT ![r] = row] /\ toWww' = toWww \cup sent
      /\ job' = [at |-> "handle", todo |-> job.todo \ {r}]
  BY DEF Finish
<1> HIDE DEF sent
<1> QED
  BY <1>1, <1>2, RequestEnds

(* A request that fails.                                                   *)
LEMMA RequestFailed ==
  ASSUME Common, job.at \in {"handle"} \cup InHand,
         NEW r \in RequestNos, sReq[r] \in Rows, FailRequest(r),
         DeskShapes', RecordsFit',
         UNCHANGED <<jobKeeps, tasks>>
  PROVE  Common'
<1>1. CopyOf([sReq[r] EXCEPT !.st = "FAIL"], r)
  BY StatusCopies DEF RowStatus
<1>2. Finish(r, [sReq[r] EXCEPT !.st = "FAIL"], {})
  BY DEF FailRequest
<1> QED
  BY <1>1, <1>2, RequestFinished

(* A request goes on with a vehicle and a task, or none.                   *)
LEMMA RequestGoesOn ==
  ASSUME Common, NEW r \in RequestNos, Handling(r), NEW veh \in Vehicles, NEW k \in 0 .. MaxTasks,
         GoOn(r, veh, k), DeskShapes', RowTasks', RecordsFit', NewNamesCard',
         k # 0 => Fits(sReq[r], k)' /\ tasks'[k].veh = veh,
         sReq[r].type \notin ReviewedTypes => veh = sReq[r].veh,
         UNCHANGED jobKeeps
  PROVE  Common'
<1> USE DEF jobKeeps, www
<1>a. ServerShapes /\ NumbersKnown
  BY DEF Common, Shapes
<1>b. r \in job.todo /\ job.todo \in SUBSET RequestNos
  BY <1>a, HandledIsToDo, JobTypes DEF ServerShapes, HandleJobs, Handling
<1>c. /\ job' = [at |-> "card", todo |-> job.todo, req |-> r, veh |-> veh, task |-> k]
      /\ UNCHANGED <<sReq, toWww>>
  BY DEF GoOn
<1>1. ServerShapes'
  <2>1. job' \in RequestJobs
    BY <1>b, <1>c DEF RequestJobs, InHand
  <2> QED
    BY <1>a, <1>c, <2>1 DEF ServerShapes, Jobs
<1>2. NumbersKnown'
  BY <1>a, <1>b, <1>c DEF NumbersKnown, Handling
<1>3. JobFits'
  BY <1>c DEF JobFits, InHand, InResult, Fits
<1>4. WwwShapes' /\ FileShapes' /\ RowsAgree'
  BY <1>c, Frame
<1> QED
  BY <1>1, <1>2, <1>3, <1>4 DEF Common, Shapes

(* A finite set with at most one element has no two.                       *)
LEMMA AtMostOne ==
  ASSUME NEW S, IsFiniteSet(S), ~ (Cardinality(S) > 1), NEW a \in S, NEW b \in S
  PROVE  a = b
<1> SUFFICES ASSUME a # b PROVE FALSE
  OBVIOUS
<1>1. IsFiniteSet({a}) /\ Cardinality({a}) = 1
  BY FS_Singleton
<1>2. Cardinality({a} \cup {b}) = 2
  BY <1>1, FS_AddElement
<1>3. {a} \cup {b} \in SUBSET S
  OBVIOUS
<1>4. Cardinality({a} \cup {b}) <= Cardinality(S) /\ Cardinality(S) \in Nat
  BY <1>3, FS_Subset, FS_CardinalityType
<1> QED
  BY <1>2, <1>4

(* The handler of a new request fails it, or goes on with a vehicle and    *)
(* with a submitted task of the vehicle for the card, which it may have    *)
(* made, or with none.  A request that is not reviewed goes on with the    *)
(* only submitted task of its vehicle.                                     *)
LEMMA HandleOutcome ==
  ASSUME Common, NEW r \in RequestNos,
         HandleReviewed(r) \/ VehicleNotFound(r) \/ HandleRefused(r) \/ HandleFetched(r)
  PROVE  /\ Handling(r) /\ sReq[r] \in Rows /\ sReq[r].tid \in Tids
         /\ UNCHANGED <<jobKeeps, records, cards, written, approved>>
         /\ \/ FailRequest(r) /\ UNCHANGED tasks
            \/ \E veh \in Vehicles, k \in 0 .. MaxTasks :
                 /\ GoOn(r, veh, k)
                 /\ tasks' \in Seq(Task) /\ Len(tasks') <= MaxTasks /\ TasksKept
                 /\ \A j \in DOMAIN tasks : j \in DOMAIN tasks' /\ tasks'[j] = tasks[j]
                 /\ \A j \in DOMAIN tasks' : j \in DOMAIN tasks \/ (j = k /\ tasks'[k].type = "NEW")
                 /\ k # 0 =>
                      /\ k \in DOMAIN tasks' /\ tasks'[k].st = "SUBMIT" /\ tasks'[k].veh = veh
                      /\ tasks'[k].type = sReq[r].type /\ tasks'[k].tid \in {None, sReq[r].tid}
                      /\ k \notin DOMAIN tasks \/ NamesCard(sReq[r].type) => tasks'[k].tid = sReq[r].tid
                 /\ sReq[r].type \notin ReviewedTypes =>
                      /\ veh = sReq[r].veh
                      /\ \A j \in DOMAIN tasks' :
                           tasks'[j].st = "SUBMIT" /\ tasks'[j].veh = veh => j = k
<1> USE DEF jobKeeps
<1>a. /\ ServerShapes /\ NumbersKnown /\ DeskShapes
      /\ Len(tasks) \in Nat /\ DOMAIN tasks = 1 .. Len(tasks) /\ DOMAIN tasks \subseteq 1 .. MaxTasks
      /\ tasks \in Seq(Task) /\ Len(tasks) <= MaxTasks
  BY RequestAssumption DEF Common, Shapes, DeskShapes
<1>b. Handling(r)
  BY DEF HandleReviewed, VehicleNotFound, HandleRefused, HandleFetched
<1>c. /\ sReq[r] \in Rows /\ sReq[r].tid \in Tids
      /\ sReq[r].type \in Types /\ sReq[r].type \in TaskTypes
  BY <1>a, <1>b, HandledIsToDo, RequestAssumption DEF Rows, Row
<1>d. \A k \in DOMAIN tasks : tasks[k] \in Task
  BY <1>a
<1>e. UNCHANGED <<jobKeeps, records, cards, written, approved>>
  BY DEF HandleReviewed, VehicleNotFound, HandleRefused, HandleFetched, desk, history
<1>f. UNCHANGED tasks => TasksKept
  BY DEF TasksKept
<1>1. CASE HandleReviewed(r)
  <2> DEFINE found == {k \in SubmittedFor(sReq[r].tid) : tasks[k].type = sReq[r].type}
  <2>1. CASE found = {}
    BY <1>1, <1>b, <1>c, <1>e, <2>1 DEF HandleReviewed, desk
  <2>2. CASE found # {}
    <3>1. found \in SUBSET (1 .. MaxTasks) /\ MaxTasks \in Nat
      BY <1>a, RequestAssumption DEF SubmittedFor
    <3>2. PICK k \in found : k = Max(found)
      BY <2>2, <3>1, MaxOfNumbers
    <3>3. /\ k \in DOMAIN tasks /\ k # 0 /\ k \in 0 .. MaxTasks /\ tasks[k].st = "SUBMIT"
          /\ tasks[k].type = sReq[r].type /\ tasks[k].tid = sReq[r].tid
      BY <1>a, <3>1, <3>2 DEF SubmittedFor
    <3>4. GoOn(r, tasks[k].veh, k) /\ sReq[r].type \in ReviewedTypes /\ UNCHANGED tasks
      BY <1>1, <2>2, <3>2 DEF HandleReviewed, desk
    <3>5. tasks[k].veh \in Vehicles
      BY <1>d, <3>3 DEF Task
    <3> QED
      BY <1>a, <1>b, <1>c, <1>e, <1>f, <3>3, <3>4, <3>5
  <2> QED
    BY <2>1, <2>2
<1>2. CASE VehicleNotFound(r)
  BY <1>2, <1>b, <1>c, <1>e DEF VehicleNotFound, desk
<1>3. CASE HandleRefused(r)
  BY <1>3, <1>b, <1>c, <1>e DEF HandleRefused, desk
<1>4. CASE HandleFetched(r)
  <2> DEFINE tid == sReq[r].tid
             veh == sReq[r].veh
             found == SubmittedOf(veh)
  <2>1. /\ veh \in Vehicles /\ sReq[r].type = "NEW" /\ sReq[r].type \notin ReviewedTypes
        /\ ~ Refuses(tid, veh)
    BY <1>4, <1>c DEF HandleFetched, Rows, TaskTypes, ReviewedTypes
  <2>2. CASE found = {} /\ AutoGenerateTask
    <3> DEFINE task == NewTask(tid, veh, "NEW", "SUBMIT")
    <3>1. PICK k \in Nat : k = Len(tasks) + 1
      BY <1>a
    <3>2. /\ Len(tasks) < MaxTasks /\ tasks' = Append(tasks, task)
          /\ GoOn(r, veh, Len(tasks'))
      BY <1>4, <2>2 DEF HandleFetched
    <3>3. /\ task \in Task /\ task.type = "NEW" /\ task.tid = tid /\ task.veh = veh
          /\ task.st = "SUBMIT"
      BY <1>c, <2>1 DEF NewTask, Task, TaskTypes
    <3> HIDE DEF task
    <3>4. /\ tasks' \in Seq(Task) /\ Len(tasks') <= MaxTasks
          /\ TasksKept /\ \A j \in DOMAIN tasks : tasks'[j] = tasks[j]
          /\ k = Len(tasks') /\ k \in DOMAIN tasks' /\ tasks'[k] = task
      BY <3>1, <3>2, <3>3, TaskAppended
    <3>5. \A j \in DOMAIN tasks' : j \in DOMAIN tasks \/ j = k
      BY <1>a, <3>1, <3>4
    <3>6. k \notin DOMAIN tasks /\ k # 0 /\ k \in 0 .. MaxTasks
      BY <1>a, <3>1, <3>4, RequestAssumption
    <3>7. \A j \in DOMAIN tasks : j \in DOMAIN tasks'
      BY <3>4 DEF TasksKept
    <3>8. \A j \in DOMAIN tasks' : tasks'[j].st = "SUBMIT" /\ tasks'[j].veh = veh => j = k
      BY <2>2, <3>4, <3>5 DEF SubmittedOf
    <3> QED
      BY <1>b, <1>c, <1>e, <2>1, <3>2, <3>3, <3>4, <3>5, <3>6, <3>7, <3>8
  <2>3. CASE ~ (found = {} /\ AutoGenerateTask)
    <3>1. found \in SUBSET (1 .. MaxTasks) /\ MaxTasks \in Nat /\ IsFiniteSet(found)
      <4>1. found \in SUBSET (1 .. MaxTasks) /\ MaxTasks \in Nat
        BY <1>a, RequestAssumption DEF SubmittedOf
      <4>2. IsFiniteSet(1 .. MaxTasks)
        BY <4>1, FS_Interval
      <4> QED
        BY <4>1, <4>2, FS_Subset
    <3>2. PICK k \in found \cup {0} : /\ found # {} => k \in found
                                     /\ k = IF found = {} THEN 0 ELSE Max(found)
      BY <3>1, MaxOfNumbers
    <3>3. GoOn(r, veh, k) /\ UNCHANGED tasks
      BY <1>4, <2>3, <3>2 DEF HandleFetched
    <3>4. k # 0 => /\ k \in DOMAIN tasks /\ tasks[k].veh = veh /\ tasks[k].st = "SUBMIT"
                   /\ tasks[k].type = "NEW" /\ tasks[k].tid \in {None, tid}
      BY <2>1, <3>2 DEF SubmittedOf, Refuses
    <3>5. k \in 0 .. MaxTasks
      BY <3>1, <3>2
    <3>6. k # 0 /\ NamesCard("NEW") => tasks[k].tid = tid
      BY <3>4 DEF Common, NewNamesCard
    <3>7. \A j \in DOMAIN tasks : tasks[j].st = "SUBMIT" /\ tasks[j].veh = veh => j = k
      <4>1. ~ (Cardinality(found) > 1)
        BY <2>1 DEF Refuses
      <4>2. \A j \in found : k \in found /\ j = k
        BY <3>1, <3>2, <4>1, AtMostOne
      <4> QED
        BY <4>2 DEF SubmittedOf
    <3> QED
      BY <1>a, <1>b, <1>c, <1>e, <1>f, <2>1, <3>3, <3>4, <3>5, <3>6, <3>7
  <2> QED
    BY <2>2, <2>3
<1> QED
  BY <1>1, <1>2, <1>3, <1>4

(* The handler of a new request keeps what is common.                      *)
LEMMA CommonHandle ==
  ASSUME Common, NEW r \in RequestNos,
         HandleReviewed(r) \/ VehicleNotFound(r) \/ HandleRefused(r) \/ HandleFetched(r)
  PROVE  Common'
<1> USE DEF jobKeeps
<1>1. /\ Handling(r) /\ sReq[r] \in Rows /\ sReq[r].tid # None /\ DeskShapes
      /\ UNCHANGED <<jobKeeps, records, cards, written, approved>>
  BY HandleOutcome, RequestAssumption DEF Common, Shapes
<1>2. CASE FailRequest(r) /\ UNCHANGED tasks
  BY <1>1, <1>2, RequestFailed, Frame DEF Handling
<1>3. ASSUME NEW veh \in Vehicles, NEW k \in 0 .. MaxTasks, GoOn(r, veh, k),
             tasks' \in Seq(Task), Len(tasks') <= MaxTasks, TasksKept,
             \A j \in DOMAIN tasks' : j \in DOMAIN tasks \/ j = k,
             k # 0 => /\ k \in DOMAIN tasks' /\ tasks'[k].veh = veh
                      /\ tasks'[k].type = sReq[r].type
                      /\ k \notin DOMAIN tasks \/ NamesCard(sReq[r].type) => tasks'[k].tid = sReq[r].tid,
             sReq[r].type \notin ReviewedTypes => veh = sReq[r].veh
      PROVE  Common'
  <2>1. UNCHANGED <<wReq, sReq, toServer, toWww, records, cards, written, approved, cancelling>>
    BY <1>1, <1>3 DEF GoOn, www
  <2>2. cancelling' \in {0} \cup DOMAIN tasks' /\ approved' \subseteq DOMAIN tasks'
    BY <1>1, <1>3, <2>1 DEF DeskShapes, TasksKept
  <2>3. 0 \notin DOMAIN tasks'
    BY <1>3
  <2>4. DeskShapes' /\ RowTasks' /\ RecordsFit' /\ NewNamesCard'
    BY <1>1, <1>3, <2>1, <2>2, <2>3, TasksChange
  <2>5. k # 0 => Fits(sReq[r], k)' /\ tasks'[k].veh = veh
    BY <1>3, <2>1 DEF Fits
  <2> QED
    BY <1>1, <1>3, <2>4, <2>5, RequestGoesOn
<1> QED
  BY <1>2, <1>3, HandleOutcome

(* The server's job merges a file.                                         *)
LEMMA CommonServerReceive ==
  ASSUME Common, NEW f \in toServer, ServerReceive(f)
  PROVE  Common'
<1>a. f \in RequestFiles \/ f \in ExternalFiles
  BY DEF Common, Shapes, FileShapes
<1>b. /\ ServerShapes /\ NumbersKnown /\ RowTasks /\ RowsAgree
      /\ toWww' = toWww /\ toServer' \subseteq toServer
      /\ job' = AtFetch(TRUE)
      /\ UNCHANGED <<www, desk, cancelling, history>>
  BY DEF Common, Shapes, ServerReceive
<1>c. job' \in Jobs /\ job'.at = "fetch"
  BY <1>b DEF AtFetch, Jobs, FetchJobs
<1>1. CASE f \in RequestFiles
  <2>1. f.kind = "request" /\ f.xh \in RequestNos /\ f.row \in Rows
    BY <1>1 DEF RequestFiles
  <2> DEFINE row == MergeRow(sReq[f.xh], f.row)
  <2>2. sReq' = [sReq EXCEPT ![f.xh] = row] /\ sExt' = sExt
    BY <2>1 DEF ServerReceive
  <2>3. /\ sReq[f.xh] \in Rows \cup {NoRow}
        /\ wReq[f.xh] # NoRow /\ Same(f.row, wReq[f.xh])
        /\ sReq[f.xh] # NoRow => Same(sReq[f.xh], f.row)
    BY <1>b, <2>1 DEF ServerShapes, RowsAgree, Same
  <2>4. /\ sReq[f.xh].task # 0 => Fits(sReq[f.xh], sReq[f.xh].task)
        /\ f.row.task # 0 => Fits(f.row, f.row.task)
    BY <1>b, <2>1 DEF RowTasks
  <2>6. row \in Rows /\ Same(row, f.row) /\ (row.task # 0 => Fits(row, row.task))
    BY <2>1, <2>3, <2>4, Merged
  <2> HIDE DEF row
  <2>7. Same(row, wReq[f.xh])
    BY <2>3, <2>6 DEF Same
  <2>8. \A q \in RequestNos : sReq'[q] = IF q = f.xh THEN row ELSE sReq[q]
    BY <1>b, <2>1, <2>2 DEF ServerShapes
  <2>9. ServerShapes'
    BY <1>b, <1>c, <2>2, <2>6 DEF ServerShapes
  <2>10. RowsAgree'
    BY <1>b, <2>3, <2>7, <2>8 DEF RowsAgree, Same, www
  <2>11. RowTasks'
    BY <1>b, <2>6, <2>8 DEF RowTasks, Fits, www, desk
  <2>12. FileShapes' /\ NumbersKnown' /\ JobFits'
    BY <1>b, <1>c DEF Common, Shapes, FileShapes, NumbersKnown, JobFits, InHand, InResult, www
  <2> QED
    BY <1>b, <2>9, <2>10, <2>11, <2>12, Frame DEF Common, Shapes, www, desk, history
<1>2. CASE f \in ExternalFiles
  <2>1. f.kind = "external" /\ f.ext \in Exts
    BY <1>2 DEF ExternalFiles
  <2>2. sExt' = sExt \cup {f.ext} /\ sReq' = sReq
    BY <2>1 DEF ServerReceive
  <2>3. ServerShapes'
    BY <1>b, <1>c, <2>1, <2>2 DEF ServerShapes
  <2>4. RowsAgree' /\ RowTasks'
    BY <1>b, <2>2 DEF RowsAgree, RowTasks, Same, Fits, www, desk
  <2>5. FileShapes' /\ NumbersKnown' /\ JobFits'
    BY <1>b, <1>c DEF Common, Shapes, FileShapes, NumbersKnown, JobFits, InHand, InResult, www
  <2> QED
    BY <1>b, <2>3, <2>4, <2>5, Frame DEF Common, Shapes, www, desk, history
<1> QED
  BY <1>a, <1>1, <1>2

(* Steps of the job that change its place, and records or cards.           *)
LEMMA JobMoves ==
  ASSUME Common, job' \in Jobs, NumbersKnown', JobFits', sExt' \subseteq Exts,
         DeskShapes', RecordsFit',
         UNCHANGED <<www, sReq, tasks, toServer, toWww>>
  PROVE  Common'
<1>1. ServerShapes'
  BY DEF Common, Shapes, ServerShapes
<1> QED
  BY <1>1, Frame DEF Common, Shapes, www

(* What the job has in hand while it handles a request.                    *)
LEMMA InHandTypes ==
  ASSUME Common, job.at \in InHand
  PROVE  /\ job \in RequestJobs /\ job.req \in job.todo /\ job.todo \subseteq RequestNos
         /\ job.req \in RequestNos /\ sReq[job.req] \in Rows /\ sReq[job.req].st = "NEW"
         /\ sReq[job.req].tid \in Tids /\ job.veh \in Vehicles
<1>1. job \in RequestJobs /\ job.req \in job.todo
  BY JobTypes DEF Common, Shapes, ServerShapes, NumbersKnown
<1>2. sReq[job.req].st = "NEW" /\ job.req \in RequestNos
  BY <1>1 DEF Common, NumbersKnown, RequestJobs
<1>3. sReq[job.req] \in Rows
  BY <1>2, RowIsThere DEF Common, Shapes, ServerShapes, Active
<1> QED
  BY <1>1, <1>2, <1>3 DEF RequestJobs, Rows, Row

(* The job steps on with the request that it handles.                      *)
LEMMA RequestStepsOn ==
  ASSUME Common, job.at \in InHand, NEW at \in InHand, job' = [job EXCEPT !.at = at],
         at = "finish" => job.task # 0,
         DeskShapes', RecordsFit', UNCHANGED <<jobKeeps, sReq, toWww, tasks>>
  PROVE  Common'
<1>1. job \in RequestJobs
  BY InHandTypes
<1>2. /\ job' \in RequestJobs /\ job'.at = at
      /\ job'.todo = job.todo /\ job'.req = job.req /\ job'.veh = job.veh /\ job'.task = job.task
  BY <1>1 DEF RequestJobs
<1>3. job' \in Jobs /\ sExt' \subseteq Exts
  BY <1>2 DEF Jobs, Common, Shapes, ServerShapes, jobKeeps
<1>4. NumbersKnown'
  BY <1>2 DEF Common, NumbersKnown, jobKeeps, www
<1>5. JobFits'
  BY <1>2 DEF Common, JobFits, Fits, InHand, InResult
<1> QED
  BY <1>3, <1>4, <1>5, JobMoves DEF jobKeeps

(* What finish commits and sends are copies of the request in hand.        *)
LEMMA FetchedCopies ==
  ASSUME Common, job.at = "finish"
  PROVE  /\ CopyOf(Fetched, job.req)
         /\ \A st \in RowStatus : CopyOf([Fetched EXCEPT !.st = st], job.req)
         /\ FetchedData \in DataFiles /\ \A f \in {FetchedData} : FileOf(f, job.req)
         /\ \A sent \in SentSoFar : \A f \in sent : FileOf(f, job.req)
<1> DEFINE r == job.req
<1>a. job \in RequestJobs /\ r \in RequestNos /\ sReq[r] \in Rows /\ job.veh \in Vehicles
  BY InHandTypes DEF InHand
<1>b. /\ job.task # 0 /\ Fits(sReq[r], job.task) /\ tasks[job.task].veh = job.veh
      /\ sReq[r].type \notin ReviewedTypes => job.veh = sReq[r].veh
      /\ job.task \in 0 .. MaxTasks
  BY <1>a DEF Common, JobFits, RequestJobs, InHand
<1>1. \A st \in RowStatus :
        LET row == [Fetched EXCEPT !.st = st] IN
        /\ row \in Rows /\ row.tid = sReq[r].tid /\ row.type = sReq[r].type
        /\ row.veh = job.veh /\ row.task = job.task
  BY <1>a, <1>b DEF Fetched, Rows, Row
<1>2. \A st \in RowStatus : CopyOf([Fetched EXCEPT !.st = st], r)
  BY <1>b, <1>1 DEF CopyOf, Same, Fits
<1>3. Fetched = [Fetched EXCEPT !.st = "FETCHED"] /\ "FETCHED" \in RowStatus
  BY <1>a DEF Fetched, Rows, Row, RowStatus
<1>4. CopyOf(Fetched, r)
  BY <1>2, <1>3
<1>5. FetchedData \in DataFiles
  BY <1>a, <1>b DEF Fetched, FetchedData, DataFile, DataFiles, Data, Rows, Row
<1>6. FileOf(FetchedData, r) /\ FileOf(RequestFile(r, Fetched), r)
  BY <1>4, <1>5 DEF FileOf
<1> QED
  BY <1>2, <1>4, <1>5, <1>6 DEF SentSoFar

(* The rest of the handler of a new request.                               *)
LEMMA CommonInHand ==
  ASSUME Common, HandleCard \/ HandleRecord \/ HandleFinish
  PROVE  Common'
<1> DEFINE r == job.req
<1>a. DeskShapes /\ RecordsFit /\ JobFits /\ job.at \in InHand
  BY DEF Common, Shapes, HandleCard, HandleRecord, HandleFinish, InHand
<1>b. /\ job \in RequestJobs /\ r \in job.todo /\ job.todo \subseteq RequestNos
      /\ r \in RequestNos /\ sReq[r] \in Rows /\ sReq[r].tid \in Tids /\ job.veh \in Vehicles
  BY <1>a, InHandTypes
<1>1. CASE HandleCard
  <2> DEFINE bound == BoundCards(job.veh)
  <2>1. UNCHANGED <<jobKeeps, tasks, history, faults, cancelling>>
    BY <1>1 DEF HandleCard, jobKeeps
  <2>2. \/ records' = records
        \/ SetRecords({x \in records : x.tid = sReq[r].tid /\ x.st = "IN_PROGRESS"}, "FAIL")
    BY <1>1 DEF HandleCard
  <2>3. /\ records' \subseteq [tid : Tids, veh : Vehicles, task : DOMAIN tasks,
                               st : {"IN_PROGRESS", "SUCCESS", "FAIL"}]
        /\ RecordsFit'
    BY <1>a, <2>1, <2>2, RecordsSet, Frame DEF DeskShapes
  <2>4. \/ cards' = cards
        \/ cards' = [t \in Tids |-> IF t \in bound
                                    THEN [cards[t] EXCEPT !.st = "DISABLED"] ELSE cards[t]]
    BY <1>1 DEF HandleCard
  <2>5. cards' \in [Tids -> [st : {"AVAILABLE", "DISABLED"}, veh : Vehicles \cup {None}]]
    BY <1>a, <2>4 DEF DeskShapes
  <2>6. DeskShapes'
    BY <1>a, <2>1, <2>3, <2>5 DEF DeskShapes, history
  <2>7. \/ FailRequest(r)
        \/ job' = [job EXCEPT !.at = "record"] /\ UNCHANGED <<sReq, toWww>>
    BY <1>1 DEF HandleCard
  <2>8. CASE FailRequest(r)
    BY <1>a, <1>b, <2>1, <2>3, <2>6, <2>8, RequestFailed
  <2>9. CASE job' = [job EXCEPT !.at = "record"] /\ UNCHANGED <<sReq, toWww>>
    BY <1>a, <2>1, <2>3, <2>6, <2>9, RequestStepsOn DEF InHand
  <2> QED
    BY <2>7, <2>8, <2>9
<1>2. CASE HandleRecord
  <2> DEFINE x == [tid |-> sReq[r].tid, veh |-> job.veh, task |-> job.task, st |-> "IN_PROGRESS"]
  <2>1. /\ job.task # 0 /\ records' = records \cup {x} /\ job' = [job EXCEPT !.at = "finish"]
        /\ UNCHANGED <<jobKeeps, sReq, tasks, cards, toWww, history, faults>>
    BY <1>2 DEF HandleRecord
  <2>2. job.task \in DOMAIN tasks /\ tasks[job.task].veh = job.veh
    BY <1>a, <2>1 DEF JobFits, Fits
  <2>3. RecordsFit'
    BY <1>a, <2>1, <2>2 DEF RecordsFit
  <2>4. DeskShapes'
    BY <1>a, <1>b, <2>1, <2>2 DEF DeskShapes, history, jobKeeps
  <2> QED
    BY <1>a, <2>1, <2>3, <2>4, RequestStepsOn DEF InHand
<1>3. CASE HandleFinish
  <2>1. /\ Finish(r, Fetched, {FetchedData}) /\ job.at = "finish"
        /\ UNCHANGED <<jobKeeps, desk, history>>
    BY <1>3 DEF HandleFinish
  <2>2. DeskShapes' /\ RecordsFit'
    BY <2>1, Frame DEF desk, history, jobKeeps
  <2>3. CopyOf(Fetched, r) /\ \A f \in {FetchedData} : FileOf(f, r)
    BY <2>1, FetchedCopies
  <2> QED
    BY <1>a, <1>b, <2>1, <2>2, <2>3, RequestFinished DEF desk
<1> QED
  BY <1>1, <1>2, <1>3

(* What is committed of the handler of a card.                             *)
LEMMA RecordsKept ==
  ASSUME Common, RecordsSoFar, UNCHANGED <<tasks, cards, cancelling, written, approved>>
  PROVE  DeskShapes' /\ RecordsFit'
<1>a. DeskShapes /\ RecordsFit
  BY DEF Common, Shapes
<1> DEFINE which == {x \in records : x.tid = sReq[job.req].tid /\ x.st = "IN_PROGRESS"}
<1>1. records' = records \/ SetRecords(which, "FAIL")
  BY DEF RecordsSoFar
<1>2. /\ records' \subseteq [tid : Tids, veh : Vehicles, task : DOMAIN tasks,
                             st : {"IN_PROGRESS", "SUCCESS", "FAIL"}]
      /\ RecordsFit'
  <2>1. CASE records' = records
    BY <1>a, <2>1, Frame DEF DeskShapes
  <2>2. CASE SetRecords(which, "FAIL")
    BY <1>a, <2>2, RecordsSet
  <2> QED
    BY <1>1, <2>1, <2>2
<1> QED
  BY <1>a, <1>2 DEF DeskShapes

(* The handler of a new request throws, and perhaps the handler of that.   *)
LEMMA CommonBreaks ==
  ASSUME Common, HandleThrows \/ FinishThrows \/ HandlingBreaks
  PROVE  Common'
<1>1. CASE HandleThrows
  <2>1. /\ FailRequest(job.req) /\ RecordsSoFar /\ job.at \in InHand
        /\ UNCHANGED <<jobKeeps, tasks, cards, history>>
    BY <1>1 DEF HandleThrows, InHand
  <2>2. DeskShapes' /\ RecordsFit'
    BY <2>1, RecordsKept DEF history, jobKeeps
  <2> QED
    BY <2>1, <2>2, InHandTypes, RequestFailed
<1>2. CASE FinishThrows
  <2>1. PICK sent \in SentSoFar : Finish(job.req, [Fetched EXCEPT !.st = "FAIL"], sent)
    BY <1>2 DEF FinishThrows
  <2>2. job.at = "finish" /\ job.at \in InHand /\ UNCHANGED <<jobKeeps, desk, history>>
    BY <1>2 DEF FinishThrows, InHand
  <2>3. DeskShapes' /\ RecordsFit'
    BY <2>2, Frame DEF desk, history, jobKeeps
  <2>4. CopyOf([Fetched EXCEPT !.st = "FAIL"], job.req) /\ \A f \in sent : FileOf(f, job.req)
    BY <2>2, FetchedCopies DEF RowStatus
  <2>5. job.req \in RequestNos /\ sReq[job.req] \in Rows
    BY <2>2, InHandTypes
  <2>6. UNCHANGED <<jobKeeps, tasks>>
    BY <2>2 DEF desk
  <2> QED
    BY <2>1, <2>2, <2>3, <2>4, <2>5, <2>6, RequestFinished
<1>3. CASE HandlingBreaks
  <2>a. RecordsSoFar /\ UNCHANGED <<jobKeeps, tasks, cards, written, approved>>
    BY <1>3 DEF HandlingBreaks
  <2>b. DeskShapes' /\ RecordsFit'
    BY <2>a, RecordsKept DEF jobKeeps
  <2>1. ASSUME NEW r \in RequestNos, sReq[r] \in Rows, NEW row, CopyOf(row, r),
               NEW sent, \A f \in sent : FileOf(f, r), EndRun(r, row, sent),
               job.at \in {"handle"} \cup InHand
        PROVE  Common'
    BY <2>a, <2>b, <2>1, RequestEnds DEF EndRun
  <2>2. ASSUME job.at \in {"handle", "card", "record", "finish"}, job.todo # {},
               NEW r, r = IF job.at = "handle" THEN Max(job.todo) ELSE job.req,
               NEW st \in {"NEW", "FAIL"}, EndRun(r, [sReq[r] EXCEPT !.st = st], {})
        PROVE  Common'
    <3>1. r \in RequestNos /\ sReq[r] \in Rows
      <4>1. CASE job.at = "handle"
        <5>1. Handling(r)
          BY <2>2, <4>1 DEF Handling
        <5> QED
          BY <5>1, HandledIsToDo DEF Common, Shapes
      <4>2. CASE job.at \in InHand
        <5>1. r = job.req
          BY <2>2, <4>2 DEF InHand
        <5> QED
          BY <4>2, <5>1, InHandTypes
      <4> QED
        BY <2>2, <4>1, <4>2 DEF InHand
    <3>2. CopyOf([sReq[r] EXCEPT !.st = st], r)
      BY <3>1, StatusCopies DEF RowStatus
    <3>3. \A f \in {} : FileOf(f, r)
      OBVIOUS
    <3> QED
      BY <2>1, <2>2, <3>1, <3>2, <3>3 DEF InHand
  <2>3. ASSUME job.at = "finish", NEW st \in {"FETCHED", "FAIL"}, NEW sent \in SentSoFar,
               EndRun(job.req, [Fetched EXCEPT !.st = st], sent)
        PROVE  Common'
    <3>1. CopyOf([Fetched EXCEPT !.st = st], job.req) /\ \A f \in sent : FileOf(f, job.req)
      BY <2>3, FetchedCopies DEF RowStatus
    <3>2. job.at \in InHand /\ job.req \in RequestNos /\ sReq[job.req] \in Rows
      BY <2>3, InHandTypes DEF InHand
    <3> QED
      BY <2>1, <2>3, <3>1, <3>2
  <2> QED
    BY <1>3, <2>2, <2>3 DEF HandlingBreaks
<1> QED
  BY <1>1, <1>2, <1>3

(* What the job has in hand while it handles a result.                     *)
LEMMA InResultTypes ==
  ASSUME Common, job.at \in InResult
  PROVE  LET r == job.ext.req
             k == sReq[r].task
         IN
         /\ job \in ResultJobs /\ r \in RequestNos /\ sReq[r] \in Rows /\ sReq[r].tid \in Tids
         /\ k # 0 /\ k \in DOMAIN tasks /\ Fits(sReq[r], k)
         /\ job.task \in Task /\ job.task.veh = tasks[k].veh /\ job.task.type = tasks[k].type
         /\ NamesCard(job.task.type) => job.task.tid = tasks[k].tid
<1> DEFINE r == job.ext.req
           k == sReq[r].task
<1>1. job \in ResultJobs /\ r \in RequestNos /\ job.task \in Task
  BY JobTypes DEF Common, Shapes, ServerShapes, ResultJobs, Exts
<1>2. /\ k # 0 /\ job.task.veh = tasks[k].veh /\ job.task.type = tasks[k].type
      /\ NamesCard(job.task.type) => job.task.tid = tasks[k].tid
  BY DEF Common, JobFits
<1>3. Fits(sReq[r], k) /\ k \in DOMAIN tasks
  BY <1>1, <1>2 DEF Common, RowTasks, Fits
<1>4. sReq[r] \in Rows
  BY <1>1, <1>2, RowIsThere DEF Common, Shapes, ServerShapes
<1> QED
  BY <1>1, <1>2, <1>3, <1>4 DEF Rows, Row

(* The handler of a result starts with its task.                           *)
LEMMA ResultStarts ==
  ASSUME Common, job.at = "results", NEW e \in job.todo, sReq[e.req].task # 0,
         NEW st \in {"DONE", "CANCEL"}, NEW at \in {"bind", "task"},
         NEW veh \in Vehicles \cup {None}, GoBind(e, at, st, veh),
         at = "bind" => veh = tasks[sReq[e.req].task].veh /\ e.result = "SUCCESS",
         DeskShapes', RecordsFit', UNCHANGED <<resultKeeps, sExt, tasks>>
  PROVE  Common'
<1> DEFINE k == sReq[e.req].task
           tid == IF st = "DONE" THEN sReq[e.req].tid ELSE tasks[k].tid
           task == [tasks[k] EXCEPT !.st = st, !.tid = tid]
<1>1. job \in ResultsJobs /\ e \in Exts /\ e.req \in RequestNos
  BY JobTypes DEF Common, Shapes, ServerShapes, ResultsJobs, Exts
<1>2. sReq[e.req] \in Rows /\ sReq[e.req].tid \in Tids
  BY <1>1, RowIsThere DEF Common, Shapes, ServerShapes, Rows, Row
<1>3. Fits(sReq[e.req], k) /\ k \in DOMAIN tasks /\ tasks[k] \in Task
  BY <1>1 DEF Common, RowTasks, Fits, Shapes, DeskShapes
<1>4. tid \in Tids \cup {None} /\ (NamesCard(tasks[k].type) => tid = tasks[k].tid)
  BY <1>2, <1>3 DEF Fits, Task
<1>5. /\ task \in Task /\ task.veh = tasks[k].veh /\ task.type = tasks[k].type
      /\ task.tid = tid /\ task.st = st
  BY <1>3, <1>4 DEF Task
<1>6. job' = [at |-> at, todo |-> job.todo, ext |-> e, veh |-> veh, task |-> task]
  BY DEF GoBind
<1> HIDE DEF task, tid
<1>7. job' \in ResultJobs
  BY <1>1, <1>5, <1>6 DEF ResultsJobs, ResultJobs, InResult
<1>8. job' \in Jobs /\ sExt' \subseteq Exts
  BY <1>7 DEF Jobs, Common, Shapes, ServerShapes
<1>9. NumbersKnown'
  BY <1>6 DEF Common, NumbersKnown, InHand, resultKeeps, www
<1>10. JobFits'
  <2>1. /\ job'.at = at /\ job'.ext = e /\ job'.veh = veh /\ job'.task = task
        /\ sReq' = sReq
    BY <1>6 DEF resultKeeps
  <2>2. at \notin InHand /\ at # "finish"
    BY DEF InHand
  <2>3. NamesCard(task.type) => task.tid = tasks[k].tid
    BY <1>4, <1>5
  <2> QED
    BY <1>5, <2>1, <2>2, <2>3 DEF JobFits
<1> QED
  BY <1>8, <1>9, <1>10, JobMoves DEF resultKeeps

(* The handler of a result.                                                *)
LEMMA CommonResults ==
  ASSUME Common,
         \/ \E e \in sExt : HandleOrphanResult(e) \/ HandleSuccess(e) \/ HandleFailure(e)
         \/ BindCard \/ UpdateTask \/ ResultDone \/ ResultThrows
  PROVE  Common'
<1>a. DeskShapes /\ ServerShapes /\ RecordsFit /\ NumbersKnown /\ JobFits
  BY DEF Common, Shapes
<1>b. \A k : InProgress(k) \in SUBSET records /\ {x \in records : x.task = k} \in SUBSET records
  BY DEF InProgress
<1>1. ASSUME NEW e \in sExt, HandleOrphanResult(e) PROVE Common'
  <2>1. job \in ResultsJobs
    BY <1>1, <1>a, JobTypes DEF HandleOrphanResult, ServerShapes
  <2>2. job' \in ResultsJobs /\ job'.at = "results"
    BY <1>1, <2>1 DEF HandleOrphanResult, ResultsJobs
  <2>3. job' \in Jobs /\ sExt' \subseteq Exts
    BY <1>1, <1>a, <2>2 DEF Jobs, ServerShapes, HandleOrphanResult
  <2>4. NumbersKnown' /\ JobFits'
    BY <1>1, <1>a, <2>2 DEF NumbersKnown, JobFits, InHand, InResult, HandleOrphanResult, www
  <2>5. DeskShapes' /\ RecordsFit'
    BY <1>1, Frame DEF HandleOrphanResult, desk, history
  <2> QED
    BY <1>1, <2>3, <2>4, <2>5, JobMoves DEF HandleOrphanResult, desk
<1>2. ASSUME NEW e \in sExt, HandleSuccess(e) PROVE Common'
  <2> DEFINE k == sReq[e.req].task
  <2>1. /\ job.at = "results" /\ e \in job.todo /\ e.result = "SUCCESS" /\ k # 0
        /\ UNCHANGED <<resultKeeps, sExt, tasks, cards>>
    BY <1>2 DEF HandleSuccess
  <2>2. CASE SetRecords({x \in records : x.task = k}, "SUCCESS")
             /\ \E x \in InProgress(k) : GoBind(e, "bind", "DONE", x.veh)
    <3>1. /\ records' \subseteq [tid : Tids, veh : Vehicles, task : DOMAIN tasks,
                                 st : {"IN_PROGRESS", "SUCCESS", "FAIL"}]
          /\ RecordsFit'
      BY <1>a, <1>b, <2>1, <2>2, RecordsSet
    <3>2. DeskShapes'
      BY <1>a, <2>1, <3>1 DEF DeskShapes, resultKeeps, history
    <3>3. PICK x \in InProgress(k) : GoBind(e, "bind", "DONE", x.veh)
      BY <2>2
    <3>4. x.veh = tasks[k].veh /\ x.veh \in Vehicles
      BY <1>a, <3>3 DEF InProgress, RecordsFit, DeskShapes
    <3> QED
      BY <2>1, <3>1, <3>2, <3>3, <3>4, ResultStarts
  <2>3. CASE GoBind(e, "task", "DONE", None) /\ UNCHANGED records
    <3>1. DeskShapes' /\ RecordsFit'
      BY <2>1, <2>3, Frame DEF resultKeeps, history
    <3> QED
      BY <2>1, <2>3, <3>1, ResultStarts
  <2> QED
    BY <1>2, <2>2, <2>3 DEF HandleSuccess
<1>3. ASSUME NEW e \in sExt, HandleFailure(e) PROVE Common'
  <2> DEFINE k == sReq[e.req].task
  <2>1. /\ job.at = "results" /\ e \in job.todo /\ k # 0
        /\ SetRecords({x \in records : x.task = k}, "FAIL")
        /\ GoBind(e, "task", "CANCEL", None)
        /\ UNCHANGED <<resultKeeps, sExt, tasks, cards>>
    BY <1>3 DEF HandleFailure
  <2>2. /\ records' \subseteq [tid : Tids, veh : Vehicles, task : DOMAIN tasks,
                               st : {"IN_PROGRESS", "SUCCESS", "FAIL"}]
        /\ RecordsFit'
    BY <1>a, <1>b, <2>1, RecordsSet
  <2>3. DeskShapes'
    BY <1>a, <2>1, <2>2 DEF DeskShapes, resultKeeps, history
  <2> QED
    BY <2>1, <2>2, <2>3, ResultStarts
<1>4. ASSUME job.at \in {"bind", "task"}, NEW at \in {"task", "done"}, job' = [job EXCEPT !.at = at],
             UNCHANGED <<resultKeeps, sExt>>
      PROVE  /\ job' \in Jobs /\ sExt' \subseteq Exts /\ NumbersKnown'
             /\ job'.at = at /\ job'.ext = job.ext /\ job'.task = job.task
  <2>1. job \in ResultJobs
    BY <1>4, <1>a, JobTypes DEF ServerShapes, InResult
  <2>2. /\ job' \in ResultJobs /\ job'.at = at /\ job'.ext = job.ext /\ job'.task = job.task
    BY <1>4, <2>1 DEF ResultJobs, InResult
  <2> QED
    BY <1>4, <1>a, <2>2 DEF Jobs, ServerShapes, NumbersKnown, InHand, resultKeeps, www
<1>5. CASE BindCard
  <2>1. /\ job.at = "bind" /\ job' = [job EXCEPT !.at = "task"]
        /\ UNCHANGED <<resultKeeps, sExt, tasks, records>>
        /\ cards' = [cards EXCEPT ![sReq[job.ext.req].tid].veh = job.veh]
    BY <1>5 DEF BindCard
  <2>2. /\ job' \in Jobs /\ sExt' \subseteq Exts /\ NumbersKnown'
        /\ job'.at = "task" /\ job'.ext = job.ext /\ job'.task = job.task
    BY <1>4, <2>1
  <2>3. job.veh \in Vehicles \cup {None}
    BY <1>a, <2>1, JobTypes DEF ServerShapes, ResultJobs, InResult
  <2>4. DeskShapes'
    BY <1>a, <2>1, <2>3 DEF DeskShapes, resultKeeps, history
  <2>5. JobFits'
    BY <1>a, <2>1, <2>2 DEF JobFits, InHand, InResult, resultKeeps
  <2> QED
    BY <2>1, <2>2, <2>4, <2>5, JobMoves, Frame DEF resultKeeps
<1>6. CASE UpdateTask
  <2> DEFINE k == sReq[job.ext.req].task
  <2>1. /\ job.at = "task" /\ job' = [job EXCEPT !.at = "done"]
        /\ tasks' = [tasks EXCEPT ![k] = job.task]
        /\ UNCHANGED <<resultKeeps, sExt, records, cards>>
    BY <1>6 DEF UpdateTask
  <2>2. /\ job' \in Jobs /\ sExt' \subseteq Exts /\ NumbersKnown'
        /\ job'.at = "done" /\ job'.ext = job.ext /\ job'.task = job.task
    BY <1>4, <2>1
  <2>3. /\ k # 0 /\ k \in DOMAIN tasks /\ job.task \in Task
        /\ job.task.veh = tasks[k].veh /\ job.task.type = tasks[k].type
        /\ NamesCard(job.task.type) => job.task.tid = tasks[k].tid
        /\ job.task.st \in {"DONE", "CANCEL"}
    BY <2>1, InResultTypes DEF InResult, Common, JobFits
  <2>4. /\ tasks' \in Seq(Task) /\ Len(tasks') <= MaxTasks /\ TasksKept
        /\ DOMAIN tasks' = DOMAIN tasks
    BY <2>1, <2>3, TaskUpdated
  <2>5. cancelling' \in {0} \cup DOMAIN tasks' /\ approved' \subseteq DOMAIN tasks'
    BY <1>a, <2>1, <2>4 DEF DeskShapes, resultKeeps, history
  <2>6. DeskShapes' /\ RowsAgree' /\ RowTasks' /\ RecordsFit' /\ NewNamesCard'
    BY <2>1, <2>4, <2>5, TasksChange DEF resultKeeps, history, www
  <2>7. JobFits'
    BY <2>1, <2>2, <2>3 DEF JobFits, InHand, InResult, resultKeeps
  <2>8. ServerShapes'
    BY <1>a, <2>1, <2>2 DEF ServerShapes, resultKeeps
  <2> QED
    BY <2>1, <2>2, <2>6, <2>7, <2>8, Frame DEF Common, Shapes, resultKeeps, www
<1>7. CASE ResultDone
  <2>1. job \in ResultJobs
    BY <1>7, <1>a, JobTypes DEF ResultDone, ServerShapes, InResult
  <2>2. job' \in ResultsJobs /\ job'.at = "results"
    BY <1>7, <2>1 DEF ResultDone, ResultsJobs, ResultJobs
  <2>3. job' \in Jobs /\ sExt' \subseteq Exts
    BY <1>7, <1>a, <2>2 DEF Jobs, ServerShapes, ResultDone
  <2>4. NumbersKnown' /\ JobFits'
    BY <1>7, <1>a, <2>2 DEF NumbersKnown, JobFits, InHand, InResult, ResultDone, resultKeeps, www
  <2>5. DeskShapes' /\ RecordsFit'
    BY <1>7, Frame DEF ResultDone, desk, resultKeeps, history
  <2> QED
    BY <1>7, <2>3, <2>4, <2>5, JobMoves DEF ResultDone, resultKeeps, desk
<1>8. CASE ResultThrows
  <2>1. UNCHANGED <<www, sReq, sExt, desk, cancelling, toServer, toWww, written, approved>>
    BY <1>8 DEF ResultThrows
  <2>2. \E e : \/ job.at = "results" /\ job' = [job EXCEPT !.todo = @ \ {e}]
               \/ /\ job.at \in InResult
                  /\ job' = [at |-> "results", todo |-> job.todo \ {job.ext}]
    BY <1>8 DEF ResultThrows, InResult
  <2>3. job' \in ResultsJobs /\ job'.at = "results"
    <3>1. job \in ResultsJobs \/ job \in ResultJobs
      BY <1>a, <2>2, JobTypes DEF ServerShapes
    <3> QED
      BY <1>a, <2>2, <3>1, JobTypes DEF ServerShapes, ResultsJobs, ResultJobs, InResult
  <2>4. job' \in Jobs /\ sExt' \subseteq Exts
    BY <1>a, <2>1, <2>3 DEF Jobs, ServerShapes
  <2>5. NumbersKnown' /\ JobFits'
    BY <1>a, <2>1, <2>3 DEF NumbersKnown, JobFits, InHand, InResult, www
  <2>6. DeskShapes' /\ RecordsFit'
    BY <2>1, Frame DEF desk
  <2> QED
    BY <2>1, <2>4, <2>5, <2>6, JobMoves DEF desk
<1> QED
  BY <1>1, <1>2, <1>3, <1>5, <1>6, <1>7, <1>8

(* The job goes round, or starts again.                                    *)
LEMMA CommonRounds ==
  ASSUME Common, StartRequests \/ StartResults \/ EndResults \/ Crash
  PROVE  Common'
<1>a. ServerShapes /\ NumbersKnown /\ JobFits
  BY DEF Common, Shapes
<1>b. UNCHANGED <<www, sReq, sExt, tasks, records, cards, cancelling, toServer, toWww,
                  written, approved>>
  BY DEF StartRequests, StartResults, EndResults, Crash, desk, jobKeeps, history
<1>c. DeskShapes' /\ RecordsFit'
  BY <1>b, Frame
<1>1. CASE StartRequests
  <2>1. /\ job' = [at |-> "handle", todo |-> {r \in RequestNos : sReq[r].st = "NEW"}]
    BY <1>1 DEF StartRequests
  <2>2. job' \in HandleJobs /\ job'.at = "handle" /\ \A r \in job'.todo : sReq[r].st = "NEW"
    BY <2>1 DEF HandleJobs
  <2>3. job' \in Jobs /\ sExt' \subseteq Exts
    BY <1>a, <1>b, <2>2 DEF Jobs, ServerShapes
  <2>4. NumbersKnown' /\ JobFits'
    BY <1>a, <1>b, <2>2 DEF NumbersKnown, JobFits, InHand, InResult, www
  <2> QED
    BY <1>b, <1>c, <2>3, <2>4, JobMoves
<1>2. CASE StartResults \/ EndResults \/ Crash
  <2>1. job' = [at |-> "results", todo |-> sExt] \/ job' = AtFetch(FALSE)
    BY <1>2 DEF StartResults, EndResults, Crash
  <2>2. (job' \in ResultsJobs \/ job' \in FetchJobs) /\ job'.at \in {"results", "fetch"}
    <3>1. AtFetch(FALSE) \in FetchJobs /\ AtFetch(FALSE).at = "fetch"
      BY DEF AtFetch, FetchJobs
    <3>2. /\ [at |-> "results", todo |-> sExt] \in ResultsJobs
          /\ [at |-> "results", todo |-> sExt].at = "results"
      BY <1>a DEF ResultsJobs, ServerShapes
    <3> QED
      BY <2>1, <3>1, <3>2
  <2>3. job' \in Jobs /\ sExt' \subseteq Exts
    BY <1>a, <1>b, <2>2 DEF Jobs, ServerShapes
  <2>4. NumbersKnown' /\ JobFits'
    BY <1>a, <1>b, <2>2 DEF NumbersKnown, JobFits, InHand, InResult, www
  <2> QED
    BY <1>b, <1>c, <2>3, <2>4, JobMoves
<1> QED
  BY <1>1, <1>2

(* All of it is true at first.                                             *)
LEMMA CommonInit == Init => Common
<1> SUFFICES ASSUME Init PROVE Common
  OBVIOUS
<1> USE DEF Init
<1>1. WwwShapes
  <2>1. Idle \in Calls /\ [c \in Callers |-> [op |-> "idle"]] = [c \in Callers |-> Idle]
    BY DEF Calls, Idle
  <2> QED
    BY <2>1 DEF WwwShapes
<1>2. ServerShapes
  BY DEF ServerShapes, Jobs, FetchJobs
<1>3. DeskShapes
  <2>1. \A t \in Tids :
          (IF \E v \in Vehicles : <<t, v>> \in EarlierBindings
           THEN CHOOSE v \in Vehicles : <<t, v>> \in EarlierBindings ELSE None)
            \in Vehicles \cup {None}
    OBVIOUS
  <2>2. cards \in [Tids -> [st : {"AVAILABLE", "DISABLED"}, veh : Vehicles \cup {None}]]
    BY <2>1
  <2>3. tasks \in Seq(Task) /\ Len(tasks) = 0 /\ Len(tasks) <= MaxTasks
    BY RequestAssumption
  <2> QED
    BY <2>2, <2>3, RequestAssumption DEF DeskShapes
<1>4. FileShapes
  BY DEF FileShapes
<1>5. NumbersKnown
  BY DEF NumbersKnown, InHand, Reporting
<1>6. RowsAgree /\ RowTasks /\ RecordsFit
  BY DEF RowsAgree, RowTasks, RecordsFit, NoRow
<1>7. JobFits
  BY DEF JobFits, InHand, InResult
<1>8. NewNamesCard
  BY DEF NewNamesCard
<1> QED
  BY <1>1, <1>2, <1>3, <1>4, <1>5, <1>6, <1>7, <1>8 DEF Common, Shapes

(* One step of the system, whichever it is.                                *)
LEMMA CommonNext ==
  ASSUME Common, [Next]_vars
  PROVE  Common'
<1>1. ASSUME NEW c \in Callers, Call(c) PROVE Common'
  BY <1>1, CommonLook, CommonWww DEF Call
<1>2. CASE Desk
  BY <1>2, CommonDesk
<1>3. CASE WwwJob
  BY <1>3, CommonWwwReceive DEF WwwJob
<1>4. CASE ServerJob
  BY <1>4, CommonServerReceive, CommonHandle, CommonInHand, CommonBreaks, CommonResults,
     CommonRounds DEF ServerJob
<1>5. CASE Breakdown
  BY <1>5, CommonBreaks, CommonResults, CommonRounds DEF Breakdown
<1>6. CASE UNCHANGED vars
  BY <1>6, Frame DEF vars, www, desk, history, Common, Shapes
<1> QED
  BY <1>1, <1>2, <1>3, <1>4, <1>5, <1>6 DEF Next

(* What the sites share is agreed in every state: the copies of a request  *)
(* are of one card and type, and its task fits it wherever it is read.     *)
THEOREM CommonAlways == Spec => []Common
<1> QED
  BY CommonInit, CommonNext, PTL DEF Spec

-----------------------------------------------------------------------------
(* Theorems.                                                               *)

(* Every variable has its type, and numbers refer to rows that exist.      *)
THEOREM TypeCorrect == Spec => []TypeOK
<1>1. Common => TypeOK
  <2> SUFFICES ASSUME Common PROVE TypeOK
    OBVIOUS
  <2>1. WwwShapes /\ ServerShapes /\ DeskShapes
    BY DEF Common, Shapes
  <2>2. /\ wReq \in [RequestNos -> Row \cup {NoRow}]
        /\ sReq \in [RequestNos -> Row \cup {NoRow}]
    BY <2>1 DEF WwwShapes, ServerShapes, Rows
  <2>3. \A c \in Callers : callers[c].op \in
          {"idle", "replace", "check", "insert", "report", "result"}
    BY <2>1, CallTypes DEF WwwShapes, Creating, Reporting
  <2>4. job.at \in {"fetch", "handle", "card", "record", "finish",
                    "results", "bind", "task", "done"}
    BY <2>1, JobTypes DEF ServerShapes, InHand, InResult
  <2>5. \A r \in RequestNos : sReq[r].task \in {0} \cup DOMAIN tasks
    BY DEF Common, RowTasks, Fits
  <2> QED
    BY <2>1, <2>2, <2>3, <2>4, <2>5
       DEF TypeOK, WwwShapes, ServerShapes, DeskShapes, Data, Exts, Task
<1> QED
  BY <1>1, CommonAlways, PTL

-----------------------------------------------------------------------------
(* What a review protects.                                                 *)

Reviewed(type) == type \in {"CHANGE", "MODIFY"}

(* A task to change a card or its binding that a request can be given was  *)
(* approved; so were those in hand and of the records.                     *)
SubmittedAfterReview ==
  \A k \in DOMAIN tasks :
    Reviewed(tasks[k].type) /\ tasks[k].tid # None /\ tasks[k].st = "SUBMIT" => k \in approved

InHandAfterReview ==
  job.at \in InHand /\ job.task # 0 /\ Reviewed(tasks[job.task].type) => job.task \in approved

ReviewInv == Common /\ SubmittedAfterReview /\ InHandAfterReview /\ HandledAfterReview

(* The fields of the job after it steps on with a request, or a result.    *)
LEMMA StepsOn ==
  ASSUME Common, NEW at
  PROVE  /\ job.at \in InHand /\ job' = [job EXCEPT !.at = at] =>
              /\ job'.at = at /\ job'.todo = job.todo /\ job'.req = job.req
              /\ job'.veh = job.veh /\ job'.task = job.task
         /\ job.at \in InResult /\ job' = [job EXCEPT !.at = at] =>
              /\ job'.at = at /\ job'.todo = job.todo /\ job'.ext = job.ext
              /\ job'.veh = job.veh /\ job'.task = job.task
<1>1. /\ job.at \in InHand => job \in RequestJobs
      /\ job.at \in InResult => job \in ResultJobs
  BY JobTypes DEF Common, Shapes, ServerShapes
<1> QED
  BY <1>1 DEF RequestJobs, ResultJobs

(* The www site changes nothing of the server.                             *)
LEMMA WwwKeepsServer ==
  ASSUME (\E c \in Callers : Call(c)) \/ WwwJob
  PROVE  UNCHANGED <<sReq, sExt, tasks, records, cards, job, cancelling, approved>>
  BY DEF Call, CallCreate, CancelReplaced, CheckNoActive, InsertRequest, Customize, LeaveCall,
         CallCancel, CheckRequestStatus, ApplyResult, CallBreaks, WwwJob, WwwReceive,
         serverSide, desk, history

(* A task that a clerk makes is the only new one.                          *)
LEMMA CreateTaskAppends ==
  ASSUME Common, NEW tid \in Tids \cup {None}, NEW veh \in Vehicles, NEW type \in TaskTypes,
         NEW st \in {"PENDING", "SUBMIT"}, CreateTask(tid, veh, type, st)
  PROVE  /\ TasksKept
         /\ \A k \in DOMAIN tasks : k \in DOMAIN tasks' /\ tasks'[k] = tasks[k]
         /\ \A k \in DOMAIN tasks' :
              k \in DOMAIN tasks \/ tasks'[k] = NewTask(tid, veh, type, st)
         /\ UNCHANGED <<www, sReq, sExt, records, cards, job, cancelling, toServer, toWww,
                        written, approved, refused>>
<1>1. NewTask(tid, veh, type, st) \in Task
  BY DEF NewTask, Task
<1>2. DOMAIN tasks = 1 .. Len(tasks) /\ Len(tasks) \in Nat
  BY DEF Common, Shapes, DeskShapes
<1>3. tasks' \in Seq(Task) /\ Len(tasks') = Len(tasks) + 1 /\ TasksKept
      /\ tasks'[Len(tasks')] = NewTask(tid, veh, type, st)
      /\ \A k \in DOMAIN tasks : tasks'[k] = tasks[k]
  BY <1>1, TaskAppended DEF CreateTask
<1>4. DOMAIN tasks' = 1 .. Len(tasks')
  BY <1>3
<1>5. \A k \in DOMAIN tasks' : k \in DOMAIN tasks \/ k = Len(tasks')
  BY <1>2, <1>3, <1>4
<1> QED
  BY <1>3, <1>5 DEF CreateTask, history, TasksKept

(* The steps of the clerks that change tasks, by what they do.             *)
LEMMA DeskTasks ==
  ASSUME Common, Desk
  PROVE  \/ \E tid \in Tids \cup {None}, veh \in Vehicles, type \in TaskTypes, st \in {"PENDING", "SUBMIT"} :
              /\ CreateTask(tid, veh, type, st)
              /\ \/ tid = None /\ st = "SUBMIT" /\ type \in Types /\ "SaveCustomize" \in Offered
                 \/ st = "PENDING" /\ Reviewed(type)
                 \/ /\ type = "ANNUAL_INSPECTION" /\ st = "SUBMIT"
                    /\ tid \in Tids /\ cards[tid].veh = veh
         \/ \E k \in DOMAIN tasks :
              /\ Review(k) /\ TasksKept /\ DOMAIN tasks' = DOMAIN tasks
              /\ \A j \in DOMAIN tasks : tasks'[j] = IF j = k THEN [tasks[k] EXCEPT !.st = "SUBMIT"] ELSE tasks[j]
         \/ /\ "CancelTask" \in Offered
            /\ \E k \in DOMAIN tasks : BeginCancel(k)
         \/ /\ EndCancel /\ TasksKept /\ DOMAIN tasks' = DOMAIN tasks /\ cancelling \in DOMAIN tasks
            /\ \A j \in DOMAIN tasks :
                 tasks'[j] = IF j = cancelling THEN [tasks[j] EXCEPT !.st = "CANCEL"] ELSE tasks[j]
<1>a. /\ DeskShapes /\ \A t \in Tids : cards[t].veh # None => cards[t].veh \in Vehicles
      /\ \A k \in DOMAIN tasks : tasks[k] \in Task
  BY DEF Common, Shapes, DeskShapes
<1>b. Types \subseteq TaskTypes
  BY RequestAssumption
<1>c. {"CHANGE", "MODIFY", "ANNUAL_INSPECTION"} \subseteq TaskTypes
  BY DEF TaskTypes
<1>1. ASSUME NEW v \in Vehicles, NEW ty \in Types, SaveCustomize(v, ty), "SaveCustomize" \in Offered
      PROVE  CreateTask(None, v, ty, "SUBMIT")
  BY <1>1 DEF SaveCustomize
<1>2. ASSUME NEW o \in Tids, NEW t \in Tids \cup {None}, CreateChange(o, t)
      PROVE  \E v \in Vehicles : CreateTask(t, v, "CHANGE", "PENDING")
  BY <1>2, <1>a DEF CreateChange
<1>3. ASSUME NEW t \in Tids, NEW v \in Vehicles, CreateModify(t, v)
      PROVE  CreateTask(t, v, "MODIFY", "PENDING")
  BY <1>3 DEF CreateModify
<1>4. ASSUME NEW t \in Tids, CreateAnnualInspection(t)
      PROVE  \E v \in Vehicles : cards[t].veh = v /\ CreateTask(t, v, "ANNUAL_INSPECTION", "SUBMIT")
  BY <1>4, <1>a DEF CreateAnnualInspection
<1>5. ASSUME NEW k, Review(k)
      PROVE  /\ k \in DOMAIN tasks /\ TasksKept /\ DOMAIN tasks' = DOMAIN tasks
             /\ \A j \in DOMAIN tasks : tasks'[j] = IF j = k THEN [tasks[k] EXCEPT !.st = "SUBMIT"] ELSE tasks[j]
  <2> DEFINE task == [tasks[k] EXCEPT !.st = "SUBMIT"]
  <2>1. k \in DOMAIN tasks /\ tasks' = [tasks EXCEPT ![k] = task]
    BY <1>5 DEF Review
  <2>2. /\ task \in Task /\ task.veh = tasks[k].veh /\ task.type = tasks[k].type
        /\ task.tid = tasks[k].tid
    BY <1>a, <2>1 DEF Task
  <2> HIDE DEF task
  <2>3. TasksKept /\ DOMAIN tasks' = DOMAIN tasks
    BY <2>1, <2>2, TaskUpdated
  <2>4. \A j \in DOMAIN tasks : tasks'[j] = IF j = k THEN task ELSE tasks[j]
    BY <2>1
  <2> QED
    BY <2>1, <2>3, <2>4 DEF task
<1>6. ASSUME EndCancel
      PROVE  /\ cancelling \in DOMAIN tasks /\ TasksKept /\ DOMAIN tasks' = DOMAIN tasks
             /\ \A j \in DOMAIN tasks :
                  tasks'[j] = IF j = cancelling THEN [tasks[j] EXCEPT !.st = "CANCEL"] ELSE tasks[j]
  <2> DEFINE k == cancelling
             task == [tasks[k] EXCEPT !.st = "CANCEL"]
  <2>1. k \in DOMAIN tasks /\ tasks' = [tasks EXCEPT ![k] = task]
    BY <1>6, <1>a DEF EndCancel, DeskShapes
  <2>2. /\ task \in Task /\ task.veh = tasks[k].veh /\ task.type = tasks[k].type
        /\ task.tid = tasks[k].tid
    BY <1>a, <2>1 DEF Task
  <2> HIDE DEF task
  <2>3. TasksKept /\ DOMAIN tasks' = DOMAIN tasks
    BY <2>1, <2>2, TaskUpdated
  <2>4. \A j \in DOMAIN tasks : tasks'[j] = IF j = k THEN task ELSE tasks[j]
    BY <2>1
  <2> QED
    BY <2>1, <2>3, <2>4 DEF task
<1>7. \A k \in 1 .. MaxTasks : BeginCancel(k) => k \in DOMAIN tasks
  BY DEF BeginCancel
<1> QED
  <2>1. CASE "SaveCustomize" \in Offered /\ \E v \in Vehicles, ty \in Types : SaveCustomize(v, ty)
    BY <2>1, <1>1, <1>b
  <2>2. CASE \E o \in Tids, t \in Tids \cup {None} : CreateChange(o, t)
    BY <2>2, <1>2, <1>c DEF Reviewed
  <2>3. CASE \E t \in Tids, v \in Vehicles : CreateModify(t, v)
    BY <2>3, <1>3, <1>c DEF Reviewed
  <2>4. CASE \E t \in Tids : CreateAnnualInspection(t)
    BY <2>4, <1>4, <1>c
  <2>5. CASE \E k \in 1 .. MaxTasks : Review(k)
    BY <2>5, <1>5
  <2>6. CASE "CancelTask" \in Offered /\ \E k \in 1 .. MaxTasks : BeginCancel(k)
    BY <2>6, <1>7
  <2>7. CASE EndCancel
    BY <2>7, <1>6
  <2> QED
    BY <2>1, <2>2, <2>3, <2>4, <2>5, <2>6, <2>7 DEF Desk

(* A step that appends a task, or sets the status of one.                  *)
LEMMA ReviewTasks ==
  ASSUME ReviewInv, TasksKept, approved \subseteq approved',
         \A k \in DOMAIN tasks' :
           \/ k \in DOMAIN tasks /\ tasks'[k] = tasks[k]
           \/ tasks'[k].st = "SUBMIT" /\ tasks'[k].tid # None /\ Reviewed(tasks'[k].type)
                => k \in approved',
         UNCHANGED records
  PROVE  SubmittedAfterReview' /\ HandledAfterReview' /\ (UNCHANGED job => InHandAfterReview')
<1>1. SubmittedAfterReview'
  BY DEF ReviewInv, SubmittedAfterReview
<1>2. \A x \in records : x.task \in DOMAIN tasks
  BY DEF ReviewInv, Common, Shapes, DeskShapes
<1>3. HandledAfterReview'
  BY <1>2 DEF ReviewInv, HandledAfterReview, TasksKept, Reviewed
<1>4. ASSUME UNCHANGED job PROVE InHandAfterReview'
  <2>1. job.at \in InHand /\ job.task # 0 => job.task \in DOMAIN tasks
    BY DEF ReviewInv, Common, JobFits, Fits
  <2> QED
    BY <1>4, <2>1 DEF ReviewInv, InHandAfterReview, TasksKept
<1> QED
  BY <1>1, <1>3, <1>4

(* A step that leaves the tasks alone and adds no record.                  *)
LEMMA ReviewRecords ==
  ASSUME ReviewInv, UNCHANGED <<tasks, approved>>,
         \A x \in records' : \E y \in records : x.task = y.task,
         \/ job'.at \notin InHand
         \/ job.at \in InHand /\ job'.task = job.task
         \/ job' = job
  PROVE  SubmittedAfterReview' /\ HandledAfterReview' /\ InHandAfterReview'
<1>1. SubmittedAfterReview' /\ InHandAfterReview'
  BY DEF ReviewInv, SubmittedAfterReview, InHandAfterReview
<1>2. HandledAfterReview'
  BY DEF ReviewInv, HandledAfterReview
<1> QED
  BY <1>1, <1>2

(* The status of some records is set: none is added, and a record that is  *)
(* in progress afterwards was so before, and was left alone.               *)
LEMMA RecordsEnd ==
  ASSUME Common, NEW which \in SUBSET records, NEW st \in {"SUCCESS", "FAIL"}, SetRecords(which, st)
  PROVE  \A x \in records' : \E y \in records :
           /\ x.tid = y.tid /\ x.veh = y.veh /\ x.task = y.task
           /\ x.st = "IN_PROGRESS" => x = y /\ y \notin which
<1>1. \A y \in records : LET x == [y EXCEPT !.st = st] IN
        /\ x.tid = y.tid /\ x.veh = y.veh /\ x.task = y.task /\ x.st = st
  BY DEF Common, Shapes, DeskShapes
<1> QED
  BY <1>1 DEF SetRecords

(* Where a handler that throws leaves the job, and what else it changes.   *)
Broken == HandleThrows \/ FinishThrows \/ HandlingBreaks \/ ResultThrows

LEMMA BrokenOff ==
  ASSUME Common, Broken
  PROVE  /\ UNCHANGED <<www, sExt, tasks, cards, cancelling, toServer, written, approved>>
         /\ job'.at \in {"fetch", "handle", "results"}
         /\ \A x \in records' : \E y \in records :
              /\ x.tid = y.tid /\ x.veh = y.veh /\ x.task = y.task
              /\ x.st = "IN_PROGRESS" => x = y
<1>1. UNCHANGED <<www, sExt, tasks, cards, cancelling, toServer, written, approved>>
  BY DEF Broken, HandleThrows, FinishThrows, HandlingBreaks, ResultThrows, jobKeeps, desk, history
<1>2. job'.at \in {"fetch", "handle", "results"}
  <2>1. CASE HandleThrows \/ FinishThrows \/ HandlingBreaks
    BY <2>1 DEF HandleThrows, FinishThrows, HandlingBreaks, FailRequest, Finish, EndRun, AtFetch
  <2>2. CASE ResultThrows
    <3>1. job.at = "results" => job \in ResultsJobs
      BY JobTypes DEF Common, Shapes, ServerShapes
    <3> QED
      BY <2>2, <3>1 DEF ResultThrows, ResultsJobs
  <2> QED
    BY <2>1, <2>2 DEF Broken
<1>3. records' = records \/ RecordsSoFar
  BY DEF Broken, HandleThrows, FinishThrows, HandlingBreaks, ResultThrows, desk
<1>4. \A x \in records' : \E y \in records :
        /\ x.tid = y.tid /\ x.veh = y.veh /\ x.task = y.task
        /\ x.st = "IN_PROGRESS" => x = y
  <2> DEFINE which == {x \in records : x.tid = sReq[job.req].tid /\ x.st = "IN_PROGRESS"}
  <2>1. records' = records \/ SetRecords(which, "FAIL")
    BY <1>3 DEF RecordsSoFar
  <2>2. which \in SUBSET records
    OBVIOUS
  <2> HIDE DEF which
  <2>3. CASE records' = records
    BY <2>3
  <2>4. CASE SetRecords(which, "FAIL")
    BY <2>2, <2>4, RecordsEnd
  <2> QED
    BY <2>1, <2>3, <2>4
<1> QED
  BY <1>1, <1>2, <1>4

(* What the look at the card and at the vehicle's cards comes to.          *)
LEMMA CardOutcome ==
  ASSUME Common, HandleCard
  PROVE  LET tid == sReq[job.req].tid
             type == TypeOfTask(job.task)
         IN
         /\ UNCHANGED <<jobKeeps, tasks, history>>
         /\ \A t \in Tids :
              /\ cards'[t].veh = cards[t].veh
              /\ cards'[t].st # cards[t].st => type = "CHANGE" /\ cards[t].veh = job.veh
         /\ \A x \in records' : \E y \in records :
              /\ x.tid = y.tid /\ x.veh = y.veh /\ x.task = y.task
              /\ x.st = "IN_PROGRESS" => x = y
         /\ \/ FailRequest(job.req)
            \/ /\ job' = [job EXCEPT !.at = "record"] /\ UNCHANGED <<sReq, toWww>>
               /\ CardUsable(tid, job.veh, sReq[job.req].type)
               /\ \A x \in records' : x.st = "IN_PROGRESS" => x.tid # tid
               /\ BoundCards(job.veh) = {} \/ type \in {"CHANGE", "ANNUAL_INSPECTION"}
<1> DEFINE tid == sReq[job.req].tid
           type == TypeOfTask(job.task)
           bound == BoundCards(job.veh)
           which == {x \in records : x.tid = tid /\ x.st = "IN_PROGRESS"}
<1>a. cards \in [Tids -> [st : {"AVAILABLE", "DISABLED"}, veh : Vehicles \cup {None}]]
  BY DEF Common, Shapes, DeskShapes
<1>1. UNCHANGED <<jobKeeps, tasks, history>>
  BY DEF HandleCard
<1>2. \/ cards' = cards
      \/ /\ type = "CHANGE"
         /\ cards' = [t \in Tids |-> IF t \in bound THEN [cards[t] EXCEPT !.st = "DISABLED"] ELSE cards[t]]
  BY DEF HandleCard
<1>3. \A t \in Tids :
        /\ cards'[t].veh = cards[t].veh
        /\ cards'[t].st # cards[t].st => type = "CHANGE" /\ cards[t].veh = job.veh
  BY <1>a, <1>2 DEF BoundCards
<1>4. CASE ~ CardUsable(tid, job.veh, sReq[job.req].type)
  BY <1>1, <1>3, <1>4 DEF HandleCard
<1>5. CASE CardUsable(tid, job.veh, sReq[job.req].type)
  <2>1. /\ SetRecords(which, "FAIL")
        /\ IF \/ bound = {}
              \/ Cardinality(bound) = 1 /\ type \in {"CHANGE", "ANNUAL_INSPECTION"}
           THEN /\ job' = [job EXCEPT !.at = "record"]
                /\ UNCHANGED <<sReq, toWww>>
           ELSE FailRequest(job.req)
    BY <1>5 DEF HandleCard
  <2>2. \A x \in records' : \E y \in records :
          /\ x.tid = y.tid /\ x.veh = y.veh /\ x.task = y.task
          /\ x.st = "IN_PROGRESS" => x = y /\ y \notin which
    BY <2>1, RecordsEnd
  <2> QED
    BY <1>1, <1>3, <1>5, <2>1, <2>2
<1> QED
  BY <1>4, <1>5

(* Only two steps change cards.                                            *)
LEMMA CardsKept ==
  ASSUME [Next]_vars
  PROVE  HandleCard \/ BindCard \/ UNCHANGED cards
<1>1. Desk => UNCHANGED cards
  BY DEF Desk, SaveCustomize, CreateChange, CreateModify, CreateAnnualInspection, CreateTask,
         Review, BeginCancel, EndCancel
<1>2. ServerJob => HandleCard \/ BindCard \/ UNCHANGED cards
  BY DEF ServerJob, ServerReceive, StartRequests, HandleReviewed, VehicleNotFound, HandleRefused,
         HandleFetched, HandleRecord, HandleThrows, HandleFinish, StartResults,
         HandleOrphanResult, HandleSuccess, HandleFailure, UpdateTask, ResultDone, EndResults, desk
<1>3. (\E c \in Callers : Call(c)) \/ WwwJob => UNCHANGED cards
  BY WwwKeepsServer
<1>4. Breakdown \/ UNCHANGED vars => UNCHANGED cards
  BY DEF Breakdown, FinishThrows, HandlingBreaks, ResultThrows, Crash, vars, desk
<1> QED
  BY <1>1, <1>2, <1>3, <1>4 DEF Next

(* What a review protects is kept by every step.                           *)
LEMMA ReviewNext ==
  ASSUME ReviewInv, [Next]_vars
  PROVE  ReviewInv'
<1>a. Common /\ DeskShapes /\ Common'
  BY CommonNext DEF ReviewInv, Common, Shapes
<1>b. SUFFICES SubmittedAfterReview' /\ HandledAfterReview' /\ InHandAfterReview'
  BY <1>a DEF ReviewInv
<1>c. \A k \in DOMAIN tasks : tasks[k] \in Task
  BY <1>a DEF DeskShapes
<1>d. UNCHANGED <<tasks, approved, records>> /\ (job'.at \notin InHand \/ job' = job)
        => SubmittedAfterReview' /\ HandledAfterReview' /\ InHandAfterReview'
  BY ReviewRecords
<1>1. CASE (\E c \in Callers : Call(c)) \/ WwwJob
  BY <1>1, <1>d, WwwKeepsServer
<1>2. CASE Desk
  <2>1. ASSUME NEW tid \in Tids \cup {None}, NEW veh \in Vehicles, NEW type \in TaskTypes,
               NEW st \in {"PENDING", "SUBMIT"}, CreateTask(tid, veh, type, st),
               \/ tid = None
               \/ st = "PENDING"
               \/ type = "ANNUAL_INSPECTION"
        PROVE  SubmittedAfterReview' /\ HandledAfterReview' /\ InHandAfterReview'
    <3>1. /\ TasksKept /\ UNCHANGED <<records, job, approved>>
          /\ \A k \in DOMAIN tasks : k \in DOMAIN tasks' /\ tasks'[k] = tasks[k]
          /\ \A k \in DOMAIN tasks' : k \in DOMAIN tasks \/ tasks'[k] = NewTask(tid, veh, type, st)
      BY <1>a, <2>1, CreateTaskAppends
    <3>2. \A k \in DOMAIN tasks' :
            \/ k \in DOMAIN tasks /\ tasks'[k] = tasks[k]
            \/ ~ (tasks'[k].st = "SUBMIT" /\ tasks'[k].tid # None /\ Reviewed(tasks'[k].type))
      BY <2>1, <3>1 DEF NewTask, Reviewed
    <3> QED
      BY <3>1, <3>2, ReviewTasks
  <2>2. ASSUME NEW k \in DOMAIN tasks, Review(k), TasksKept, DOMAIN tasks' = DOMAIN tasks,
               \A j \in DOMAIN tasks :
                 tasks'[j] = IF j = k THEN [tasks[k] EXCEPT !.st = "SUBMIT"] ELSE tasks[j]
        PROVE  SubmittedAfterReview' /\ HandledAfterReview' /\ InHandAfterReview'
    <3>1. approved' = approved \cup {k} /\ UNCHANGED <<records, job>>
      BY <2>2 DEF Review
    <3> QED
      BY <2>2, <3>1, ReviewTasks
  <2>3. ASSUME NEW k \in DOMAIN tasks, BeginCancel(k)
        PROVE  SubmittedAfterReview' /\ HandledAfterReview' /\ InHandAfterReview'
    <3>1. /\ \A x \in records' : \E y \in records : x.task = y.task
          /\ UNCHANGED <<tasks, job, approved>>
      BY <1>a, <2>3, RecordsEnd DEF BeginCancel, history
    <3> QED
      BY <3>1, ReviewRecords
  <2>4. ASSUME EndCancel, TasksKept, DOMAIN tasks' = DOMAIN tasks, cancelling \in DOMAIN tasks,
               \A j \in DOMAIN tasks :
                 tasks'[j] = IF j = cancelling THEN [tasks[j] EXCEPT !.st = "CANCEL"] ELSE tasks[j]
        PROVE  SubmittedAfterReview' /\ HandledAfterReview' /\ InHandAfterReview'
    <3>1. UNCHANGED <<records, job, approved>>
      BY <2>4 DEF EndCancel, history
    <3>2. tasks'[cancelling].st = "CANCEL"
      BY <1>c, <2>4 DEF Task
    <3> QED
      BY <2>4, <3>1, <3>2, ReviewTasks
  <2> QED
    BY <1>2, <1>a, <2>1, <2>2, <2>3, <2>4, DeskTasks
<1>3. ASSUME NEW f \in toServer, ServerReceive(f)
      PROVE  SubmittedAfterReview' /\ HandledAfterReview' /\ InHandAfterReview'
  <2>1. UNCHANGED <<tasks, approved, records>> /\ job'.at = "fetch"
    BY <1>3 DEF ServerReceive, desk, history, AtFetch
  <2> QED
    BY <1>d, <2>1 DEF InHand
<1>4. CASE StartRequests \/ StartResults \/ EndResults \/ Crash
  <2>1. UNCHANGED <<tasks, approved, records>>
    BY <1>4 DEF StartRequests, StartResults, EndResults, Crash, desk, jobKeeps, history
  <2>2. job'.at \in {"fetch", "handle", "results"}
    BY <1>4 DEF StartRequests, StartResults, EndResults, Crash, AtFetch
  <2> QED
    BY <1>d, <2>1, <2>2 DEF InHand
<1>5. ASSUME NEW r \in RequestNos,
             HandleReviewed(r) \/ VehicleNotFound(r) \/ HandleRefused(r) \/ HandleFetched(r)
      PROVE  SubmittedAfterReview' /\ HandledAfterReview' /\ InHandAfterReview'
  <2>1. UNCHANGED <<records, approved>> /\ sReq[r].tid # None
    BY <1>5, <1>a, HandleOutcome, RequestAssumption
  <2>2. CASE FailRequest(r) /\ UNCHANGED tasks
    <3>1. job'.at = "handle"
      BY <2>2 DEF FailRequest, Finish
    <3> QED
      BY <1>d, <2>1, <2>2, <3>1 DEF InHand
  <2>3. ASSUME NEW veh \in Vehicles, NEW k \in 0 .. MaxTasks, GoOn(r, veh, k), TasksKept,
               \A j \in DOMAIN tasks : j \in DOMAIN tasks' /\ tasks'[j] = tasks[j],
               \A j \in DOMAIN tasks' : j \in DOMAIN tasks \/ (j = k /\ tasks'[k].type = "NEW"),
               k # 0 => /\ k \in DOMAIN tasks' /\ tasks'[k].st = "SUBMIT"
                        /\ tasks'[k].type = sReq[r].type
                        /\ k \notin DOMAIN tasks \/ NamesCard(sReq[r].type) => tasks'[k].tid = sReq[r].tid
        PROVE  SubmittedAfterReview' /\ HandledAfterReview' /\ InHandAfterReview'
    <3>1. SubmittedAfterReview' /\ HandledAfterReview'
      BY <2>1, <2>3, ReviewTasks DEF Reviewed
    <3>2. k # 0 /\ Reviewed(tasks'[k].type) => tasks'[k].tid = sReq[r].tid
      BY <2>3 DEF Reviewed, NamesCard, ReviewedTypes
    <3>3. job'.task = k
      BY <2>3 DEF GoOn
    <3> QED
      BY <2>1, <2>3, <3>1, <3>2, <3>3 DEF SubmittedAfterReview, InHandAfterReview
  <2> QED
    BY <1>5, <1>a, <2>2, <2>3, HandleOutcome
<1>6. CASE HandleCard
  <2>1. /\ UNCHANGED <<tasks, approved>> /\ job.at \in InHand
        /\ \A x \in records' : \E y \in records : x.task = y.task
    BY <1>6, <1>a, CardOutcome DEF HandleCard, history, InHand
  <2>2. job'.at = "handle" \/ job'.task = job.task
    <3>1. FailRequest(job.req) => job'.at = "handle"
      BY DEF FailRequest, Finish
    <3> QED
      BY <1>6, <1>a, <2>1, <3>1, CardOutcome, StepsOn
  <2> QED
    BY <2>1, <2>2, ReviewRecords DEF InHand
<1>7. CASE HandleRecord
  <2>1. /\ UNCHANGED <<tasks, approved>> /\ job.at \in InHand /\ job.task # 0
        /\ job' = [job EXCEPT !.at = "finish"]
        /\ records' = records \cup {[tid |-> sReq[job.req].tid, veh |-> job.veh, task |-> job.task,
                                     st |-> "IN_PROGRESS"]}
    BY <1>7 DEF HandleRecord, history, InHand
  <2>2. job'.at = "finish" /\ job'.task = job.task
    BY <1>a, <2>1, StepsOn
  <2>3. SubmittedAfterReview' /\ InHandAfterReview'
    BY <2>1, <2>2 DEF ReviewInv, SubmittedAfterReview, InHandAfterReview
  <2>4. HandledAfterReview'
    BY <2>1 DEF ReviewInv, HandledAfterReview, InHandAfterReview, Reviewed
  <2> QED
    BY <2>3, <2>4
<1>8. CASE HandleFinish
  <2>1. UNCHANGED <<tasks, approved, records>> /\ job'.at = "handle"
    BY <1>8 DEF HandleFinish, desk, history, Finish
  <2> QED
    BY <1>d, <2>1 DEF InHand
<1>9. ASSUME NEW e \in sExt, HandleOrphanResult(e) \/ HandleSuccess(e) \/ HandleFailure(e)
      PROVE  SubmittedAfterReview' /\ HandledAfterReview' /\ InHandAfterReview'
  <2>1. UNCHANGED <<tasks, approved>>
    BY <1>9 DEF HandleOrphanResult, HandleSuccess, HandleFailure, desk, resultKeeps, history
  <2>2. \A x \in records' : \E y \in records : x.task = y.task
    <3>1. \/ records' = records
          \/ \E st \in {"SUCCESS", "FAIL"} : SetRecords({x \in records : x.task = sReq[e.req].task}, st)
      BY <1>9 DEF HandleOrphanResult, HandleSuccess, HandleFailure, desk
    <3> QED
      BY <1>a, <3>1, RecordsEnd
  <2>3. job'.at \notin InHand
    <3>1. CASE HandleOrphanResult(e)
      <4>1. job \in ResultsJobs
        BY <3>1, <1>a, JobTypes DEF HandleOrphanResult, Common, Shapes, ServerShapes
      <4> QED
        BY <3>1, <4>1 DEF HandleOrphanResult, ResultsJobs, InHand
    <3>2. CASE HandleSuccess(e) \/ HandleFailure(e)
      BY <3>2 DEF HandleSuccess, HandleFailure, GoBind, InHand
    <3> QED
      BY <1>9, <3>1, <3>2
  <2> QED
    BY <2>1, <2>2, <2>3, ReviewRecords
<1>10. CASE BindCard \/ UpdateTask \/ ResultDone
  <2>1. UNCHANGED <<approved, records>>
    BY <1>10 DEF BindCard, UpdateTask, ResultDone, desk, resultKeeps, history
  <2>2. job'.at \notin InHand
    BY <1>10, <1>a, StepsOn DEF BindCard, UpdateTask, ResultDone, InHand, InResult
  <2>3. CASE UNCHANGED tasks
    BY <1>d, <2>1, <2>2, <2>3
  <2>4. CASE UpdateTask
    <3> DEFINE k == sReq[job.ext.req].task
    <3>1. tasks' = [tasks EXCEPT ![k] = job.task] /\ job.at = "task"
      BY <2>4 DEF UpdateTask
    <3>2. /\ k # 0 /\ k \in DOMAIN tasks /\ job.task \in Task
          /\ job.task.veh = tasks[k].veh /\ job.task.type = tasks[k].type
          /\ NamesCard(job.task.type) => job.task.tid = tasks[k].tid
          /\ job.task.st \in {"DONE", "CANCEL"}
      BY <1>a, <3>1, InResultTypes DEF InResult, Common, JobFits
    <3>3. TasksKept /\ DOMAIN tasks' = DOMAIN tasks
      BY <1>a, <3>1, <3>2, TaskUpdated
    <3>4. \A j \in DOMAIN tasks : tasks'[j] = tasks[j] \/ tasks'[j].st # "SUBMIT"
      BY <3>1, <3>2
    <3>5. SubmittedAfterReview' /\ HandledAfterReview'
      BY <2>1, <3>3, <3>4, ReviewTasks
    <3> QED
      BY <2>2, <3>5 DEF InHandAfterReview
  <2> QED
    BY <1>10, <2>3, <2>4 DEF BindCard, ResultDone, desk
<1>11. CASE Broken
  <2>1. /\ UNCHANGED <<tasks, approved>> /\ job'.at \notin InHand
        /\ \A x \in records' : \E y \in records : x.task = y.task
    BY <1>11, <1>a, BrokenOff DEF InHand
  <2> QED
    BY <2>1, ReviewRecords
<1>12. CASE UNCHANGED vars
  BY <1>12, <1>d DEF vars, desk, history
<1> QED
  BY <1>1, <1>2, <1>3, <1>4, <1>5, <1>6, <1>7, <1>8, <1>9, <1>10, <1>11, <1>12
     DEF Next, ServerJob, Breakdown, Broken

(* It is true in every state.                                              *)
LEMMA ReviewAlways == Spec => []ReviewInv
<1>1. Init => SubmittedAfterReview /\ HandledAfterReview /\ InHandAfterReview
  BY DEF Init, SubmittedAfterReview, HandledAfterReview, InHandAfterReview, InHand
<1>2. Init => ReviewInv
  BY <1>1, CommonInit DEF ReviewInv
<1> QED
  BY <1>2, ReviewNext, PTL DEF Spec

(* A request to change a card or its binding is handled only when its task *)
(* passed the review, whichever way clerks, readers and the job interleave.*)
THEOREM ReviewedFirst == Spec => []HandledAfterReview
<1>1. ReviewInv => HandledAfterReview
  BY DEF ReviewInv
<1> QED
  BY <1>1, ReviewAlways, PTL

(* A card is put out of use only for a change of the vehicle's card that a *)
(* reviewer approved.                                                      *)
THEOREM OnlyApproved == Spec => OnlyApprovedChangeDisables
<1> DEFINE Kept ==
      \A t \in Tids : cards[t].st # cards'[t].st =>
        \E k \in approved : tasks[k].type = "CHANGE" /\ tasks[k].veh = cards[t].veh
<1>1. ASSUME ReviewInv, [Next]_vars PROVE [Kept]_vars
  <2>a. Common /\ DeskShapes /\ cards \in [Tids -> [st : {"AVAILABLE", "DISABLED"}, veh : Vehicles \cup {None}]]
    BY <1>1 DEF ReviewInv, Common, Shapes, DeskShapes
  <2>1. CASE HandleCard
    <3>1. ASSUME NEW t \in Tids, cards[t].st # cards'[t].st
          PROVE  \E k \in approved : tasks[k].type = "CHANGE" /\ tasks[k].veh = cards[t].veh
      <4>1. TypeOfTask(job.task) = "CHANGE" /\ cards[t].veh = job.veh
        BY <2>1, <2>a, <3>1, CardOutcome
      <4>2. job.task # 0 /\ tasks[job.task].type = "CHANGE"
        BY <4>1, RequestAssumption DEF TypeOfTask, TaskTypes
      <4>3. job.at \in InHand
        BY <2>1 DEF HandleCard, InHand
      <4>4. job.task \in approved /\ tasks[job.task].veh = job.veh
        BY <1>1, <2>a, <4>2, <4>3 DEF ReviewInv, InHandAfterReview, Reviewed, Common, JobFits
      <4> QED
        BY <4>1, <4>2, <4>4
    <3> QED
      BY <3>1
  <2>2. CASE BindCard
    BY <2>2, <2>a DEF BindCard
  <2>3. CASE UNCHANGED cards
    BY <2>3
  <2>4. HandleCard \/ BindCard \/ UNCHANGED cards
    BY <1>1, CardsKept
  <2> QED
    BY <2>1, <2>2, <2>3, <2>4
<1> QED
  BY <1>1, ReviewAlways, PTL DEF Spec, OnlyApprovedChangeDisables

=============================================================================
