# Verification of the electronic vehicle identification system (rmweb)

rmweb manages the cards (RFID tags) that identify vehicles: it initialises and
stores them, orders and issues them, and *personalises* them, that is, writes a
vehicle's data on a card and records which vehicle the card is bound to.  The
same program runs at two sites that have no network connection:

- the **server** site in the police network, with the clerks' desk, the vehicle
  database and the key service;
- the **www** site in the internet, with the end points that handheld readers
  call.

Rows of a few tables are copied between the two databases as files (or as rows
of an exchange table) that an external *ferry* program carries across.

Paths below are relative to `src/`; `impl/` stands for
`Tsrc_rfid/com/tmri/rfid/service/impl/`, `rfid/` for `Tsrc_rfid/com/tmri/rfid/`.

## 1. Inventory

| Component | Code | State | Operations | What makes it correct | Here |
|---|---|---|---|---|---|
| Data exchange | `impl/ExchangeServiceImpl`, `rfid/task/DataPassTask`, `rfid/util/MyConstantUtils` | folders out/ and in/, the operation log's failures | saveData, fetchData, dealData, updateFlag | no file is lost unnoticed, copies converge, no old value over a newer one, every file leaves | `DataExchange`, `Replica` |
| Exchange table | `impl/GAServiceImpl`, `impl/ZWServiceImpl` | rows with a flag | the same, type DB; long rows are cut in pieces | the same | mode `"DB"` of `DataExchange`; pieces are not modelled |
| Customize requests, www | `rfid/endpoints/CustomizeRequestEndPoint`, `impl/CustomizeRequestServiceImpl`, `impl/EriCustomizeDataServiceImpl`, `impl/ExternalRequestServiceImpl` | request rows, data to write, failed writes | create, customize, customize-result | one active request a card; every request is answered; a result is kept | `CustomizeRequest` |
| Customize requests, server | `rfid/task/CustomizeRequestTask`, `rfid/task/ExternalRequestTask`, `impl/CustomizeRequestServiceImpl.handle`, `impl/CustomizeResultHandler` | copies of the requests, results, records, cards | handle, execute | a vehicle is bound only to the card written with it; one usable card a vehicle | `CustomizeRequest` |
| Customize tasks | `impl/CustomizeTaskServiceImpl`, `rfid/ctrl/CustomizeTaskCtrl` | tasks | create, createChange, createModify, createAnnualInspection, review, cancel, fetch | nothing that needs a review happens without one | `CustomizeRequest`, in part |
| Personalisation at the desk | `web/WEB-INF/jsp_core/rfid/customize/customizeEdit.jsp`, `rfid/endpoints/EriEndPoint`, `impl/EriServiceImpl` | what the page shows and waits for, the reader's commands and answers, tasks, records, cards | check, query, write, upload, reset | only what was written and read back is bound; a vehicle has one card | `Desk`, `CardBinding` |
| Content of a card | `EriServiceImpl.calculateVehicleInfo`, `rfid/util/EriUtil`, `web/rmjs/eri.js`, `checkContent` of the page | none | pack, unpack, compare | what is packed is unpacked and recognised; another plate is not | `CardContent` |
| Initialisation, production | `impl/ProductionTaskServiceImpl`, `EriServiceImpl.factoryInitialize` | cards, boxes, tasks | start, initialise, report, finish | a produced box is full; a number has one usable card | `CardStock` |
| Warehouses and issue notes | `impl/*WarehouseServiceImpl`, `impl/InventoryServiceImpl`, their controllers | where a box is, notes | store, scan, issue, examine | a box leaves only by the approval of a note that lists it | `CardStock` |
| Orders, applications, materials | `impl/*ApplyServiceImpl`, `impl/OrderApplicationServiceImpl` | forms | save, examine | no more is issued than ordered (only the page looks) | not modelled |
| Scrapping, unbinding, pasting | `impl/EriScrapServiceImpl`, `impl/EriUnbindServiceImpl`, `impl/EriPastedServiceImpl` | forms, one card each | apply, approve | a scrapped card is not bound | not modelled |
| Readers | `impl/DeviceRegistrationHandler`, `impl/EriReaderWriterServiceImpl`, `impl/EriReaderWriterActivationServiceImpl` | readers, activations | register, activate, report, reset | a result ends the activation it is about | not modelled |
| Encryptor indexes | `impl/EncryptorIndexServiceImpl`, `EriServiceImpl.generateCipher...` | two pools, in each server's memory and in a table | fetch, lock, occupy, release | no index is used by two sessions; rows are given back, but for those a fault mislays | `EncryptorIndex`, `IndexAllocator` |
| Key service | `impl/KMSServiceImpl`, native library | none | compute keys, sign | external | not modelled |
| Serial numbers, bit packing | `rfid/util/EriUtil`, `CRC8`, `BinaryUtil` | two static counters | generateUniqueSerialNo, encoders | numbers differ | packing in `CardContent` |
| Vehicles | `impl/VehicleServiceImpl`, `impl/RemoteVehicleServiceImpl` | copies of vehicle rows | synchronize | remote service | taken as given |
| The rest | batch tasks, certificates, statistics, login, `Tsrc_frm`, `web/` | | | single statements, presentation, a general framework | not modelled |

**Interactions.** Components of one site call each other directly and share one
Oracle database.  Web threads run concurrently with one another and with one
scheduled job (`dataExchange-server.xml`, `dataExchange-www.xml`: Quartz,
`concurrent = false`).  Sites interact through the exchange only.  At the server
the job runs, after each batch of files, `CustomizeRequestTask` and then
`ExternalRequestTask`; at www no trigger tasks are configured
(`Tsrc_rfid_resources/dataExchange-www.xml:21-26` are commented out).

**Transactions.** There is no `annotation-driven` transaction manager: the name
patterns of `web/WEB-INF/configuration/appCoreContext.xml:49-86` decide, so
`updateCustomizeResult` and `saveCustomizeResult` are transactions while
`handle`, `finish`, `create` and `execute` commit statement by statement,
although `handle` is annotated.  This decides where the models cut actions.

**What is hard.** Two sites see each other's rows late, in any order and more
than once; web threads and the job interleave; the job may stop between any two
statements, each of which may throw, those that handle exceptions included; failures are
counted across runs.  `PROJECT.json` lists each hazard
at its line with the properties that cover it.

## 2. Modules

`Replica` is the abstract specification of what the exchange promises: rows are
published as versions, a version may be merged in any order and repeatedly, and
leaves the exchange only after it was merged or given up, or with a failure that loses it.  A failure
may also part a row from its version: the row changes and none is published, or one is
published and the row stays.

`DataExchange` is one direction of the exchange in detail.

| Action | Code |
|---|---|
| `SaveData` | `saveData`, `saveDataAsFile`, `saveDataByFTP`: the row is committed and its file written |
| `SaveDataFails` | the row is committed and its file not written: an exception that folders throw and FTP swallows |
| `SaveRolledBack` | the file is written inside a transaction that is rolled back (`updateCustomizeResult`) |
| `Carry`, `BeginCarry`/`EndCarry` | the ferry (external); the pair is a ferry that shows a file while it is still writing it |
| `FetchData` | `fetchData`: read the whole folder; files still being written cannot be parsed and are deleted; over FTP all are |
| `FetchDataFails` | reading some whole files throws: the `catch` deletes them too, or fails to; over FTP the server refuses to delete some |
| `DealData`, `DealDataFails`, `DealDataLogFails` | one turn of `dealData`'s loop, with its outcomes |
| `UpdateFlag`, `UpdateFlagFails` | `updateFlag`, file by file |
| `TriggerTasks`, `Crash` | end of the run; stop at any point of it |

A row is a function from columns to the number of the save that gave the column
its value, 0 for null.  Since `dealData` writes only columns that are not null, a
file is a set of columns.  Histories: `unread`, the files `fetchData` deleted unread; `parted`, the rows whose last save
stopped half way; `overlapped`, the rows of which two files were under way together.  A file's `no` is its serial number; distinct numbers
in the order of saves are assumed.  The exchange table's flag is set for all rows by one
statement; `UpdateFlag` one by one allows that and more.

`CustomizeRequest` is the life of a request over both sites, with the exchange
abstracted to two sets of files that are delivered in any order; `redelivery`
is the case, shown by `DataExchange`, of a file merged and not deleted.

| Part | Actions | Code |
|---|---|---|
| www, each thread | `CallCreate`, `CancelReplaced`, `CheckNoActive`, `InsertRequest` | `method=create` and `create`, cut between the query and the insert |
| | `Customize`, `LeaveCall` | `method=customize`; the reader writes the card or goes away |
| | `CallCancel`, `CheckRequestStatus`, `ApplyResult` | `method=customize-result`, cut between the check and the update |
| | `CallBreaks` | an exception or a stop inside a call: a request inserted and not sent, a result sent and rolled back |
| desk | `SaveCustomize`, `CreateChange`, `CreateModify`, `CreateAnnualInspection`, `Review`, `BeginCancel`, `EndCancel` | `CustomizeTaskCtrl` and `CustomizeTaskServiceImpl`; cancelling is two transactions |
| server job | `ServerReceive`, `StartRequests`, `HandleReviewed`, `VehicleNotFound`, `HandleRefused`, `HandleFetched`, `HandleCard`, `HandleRecord`, `HandleFinish` | `DataPassTask`, `CustomizeRequestTask`, `handle` in the order of its statements |
| | `HandleThrows`, `FinishThrows` | an exception inside `handle` or its `finish`, which the `catch` of `CustomizeRequestTask` answers with FAIL |
| | `HandlingBreaks` | that `catch` throws too, or the server stops inside it or `finish`: the run ends, with a row perhaps committed and not sent |
| | `StartResults`, `HandleOrphanResult`, `HandleSuccess`, `HandleFailure`, `BindCard`, `UpdateTask`, `ResultDone`, `EndResults` | `ExternalRequestTask`, `CustomizeResultHandler.execute`, one action per committed statement |
| | `ResultThrows` | an exception between any two of these, which `ExternalRequestTask` logs before it goes on |
| both | `WwwReceive`, `Crash` | the merge at www; the server process stops, or the query a task begins with throws |

Abstractions of `CustomizeRequest`, each with its reason:

- The age of a request (5 minutes, 12 hours) only decides whether `create`
  replaces the active one; the model lets it choose.
- Status FETCHING is declared but never set.  Of the eight types, SUPPLY is
  handled as NEW, TRANSFER as the reviewed ones; PRE_CUSTOMIZE and
  MODIFY_PASSWORD do not come this way.
- A card has one set of data per request instead of one per security module.
- A request's insert and its file, and `finish`'s update and its files, are one
  step each when nothing fails; `CallBreaks`, `FinishThrows` and `HandlingBreaks` are the steps in which only a
  part of them happens.  `updateCustomizeResult` is one transaction, whose files `CallBreaks` may leave behind.
- A desk operation's check and insert are one step; two clerks racing is a
  listed hazard, and the states it leads to (two tasks for one card) arise
  in other ways.
- `written`, `approved`, `refused`, `cutOff` are history: what readers wrote, what a
  reviewer approved, which refusals named another vehicle, and which requests lost half a step for good
  (committed and not sent, or a record without its card).
- The external request's row that comes back to www (`saveData` at the end of
  `execute`) is read by nobody and left out.

`EncryptorIndex` is the pools of encryptor indexes and the sessions that use
them.  An action is a stretch of one thread between two accesses to what threads
share: the two maps of a server's memory, built without a lock, and the table.

| Action | Code |
|---|---|
| `Begin`, `NewStatus`, `CheckLists`, `NewLists` | the start of `fetch`: the null checks and the assignments behind them |
| `GetList`, `PutList`, `FillList` | the list of a pool, empty between `put` and the query; the random pick is any |
| `LoadIndex` (in `Pick`) | `loadIndex`, synchronized; failures recurse into `fetch` a bounded number of times |
| `Lock`, `Occupy` | `select ... for update nowait` in a transaction of its own, then the update that asks for `zt = 1` |
| `Release`, `ClearRow`, `EndSession` | the `finally` blocks of `EriServiceImpl` and `release`: memory first, then the row |
| `FetchFails` | a statement of `fetch` throws: the `finally` block starts; a list that was to be filled stays empty, an index to be locked stays marked |
| `ClearRowFails` | the update of `release` throws: the row stays OCCUPIED and the session ends without its second release |
| `Crash` | a server stops: its memory and sessions are gone, the table stays |

`mislaid` is history: the rows owned by a session that `ClearRowFails` or `Crash` ended.  Of the five `finally` blocks two release an index that is not null and three one
that is greater than 0 (`LeastReleased` is 0 or 1); the run has the first kind.
The work done with the indexes, and its exceptions, share nothing else.

`IndexAllocator` is the abstract specification of what the pools promise, whatever memory,
rows and waits implement it: an index goes to a user only while nobody has it, comes back from the user
who has it, and is lost for good only with a fault: a server that stops or a statement that throws.  `EncryptorIndex` implements it.

`CardStock` follows boxes of cards from the first initialised card to the shelf
of the corps.

| Part | Actions | Code |
|---|---|---|
| Stations | `StartTask`, `FactoryInitialize`, `ReadCard`, `WriteRow`, `CreateRecord`, `SetProducing` | `factoryInitialize`, one action per statement, since no pattern makes it a transaction |
| | `Report`, `FinishSubTask`, `SetProduced`, `FinishTask` | `saveFactoryInitializeResult` (a transaction), the two `finish` calls |
| | `Break` | a call fails or is cut off between any two statements |
| Clerks | `ScanIn`, `InventoryIn`, `ScanCorps`, `InventoryInCorps` | forms of boxes, checked when scanned and not when saved |
| | `ScanOut`, `SaveExWarehouse`, `Examine`, `InventoryOutByCkdh`, `ExamineBreaks` | issue notes; the status and the boxes are two transactions |

One station works at a box, one call at a time, with a number the page shows as
free: two stations at one box are left out, as are `delExWarehouse`, which no
page calls, and cases of boxes.  `examine` does not look at a note's status and the page shows its buttons in
every status, so that `Examine` may approve a note again or refuse an approved one; several
examiners (`Examiners`) do so at the same time.  The history `approved` is the notes that were approved once.
The status written by `inventoryInCorps` is the
literal 6 of the code, which the enumeration calls CANCEL and not STOREDCORPS (9).

`CardContent` has what the three pieces of code make of a card's 19 bytes of
content: `CalculateVehicleInfo` packs it (Java), `Parse` unpacks it (`eri.js`), `Translate`, `Show`
and `CheckContent` are the page.  A long is the set of its ones, so 40-bit
values, JavaScript's 32-bit shifts and Java's sign extension are spelled out.
`ValueOf` is the number that digits stand for and `Quotients` drops its last digits one by one;
with them both the fields (base 2) and the plates (base `Radix`) are written and read.  They are
recursive functions and not RECURSIVE operators, so that they can be proved about.
Kind of plate, usage and type of vehicle are codes, and a card has the number of a code (`Packed`, column dmz2), which
several codes may share.  The page's tables join the names of the codes of one number with a slash: `Entry` is
the set of these codes, judged a bus by the first of them (`IsBus`), and `KindsAgree` asks whether the vehicle's name
occurs in the joined names, that is, in one of them (`Within`): the tables' rows are data that the repository does not have, and
the model takes their names to be free of slashes and their colours to have a number each.
`Rows` are the vehicles whose codes have the widths that the code shifts by.
`Encodable` names what the layout has room for; outside of it (a vehicle made
before 1990, 1024 seats, a bus whose number is first taken by another type, ...) nothing is promised.

`Desk` composes it with the page, the reader, the clerk and the server:

| Part | Actions | Code |
|---|---|---|
| Clerk | `TypeIn`, `PutCard`, `Query`, `Decline`, `Continue`, `Reload` | what a person can do while no dialog covers the page |
| Reader (external) | `ReaderSelects`, `ReaderWrites` | the ActiveX control: answers in order, maybe late, maybe a failure |
| Page | `NoResponse`, `CardChecked`, `CardWritten`, `WriteCard` | `getResponse` and the callbacks for codes 1001 and 1002 |
| Server calls | `CheckCardStatus`, `ResetTask`, `FetchData`, `UploadSuccess`, `UploadFailure` | `EriEndPoint`, `CustomizeTaskEndPoint`, `customize`, `saveCustomizeResult` |

Its abstractions: each call of the server is one step and there is one desk; of
the types of business, NEW and MODIFY, and all tasks of a setting have the page's
type; the TID in an answer to a write is not compared by the page, nor here; a
reload loses answers and commands, though a write under way may still happen; a
date's text is taken to be `yyyy-M-d`.  The page gives up an answer after five seconds;
how many answers can be late at a time is a property of the reader, and a setting's `late`
says so.  In the runs a plate is written with digits of `Radix`
10 instead of 36, which keeps numbers within TLC's integers; the proofs are for every radix up to 36.
A card's sequence number is below 2^28 (`DeskAssumption`), as long as a province
counts its cards from 1 and has fewer than 268 million; section 5 says what happens above.

`CardBinding` is the abstract specification of personalising: a plate is written on a card, and a card may
be bound to the plate that it holds at that moment if no other card is bound to it.  `Desk` implements it; nothing of
tasks, records, commands, answers or the page is left in it.

The `MC` modules give model values, settings and symmetry.
Operators headed "Wrong variant" or "Variant" are not part of a model: each is a
plausible bug, and replacing the definition that follows it by the variant must
break the property `PROJECT.json` names.

## 3. Runs

| Run | Properties | Bounds and why they are enough |
|---|---|---|
| `DataExchangeFile` | `TypeOK`, `HandledBeforeGone`, `Converged`, `NoStaleOverwrite`, `KeepsPromise` | 1 row (rows share only the folders, and the columns are symmetric), 2 columns, 3 saves: two files of a row in a batch and one after; 4 failures, as many as give a file up. Also checked by hand with 2 rows (4.6M states) |
| `DataExchangeFtp` | `NoStaleOverwrite` | 2 rows, 2 columns, 3 saves, pieces of files, 1 failure |
| `DataExchangeLive` | `EveryFileLeaves` | 1 row, 3 saves, 4 failures |
| `CustomizeRequestNew` | `BoundImpliesWritten`, `OneCardPerVehicle` | 2 cards, 1 vehicle, 2 requests: the second may replace or compete with the first |
| `CustomizeRequestTrouble` | `BoundImpliesWritten`, `OnlyModifyRebinds` | 1 card, 2 vehicles, 2 requests, one crash, repeated file or exception at any statement |
| `CustomizeRequestReviewed` | `HandledAfterReview`, `OnlyModifyRebinds`, `OnlyApprovedChangeDisables` | 2 cards (one bound), 2 vehicles, 2 requests, 2 tasks |
| `CustomizeRequestDesk` | `TypeOK`, `BoundImpliesWritten`, `OnlyApprovedChangeDisables` | no automatic tasks; clerks create and cancel 2 tasks; a failed write may be tried again |
| `CustomizeRequestLive` | `WrittenIsBound`, `EveryRequestAnswered` | 2 cards, 2 requests, failed writes, one exception or stop at any statement; 3 tasks, one more than 2 requests can need |
| `EncryptorIndexPool` | `TypeOK`, `Exclusive`, `NoRowLeaks`, `EverySessionEnds`, `KeepsPromise` | 2 servers, 3 threads (two share a memory), one index a pool so that everyone contends for it, one restart or statement that throws. Also checked by hand with two faults, safety only (1.8M states) |
| `CardStock` | `TypeOK`, `ProducedIsFull`, `OneCardPerNumber`, `ReportIsAccepted`, `FinishedIsFull`, `OutIsApproved` | 2 boxes of 2 tasks with 2 cards each, 3 cards so that one must move between the boxes, one note, two examiners who decide as often as they like; cards are symmetric |
| `Desk` | `TypeOK`, `BoundIsReadBack`, `OneCardPerVehicle`, `NumberReadBack`, `GoodCardPasses`, `WrongVehicleRefused`, `BoundAsShown`, `KeepsPromise` | 2 cards, 2 vehicles. One NEW setting with 6 commands and 2 answers late at a time, one MODIFY with 6 and 1, and one of 3 commands for each unusual vehicle; these have every field at both sides of each of its edges, codes that share a number and names within one another. Also checked by hand: NEW with 8 commands and 2 late answers (12M states), NEW with 8 and MODIFY with 7 commands and 1 late answer (4.1M, 3.1M) |

One run shows a disagreement between the code and what it says:

| Run | Violated | Why |
|---|---|---|
| `CustomizeRequestLongIds` | `RefusedForOtherVehicle` | task numbers are compared as objects; `LongCache`, 127 in the Java runtime, is 0 here so that two tasks suffice |

Five more configurations demonstrate what the code does where a reader might hope
for more.  They are not in `PROJECT.json`: run each with
`tlc -config <name>.cfg <MC module>` and read the counterexample.

| Configuration | Violated | Why |
|---|---|---|
| `DataExchangeFtpLoss` | `GoneAfterFiveFailures` | over FTP a file is deleted when it is read, so a stop loses it at once; with folders it is given up after four failures, not five |
| `CustomizeRequestTwoCards` | `OneCardPerVehicle` | two tasks to change one card leave the vehicle with two |
| `CustomizeRequestTwoActive` | `OneActiveRequest` | two calls of `create` both look before either inserts |
| `CardStockTwoNotes` | `IssuedOnce` | a box is looked at when it is scanned only, so that two approved notes send it to two applicants |
| `DeskTwoLate` | `BoundIsReadBack` | with two answers late at a time and business MODIFY, the reading of an earlier write passes for that of a later one: `getResponse` (`customizeEdit.jsp:423-461`) takes any answer, and the texts still are the earlier vehicle's |

Further notes:

- The 4 of `GiveUp` is the code's.  `FailLimit`, 5 in the code, is 2 in `CustomizeRequestDesk` and 1 in
  the other runs: only "the last failure" and "not yet the last" matter.
- `CHECK_DEADLOCK FALSE`: the bounds on saves, requests, tasks and commands stop a
  model, and the system has nothing to do when nobody asks anything.
  `EncryptorIndexPool` checks for deadlock: sessions come again and again.
- `MaxSaves`, `MaxFaults`, `MaxRequests`, `MaxTasks` and a setting's
  `commands` are bounds on behaviours, not limits of the code.
  `MaxTimes` and `Capacity` are parameters of the code, `late` is one of the reader.

**Fairness.** `DataExchange`: weak fairness of the job's normal steps (`Run`),
because Quartz starts it for ever and never twice at a time, and of the ferry,
which is external.  Failures have no fairness.  `CustomizeRequest`: weak fairness of
both sites' jobs as wholes.  Readers and clerks owe nothing: a request that is
never written is no violation.  Exceptions and stops (`Breakdown`, `CallBreaks`) have no
fairness.  `EveryRequestAnswered` and `WrittenIsBound` are about requests that
reached the database; they hold through a fault at any statement, and say exactly what it costs: a
request that itself was committed and not sent, or whose record was and whose card was not (`cutOff`), is lost, while what a
broken run left over waits for the next, which only a new file starts (`Waiting`; `DataPassTask` returns
before its tasks when there is nothing to merge).  `WrittenIsBound` also excepts cards that were
requested more than once: the second request shares the first one's task, and the first
one's cancellation, handled late, ends that task.  `EncryptorIndex`: weak fairness of
each session once it has begun, because its thread is scheduled and every wait of
it is a sleep or a statement that does not wait for locks (`nowait`); requests
need not come and nothing need fail.  `CardStock` and `Desk` state no liveness: people
drive every step of them.

## 4. Proofs

`DataExchangeProofs` proves, for every value of the constants:

| Theorem | States | Assumption |
|---|---|---|
| `TypeCorrect` | `Spec => []TypeOK` | none |
| `NoFileLost` | `Spec => []HandledBeforeGone` | `KeepsFiles` |
| `NeverStale` | `Spec => NoStaleOverwrite` | none: every mode |
| `Converges` | `Spec => []Converged` | `KeepsFiles` |
| `Implements` | `Spec => KeepsPromise` | `KeepsFiles` |

`KeepsFiles` says that the mode is not FTP and that the ferry shows whole files
only; without it files are lost, as `DataExchangeFtpLoss` shows.  With it they are lost by a read
that fails, which `HandledBeforeGone` and `Converged` name (`unread`) and which is the one way in the code to
lose a file without a trace in the operation log.

The argument.  *Kept* (`KeptInv`): a file sent is in a folder, or handled, or deleted unread; the
files to delete are handled; a file read but not yet merged is still in its folder.
It is needed because `HandledBeforeGone` alone does not say that `post`
holds only handled files.  *Order* (`OrderInv`): in a row whose files never
overlapped, every unfinished file is at least as new as each value the reader
holds, so merging one, even again, never goes back: that is `NeverStale`.
*Newest* (`NewestInv`): the last save of such a row, unless it parted row and file, is merged, given up,
unread or still in a folder, and once merged its columns agree with the source; with
Kept this gives `Converges`.  *Number* (`NumberInv`): no two files have the
same number and none is in both folders, which the count of failures, kept by number, needs: giving one file up must not give up
another.  `Implements` maps `pending` to the files of both folders, `handled` to those merged or given up, and `lost` to those
deleted unread;
a step of the reader is a step of `Replica` or leaves its variables alone.

`EncryptorIndexProofs` proves, for any number of servers, threads, indexes, tries and faults:

| Theorem | States | Assumption |
|---|---|---|
| `TypeCorrect` | `Spec => []TypeOK` | none |
| `NeverShared` | `Spec => []Exclusive` | none |
| `NothingLeaks` | `Spec => []NoRowLeaks` | `LeastReleased` is at most every index |
| `Implements` | `Spec => KeepsPromise` | the same |

The argument.  The maps of the memory are built without a lock, so they promise
nothing; only the table does.  `OwnsOccupied` says that the row of an index that a
session uses or is giving back is OCCUPIED, and `OwnsAlone` that nobody else owns it:
a session gets a row only by the update that asks for AVAILABLE, and so one that no
session owns.  `Shapes` says what a thread has at each of its steps; in particular
a thread that fetches an index of a pool holds none of it, so that `Occupy`
does not write over one it would then never give back.  The assumption of
`NothingLeaks` is true of the two `finally` blocks that ask for `index != null` and,
where the table has an index 0, false of the three that ask for `index > 0`.

`NothingLeaks` says that what is OCCUPIED and owned by nobody is in `mislaid`: a session ends with an empty hand, but
for the two faults that end it early, and one whose `fetch` throws still gives back what it has.

`Implements` maps `users` to the threads that own an index, `lost` to the rows that
are OCCUPIED with no owner, and `faults` to the faults.  `Occupy` is a `Take`, `ClearRow` a
`GiveBack`, `Crash` a `Stop` of the server's threads, and every other step changes none of the three.

`CardStockProofs` proves, for any number of cards, boxes, tasks, notes and numbers in a box:

| Theorem | States |
|---|---|
| `TypeCorrect` | `Spec => []TypeOK` |
| `NumbersAreUnique` | `Spec => []OneCardPerNumber` |
| `ReportsAreAccepted` | `Spec => []ReportIsAccepted` |
| `BoxesAreFull` | `Spec => []ProducedIsFull` |
| `TasksAreFull` | `Spec => []FinishedIsFull` |
| `OutByNote` | `Spec => []OutIsApproved` |

Their only assumption is `StockAssumption`, by which cards and boxes are finitely many.  The
argument.  *Hands*: stations at work hold different cards, for numbers of their own boxes that no
usable card carries.  *Records*: between the statements of a call its card is not usable and has
exactly the records written so far, which is why a report finds one record however
earlier attempts were cut off.  From the two, a card becomes usable only with a number nobody
has (`OneCardPerNumber`), and only a card that is not usable changes, so that a full box stays
full.  A box is counted, not looked through: that as many usable cards as numbers fill it is
the pigeonhole principle, and needs `OneCardPerNumber` (`CountedIsFull`).  *FullInHand* carries
this to the forms and notes, which are checked when a box is scanned and not when they are
saved.  For `OutByNote`, a note whose boxes are about to leave was approved as it was saved, and a saved note keeps its list;
nothing is said of the note's status afterwards, which a refusal may change.

`CustomizeRequestProofs` and `CustomizeBindingProofs` prove, for any number of cards, vehicles,
requests, tasks, threads, crashes and faults:

| Theorem | States | Assumption |
|---|---|---|
| `TypeCorrect` | `Spec => []TypeOK` | none |
| `CommonAlways` | `Spec => []Common`, what the proofs below rest on | none |
| `ReviewedFirst` | `Spec => []HandledAfterReview` | none |
| `OnlyApproved` | `Spec => OnlyApprovedChangeDisables` | none |
| `CardsStayBound` | `Spec => OnlyModifyRebinds` | `NoCardlessTasks` |
| `OnlyWrittenBound` | `Spec => []BoundImpliesWritten` | `HandledOnce` |
| `OneCard` | `Spec => []OneCardPerVehicle` | `OneCardEach` |

The argument.  *Common* is what the two sites agree on, however late and however often they see
each other's rows, and wherever a handler breaks off (`BrokenOff`: what it leaves in a row or sends agrees with the request as it was made): every copy of a request has its card and type (`RowsAgree`), a task it names fits
it (`RowTasks`), the job at any statement has the request, card and task that its
checks let through (`JobFits`), and a record is of its task's vehicle (`RecordsFit`).  A result names only its request, and everything
else is looked up when it arrives; `Common` is why what is found then still is what was handled.
*Review* (`ReviewInv`): a task of a reviewed type that names a card is submitted only by the reviewer's
approval, and so the task that the job has in hand after `HandleReviewed` was approved.  *Stays* (`StaysInv`): a card has one record in
progress at most, and a record that does not rebind stands on a card that is free or already has
its vehicle, so that what `HandleCard` looked up is still true at `BindCard`.
*Written* (`WrittenInv`): all copies of a request's row agree on the vehicle of its task
(`OneVehicle`), since a request is new once only (`NewOnce`), so the data, the reader's write and the
later binding are of one vehicle.  *One card*
(`OneCardInv`): a vehicle with a new task under way has no card (`VehicleFree`), all records
that would give it one share a task (`OneNewTask`), and no record outlives its task (`NotOver`).

The assumptions exclude inputs of the model for which TLC, or reading its counterexamples, shows the
property false:

- `NoCardlessTasks`: clerks do not use `SaveCustomize`, which makes a task without a
  card.  Two cards' requests may share such a task; the late success of the first finds the other
  card's record and binds that card anew.
- `HandledOnce`: no file comes back, or no type of request needs a review (the others name
  their vehicle).  Otherwise a new request to modify may be handled a second time after its task
  was cancelled, get a task for another vehicle, and the result of the first round then binds that one.
- `OneCardEach`: no clerk cancels a task (readers may cancel and replace requests), no request changes or rebinds a card, tasks to inspect name
  their card, and vehicles had one card each.  A request that is handled between the
  two transactions of a cancellation leaves a record of a cancelled task, so a second task may give
  the vehicle a second card; two changes do as `CustomizeRequestTwoCards` shows.

`DeskProofs` proves, for any number of cards, vehicles, tasks and commands:

| Theorem | States | Assumption |
|---|---|---|
| `ShapesAlways` | `Spec => []Shapes`, what the proofs below rest on | none |
| `TypeCorrect` | `Spec => []TypeOK` | none |
| `OneCard` | `Spec => []OneCardPerVehicle` | none |
| `OnlyReadBackBound` | `Spec => []BoundIsReadBack` | `OneLate` |
| `BindsAsShown` | `Spec => BoundAsShown` | `OneLate`, `PlatesFit` |
| `Implements` | `Spec => KeepsPromise` | `OneLate` |

The argument.  *Shapes*: a page past the inventory has a card's TID and number, one past `fetchData`
the data of that card, and records name tasks of their vehicle.  `OneCard` needs that a task
with a record in progress is the only open one of its plate (`OpenTasksAlone`) and that no other card
has that plate (`PlateFree`); then the first success ends the task and with it all records that could
bind the vehicle elsewhere.  `OnlyReadBackBound` counts what may still come (`Pending`).  With one
late answer at a time, two are outstanding while the page waits, and the last of
them is that of its own command; since a write is sent only after an inventory was answered, no write is
then pending, and the one reading that can come is of what was just sent.  Any number of commands may be
given up.  `BindsAsShown` adds that a reading passes only with the plate shown.

`Implements` maps a card's memory and binding to the plates they are of.  What the reader writes, also while the
page is reloaded, is a `Write`, an upload of a success a `BindCard`, and every other step changes neither.  That the
card *still* holds what is bound is more than `OnlyReadBackBound` says and needs `HeldInv`: while the page waits for its
write, that write is the last command (`WriteIsLast`), so once its reading is there (`ReadIsHeld`), and until the
upload (`SuccessIsHeld`), no other write can come.

`OneLate` (at most one answer is late at a time) is needed: `DeskTwoLate` is the counterexample with two.
`PlatesFit` (a plate has four to six characters after the letter) is a hypothesis and not an assumption
of the module: a shorter plate comes back filled up with the first digit, and its card is refused
by the check; a longer one the layout has no room for.  That such plates come back from a card as shown (`PlatesReadBack`) follows from
`PlateOnCard` below.

`CardContentProofs` proves what is on a card, for every radix up to 36, every card number, every vehicle of `Rows` and every date of
personalising:

| Theorem | States | Assumption on the vehicle |
|---|---|---|
| `NumberOnCard`, `NumberOnBlankCard` | the number read from a card is the one packed, with a vehicle and without | none |
| `PlateOnCard` | the plate is read as packed; kind of plate, usage and type of vehicle as the codes with the packed numbers | 4 to 6 characters after the letter |
| `GoodCardAgrees` | every comparison of `checkContent` holds between a card and the texts of its vehicle | `Encodable` |

The argument.  The library's induction theorems cannot be used, but sets can be quantified over: a set of numbers that
has 0 and, with each number, the next one, has them all (`SetInduction`, from the well-foundedness of `<`).  With it,
`Quotients`, `ValueOf` and `Long` are shown to be what their recursive definitions say (`QuotientsDef`, `ValueOfDef`,
`LongDef`), digits are shown to come back from the number they stand for and numbers from their digits, to
any base, and a plate from its number, which uses that the numbers of shorter plates end where those of longer ones
begin (`PlateReadBack`).  `Fits(v, m)` says that v is a natural number of which m halvings leave nothing, and
`FieldAt(long, at, m, v)` that a long has that value at that place; pushing a field moves the others and
damages none (`PushField`), so each of the four longs has its fields where it should, and
a window of `eri.js` that covers a field reads it (`Covers`, `ReadField`).  What is left is the rounding, capping and wrapping of each
field on either side: months since 1990 and 2013, years to scrapping, mass, seats, displacement and power.

`DeskContentProofs` carries this to the page, for any number of cards, vehicles, tasks, commands and late answers:

| Theorem | States | Assumption |
|---|---|---|
| `ReadsNumber` | `Spec => []NumberReadBack` | none |
| `GoodPasses` | `Spec => []GoodCardPasses` | none: the vehicle is `Encodable` by the property |
| `WrongRefused` | `Spec => []WrongVehicleRefused` | none: likewise |

`WrongVehicleRefused` is as strong as the page's check: the plate is compared exactly; of kind, usage and type the card has
a code whose name contains the shown one.  That they are equal is false, by codes that share a number or whose
names contain one another (`Desk.cfg` has both).

The argument.  `NumberReadBack` is kept because only an inventory changes TID and number on the page, and both
from one answer.  `WrongVehicleRefused` needs `TextsKnown`: `checkContent` lets a missing text pass, and
the plate, its kind, the usage and the type are either all missing, before any vehicle was shown, or all
there; and the entry of a number that was packed is never empty.  That a vehicle is typed in when its texts are shown is `InputKnown`, and this in turn needs `ShownIsFree`, since
fetching from a card with an open record would go back to the reset dialog with the input possibly empty.

Only model-checked: liveness (`EveryFileLeaves`, `WrittenIsBound`, `EveryRequestAnswered`,
`EverySessionEnds`), which is outside the prover's reach, as is ENABLED.  Every other property of a
passing run is a theorem.

## 5. Further hazards

`PROJECT.json` lists the hazards the models are about.  Others met while reading,
at their lines, that no property covers:

- `impl/EncryptorIndexServiceImpl.java:64`: the list of indexes is read once in
  a server's life, when some may be OCCUPIED by others; those are never used again there.  If that query
  throws, the list stays empty and each later fetch of the pool fails until the server restarts.
- `impl/EncryptorIndexServiceImpl.java:97-110`: an index that could not be locked stays
  marked in the memory; only the table's row is free.
- `impl/EncryptorIndexServiceImpl.java:147`: between the two halves of `release` the index is
  free in the memory and taken in the table; a fetch in between fails.
- `impl/EriServiceImpl.java:537`: a client that repeats `factoryInitialize` after a
  timeout may do so while the first call is running; the model has one call a box.
- `impl/EriServiceImpl.java:385`: a failure reported late or twice disables a usable card.
- `impl/InventoryServiceImpl.java:110`: the literal 6 (CANCEL) for a box stored by its corps.
- `Tsrc_rfid_resources/mapping/inventory.xml:123`: a range of numbers counts as taken if a box's range
  ends in it; one that begins in it or surrounds it is missed, and boxes of status 6, which the
  corps' boxes get, do not count.  `rfid/ctrl/ProductionTaskCtrl.java:142` asks first and reserves later.
- `web/rmjs/eri.js:76`: the sequence number has 30 bits, and of one from 2^28 on the page shows another, because
  `>>` on 32 bits copies bit 28 to bit 29.  Nothing keeps a production task from starting there
  (`rfid/ctrl/ProductionTaskCtrl.java:142` takes any integer).
- `web/WEB-INF/jsp_core/rfid/inventory/exWarehouseEdit.jsp:366`: that a note issues no more than was ordered is
  checked by the page alone.
- `web/WEB-INF/jsp_core/rfid/customize/customizeEdit.jsp:770`: a text that the answer does not have keeps the earlier
  vehicle's; `:543`: the Enter key starts a second query; `:1045`: `2016-1` is a beginning of
  `2016-10`, so that January agrees with October to December; `:1080`: an upload whose answer is lost.
- `impl/ExchangeServiceImpl.java:51,84,218`: a file that cannot be written leaves a committed row unsent (over FTP
  silently), and one that cannot be read, for whatever reason, is deleted.  All are behaviours of `DataExchange`;
  what they lose is lost until the row is saved again.
- `impl/CustomizeRequestServiceImpl.java:124,277`, `impl/CustomizeResultHandler.java:81`: a fault between these statements and the
  next loses a request, an answer or a binding for good (`cutOff`); nothing looks for such rows later.
- `rfid/ctrl/ExWarehouseCtrl.java:303`, `Tsrc_rfid_resources/mapping/exWarehouse.xml:76`: an approved note can be refused when its boxes
  have left; they stay out under a note that says UNAPPROVED.
- `web/WEB-INF/jsp_core/rfid/customize/customizeEdit.jsp:565-602,979-998`: a card of another kind, usage or type passes the check if
  the codes share a number or the shown name is a part of the card's.
- `impl/EriScrapServiceImpl.java:178`: `finish` sets a form to DONE, whatever its status was, and then
  disables its cards one by one; it is annotated but matches no transaction pattern, so an exception in
  between leaves usable cards on a finished form.
- `impl/EriPastedServiceImpl.java:46-48`: the lists of errors belong to the one service object and are
  never emptied, so that after one faulty file every later import is refused as faulty.
- `impl/EriReaderWriterServiceImpl.java:122,298`: two activations of a reader may both find none in progress; with
  two in progress each further call fails until a reset.  `:316`: a result that comes after a reset
  finds no activation, and one that comes after the next activation ends that one instead.
- `rfid/util/EriUtil.java:24`: the comment speaks of padding, the code adds offsets.

## 6. Not modelled, and the plan

Most components marked "not modelled" above are forms of one row that one
statement saves, calls to systems outside of this repository, or code shared with other
products.  Those that span several calls (scrapping, importing of pasted cards, activation of readers) have the
hazards listed in section 5; registration of readers is one round trip of the exchange.

The program's own logic is Java and JSP.  Of its JavaScript, which is what tools
that count by the main language see (146 thousand lines), 90 thousand and more
are third-party libraries (`echarts.js`, jQuery, zTree, date pickers), and the program's
own scripts draw pages and check forms; `eri.js`, the one with an algorithm of this
system, is in `CardContent`, and `customizeEdit.jsp` in `Desk`.  Scripts such as `realAlarm.js` and
those under `web/rmjs/gis` are used by no page of this program.

Left for later, most important first:

1. Two desks that share a task, and a desk beside the job of the server, with `Desk`'s server calls
   cut where another call can come between.
2. `CardBinding` with the card's life (initialised, available, bound, disabled, scrapped), which
   `CustomizeRequest` and `CardStock` would refine too, with unbinding and scrapping.
3. Planning of production tasks (numbers reserved for boxes), cases of boxes, numbers on orders.
4. Scrapping as a part of `CardStock`, whose full boxes are then full but for scrapped cards; activation of readers.
5. Rows cut into pieces in the exchange table; two threads at `generateUniqueSerialNo`; the shared FTP client.
