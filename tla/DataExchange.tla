---------------------------- MODULE DataExchange ----------------------------
(***************************************************************************)
(* One direction of the data exchange between the two sites of the system  *)
(* (the police network "server" and the internet "www").  The source       *)
(* writes one file per saved row (ExchangeServiceImpl.saveData); an        *)
(* external ferry carries files from its out/ to the other site's in/;     *)
(* there the scheduled DataPassTask reads a batch, merges every row into   *)
(* its database, deletes the handled files and runs the trigger tasks.     *)
(*                                                                         *)
(* Modes (data.exchange.type): "FILE" shared folders, "FTP" the same       *)
(* folders behind an FTP server, "DB" rows of an exchange table.           *)
(***************************************************************************)
EXTENDS Naturals, FiniteSets

CONSTANTS
  Rows,          \* keys of the replicated rows
  Fields,        \* nullable columns of a row
  Mode,          \* "FILE", "FTP" or "DB"
  WholeFiles,    \* TRUE: the ferry shows only complete files in in/
  MaxSaves,      \* bound: rows saved by the source
  MaxFaults      \* bound: failures and crashes

Modes == {"FILE", "FTP", "DB"}

(* failList.size() >= 4 gives a file up.                                   *)
GiveUp == 4

ASSUME ExchangeAssumption ==
  /\ Mode \in Modes
  /\ WholeFiles \in BOOLEAN
  /\ Mode = "DB" => WholeFiles
  /\ MaxSaves \in Nat
  /\ MaxFaults \in Nat

VARIABLES
  src,           \* the rows at the source, see Replica
  last,          \* number of the last save; orders the file names
  out,           \* files in the source's out/
  inbox,         \* files in the reader's in/
  partial,       \* files of inbox the ferry is still writing
  phase,         \* where the reader's job is
  batch,         \* files read and not yet merged in this run
  post,          \* "postbh": files to delete at the end of this run
  fails,         \* failed EXCHANGE_DATA entries of the operation log, by file
  replica,       \* the rows at the reader
  \* history
  sent,          \* every file that reached out/
  applied,       \* files merged at least once
  overlapped,    \* rows saved while an older file of theirs was unfinished
  parted,        \* rows whose last save left the row or the file, not both
  unread,        \* files deleted because they could not be read
  faults         \* failures so far

history == <<sent, applied, overlapped, parted, unread>>

vars == <<src, last, out, inbox, partial, phase, batch, post, fails, replica,
          history, faults>>

NullRow == [f \in Fields |-> 0]

(* A file: the row it carries, its place in the order of file names (the   *)
(* serial number is the time it was written) and the columns it sets.      *)
File == [row : Rows, no : 1 .. MaxSaves, sets : SUBSET Fields]

RowOf(f) == [c \in Fields |-> IF c \in f.sets THEN f.no ELSE 0]

(* Wrong variants: null columns are written too; or columns that hold a    *)
(* value keep it.                                                          *)
MergeNulls(row, f) == RowOf(f)
MergeMissing(row, f) == [c \in Fields |-> IF c \in f.sets /\ row[c] = 0 THEN f.no ELSE row[c]]

(* insert or update: only columns that are not null are written.           *)
Merge(row, f) == [c \in Fields |-> IF c \in f.sets THEN f.no ELSE row[c]]

Unfinished == out \cup inbox \cup batch

Fault == faults < MaxFaults /\ faults' = faults + 1

Init ==
  /\ src = [r \in Rows |-> NullRow]
  /\ last = 0
  /\ out = {} /\ inbox = {} /\ partial = {}
  /\ phase = "idle" /\ batch = {} /\ post = {}
  /\ fails = [n \in 1 .. MaxSaves |-> 0]
  /\ replica = [r \in Rows |-> NullRow]
  /\ sent = {} /\ applied = {} /\ overlapped = {} /\ parted = {} /\ unread = {}
  /\ faults = 0

-----------------------------------------------------------------------------
(* The source.                                                             *)

(* Wrong variant: the number is taken before it is increased.              *)
NumberedLate(r, sets) == [row |-> r, no |-> last, sets |-> sets]

NewFile(r, sets) == [row |-> r, no |-> last + 1, sets |-> sets]

(* A file's name is new, whether or not the file is written in the end.    *)
NewName(f) ==
  /\ last < MaxSaves
  /\ last' = f.no
  /\ overlapped' = IF \E g \in Unfinished : g.row = f.row
                   THEN overlapped \cup {f.row} ELSE overlapped
  /\ UNCHANGED <<inbox, partial, phase, batch, post, fails, replica, applied, unread>>

SaveRow(f) == src' = [src EXCEPT ![f.row] = RowOf(f)]

WriteFile(f) == out' = out \cup {f} /\ sent' = sent \cup {f}

SaveData(r, sets) ==
  LET f == NewFile(r, sets) IN
  /\ NewName(f)
  /\ SaveRow(f)
  /\ WriteFile(f)
  /\ parted' = parted \ {r}
  /\ UNCHANGED faults

(* The row is committed, its file is not written: saveDataByFTP logs every *)
(* exception and returns, the others throw.  (A beginning of the file that *)
(* is left in out/ cannot be parsed and ends in FetchData.)                *)
SaveDataFails(r, sets) ==
  LET f == NewFile(r, sets) IN
  /\ NewName(f)
  /\ Fault
  /\ SaveRow(f)
  /\ parted' = parted \cup {r}
  /\ UNCHANGED <<out, sent>>

(* The file is written inside a transaction that is rolled back afterwards *)
(* (updateCustomizeResult writes two); a row of the exchange table is      *)
(* rolled back with it.                                                    *)
SaveRolledBack(r, sets) ==
  LET f == NewFile(r, sets) IN
  /\ Mode # "DB"
  /\ NewName(f)
  /\ Fault
  /\ WriteFile(f)
  /\ parted' = parted \cup {r}
  /\ UNCHANGED src

-----------------------------------------------------------------------------
(* The ferry between the folders: an external program, in any order.       *)

Carry(f) ==
  /\ f \in out
  /\ out' = out \ {f}
  /\ inbox' = inbox \cup {f}
  /\ UNCHANGED <<src, last, partial, phase, batch, post, fails, replica, history,
                 faults>>

BeginCarry(f) ==
  /\ ~WholeFiles
  /\ f \in out
  /\ out' = out \ {f}
  /\ inbox' = inbox \cup {f}
  /\ partial' = partial \cup {f}
  /\ UNCHANGED <<src, last, phase, batch, post, fails, replica, history, faults>>

EndCarry(f) ==
  /\ f \in partial
  /\ partial' = partial \ {f}
  /\ UNCHANGED <<src, last, out, inbox, phase, batch, post, fails, replica,
                 history, faults>>

-----------------------------------------------------------------------------
(* The reader: DataPassTask.doit, one run at a time.                       *)

(* getFiles reads in/ whole, but for the files "bad", whose reading or     *)
(* parsing throws: it tries to delete those, and "gone" are the ones it    *)
(* can.  Over FTP each file is deleted as soon as it is read, unless the   *)
(* server refuses.  With nothing readable the run ends here, before the    *)
(* trigger tasks.                                                          *)
Fetch(bad, gone) ==
  /\ phase = "idle"
  /\ inbox # {}
  /\ batch' = inbox \ bad
  /\ IF Mode = "FTP" THEN \E kept \in SUBSET batch' : inbox' = kept \cup (bad \ gone)
                     ELSE inbox' = inbox \ gone
  /\ partial' = partial \ gone
  /\ unread' = unread \cup gone
  /\ post' = {}
  /\ phase' = IF batch' = {} THEN "idle" ELSE "deal"
  /\ UNCHANGED <<src, last, out, fails, replica, sent, applied, overlapped, parted>>

(* Only what the ferry is still writing cannot be parsed.                  *)
FetchData == Fetch(partial, partial) /\ UNCHANGED faults

(* A whole file's read fails, or a delete does: "catch (Exception)" around *)
(* the read deletes the file whatever went wrong.  (A query of the         *)
(* exchange table that fails changes nothing.)                             *)
FetchDataFails ==
  /\ Mode # "DB"
  /\ Fault
  /\ \E bad \in SUBSET inbox : \E gone \in SUBSET bad :
       partial \subseteq bad /\ Fetch(bad, gone)

(* Files are sorted by descending name, the newest first; the exchange     *)
(* table is read in no stated order.                                       *)
NextInBatch(f) ==
  /\ phase = "deal"
  /\ f \in batch
  /\ Mode = "DB" \/ \A g \in batch : g.no <= f.no

DealData(f) ==
  /\ NextInBatch(f)
  /\ replica' = [replica EXCEPT ![f.row] = Merge(@, f)]
  /\ applied' = applied \cup {f}
  /\ batch' = batch \ {f}
  /\ post' = post \cup {f}
  /\ UNCHANGED <<src, last, out, inbox, partial, phase, fails, sent, overlapped, parted,
                 unread, faults>>

(* Wrong variant: a file that failed is deleted like any other.            *)
GivesUpAtOnce(f) ==
  /\ NextInBatch(f)
  /\ Fault
  /\ fails' = [fails EXCEPT ![f.no] = @ + 1]
  /\ post' = post \cup {f}
  /\ batch' = batch \ {f}
  /\ UNCHANGED <<src, last, out, inbox, partial, phase, replica, history>>

(* The statement fails: the failure is logged, then the failures logged    *)
(* for the file are counted, this one included.                            *)
DealDataFails(f) ==
  /\ NextInBatch(f)
  /\ Fault
  /\ fails' = [fails EXCEPT ![f.no] = @ + 1]
  /\ post' = IF fails'[f.no] >= GiveUp THEN post \cup {f} ELSE post
  /\ batch' = batch \ {f}
  /\ UNCHANGED <<src, last, out, inbox, partial, phase, replica, history>>

(* The row is written but logging that throws: the failure is logged       *)
(* instead and the file stays for the next run.                            *)
DealDataLogFails(f) ==
  /\ NextInBatch(f)
  /\ Fault
  /\ replica' = [replica EXCEPT ![f.row] = Merge(@, f)]
  /\ applied' = applied \cup {f}
  /\ fails' = [fails EXCEPT ![f.no] = @ + 1]
  /\ batch' = batch \ {f}
  /\ UNCHANGED <<src, last, out, inbox, partial, phase, post, sent, overlapped,
                 parted, unread>>

(* Wrong variant: handled files stay where they are.                       *)
KeepsFile(f) ==
  /\ phase = "deal" /\ batch = {}
  /\ f \in post
  /\ post' = post \ {f}
  /\ UNCHANGED <<src, last, out, inbox, partial, phase, batch, fails, replica, history,
                 faults>>

(* updateFlag deletes the files of postbh one by one (the exchange table's *)
(* rows are marked by one statement, one of the orders this allows).       *)
UpdateFlag(f) ==
  /\ phase = "deal" /\ batch = {}
  /\ f \in post
  /\ post' = post \ {f}
  /\ inbox' = inbox \ {f}
  /\ UNCHANGED <<src, last, out, partial, phase, batch, fails, replica, history,
                 faults>>

(* A delete that fails is only logged (the exchange table's update throws  *)
(* instead, which ends the run: Crash).                                    *)
UpdateFlagFails(f) ==
  /\ Mode # "DB"
  /\ phase = "deal" /\ batch = {}
  /\ f \in post
  /\ Fault
  /\ post' = post \ {f}
  /\ UNCHANGED <<src, last, out, inbox, partial, phase, batch, fails, replica,
                 history>>

(* The trigger tasks run and the run ends; what they do with the rows they *)
(* find is CustomizeRequest's.                                             *)
TriggerTasks ==
  /\ phase = "deal" /\ batch = {} /\ post = {}
  /\ phase' = "idle"
  /\ UNCHANGED <<src, last, out, inbox, partial, batch, post, fails, replica,
                 history, faults>>

(* The process stops, or an exception leaves dealData: what the run held   *)
(* in memory is gone.                                                      *)
Crash ==
  /\ phase = "deal"
  /\ Fault
  /\ phase' = "idle" /\ batch' = {} /\ post' = {}
  /\ UNCHANGED <<src, last, out, inbox, partial, fails, replica, history>>

-----------------------------------------------------------------------------
Source == \E r \in Rows, sets \in (SUBSET Fields) \ {{}} :
            SaveData(r, sets) \/ SaveDataFails(r, sets) \/ SaveRolledBack(r, sets)

Ferry == \E f \in File : Carry(f) \/ BeginCarry(f) \/ EndCarry(f)

(* One run of the job that meets no failure.                               *)
Run == \/ FetchData
       \/ \E f \in File : DealData(f) \/ UpdateFlag(f)
       \/ TriggerTasks

Trouble == \/ \E f \in File : DealDataFails(f) \/ DealDataLogFails(f) \/ UpdateFlagFails(f)
           \/ FetchDataFails
           \/ Crash

Next == Source \/ Ferry \/ Run \/ Trouble

Spec == Init /\ [][Next]_vars

(* Quartz starts the job again and again and never two at a time; the      *)
(* ferry keeps carrying each file.                                         *)
Fairness == /\ WF_vars(Run)
            /\ WF_vars(Ferry)

FairSpec == Spec /\ Fairness

-----------------------------------------------------------------------------
(* Properties.                                                             *)

(* Every variable has its type; the sets of files nest as the code's       *)
(* folders and lists do.                                                   *)
TypeOK ==
  /\ src \in [Rows -> [Fields -> 0 .. MaxSaves]]
  /\ replica \in [Rows -> [Fields -> 0 .. MaxSaves]]
  /\ last \in 0 .. MaxSaves
  /\ sent \subseteq File
  /\ out \subseteq sent /\ inbox \subseteq sent /\ batch \subseteq sent
  /\ post \subseteq sent /\ applied \subseteq sent
  /\ partial \subseteq sent
  /\ phase \in {"idle", "deal"}
  /\ fails \in [1 .. MaxSaves -> Nat]
  /\ overlapped \subseteq Rows
  /\ parted \subseteq Rows
  /\ unread \subseteq sent
  /\ faults \in 0 .. MaxFaults

GivenUp == {f \in sent : fails[f.no] >= GiveUp}

(* The files whose row has reached the reader's database, or that its      *)
(* operation log holds enough failures for.                                *)
Handled == applied \cup GivenUp

(* No file is lost unnoticed: whatever fails and whenever the reader       *)
(* stops, a file that left out/ and in/ was merged, or its failures        *)
(* reached the limit (dealData puts a file in postbh only then; a crash    *)
(* forgets postbh), or it is one that getFiles deleted since it could not  *)
(* read it.                                                                *)
HandledBeforeGone == sent \ (Handled \cup unread) \subseteq out \cup inbox

(* The newest file of its row.                                             *)
Newest(f) == \A g \in sent : g.row = f.row => g.no <= f.no

(* Once no file of a row is under way, the reader's row is the source's in *)
(* every column that is not null at the source; but for rows of which two  *)
(* files were ever under way together (in one batch they are merged newest *)
(* first, and the older one then wins), whose last save failed half way,   *)
(* or whose newest file was given up or deleted unread without a merge.  A *)
(* later save makes up for all files lost before it.                       *)
Converged ==
  \A r \in Rows \ (overlapped \cup parted) :
    (/\ \A f \in Unfinished : f.row # r
     /\ \A f \in (GivenUp \cup unread) \ applied : f.row = r => ~Newest(f))
    => \A c \in Fields : src[r][c] # 0 => replica[r][c] = src[r][c]

(* A step never puts an older value over a newer one in a row whose files  *)
(* never overlapped, although files are merged again after a crash or a    *)
(* failed delete.                                                          *)
NoStaleOverwrite ==
  [][\A r \in Rows \ overlapped', c \in Fields :
       replica'[r][c] >= replica[r][c]]_vars

(* Every file sent is at last merged, given up or found unreadable, and    *)
(* leaves the exchange.                                                    *)
EveryFileLeaves ==
  \A f \in File :
    f \in sent ~> f \in Handled \cup unread /\ f \notin Unfinished

(* DataPassTask.java:145 says a file is deleted after failing five times:  *)
(* one that is gone and was never merged failed five times.                *)
GoneAfterFiveFailures ==
  \A f \in sent \ applied : f \in Unfinished \/ fails[f.no] >= 5

(* Refinement: DataExchange keeps Replica's promise.                       *)
Exchange == INSTANCE Replica WITH
  pending <- out \cup inbox,
  handled <- Handled,
  lost <- unread

KeepsPromise == Exchange!RSpec
=============================================================================
