--------------------------- MODULE EncryptorIndex ---------------------------
(***************************************************************************)
(* The pools of encryptor indexes (EncryptorIndexServiceImpl) and the      *)
(* sessions that use them (EriServiceImpl.generateCipher...).  A session   *)
(* fetches one index of each of two pools, uses both, and releases them in *)
(* a finally block.  Which indexes are taken is kept twice: in a map of    *)
(* each server's own memory, and in the table rfid_encryptor_index that    *)
(* all servers share.  The memory is created at the first fetch, with no   *)
(* lock; only loadIndex is synchronized.                                   *)
(*                                                                         *)
(* An action is a stretch of one thread between two accesses to what       *)
(* threads share.  Random choice of an index is any choice.                *)
(***************************************************************************)
EXTENDS Naturals, FiniteSets

CONSTANTS
  Servers,        \* processes, each with a memory of its own
  Threads,        \* request threads
  ServerOf,       \* the server a thread runs in
  Indexes,        \* the rows of each pool (column idx)
  LeastReleased,  \* the finally block releases indexes from this one on
  MaxTimes,       \* max.fetch.encryptor.index.times
  MaxFaults,      \* bound: restarts of servers and statements that throw
  None

Pools == {"protect", "crypt"}

ASSUME PoolAssumption ==
  /\ ServerOf \in [Threads -> Servers]
  /\ Indexes \subseteq Nat
  /\ LeastReleased \in Nat
  /\ MaxTimes \in Nat \ {0}
  /\ MaxFaults \in Nat
  /\ None \notin Indexes \cup Threads \cup Nat
  /\ None \notin [Pools -> SUBSET Indexes]
  /\ None \notin [Pools -> {None} \cup [by : Threads \cup {None}, rows : SUBSET Indexes]]

VARIABLES
  status,     \* encryptorIndexStatus of a server: the indexes marked OCCUPIED
  available,  \* availableEncryptorIndex: for each pool a list and its maker
  occupied,   \* the table: rows with zt OCCUPIED (all others are AVAILABLE)
  pc,         \* what a thread does next
  pool,       \* the encryptorId it fetches or releases (the first when idle)
  index,      \* the index it has picked or is releasing
  tries,      \* numberOfTimes in fetch, i in lock
  held,       \* the session's protectedKeyIndex and encryptAndDecryptKeyIndex
  faults,     \* restarts and statements that have thrown, so far
  mislaid     \* history: rows whose session stopped before it gave them back

troubles == <<faults, mislaid>>
vars == <<status, available, occupied, pc, pool, index, tries, held, troubles>>
memory == <<status, available>>

List == [by : Threads \cup {None}, rows : SUBSET Indexes]
Nothing == [p \in Pools |-> None]
NoIndex == [p \in Pools |-> {}]

Init ==
  /\ status = [s \in Servers |-> None]
  /\ available = [s \in Servers |-> None]
  /\ occupied = NoIndex
  /\ pc = [t \in Threads |-> "idle"]
  /\ pool = [t \in Threads |-> "protect"]
  /\ index = [t \in Threads |-> None]
  /\ tries = [t \in Threads |-> 0]
  /\ held = [t \in Threads |-> Nothing]
  /\ faults = 0
  /\ mislaid = {}

At(t, step) == pc[t] = step
Goto(t, step) == pc' = [pc EXCEPT ![t] = step]
Mine(t) == ServerOf[t]

(* An exception in fetch leads to the finally block.                       *)
Finally(t) ==
  /\ Goto(t, "finally")
  /\ index' = [index EXCEPT ![t] = None]
  /\ tries' = [tries EXCEPT ![t] = 0]

(* A request starts to compute a card's keys and fetches the first index:  *)
(* if (encryptorIndexStatus == null) ..., whose two sides are two steps.   *)
Begin(t) ==
  /\ At(t, "idle")
  /\ Goto(t, IF status[Mine(t)] = None THEN "newStatus" ELSE "lists")
  /\ tries' = [tries EXCEPT ![t] = 1]
  /\ UNCHANGED <<memory, occupied, pool, index, held, troubles>>

NewStatus(t) ==
  /\ At(t, "newStatus")
  /\ status' = [status EXCEPT ![Mine(t)] = NoIndex]
  /\ Goto(t, "lists")
  /\ UNCHANGED <<available, occupied, pool, index, tries, held, troubles>>

CheckLists(t) ==
  /\ At(t, "lists")
  /\ Goto(t, IF available[Mine(t)] = None THEN "newLists" ELSE "list")
  /\ UNCHANGED <<memory, occupied, pool, index, tries, held, troubles>>

NewLists(t) ==
  /\ At(t, "newLists")
  /\ available' = [available EXCEPT ![Mine(t)] = Nothing]
  /\ Goto(t, "list")
  /\ UNCHANGED <<status, occupied, pool, index, tries, held, troubles>>

(* Variant: fetch calls itself without a limit.                            *)
RetriesForEver(t, i) ==
  LET s == Mine(t)
      p == pool[t]
  IN  IF i \in status[s][p]
      THEN /\ tries' = [tries EXCEPT ![t] = @ + 1]
           /\ Goto(t, "list")
           /\ UNCHANGED <<status, index>>
      ELSE /\ status' = [status EXCEPT ![s][p] = @ \cup {i}]
           /\ index' = [index EXCEPT ![t] = i]
           /\ tries' = [tries EXCEPT ![t] = 0]
           /\ Goto(t, "lock")

(* loadIndex: marks the index unless it is marked.  A failure sleeps and   *)
(* calls fetch again, until it has been tried more than MaxTimes times.    *)
(* The maps exist by then, so fetch is taken up where it gets the list;    *)
(* so it is for the second index.                                          *)
LoadIndex(t, i) ==
  LET s == Mine(t)
      p == pool[t]
  IN  \/ /\ i \notin status[s][p]
         /\ status' = [status EXCEPT ![s][p] = @ \cup {i}]
         /\ index' = [index EXCEPT ![t] = i]
         /\ tries' = [tries EXCEPT ![t] = 0]
         /\ Goto(t, "lock")
      \/ /\ i \in status[s][p]
         /\ tries[t] <= MaxTimes
         /\ tries' = [tries EXCEPT ![t] = @ + 1]
         /\ Goto(t, "list")
         /\ UNCHANGED <<status, index>>
      \/ /\ i \in status[s][p]
         /\ tries[t] > MaxTimes
         /\ Finally(t)
         /\ UNCHANGED status

(* A random index of the list; the remainder by zero throws.               *)
Pick(t, rows) ==
  \/ \E i \in rows : LoadIndex(t, i)
  \/ rows = {} /\ Finally(t) /\ UNCHANGED status

(* The list of the pool, which its maker may not have filled yet.          *)
GetList(t) ==
  /\ At(t, "list")
  /\ LET list == available[Mine(t)][pool[t]]
     IN  \/ list = None /\ Goto(t, "newList") /\ UNCHANGED <<status, index, tries>>
         \/ list # None /\ Pick(t, list.rows)
  /\ UNCHANGED <<available, occupied, pool, held, troubles>>

PutList(t) ==
  /\ At(t, "newList")
  /\ available' = [available EXCEPT ![Mine(t)][pool[t]] = [by |-> t, rows |-> {}]]
  /\ Goto(t, "query")
  /\ UNCHANGED <<status, occupied, pool, index, tries, held, troubles>>

(* The maker fills its list, in the map or already replaced there, with    *)
(* the rows that are AVAILABLE now; they are never queried again.          *)
FillList(t) ==
  /\ At(t, "query")
  /\ LET s == Mine(t)
         p == pool[t]
         rows == Indexes \ occupied[p]
         mapped == available[s][p] # None /\ available[s][p].by = t
     IN  /\ available' = IF mapped
                         THEN [available EXCEPT ![s][p] = [by |-> None, rows |-> rows]]
                         ELSE available
         /\ Pick(t, rows)
  /\ UNCHANGED <<occupied, pool, held, troubles>>

(* select ... where zt = 1 for update nowait, in a transaction of its own: *)
(* it fails while another server's statement holds the row, and finds      *)
(* nothing while the row is OCCUPIED.  MaxTimes failures give null.        *)
Contended(t) ==
  \E u \in Threads \ {t} :
     pc[u] \in {"lock", "occupy", "clear"} /\ pool[u] = pool[t] /\ index[u] = index[t]

(* Variant: the loop of lock does not count.                               *)
LockWaits(t) ==
  /\ At(t, "lock")
  /\ index[t] \notin occupied[pool[t]]
  /\ Goto(t, "occupy")
  /\ UNCHANGED <<memory, occupied, pool, index, tries, held, troubles>>

Lock(t) ==
  /\ At(t, "lock")
  /\ \/ /\ index[t] \notin occupied[pool[t]]
        /\ Goto(t, "occupy")
        /\ UNCHANGED <<index, tries>>
     \/ /\ index[t] \in occupied[pool[t]] \/ Contended(t)
        /\ tries[t] + 1 < MaxTimes
        /\ tries' = [tries EXCEPT ![t] = @ + 1]
        /\ UNCHANGED <<pc, index>>
     \/ /\ index[t] \in occupied[pool[t]] \/ Contended(t)
        /\ tries[t] + 1 >= MaxTimes
        /\ Finally(t)
  /\ UNCHANGED <<memory, occupied, pool, held, troubles>>

(* The row is updated only where it is still AVAILABLE.  The first index   *)
(* is followed by the fetch of the second, that by the work, which shares  *)
(* nothing but the indexes and ends, with or without an exception, when    *)
(* the finally block starts.                                               *)
AfterFetch(t) ==
  IF pool[t] = "protect"
  THEN /\ Goto(t, "list")
       /\ pool' = [pool EXCEPT ![t] = "crypt"]
       /\ tries' = [tries EXCEPT ![t] = 1]
  ELSE Goto(t, "finally") /\ UNCHANGED <<pool, tries>>

(* Variant: the update does not ask for zt = 1.                            *)
OccupyAnyway(t) ==
  /\ At(t, "occupy")
  /\ occupied' = [occupied EXCEPT ![pool[t]] = @ \cup {index[t]}]
  /\ held' = [held EXCEPT ![t][pool[t]] = index[t]]
  /\ index' = [index EXCEPT ![t] = None]
  /\ AfterFetch(t)
  /\ UNCHANGED <<memory, troubles>>

Occupy(t) ==
  LET p == pool[t]
      free == index[t] \notin occupied[p]
  IN  /\ At(t, "occupy")
      /\ \/ /\ free
            /\ occupied' = [occupied EXCEPT ![p] = @ \cup {index[t]}]
            /\ held' = [held EXCEPT ![t][p] = index[t]]
            /\ index' = [index EXCEPT ![t] = None]
            /\ AfterFetch(t)
         \/ ~free /\ Finally(t) /\ UNCHANGED <<occupied, held, pool>>
      /\ UNCHANGED <<memory, troubles>>

(* release: first this server's memory, then the row, whatever it holds.   *)
ReleasesPositive(i) == i # None /\ i > LeastReleased   \* variant: if (index > 0)

Releases(i) == i # None /\ i >= LeastReleased

ToRelease(t) == {p \in Pools : Releases(held[t][p])}

Release(t) ==
  /\ At(t, "finally")
  /\ \E p \in ToRelease(t) :
       /\ p = "protect" \/ "protect" \notin ToRelease(t)
       /\ status' = [status EXCEPT ![Mine(t)][p] = @ \ {held[t][p]}]
       /\ pool' = [pool EXCEPT ![t] = p]
       /\ index' = [index EXCEPT ![t] = held[t][p]]
       /\ held' = [held EXCEPT ![t][p] = None]
  /\ Goto(t, "clear")
  /\ UNCHANGED <<available, occupied, tries, troubles>>

(* Variant: the row of the other pool is given back.                       *)
ClearOtherPool(t) ==
  /\ At(t, "clear")
  /\ \E p \in Pools \ {pool[t]} : occupied' = [occupied EXCEPT ![p] = @ \ {index[t]}]
  /\ index' = [index EXCEPT ![t] = None]
  /\ Goto(t, "finally")
  /\ UNCHANGED <<memory, pool, tries, held, troubles>>

ClearRow(t) ==
  /\ At(t, "clear")
  /\ occupied' = [occupied EXCEPT ![pool[t]] = @ \ {index[t]}]
  /\ index' = [index EXCEPT ![t] = None]
  /\ Goto(t, "finally")
  /\ UNCHANGED <<memory, pool, tries, held, troubles>>

EndSession(t) ==
  /\ At(t, "finally")
  /\ ToRelease(t) = {}
  /\ Goto(t, "idle")
  /\ pool' = [pool EXCEPT ![t] = "protect"]
  /\ held' = [held EXCEPT ![t] = Nothing]
  /\ UNCHANGED <<memory, occupied, index, tries, troubles>>

(* A statement throws, or a server stops.                                  *)
Fault ==
  /\ faults < MaxFaults
  /\ faults' = faults + 1

(* A statement of fetch that throws leads to the finally block: a list     *)
(* that was to be filled stays empty, an index that was to be locked stays *)
(* marked in memory.                                                       *)
FetchFails(t) ==
  /\ pc[t] \in {"query", "lock", "occupy"}
  /\ Fault
  /\ Finally(t)
  /\ UNCHANGED <<memory, occupied, pool, held, mislaid>>

Owns(t, p, i) ==
  \/ held[t][p] = i
  \/ pc[t] = "clear" /\ pool[t] = p /\ index[t] = i

OwnedBy(ts) == {x \in Pools \X Indexes : \E t \in ts : Owns(t, x[1], x[2])}

(* One of release that throws ends the session, out of the finally block:  *)
(* the row stays OCCUPIED, and what the second try was to release is not.  *)
ClearRowFails(t) ==
  /\ At(t, "clear")
  /\ Fault
  /\ mislaid' = mislaid \cup OwnedBy({t})
  /\ Goto(t, "idle")
  /\ pool' = [pool EXCEPT ![t] = "protect"]
  /\ index' = [index EXCEPT ![t] = None]
  /\ held' = [held EXCEPT ![t] = Nothing]
  /\ UNCHANGED <<memory, occupied, tries>>

(* A server stops and starts again: its memory and sessions are gone, the  *)
(* rows stay as they are.                                                  *)
Crash(s) ==
  LET Reset(f, v) == [t \in Threads |-> IF ServerOf[t] = s THEN v ELSE f[t]]
  IN  /\ Fault
      /\ mislaid' = mislaid \cup OwnedBy({t \in Threads : ServerOf[t] = s})
      /\ status' = [status EXCEPT ![s] = None]
      /\ available' = [available EXCEPT ![s] = None]
      /\ pc' = Reset(pc, "idle")
      /\ index' = Reset(index, None)
      /\ tries' = Reset(tries, 0)
      /\ pool' = Reset(pool, "protect")
      /\ held' = Reset(held, Nothing)
      /\ UNCHANGED occupied

Fetch(t) ==
  \/ NewStatus(t) \/ CheckLists(t) \/ NewLists(t)
  \/ GetList(t) \/ PutList(t) \/ FillList(t) \/ Lock(t) \/ Occupy(t)

Session(t) == Fetch(t) \/ Release(t) \/ ClearRow(t) \/ EndSession(t)

Next ==
  \/ \E t \in Threads : Begin(t) \/ Session(t) \/ FetchFails(t) \/ ClearRowFails(t)
  \/ \E s \in Servers : Crash(s)

Spec == Init /\ [][Next]_vars

(* A started request is not suspended for ever: threads are scheduled, and *)
(* every wait is a sleep or a statement that does not wait for locks.      *)
FairSpec == Spec /\ \A t \in Threads : WF_vars(Session(t))

-----------------------------------------------------------------------------
Steps == {"idle", "newStatus", "lists", "newLists", "list", "newList",
          "query", "lock", "occupy", "finally", "clear"}

(* Every variable has its type.                                            *)
TypeOK ==
  /\ status \in [Servers -> {None} \cup [Pools -> SUBSET Indexes]]
  /\ available \in [Servers -> {None} \cup [Pools -> {None} \cup List]]
  /\ occupied \in [Pools -> SUBSET Indexes]
  /\ pc \in [Threads -> Steps]
  /\ pool \in [Threads -> Pools]
  /\ index \in [Threads -> Indexes \cup {None}]
  /\ tries \in [Threads -> 0 .. MaxTimes + 1]
  /\ held \in [Threads -> [Pools -> Indexes \cup {None}]]
  /\ faults \in 0 .. MaxFaults
  /\ mislaid \subseteq Pools \X Indexes

(* Two sessions never use the same index of a pool, on whatever servers    *)
(* they run, though the memory that guards it is built without a lock:     *)
(* the keys one derives in the encryptor are not overwritten by another.   *)
Exclusive ==
  \A t, u \in Threads : \A p \in Pools :
     t # u /\ held[t][p] # None => held[t][p] # held[u][p]

(* An OCCUPIED row belongs to a session that still uses it or is releasing *)
(* it, or to one that was stopped by a restart or by a statement of its    *)
(* release that threw, while it owned the row: exceptions in either fetch, *)
(* in either try loop or in the work give every row back.                  *)
NoRowLeaks ==
  \A p \in Pools : \A i \in occupied[p] :
     <<p, i>> \in mislaid \/ \E t \in Threads : Owns(t, p, i)

(* Every session ends, whatever the others hold: threads that hold one     *)
(* index and wait for another give up after a bounded number of tries.     *)
EverySessionEnds == \A t \in Threads : []<>At(t, "idle")

(* Refinement: the pools keep the promise of IndexAllocator.  A row that   *)
(* is OCCUPIED with no owner is lost; no thread takes an owned or a lost   *)
(* index, and nothing is lost but by a stop of its owner's server or by a  *)
(* statement of its owner's release that throws.                           *)
Allocator == INSTANCE IndexAllocator WITH
  Users <- Threads,
  Items <- Pools \X Indexes,
  users <- [x \in Pools \X Indexes |-> {t \in Threads : Owns(t, x[1], x[2])}],
  lost <- {x \in Pools \X Indexes : x[2] \in occupied[x[1]]
                                   /\ \A t \in Threads : ~Owns(t, x[1], x[2])}

KeepsPromise == Allocator!ASpec
=============================================================================
