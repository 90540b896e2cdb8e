------------------------ MODULE EncryptorIndexProofs ------------------------
(***************************************************************************)
(* What the pools keep for any number of servers, threads, indexes, tries, *)
(* restarts and statements that throw: no two sessions use one index, no   *)
(* row stays OCCUPIED but for its session or for one that was stopped      *)
(* while it owned the row, and every run of the pools is one of            *)
(* IndexAllocator's.                                                       *)
(***************************************************************************)
EXTENDS EncryptorIndex, TLAPS

(* A thread past the creation of a map finds it, one that has an index to  *)
(* lock or to release has it, and one that fetches an index of a pool      *)
(* holds none of it, nor of the pools that come later.                     *)
Fetching == {"newStatus", "lists", "newLists", "list", "newList", "query", "lock", "occupy"}

Shape(t) ==
  /\ pc[t] \notin {"idle", "newStatus"} => status[Mine(t)] # None
  /\ pc[t] \notin {"idle", "newStatus", "lists", "newLists"} => available[Mine(t)] # None
  /\ pc[t] \in {"lock", "occupy", "clear"} => index[t] # None
  /\ pc[t] = "clear" => held[t][pool[t]] = None
  /\ pc[t] \in Fetching \cup {"idle"} =>
       held[t]["crypt"] = None /\ (pool[t] = "protect" => held[t]["protect"] = None)
  /\ pc[t] = "idle" => pool[t] = "protect"

Shapes == \A t \in Threads : Shape(t)

(* The index a session owns is OCCUPIED in the table, and no other session *)
(* owns it.                                                                *)
OwnsOccupied ==
  \A t \in Threads : \A p \in Pools : \A i \in Indexes : Owns(t, p, i) => i \in occupied[p]

OwnsAlone ==
  \A t, u \in Threads : \A p \in Pools : \A i \in Indexes :
    t # u /\ Owns(t, p, i) => ~Owns(u, p, i)

IInv == TypeOK /\ Shapes /\ OwnsOccupied /\ OwnsAlone

(* The choice of an index changes its thread's and its server's state only *)
(* within their types.                                                     *)
LEMMA PickType ==
  ASSUME IInv, NEW t \in Threads, NEW rows \in SUBSET Indexes, Pick(t, rows),
         pc[t] \in {"list", "query"}
  PROVE  /\ status' \in [Servers -> {None} \cup [Pools -> SUBSET Indexes]]
         /\ pc' \in [Threads -> Steps]
         /\ index' \in [Threads -> Indexes \cup {None}]
         /\ tries' \in [Threads -> 0 .. MaxTimes + 1]
<1> USE PoolAssumption DEF Mine, Goto, IInv
<1>1. CASE Finally(t) /\ UNCHANGED status
  BY <1>1 DEF Finally, TypeOK, Steps
<1>2. ASSUME NEW i \in rows, LoadIndex(t, i)
      PROVE  /\ status' \in [Servers -> {None} \cup [Pools -> SUBSET Indexes]]
             /\ pc' \in [Threads -> Steps]
             /\ index' \in [Threads -> Indexes \cup {None}]
             /\ tries' \in [Threads -> 0 .. MaxTimes + 1]
  <2>1. status[Mine(t)] \in [Pools -> SUBSET Indexes] /\ Mine(t) \in Servers /\ pool[t] \in Pools
    BY DEF TypeOK, Shapes, Shape
  <2>2. status' = status \/ status' = [status EXCEPT ![Mine(t)][pool[t]] = @ \cup {i}]
    BY <1>2 DEF LoadIndex
  <2>3. \/ index' = index
        \/ index' = [index EXCEPT ![t] = i]
        \/ index' = [index EXCEPT ![t] = None]
    BY <1>2 DEF LoadIndex, Finally
  <2>4. \/ tries' = [tries EXCEPT ![t] = 0]
        \/ tries[t] <= MaxTimes /\ tries' = [tries EXCEPT ![t] = @ + 1]
    BY <1>2 DEF LoadIndex, Finally
  <2>5. \E step \in {"lock", "list", "finally"} : pc' = [pc EXCEPT ![t] = step]
    BY <1>2 DEF LoadIndex, Finally
  <2>6. status' \in [Servers -> {None} \cup [Pools -> SUBSET Indexes]]
    <3> DEFINE marks == [status[Mine(t)] EXCEPT ![pool[t]] = @ \cup {i}]
    <3>1. marks \in [Pools -> SUBSET Indexes]
      BY <2>1
    <3>2. status' = status \/ status' = [status EXCEPT ![Mine(t)] = marks]
      BY <2>2
    <3> QED
      BY <2>1, <3>1, <3>2 DEF TypeOK
  <2>7. index' \in [Threads -> Indexes \cup {None}]
    BY <2>3 DEF TypeOK
  <2>8. tries' \in [Threads -> 0 .. MaxTimes + 1]
    <3>1. MaxTimes \in Nat /\ tries \in [Threads -> 0 .. MaxTimes + 1]
      BY DEF TypeOK
    <3>2. tries[t] <= MaxTimes => tries[t] + 1 \in 0 .. MaxTimes + 1
      BY <3>1
    <3>3. 0 \in 0 .. MaxTimes + 1
      BY <3>1
    <3> QED
      BY <2>4, <3>1, <3>2, <3>3
  <2>9. pc' \in [Threads -> Steps]
    BY <2>5 DEF TypeOK, Steps
  <2> QED
    BY <2>6, <2>7, <2>8, <2>9
<1> QED
  BY <1>1, <1>2 DEF Pick

(* A release that throws leaves its session without indexes.               *)
LEMMA ClearRowFailsOwners ==
  ASSUME TypeOK, NEW t \in Threads, ClearRowFails(t)
  PROVE  \A u \in Threads : \A p \in Pools : \A i \in Indexes :
           Owns(u, p, i)' <=> Owns(u, p, i) /\ u # t
<1>1. /\ \A u \in Threads \ {t} : /\ pc'[u] = pc[u] /\ held'[u] = held[u]
                                  /\ pool'[u] = pool[u] /\ index'[u] = index[u]
      /\ pc'[t] = "idle" /\ held'[t] = Nothing
  BY DEF ClearRowFails, Goto, TypeOK
<1> QED
  BY <1>1, PoolAssumption DEF Owns, Nothing

(* So does a restart with the sessions of its server.                      *)
LEMMA CrashOwners ==
  ASSUME NEW s \in Servers, Crash(s)
  PROVE  \A u \in Threads : \A p \in Pools : \A i \in Indexes :
           Owns(u, p, i)' <=> Owns(u, p, i) /\ ServerOf[u] # s
<1>1. /\ \A u \in Threads : ServerOf[u] # s =>
            /\ pc'[u] = pc[u] /\ held'[u] = held[u]
            /\ pool'[u] = pool[u] /\ index'[u] = index[u]
      /\ \A u \in Threads : ServerOf[u] = s => pc'[u] = "idle" /\ held'[u] = Nothing
  BY DEF Crash
<1> QED
  BY <1>1, PoolAssumption DEF Owns, Nothing

(* Every step keeps every variable's type.                                 *)
LEMMA TypeNext == ASSUME IInv, [Next]_vars PROVE TypeOK'
<1> USE PoolAssumption DEF IInv, Pools, Mine, At, Goto, memory, troubles
<1>1. ASSUME NEW t \in Threads, Begin(t) PROVE TypeOK'
  BY <1>1 DEF Begin, TypeOK, Steps
<1>2. ASSUME NEW t \in Threads, NewStatus(t) PROVE TypeOK'
  BY <1>2 DEF NewStatus, TypeOK, Steps, NoIndex
<1>3. ASSUME NEW t \in Threads, CheckLists(t) PROVE TypeOK'
  BY <1>3 DEF CheckLists, TypeOK, Steps
<1>4. ASSUME NEW t \in Threads, NewLists(t) PROVE TypeOK'
  BY <1>4 DEF NewLists, TypeOK, Steps, Nothing
<1>5. ASSUME NEW t \in Threads, GetList(t) PROVE TypeOK'
  <2> DEFINE list == available[Mine(t)][pool[t]]
  <2>1. CASE list = None
    BY <1>5, <2>1 DEF GetList, TypeOK, Steps
  <2>2. CASE list # None /\ Pick(t, list.rows)
    <3>1. available[Mine(t)] \in [Pools -> {None} \cup List] /\ pool[t] \in Pools
      BY <1>5 DEF GetList, Shapes, Shape, TypeOK
    <3>2. list.rows \subseteq Indexes
      BY <2>2, <3>1 DEF List
    <3> QED
      BY <1>5, <2>2, <3>2, PickType DEF GetList, TypeOK
  <2> QED
    BY <1>5, <2>1, <2>2 DEF GetList
<1>6. ASSUME NEW t \in Threads, PutList(t) PROVE TypeOK'
  BY <1>6 DEF PutList, TypeOK, Shapes, Shape, Steps, List
<1>7. ASSUME NEW t \in Threads, FillList(t) PROVE TypeOK'
  <2> DEFINE s == Mine(t)
             p == pool[t]
  <2>1. Pick(t, Indexes \ occupied[p])
    BY <1>7 DEF FillList
  <2>2. [by |-> None, rows |-> Indexes \ occupied[p]] \in List
    BY DEF List
  <2>3. available[s] \in [Pools -> {None} \cup List]
    BY <1>7 DEF FillList, TypeOK, Shapes, Shape
  <2>4. available' \in [Servers -> {None} \cup [Pools -> {None} \cup List]]
    <3>1. CASE available' = available
      BY <3>1 DEF TypeOK
    <3>2. CASE available' = [available EXCEPT ![s][p] = [by |-> None, rows |-> Indexes \ occupied[p]]]
      BY <2>2, <2>3, <3>2 DEF TypeOK
    <3> QED
      BY <1>7, <3>1, <3>2 DEF FillList
  <2> QED
    BY <1>7, <2>1, <2>4, PickType DEF FillList, TypeOK
<1>8. ASSUME NEW t \in Threads, Lock(t) PROVE TypeOK'
  <2>1. UNCHANGED <<status, available, occupied, pool, held, troubles>>
    BY <1>8 DEF Lock
  <2>2. pc' \in [Threads -> Steps] /\ index' \in [Threads -> Indexes \cup {None}]
    BY <1>8 DEF Lock, Finally, TypeOK, Steps
  <2>3. tries' \in [Threads -> 0 .. MaxTimes + 1]
    BY <1>8 DEF Lock, Finally, TypeOK
  <2> QED
    BY <2>1, <2>2, <2>3 DEF TypeOK
<1>9. ASSUME NEW t \in Threads, Occupy(t) PROVE TypeOK'
  <2>1. index[t] \in Indexes /\ pool[t] \in Pools
    BY <1>9 DEF Occupy, TypeOK, Shapes, Shape
  <2>2. UNCHANGED <<status, available, troubles>>
    BY <1>9 DEF Occupy
  <2>3. pc' \in [Threads -> Steps] /\ pool' \in [Threads -> Pools]
    BY <1>9 DEF Occupy, AfterFetch, Finally, TypeOK, Steps
  <2>4. index' \in [Threads -> Indexes \cup {None}] /\ tries' \in [Threads -> 0 .. MaxTimes + 1]
    <3>1. index' = [index EXCEPT ![t] = None]
      BY <1>9 DEF Occupy, Finally
    <3>2. \E n \in {0, 1} : tries' = tries \/ tries' = [tries EXCEPT ![t] = n]
      BY <1>9 DEF Occupy, AfterFetch, Finally
    <3>3. {0, 1} \subseteq 0 .. MaxTimes + 1
      OBVIOUS
    <3> QED
      BY <3>1, <3>2, <3>3 DEF TypeOK
  <2>5. occupied' \in [Pools -> SUBSET Indexes]
    BY <1>9, <2>1 DEF Occupy, TypeOK
  <2>6. held' \in [Threads -> [Pools -> Indexes \cup {None}]]
    BY <1>9, <2>1 DEF Occupy, TypeOK
  <2> QED
    BY <2>2, <2>3, <2>4, <2>5, <2>6 DEF TypeOK
<1>10. ASSUME NEW t \in Threads, Release(t) PROVE TypeOK'
  BY <1>10 DEF Release, ToRelease, TypeOK, Shapes, Shape, Steps
<1>11. ASSUME NEW t \in Threads, ClearRow(t) PROVE TypeOK'
  BY <1>11 DEF ClearRow, TypeOK, Steps
<1>12. ASSUME NEW t \in Threads, EndSession(t) PROVE TypeOK'
  BY <1>12 DEF EndSession, TypeOK, Steps, Nothing
<1>13. ASSUME NEW t \in Threads, FetchFails(t) PROVE TypeOK'
  BY <1>13 DEF FetchFails, Fault, Finally, TypeOK, Steps
<1>14. ASSUME NEW t \in Threads, ClearRowFails(t) PROVE TypeOK'
  BY <1>14 DEF ClearRowFails, Fault, OwnedBy, TypeOK, Steps, Nothing
<1>15. ASSUME NEW s \in Servers, Crash(s) PROVE TypeOK'
  <2>1. /\ status' \in [Servers -> {None} \cup [Pools -> SUBSET Indexes]]
        /\ available' \in [Servers -> {None} \cup [Pools -> {None} \cup List]]
        /\ UNCHANGED occupied
    BY <1>15 DEF Crash, TypeOK
  <2>2. /\ pc' \in [Threads -> Steps] /\ pool' \in [Threads -> Pools]
        /\ index' \in [Threads -> Indexes \cup {None}]
        /\ tries' \in [Threads -> 0 .. MaxTimes + 1]
    BY <1>15 DEF Crash, TypeOK, Steps
  <2>3. held' \in [Threads -> [Pools -> Indexes \cup {None}]]
    BY <1>15 DEF Crash, TypeOK, Nothing
  <2>4. faults' \in 0 .. MaxFaults
    BY <1>15 DEF Crash, Fault, TypeOK
  <2>5. mislaid' \subseteq Pools \X Indexes
    BY <1>15 DEF Crash, OwnedBy, TypeOK
  <2> QED
    BY <2>1, <2>2, <2>3, <2>4, <2>5 DEF TypeOK
<1>16. CASE UNCHANGED vars
  BY <1>16 DEF vars, TypeOK
<1> QED
  BY <1>1, <1>2, <1>3, <1>4, <1>5, <1>6, <1>7, <1>8, <1>9, <1>10, <1>11, <1>12, <1>13, <1>14, <1>15, <1>16
     DEF Next, Session, Fetch

(* Every step leaves a thread with what its next step needs.               *)
LEMMA ShapeNext == ASSUME IInv, [Next]_vars PROVE Shapes'
<1> USE PoolAssumption DEF IInv, Pools, Mine, At, Goto, memory, troubles
<1>1. ASSUME NEW t \in Threads, Begin(t) PROVE Shapes'
  BY <1>1 DEF Begin, Shapes, Shape
<1>2. ASSUME NEW t \in Threads, NewStatus(t) PROVE Shapes'
  BY <1>2 DEF NewStatus, TypeOK, Shapes, Shape, NoIndex, Fetching
<1>3. ASSUME NEW t \in Threads, CheckLists(t) PROVE Shapes'
  BY <1>3 DEF CheckLists, Shapes, Shape, Fetching
<1>4. ASSUME NEW t \in Threads, NewLists(t) PROVE Shapes'
  BY <1>4 DEF NewLists, TypeOK, Shapes, Shape, Nothing, Fetching
<1>5. ASSUME NEW t \in Threads, GetList(t) PROVE Shapes'
  BY <1>5 DEF GetList, Pick, LoadIndex, Finally, TypeOK, Shapes, Shape, List, Fetching
<1>6. ASSUME NEW t \in Threads, PutList(t) PROVE Shapes'
  BY <1>6 DEF PutList, TypeOK, Shapes, Shape, List, Fetching
<1>7. ASSUME NEW t \in Threads, FillList(t) PROVE Shapes'
  BY <1>7 DEF FillList, Pick, LoadIndex, Finally, TypeOK, Shapes, Shape, List, Fetching
<1>8. ASSUME NEW t \in Threads, Lock(t) PROVE Shapes'
  BY <1>8 DEF Lock, Finally, TypeOK, Shapes, Shape, Fetching
<1>9. ASSUME NEW t \in Threads, Occupy(t) PROVE Shapes'
  BY <1>9 DEF Occupy, AfterFetch, Finally, TypeOK, Shapes, Shape, Fetching
<1>10. ASSUME NEW t \in Threads, Release(t) PROVE Shapes'
  BY <1>10 DEF Release, ToRelease, Releases, TypeOK, Shapes, Shape, Fetching
<1>11. ASSUME NEW t \in Threads, ClearRow(t) PROVE Shapes'
  BY <1>11 DEF ClearRow, TypeOK, Shapes, Shape, Fetching
<1>12. ASSUME NEW t \in Threads, EndSession(t) PROVE Shapes'
  BY <1>12 DEF EndSession, TypeOK, Shapes, Shape, Nothing
<1>13. ASSUME NEW t \in Threads, FetchFails(t) PROVE Shapes'
  BY <1>13 DEF FetchFails, Finally, TypeOK, Shapes, Shape, Fetching
<1>14. ASSUME NEW t \in Threads, ClearRowFails(t) PROVE Shapes'
  BY <1>14 DEF ClearRowFails, TypeOK, Shapes, Shape, Nothing
<1>15. ASSUME NEW s \in Servers, Crash(s) PROVE Shapes'
  BY <1>15 DEF Crash, Shapes, Shape, Nothing
<1>16. CASE UNCHANGED vars
  BY <1>16 DEF vars, Shapes, Shape
<1> QED
  BY <1>1, <1>2, <1>3, <1>4, <1>5, <1>6, <1>7, <1>8, <1>9, <1>10, <1>11, <1>12, <1>13, <1>14, <1>15, <1>16
     DEF Next, Session, Fetch

(* A row is OCCUPIED as long as a session owns it.                         *)
LEMMA OccupiedNext == ASSUME IInv, [Next]_vars PROVE OwnsOccupied'
<1> USE PoolAssumption DEF IInv, Pools, Mine, At, Goto, memory, troubles
<1>1. ASSUME NEW t \in Threads, Begin(t) PROVE OwnsOccupied'
  BY <1>1 DEF Begin, OwnsOccupied, Owns
<1>2. ASSUME NEW t \in Threads, NewStatus(t) PROVE OwnsOccupied'
  BY <1>2 DEF NewStatus, OwnsOccupied, Owns
<1>3. ASSUME NEW t \in Threads, CheckLists(t) PROVE OwnsOccupied'
  BY <1>3 DEF CheckLists, OwnsOccupied, Owns
<1>4. ASSUME NEW t \in Threads, NewLists(t) PROVE OwnsOccupied'
  BY <1>4 DEF NewLists, OwnsOccupied, Owns
<1>5. ASSUME NEW t \in Threads, GetList(t) PROVE OwnsOccupied'
  BY <1>5 DEF GetList, Pick, LoadIndex, Finally, TypeOK, OwnsOccupied, Owns
<1>6. ASSUME NEW t \in Threads, PutList(t) PROVE OwnsOccupied'
  BY <1>6 DEF PutList, OwnsOccupied, Owns
<1>7. ASSUME NEW t \in Threads, FillList(t) PROVE OwnsOccupied'
  BY <1>7 DEF FillList, Pick, LoadIndex, Finally, TypeOK, OwnsOccupied, Owns
<1>8. ASSUME NEW t \in Threads, Lock(t) PROVE OwnsOccupied'
  BY <1>8 DEF Lock, Finally, TypeOK, OwnsOccupied, Owns
<1>9. ASSUME NEW t \in Threads, Occupy(t) PROVE OwnsOccupied'
  BY <1>9 DEF Occupy, AfterFetch, Finally, TypeOK, OwnsOccupied, Owns
<1>10. ASSUME NEW t \in Threads, Release(t) PROVE OwnsOccupied'
  BY <1>10 DEF Release, TypeOK, OwnsOccupied, Owns
<1>11. ASSUME NEW t \in Threads, ClearRow(t) PROVE OwnsOccupied'
  BY <1>11 DEF ClearRow, TypeOK, Shapes, Shape, OwnsOccupied, OwnsAlone, Owns
<1>12. ASSUME NEW t \in Threads, EndSession(t) PROVE OwnsOccupied'
  BY <1>12 DEF EndSession, Nothing, OwnsOccupied, Owns
<1>13. ASSUME NEW t \in Threads, FetchFails(t) PROVE OwnsOccupied'
  BY <1>13 DEF FetchFails, Finally, TypeOK, OwnsOccupied, Owns
<1>14. ASSUME NEW t \in Threads, ClearRowFails(t) PROVE OwnsOccupied'
  BY <1>14, ClearRowFailsOwners DEF ClearRowFails, OwnsOccupied
<1>15. ASSUME NEW s \in Servers, Crash(s) PROVE OwnsOccupied'
  BY <1>15, CrashOwners DEF Crash, OwnsOccupied
<1>16. CASE UNCHANGED vars
  BY <1>16 DEF vars, OwnsOccupied, Owns
<1> QED
  BY <1>1, <1>2, <1>3, <1>4, <1>5, <1>6, <1>7, <1>8, <1>9, <1>10, <1>11, <1>12, <1>13, <1>14, <1>15, <1>16
     DEF Next, Session, Fetch

(* A session gets a row only while nobody owns it.                         *)
LEMMA AloneNext == ASSUME IInv, [Next]_vars PROVE OwnsAlone'
<1> USE PoolAssumption DEF IInv, Pools, Mine, At, Goto, memory, troubles
<1>1. ASSUME NEW t \in Threads, Begin(t) PROVE OwnsAlone'
  BY <1>1 DEF Begin, OwnsAlone, Owns
<1>2. ASSUME NEW t \in Threads, NewStatus(t) PROVE OwnsAlone'
  BY <1>2 DEF NewStatus, OwnsAlone, Owns
<1>3. ASSUME NEW t \in Threads, CheckLists(t) PROVE OwnsAlone'
  BY <1>3 DEF CheckLists, OwnsAlone, Owns
<1>4. ASSUME NEW t \in Threads, NewLists(t) PROVE OwnsAlone'
  BY <1>4 DEF NewLists, OwnsAlone, Owns
<1>5. ASSUME NEW t \in Threads, GetList(t) PROVE OwnsAlone'
  BY <1>5 DEF GetList, Pick, LoadIndex, Finally, TypeOK, OwnsAlone, Owns
<1>6. ASSUME NEW t \in Threads, PutList(t) PROVE OwnsAlone'
  BY <1>6 DEF PutList, OwnsAlone, Owns
<1>7. ASSUME NEW t \in Threads, FillList(t) PROVE OwnsAlone'
  BY <1>7 DEF FillList, Pick, LoadIndex, Finally, TypeOK, Shape, OwnsAlone, Owns
<1>8. ASSUME NEW t \in Threads, Lock(t) PROVE OwnsAlone'
  BY <1>8 DEF Lock, Finally, TypeOK, OwnsAlone, Owns
<1>9. ASSUME NEW t \in Threads, Occupy(t) PROVE OwnsAlone'
  <2>1. \A u \in Threads \ {t} : \A p \in Pools : \A i \in Indexes : Owns(u, p, i)' <=> Owns(u, p, i)
    BY <1>9 DEF Occupy, AfterFetch, Finally, TypeOK, Owns
  <2>2. /\ pc'[t] # "clear" /\ pc[t] = "occupy"
        /\ \/ held'[t] = held[t]
           \/ /\ index[t] \notin occupied[pool[t]]
              /\ held'[t] = [held[t] EXCEPT ![pool[t]] = index[t]]
    BY <1>9 DEF Occupy, AfterFetch, Finally, TypeOK
  <2>3. \A p \in Pools : \A i \in Indexes :
          Owns(t, p, i)' => Owns(t, p, i) \/ i \notin occupied[p]
    BY <2>2 DEF TypeOK, Owns
  <2> QED
    BY <2>1, <2>3 DEF OwnsOccupied, OwnsAlone
<1>10. ASSUME NEW t \in Threads, Release(t) PROVE OwnsAlone'
  BY <1>10 DEF Release, TypeOK, OwnsAlone, Owns
<1>11. ASSUME NEW t \in Threads, ClearRow(t) PROVE OwnsAlone'
  BY <1>11 DEF ClearRow, OwnsAlone, Owns
<1>12. ASSUME NEW t \in Threads, EndSession(t) PROVE OwnsAlone'
  BY <1>12 DEF EndSession, Nothing, OwnsAlone, Owns
<1>13. ASSUME NEW t \in Threads, FetchFails(t) PROVE OwnsAlone'
  BY <1>13 DEF FetchFails, Finally, TypeOK, OwnsAlone, Owns
<1>14. ASSUME NEW t \in Threads, ClearRowFails(t) PROVE OwnsAlone'
  BY <1>14, ClearRowFailsOwners DEF OwnsAlone
<1>15. ASSUME NEW s \in Servers, Crash(s) PROVE OwnsAlone'
  BY <1>15, CrashOwners DEF OwnsAlone
<1>16. CASE UNCHANGED vars
  BY <1>16 DEF vars, OwnsAlone, Owns
<1> QED
  BY <1>1, <1>2, <1>3, <1>4, <1>5, <1>6, <1>7, <1>8, <1>9, <1>10, <1>11, <1>12, <1>13, <1>14, <1>15, <1>16
     DEF Next, Session, Fetch

(* A row keeps its owner in a step that neither takes nor gives back.      *)
LEMMA OwnersStay ==
  ASSUME NoRowLeaks, UNCHANGED <<occupied, held, pool, mislaid>>,
         \A u \in Threads : pc[u] = "clear" => pc'[u] = "clear" /\ index'[u] = index[u]
  PROVE  NoRowLeaks'
<1>1. \A u \in Threads : \A p \in Pools : \A i \in occupied[p] : Owns(u, p, i) => Owns(u, p, i)'
  BY DEF Owns
<1> SUFFICES ASSUME NEW p \in Pools, NEW i \in occupied'[p], <<p, i>> \notin mislaid'
             PROVE  \E u \in Threads : Owns(u, p, i)'
  BY DEF NoRowLeaks
<1>2. PICK u \in Threads : Owns(u, p, i)
  BY DEF NoRowLeaks
<1> QED
  BY <1>1, <1>2

(* A row stays OCCUPIED only for its owner, or for one that was stopped,   *)
(* provided the finally blocks release every index there is.               *)
LEMMA LeakNext ==
  ASSUME IInv, NoRowLeaks, [Next]_vars, \A i \in Indexes : i >= LeastReleased
  PROVE NoRowLeaks'
<1> USE PoolAssumption DEF IInv, Pools, Mine, At, Goto, memory, troubles
<1>1. ASSUME NEW t \in Threads, Begin(t) PROVE NoRowLeaks'
  BY <1>1 DEF Begin, NoRowLeaks, Owns
<1>2. ASSUME NEW t \in Threads, NewStatus(t) PROVE NoRowLeaks'
  BY <1>2 DEF NewStatus, NoRowLeaks, Owns
<1>3. ASSUME NEW t \in Threads, CheckLists(t) PROVE NoRowLeaks'
  BY <1>3 DEF CheckLists, NoRowLeaks, Owns
<1>4. ASSUME NEW t \in Threads, NewLists(t) PROVE NoRowLeaks'
  BY <1>4 DEF NewLists, NoRowLeaks, Owns
<1>5. ASSUME NEW t \in Threads, GetList(t) PROVE NoRowLeaks'
  <2>1. \A u \in Threads : pc[u] = "clear" => pc'[u] = "clear" /\ index'[u] = index[u]
    BY <1>5 DEF GetList, Pick, LoadIndex, Finally, TypeOK
  <2> QED
    BY <1>5, <2>1, OwnersStay DEF GetList
<1>6. ASSUME NEW t \in Threads, PutList(t) PROVE NoRowLeaks'
  BY <1>6 DEF PutList, NoRowLeaks, Owns
<1>7. ASSUME NEW t \in Threads, FillList(t) PROVE NoRowLeaks'
  <2>1. \A u \in Threads : pc[u] = "clear" => pc'[u] = "clear" /\ index'[u] = index[u]
    BY <1>7 DEF FillList, Pick, LoadIndex, Finally, TypeOK
  <2> QED
    BY <1>7, <2>1, OwnersStay DEF FillList
<1>8. ASSUME NEW t \in Threads, Lock(t) PROVE NoRowLeaks'
  BY <1>8 DEF Lock, Finally, TypeOK, Fetching, NoRowLeaks, Owns
<1>9. ASSUME NEW t \in Threads, Occupy(t) PROVE NoRowLeaks'
  <2> SUFFICES ASSUME NEW p \in Pools, NEW i \in occupied'[p], <<p, i>> \notin mislaid'
               PROVE  \E u \in Threads : Owns(u, p, i)'
    BY DEF NoRowLeaks
  <2>1. <<p, i>> \notin mislaid /\ i \in Indexes
    BY <1>9, TypeNext DEF Occupy, TypeOK
  <2>2. held'[t] = held[t] \/ held'[t] = [held[t] EXCEPT ![pool[t]] = index[t]]
    BY <1>9 DEF Occupy, TypeOK
  <2>3. held[t][pool[t]] = None
    BY <1>9 DEF Occupy, Shapes, Shape, Fetching, TypeOK
  <2>4. CASE i \in occupied[p]
    <3>1. PICK u \in Threads : Owns(u, p, i)
      BY <2>1, <2>4 DEF NoRowLeaks
    <3>2. CASE u = t
      <4>1. held[t][p] = i
        BY <1>9, <3>1, <3>2 DEF Occupy, Owns
      <4>2. held'[t][p] = i
        BY <2>1, <2>2, <2>3, <4>1 DEF TypeOK
      <4> QED
        BY <4>2 DEF Owns
    <3>3. CASE u # t
      <4>1. /\ held'[u] = held[u] /\ pc'[u] = pc[u]
            /\ pool'[u] = pool[u] /\ index'[u] = index[u]
        BY <1>9, <3>3 DEF Occupy, AfterFetch, Finally, TypeOK
      <4> QED
        BY <3>1, <4>1 DEF Owns
    <3> QED
      BY <3>2, <3>3
  <2>5. CASE i \notin occupied[p]
    <3>1. p = pool[t] /\ i = index[t] /\ held'[t][p] = index[t]
      BY <1>9, <2>5 DEF Occupy, TypeOK
    <3> QED
      BY <3>1 DEF Owns
  <2> QED
    BY <2>4, <2>5
<1>10. ASSUME NEW t \in Threads, Release(t) PROVE NoRowLeaks'
  <2> SUFFICES ASSUME NEW p \in Pools, NEW i \in occupied'[p], <<p, i>> \notin mislaid'
               PROVE  \E u \in Threads : Owns(u, p, i)'
    BY DEF NoRowLeaks
  <2>1. PICK u \in Threads : Owns(u, p, i)
    BY <1>10 DEF Release, NoRowLeaks
  <2>2. PICK q \in Pools : /\ pool' = [pool EXCEPT ![t] = q]
                           /\ index' = [index EXCEPT ![t] = held[t][q]]
                           /\ held' = [held EXCEPT ![t][q] = None]
    BY <1>10 DEF Release, ToRelease
  <2>3. pc' = [pc EXCEPT ![t] = "clear"] /\ pc[t] = "finally"
    BY <1>10 DEF Release
  <2>4. CASE u # t
    BY <2>1, <2>2, <2>3, <2>4 DEF Owns, TypeOK
  <2>5. CASE u = t
    <3>1. held[t][p] = i
      BY <2>1, <2>3, <2>5 DEF Owns
    <3>2. CASE p = q
      BY <2>2, <2>3, <3>1, <3>2 DEF Owns, TypeOK
    <3>3. CASE p # q
      <4>1. held'[t][p] = i
        BY <2>2, <3>1, <3>3 DEF TypeOK
      <4> QED
        BY <4>1 DEF Owns
    <3> QED
      BY <3>2, <3>3
  <2> QED
    BY <2>4, <2>5
<1>11. ASSUME NEW t \in Threads, ClearRow(t) PROVE NoRowLeaks'
  BY <1>11 DEF ClearRow, TypeOK, NoRowLeaks, Owns
<1>12. ASSUME NEW t \in Threads, EndSession(t) PROVE NoRowLeaks'
  BY <1>12 DEF EndSession, ToRelease, Releases, TypeOK, Nothing, NoRowLeaks, Owns
<1>13. ASSUME NEW t \in Threads, FetchFails(t) PROVE NoRowLeaks'
  BY <1>13 DEF FetchFails, Finally, TypeOK, NoRowLeaks, Owns
<1>14. ASSUME NEW t \in Threads, ClearRowFails(t) PROVE NoRowLeaks'
  <2> SUFFICES ASSUME NEW p \in Pools, NEW i \in occupied'[p], <<p, i>> \notin mislaid'
               PROVE  \E u \in Threads : Owns(u, p, i)'
    BY DEF NoRowLeaks
  <2>1. /\ i \in occupied[p] /\ i \in Indexes
        /\ <<p, i>> \notin mislaid /\ <<p, i>> \notin OwnedBy({t})
    BY <1>14 DEF ClearRowFails, TypeOK
  <2>2. PICK u \in Threads : Owns(u, p, i)
    BY <2>1 DEF NoRowLeaks
  <2>3. ~Owns(t, p, i)
    BY <2>1 DEF OwnedBy
  <2> QED
    BY <1>14, <2>1, <2>2, <2>3, ClearRowFailsOwners
<1>15. ASSUME NEW s \in Servers, Crash(s) PROVE NoRowLeaks'
  <2> SUFFICES ASSUME NEW p \in Pools, NEW i \in occupied'[p], <<p, i>> \notin mislaid'
               PROVE  \E u \in Threads : Owns(u, p, i)'
    BY DEF NoRowLeaks
  <2> DEFINE stopped == {u \in Threads : ServerOf[u] = s}
  <2>1. /\ i \in occupied[p] /\ i \in Indexes
        /\ <<p, i>> \notin mislaid /\ <<p, i>> \notin OwnedBy(stopped)
    BY <1>15 DEF Crash, TypeOK
  <2>2. PICK u \in Threads : Owns(u, p, i)
    BY <2>1 DEF NoRowLeaks
  <2>3. ServerOf[u] # s
    BY <2>1, <2>2 DEF OwnedBy
  <2> QED
    BY <1>15, <2>1, <2>2, <2>3, CrashOwners
<1>16. CASE UNCHANGED vars
  BY <1>16 DEF vars, NoRowLeaks, Owns
<1> QED
  BY <1>1, <1>2, <1>3, <1>4, <1>5, <1>6, <1>7, <1>8, <1>9, <1>10, <1>11, <1>12, <1>13, <1>14, <1>15, <1>16
     DEF Next, Session, Fetch

(* The invariant holds at the start and after every step.                  *)
LEMMA InitInv == Init => IInv
<1> SUFFICES ASSUME Init PROVE IInv
  OBVIOUS
<1> USE PoolAssumption DEF Init, Nothing, NoIndex, Pools
<1>1. TypeOK
  BY DEF TypeOK, Steps
<1>2. Shapes
  BY DEF Shapes, Shape, Fetching
<1>3. OwnsOccupied /\ OwnsAlone
  BY DEF OwnsOccupied, OwnsAlone, Owns
<1> QED
  BY <1>1, <1>2, <1>3 DEF IInv

(* The four parts hold together in every reachable state.                  *)
LEMMA Invariant == Spec => []IInv
<1>1. ASSUME IInv, [Next]_vars PROVE IInv'
  BY <1>1, TypeNext, ShapeNext, OccupiedNext, AloneNext DEF IInv
<1> QED
  BY <1>1, InitInv, PTL DEF Spec

(* The state of the pools, as IndexAllocator sees it.                      *)
UsersOf == [x \in Pools \X Indexes |-> {t \in Threads : Owns(t, x[1], x[2])}]
LostRows == {x \in Pools \X Indexes : x[2] \in occupied[x[1]] /\ \A t \in Threads : ~Owns(t, x[1], x[2])}

(* It is the same while the rows, the owners and the faults are.           *)
LEMMA SameOwners ==
  ASSUME UNCHANGED <<occupied, faults>>,
         \A t \in Threads : \A p \in Pools : \A i \in Indexes : Owns(t, p, i)' <=> Owns(t, p, i)
  PROVE  UNCHANGED Allocator!avars
<1>1. [x \in Pools \X Indexes |-> {t \in Threads : Owns(t, x[1], x[2])}]'
      = [x \in Pools \X Indexes |-> {t \in Threads : Owns(t, x[1], x[2])}]
  OBVIOUS
<1>2. {x \in Pools \X Indexes : x[2] \in occupied[x[1]] /\ \A t \in Threads : ~Owns(t, x[1], x[2])}'
      = {x \in Pools \X Indexes : x[2] \in occupied[x[1]] /\ \A t \in Threads : ~Owns(t, x[1], x[2])}
  OBVIOUS
<1> QED
  BY <1>1, <1>2 DEF Allocator!avars

(* Every variable keeps its type, for any numbers of servers, threads,     *)
(* indexes, tries and faults.                                              *)
THEOREM TypeCorrect == Spec => []TypeOK
<1>1. IInv => TypeOK
  BY DEF IInv
<1> QED
  BY <1>1, Invariant, PTL

(* No two sessions ever use one index of a pool: the row is taken by an    *)
(* update that asks for zt = 1, whatever happens to the servers' memory.   *)
THEOREM NeverShared == Spec => []Exclusive
<1>1. IInv => Exclusive
  <2> SUFFICES ASSUME IInv, NEW t \in Threads, NEW u \in Threads, NEW p \in Pools,
                      t # u, held[t][p] # None
               PROVE  held[t][p] # held[u][p]
    BY DEF Exclusive
  <2>1. held[t][p] \in Indexes
    BY DEF IInv, TypeOK
  <2> QED
    BY <2>1 DEF IInv, OwnsAlone, Owns
<1> QED
  BY <1>1, Invariant, PTL

(* Where the finally blocks release every index there is, every OCCUPIED   *)
(* row has a session that uses it, or had one that was stopped with it by  *)
(* a restart or by a statement of release that threw.                      *)
THEOREM NothingLeaks ==
  ASSUME \A i \in Indexes : i >= LeastReleased
  PROVE  Spec => []NoRowLeaks
<1>1. Init => NoRowLeaks
  BY DEF Init, NoIndex, NoRowLeaks
<1>2. IInv /\ NoRowLeaks /\ [Next]_vars => NoRowLeaks'
  BY LeakNext
<1> QED
  BY <1>1, <1>2, Invariant, PTL DEF Spec

(* A step of the memory, the lists or a lock changes no owner.             *)
LEMMA FetchStutters ==
  ASSUME IInv, NEW t \in Threads,
         Begin(t) \/ NewStatus(t) \/ CheckLists(t) \/ NewLists(t)
           \/ GetList(t) \/ PutList(t) \/ FillList(t) \/ Lock(t)
  PROVE  UNCHANGED Allocator!avars
<1>1. UNCHANGED <<occupied, held, pool, faults>>
  BY DEF Begin, NewStatus, CheckLists, NewLists, GetList, PutList, FillList, Lock, troubles
<1>2. \A u \in Threads \ {t} : pc'[u] = pc[u] /\ index'[u] = index[u]
  BY DEF Begin, NewStatus, CheckLists, NewLists, GetList, PutList, FillList, Lock,
     Goto, Pick, LoadIndex, Finally, IInv, TypeOK
<1>3. pc[t] # "clear" /\ pc'[t] # "clear"
  BY DEF Begin, NewStatus, CheckLists, NewLists, GetList, PutList, FillList, Lock,
     At, Goto, Pick, LoadIndex, Finally, IInv, TypeOK
<1>4. \A u \in Threads : \A p \in Pools : \A i \in Indexes : Owns(u, p, i)' <=> Owns(u, p, i)
  BY <1>1, <1>2, <1>3 DEF Owns
<1> QED
  BY <1>1, <1>4, SameOwners

(* Occupying a row takes an index that nobody has and that is not lost.    *)
LEMMA OccupyTakes ==
  ASSUME IInv, NEW t \in Threads, Occupy(t)
  PROVE  [Allocator!ANext]_(Allocator!avars)
<1> DEFINE q == pool[t]
           j == index[t]
<1>1. q \in Pools /\ j \in Indexes /\ held[t][q] = None /\ pc[t] = "occupy"
  <2>1. pc[t] = "occupy" /\ q \in Pools /\ j \in Indexes \cup {None}
    BY DEF Occupy, At, IInv, TypeOK
  <2>2. Shape(t)
    BY DEF IInv, Shapes
  <2> QED
    BY <2>1, <2>2 DEF Shape, Fetching, Pools
<1>2. CASE j \in occupied[q]
  <2>1. UNCHANGED <<occupied, held, pool, faults>>
    BY <1>2 DEF Occupy, troubles
  <2>2. /\ \A u \in Threads \ {t} : pc'[u] = pc[u] /\ index'[u] = index[u]
        /\ pc'[t] # "clear"
    BY <1>2 DEF Occupy, Finally, Goto, IInv, TypeOK
  <2>3. \A u \in Threads : \A p \in Pools : \A i \in Indexes : Owns(u, p, i)' <=> Owns(u, p, i)
    BY <1>1, <2>1, <2>2 DEF Owns
  <2> QED
    BY <2>1, <2>3, SameOwners
<1>3. CASE j \notin occupied[q]
  <2>1. /\ occupied' = [occupied EXCEPT ![q] = @ \cup {j}]
        /\ held' = [held EXCEPT ![t][q] = j]
        /\ pc'[t] # "clear" /\ UNCHANGED faults
        /\ \A u \in Threads \ {t} : pc'[u] = pc[u] /\ index'[u] = index[u] /\ pool'[u] = pool[u]
    BY <1>3 DEF Occupy, AfterFetch, Goto, IInv, TypeOK, troubles
  <2>2. \A u \in Threads : ~Owns(u, q, j)
    BY <1>1, <1>3 DEF IInv, OwnsOccupied
  <2>3. \A u \in Threads : \A p \in Pools : \A i \in Indexes :
          Owns(u, p, i)' <=> Owns(u, p, i) \/ (u = t /\ p = q /\ i = j)
    <3>1. \A p \in Pools : held'[t][p] = IF p = q THEN j ELSE held[t][p]
      BY <1>1, <2>1 DEF IInv, TypeOK
    <3>2. \A u \in Threads \ {t} : held'[u] = held[u]
      BY <2>1 DEF IInv, TypeOK
    <3> QED
      BY <1>1, <2>1, <3>1, <3>2, PoolAssumption DEF Owns
  <2>4. UsersOf[<<q, j>>] = {} /\ UsersOf'[<<q, j>>] = {t}
    BY <1>1, <2>2, <2>3 DEF UsersOf
  <2>5. \A x \in (Pools \X Indexes) \ {<<q, j>>} : UsersOf'[x] = UsersOf[x]
    BY <2>3 DEF UsersOf
  <2>6. UsersOf' = [UsersOf EXCEPT ![<<q, j>>] = {t}]
    BY <2>4, <2>5 DEF UsersOf
  <2>7. <<q, j>> \notin LostRows
    BY <1>3 DEF LostRows
  <2>8. LostRows' = LostRows
    <3>1. \A x \in Pools \X Indexes : x # <<q, j>> =>
            (x[2] \in occupied'[x[1]] <=> x[2] \in occupied[x[1]])
      BY <1>1, <2>1 DEF IInv, TypeOK
    <3>2. <<q, j>> \notin LostRows'
      BY <2>4 DEF LostRows, UsersOf
    <3>3. \A x \in Pools \X Indexes : x # <<q, j>> => (x \in LostRows' <=> x \in LostRows)
      BY <2>5, <3>1 DEF LostRows, UsersOf
    <3>4. LostRows \subseteq Pools \X Indexes /\ LostRows' \subseteq Pools \X Indexes
      BY DEF LostRows
    <3> QED
      BY <2>7, <3>2, <3>3, <3>4
  <2>9. Allocator!Take(t, <<q, j>>)
    BY <1>1, <2>1, <2>4, <2>6, <2>7, <2>8 DEF Allocator!Take, UsersOf, LostRows
  <2> QED
    BY <1>1, <2>9 DEF Allocator!ANext
<1> QED
  BY <1>2, <1>3

(* Releasing an index in the memory leaves its row to the same session.    *)
LEMMA ReleaseStutters ==
  ASSUME IInv, NEW t \in Threads, Release(t)
  PROVE  UNCHANGED Allocator!avars
<1>1. PICK q \in Pools : /\ held[t][q] # None /\ pc[t] = "finally"
                         /\ pc' = [pc EXCEPT ![t] = "clear"]
                         /\ pool' = [pool EXCEPT ![t] = q]
                         /\ index' = [index EXCEPT ![t] = held[t][q]]
                         /\ held' = [held EXCEPT ![t][q] = None]
  BY DEF Release, ToRelease, Releases, At, Goto
<1>2. UNCHANGED <<occupied, faults>>
  BY DEF Release, troubles
<1>3. \A p \in Pools : \A i \in Indexes : Owns(t, p, i)' <=> Owns(t, p, i)
  <2>1. \A p \in Pools : held'[t][p] = IF p = q THEN None ELSE held[t][p]
    BY <1>1 DEF IInv, TypeOK
  <2> QED
    BY <1>1, <2>1, PoolAssumption DEF Owns, IInv, TypeOK
<1>4. \A u \in Threads \ {t} : \A p \in Pools : \A i \in Indexes : Owns(u, p, i)' <=> Owns(u, p, i)
  BY <1>1 DEF Owns, IInv, TypeOK
<1> QED
  BY <1>2, <1>3, <1>4, SameOwners

(* Clearing the row gives the index back, of which the thread was the only *)
(* user.                                                                   *)
LEMMA ClearGivesBack ==
  ASSUME IInv, NEW t \in Threads, ClearRow(t)
  PROVE  Allocator!ANext
<1> DEFINE q == pool[t]
           j == index[t]
<1>1. /\ q \in Pools /\ j \in Indexes /\ held[t][q] = None /\ pc[t] = "clear"
      /\ occupied' = [occupied EXCEPT ![q] = @ \ {j}]
      /\ pc' = [pc EXCEPT ![t] = "finally"] /\ index' = [index EXCEPT ![t] = None]
      /\ UNCHANGED <<pool, held, faults>>
  BY DEF ClearRow, At, Goto, IInv, TypeOK, Shapes, Shape, troubles
<1>2. \A u \in Threads : Owns(u, q, j) <=> u = t
  BY <1>1 DEF Owns, IInv, OwnsAlone
<1>3. \A u \in Threads : \A p \in Pools : \A i \in Indexes :
        Owns(u, p, i)' <=> Owns(u, p, i) /\ ~(u = t /\ p = q /\ i = j)
  BY <1>1, PoolAssumption DEF Owns, IInv, TypeOK
<1>4. UsersOf[<<q, j>>] = {t} /\ UsersOf'[<<q, j>>] = {}
  BY <1>1, <1>2, <1>3 DEF UsersOf
<1>5. \A x \in (Pools \X Indexes) \ {<<q, j>>} : UsersOf'[x] = UsersOf[x]
  BY <1>3 DEF UsersOf
<1>6. UsersOf' = [UsersOf EXCEPT ![<<q, j>>] = {}]
  BY <1>1, <1>4, <1>5 DEF UsersOf
<1>7. LostRows' = LostRows
  <2>1. \A x \in Pools \X Indexes : x # <<q, j>> =>
          (x[2] \in occupied'[x[1]] <=> x[2] \in occupied[x[1]])
    BY <1>1 DEF IInv, TypeOK
  <2>2. <<q, j>> \notin LostRows /\ <<q, j>> \notin LostRows'
    BY <1>1, <1>4 DEF LostRows, UsersOf, IInv, TypeOK
  <2> QED
    BY <1>5, <2>1, <2>2 DEF LostRows, UsersOf
<1>8. Allocator!GiveBack(t, <<q, j>>)
  BY <1>1, <1>4, <1>6, <1>7 DEF Allocator!GiveBack, UsersOf, LostRows
<1> QED
  BY <1>1, <1>8 DEF Allocator!ANext

(* A session ends with no index left, if the finally blocks release all.   *)
LEMMA EndStutters ==
  ASSUME IInv, NEW t \in Threads, EndSession(t), \A i \in Indexes : i >= LeastReleased
  PROVE  UNCHANGED Allocator!avars
<1>1. \A p \in Pools : held[t][p] = None
  BY DEF EndSession, ToRelease, Releases, IInv, TypeOK
<1>2. /\ UNCHANGED <<occupied, faults>>
      /\ pc[t] # "clear" /\ pc'[t] # "clear"
      /\ \A p \in Pools : held'[t][p] = None
      /\ \A u \in Threads \ {t} : /\ pc'[u] = pc[u] /\ held'[u] = held[u]
                                  /\ pool'[u] = pool[u] /\ index'[u] = index[u]
  BY DEF EndSession, At, Goto, Nothing, IInv, TypeOK, troubles
<1>3. \A u \in Threads : \A p \in Pools : \A i \in Indexes : Owns(u, p, i)' <=> Owns(u, p, i)
  BY <1>1, <1>2 DEF Owns
<1> QED
  BY <1>2, <1>3, SameOwners

(* Sessions that are left without indexes lose the rows they owned.        *)
LEMMA LeaversLose ==
  ASSUME IInv, UNCHANGED occupied, NEW us \in SUBSET Threads,
         \A u \in Threads : \A p \in Pools : \A i \in Indexes :
           Owns(u, p, i)' <=> Owns(u, p, i) /\ u \notin us
  PROVE  Allocator!Leave(us)
<1>1. UsersOf' = [x \in Pools \X Indexes |-> UsersOf[x] \ us]
  BY DEF UsersOf
<1>2. \A x \in Pools \X Indexes :
        x \in LostRows' <=> x \in LostRows \/ (UsersOf[x] # {} /\ UsersOf[x] \subseteq us)
  <2> SUFFICES ASSUME NEW p \in Pools, NEW i \in Indexes
               PROVE  LET x == <<p, i>>
                      IN  x \in LostRows' <=> x \in LostRows \/ (UsersOf[x] # {} /\ UsersOf[x] \subseteq us)
    OBVIOUS
  <2>1. <<p, i>> \in LostRows <=> i \in occupied[p] /\ \A u \in Threads : ~Owns(u, p, i)
    BY DEF LostRows
  <2>2. <<p, i>> \in LostRows' <=> i \in occupied[p] /\ \A u \in Threads : ~Owns(u, p, i)'
    BY DEF LostRows
  <2>3. UsersOf[<<p, i>>] = {u \in Threads : Owns(u, p, i)}
    BY DEF UsersOf
  <2>4. \A u \in Threads : Owns(u, p, i) => i \in occupied[p]
    BY DEF IInv, OwnsOccupied
  <2> QED
    BY <2>1, <2>2, <2>3, <2>4
<1>3. LostRows' = LostRows \cup {x \in Pools \X Indexes : UsersOf[x] # {} /\ UsersOf[x] \subseteq us}
  <2>1. LostRows \subseteq Pools \X Indexes /\ LostRows' \subseteq Pools \X Indexes
    BY DEF LostRows
  <2> QED
    BY <1>2, <2>1
<1> QED
  BY <1>1, <1>3 DEF Allocator!Leave, UsersOf, LostRows

(* A server that stops takes the indexes of its sessions with it.          *)
LEMMA CrashLoses ==
  ASSUME IInv, NEW s \in Servers, Crash(s)
  PROVE  Allocator!ANext
<1> DEFINE stopped == {t \in Threads : ServerOf[t] = s}
<1>1. Allocator!Fault /\ UNCHANGED occupied
  BY DEF Crash, Fault, Allocator!Fault
<1>2. \A u \in Threads : \A p \in Pools : \A i \in Indexes :
        Owns(u, p, i)' <=> Owns(u, p, i) /\ u \notin stopped
  BY CrashOwners
<1>3. Allocator!Stop(stopped)
  BY <1>1, <1>2, LeaversLose DEF Allocator!Stop
<1> QED
  BY <1>3 DEF Allocator!ANext

(* A statement of fetch that throws changes no owner; it is a failure all  *)
(* the same.                                                               *)
LEMMA FetchFailsKeeps ==
  ASSUME IInv, NEW t \in Threads, FetchFails(t)
  PROVE  Allocator!ANext
<1>1. Allocator!Fault /\ UNCHANGED <<occupied, held, pool>>
  BY DEF FetchFails, Fault, Allocator!Fault
<1>2. /\ \A u \in Threads \ {t} : pc'[u] = pc[u] /\ index'[u] = index[u]
      /\ pc[t] # "clear" /\ pc'[t] # "clear"
  BY DEF FetchFails, Finally, Goto, IInv, TypeOK
<1>3. \A u \in Threads : \A p \in Pools : \A i \in Indexes : Owns(u, p, i)' <=> Owns(u, p, i)
  BY <1>1, <1>2 DEF Owns
<1>4. Allocator!Fail(t)
  BY <1>1, <1>3 DEF Allocator!Fail
<1> QED
  BY <1>4 DEF Allocator!ANext

(* A statement of release that throws takes the session's indexes with it. *)
LEMMA ClearRowFailsLoses ==
  ASSUME IInv, NEW t \in Threads, ClearRowFails(t)
  PROVE  Allocator!ANext
<1>1. Allocator!Fault /\ UNCHANGED occupied
  BY DEF ClearRowFails, Fault, Allocator!Fault
<1>2. \A u \in Threads : \A p \in Pools : \A i \in Indexes :
        Owns(u, p, i)' <=> Owns(u, p, i) /\ u \notin {t}
  BY ClearRowFailsOwners DEF IInv
<1>3. Allocator!Leave({t})
  BY <1>1, <1>2, LeaversLose
<1>4. Allocator!Fail(t)
  BY <1>1, <1>3 DEF Allocator!Fail
<1> QED
  BY <1>4 DEF Allocator!ANext

(* Where the finally blocks release every index there is, every run of the *)
(* pools is one of IndexAllocator's: indexes are given to one session at a *)
(* time, come back, and are lost by restarts and failing releases only.    *)
THEOREM Implements ==
  ASSUME \A i \in Indexes : i >= LeastReleased
  PROVE  Spec => KeepsPromise
<1>1. Init => Allocator!AInit
  BY PoolAssumption DEF Init, NoIndex, Nothing, Allocator!AInit, Owns
<1>2. IInv /\ [Next]_vars => [Allocator!ANext]_(Allocator!avars)
  <2> SUFFICES ASSUME IInv, [Next]_vars PROVE [Allocator!ANext]_(Allocator!avars)
    OBVIOUS
  <2>1. ASSUME NEW t \in Threads,
               Begin(t) \/ Session(t) \/ FetchFails(t) \/ ClearRowFails(t)
        PROVE  [Allocator!ANext]_(Allocator!avars)
    BY <2>1, FetchStutters, OccupyTakes, ReleaseStutters, ClearGivesBack, EndStutters,
       FetchFailsKeeps, ClearRowFailsLoses DEF Session, Fetch
  <2>2. CASE UNCHANGED vars
    <3>1. \A u \in Threads : \A p \in Pools : \A i \in Indexes : Owns(u, p, i)' <=> Owns(u, p, i)
      BY <2>2 DEF vars, Owns
    <3> QED
      BY <2>2, <3>1, SameOwners DEF vars, troubles
  <2> QED
    BY <2>1, <2>2, CrashLoses DEF Next
<1> QED
  BY <1>1, <1>2, Invariant, PTL DEF Spec, KeepsPromise, Allocator!ASpec

=============================================================================
