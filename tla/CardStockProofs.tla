-------------------------- MODULE CardStockProofs --------------------------
(***************************************************************************)
(* What production and the shelves, examined keep for any number of cards, boxes,    *)
(* tasks, notes and numbers in a box: numbers are carried by one usable    *)
(* card, produced boxes are full, and boxes leave by approved notes.       *)
(***************************************************************************)
EXTENDS CardStock, FiniteSetTheorems, TLAPS

Working == {"card", "row", "record", "inventory", "report"}
Busy(b) == call[b].step \in Working
Good(c) == eri[c] # None /\ eri[c].zt = "AVAILABLE"

(* Stations at work hold different cards, for numbers of their own boxes   *)
(* that no usable card carries.                                            *)
Hands ==
  /\ \A b \in Boxes : Busy(b) => BoxOf(call[b].kh) = b /\ Usable(call[b].kh) = {}
  /\ \A b, d \in Boxes : Busy(b) /\ Busy(d) /\ b # d => call[b].card # call[d].card

(* From the moment a card's old records are closed until its report, it is *)
(* not usable; its row and its one record are written in that order.       *)
Records ==
  /\ \A c \in Cards : eri[c] = None => running[c] = 0
  /\ \A b \in Boxes :
       /\ call[b].step \in Working \ {"card"} => ~Good(call[b].card)
       /\ call[b].step \in {"row", "record"} => running[call[b].card] = 0
       /\ call[b].step \in {"inventory", "report"} => running[call[b].card] = 1
       /\ call[b].step \in {"record", "inventory", "report"} =>
            eri[call[b].card] # None /\ eri[call[b].card].kh = call[b].kh

(* Boxes that a station has found full, or that are on a form or a note,   *)
(* are full.                                                               *)
FullInHand ==
  \A b \in Boxes :
    /\ call[b].step = "finish" => Full(b)
    /\ \A f \in Notes \cup {"in", "corps"} : b \in scanned[f] => Full(b)
    /\ \A n \in Notes : b \in listed[n] => Full(b)

(* The notes whose boxes may go out have been approved, and so saved, and  *)
(* what a saved note lists does not change.                                *)
Approving ==
  /\ \A e \in Examiners : approving[e] # None => approving[e] \in approved
  /\ \A n \in approved : note[n] # None

IInv ==
  /\ TypeOK /\ Hands /\ Records /\ OneCardPerNumber
  /\ ProducedIsFull /\ FullInHand /\ FinishedIsFull
  /\ Approving /\ OutIsApproved

-----------------------------------------------------------------------------
WorkingCalls ==
  [step : Working, card : Cards, kh : Numbers, bzhh : Boxes, planned : BOOLEAN]

Places == {None, Ministry} \cup {Applicant[n] : n \in Notes}

(* What a station's call is made of at each of its steps.                  *)
LEMMA CallTypes ==
  ASSUME TypeOK, NEW b \in Boxes
  PROVE  /\ call[b].step \in Working \cup {"idle", "finish"}
         /\ Busy(b) => call[b] \in WorkingCalls
         /\ call[b].step = "finish" => call[b].ssbm \in Places
         /\ call[b] \in Calls
         /\ DOMAIN call = Boxes
<1>1. call[b] \in Calls /\ DOMAIN call = Boxes
  BY DEF TypeOK
<1>2. \/ call[b] = Idle
      \/ call[b] \in [step : {"finish"}, ssbm : Places]
      \/ call[b] \in WorkingCalls
  BY <1>1 DEF Calls, Working, WorkingCalls, Places
<1> QED
  BY <1>1, <1>2 DEF Idle, Working, WorkingCalls, Busy

(* A call is still one after it has moved to another step.                 *)
LEMMA CallMoves ==
  ASSUME NEW k \in WorkingCalls, NEW s \in Working, NEW d \in Boxes
  PROVE  /\ [k EXCEPT !.step = s] \in Calls
         /\ [k EXCEPT !.step = s, !.bzhh = d] \in Calls
<1>1. /\ [k EXCEPT !.step = s] \in WorkingCalls
      /\ [k EXCEPT !.step = s, !.bzhh = d] \in WorkingCalls
  BY DEF WorkingCalls
<1> QED
  BY <1>1 DEF Calls, WorkingCalls, Working

(* A step that changes one station's call, one card's row and one card's   *)
(* count, each to a value of its type, keeps the types of all three.       *)
LEMMA OneChange ==
  ASSUME TypeOK, NEW b \in Boxes, NEW c \in Cards,
         \E k \in Calls : call' = [call EXCEPT ![b] = k],
         eri' = eri \/ \E row \in Row : eri' = [eri EXCEPT ![c] = row],
         running' = running \/ \E n \in {0, 1} : running' = [running EXCEPT ![c] = n]
  PROVE  /\ call' \in [Boxes -> Calls]
         /\ eri' \in [Cards -> {None} \cup Row]
         /\ running' \in [Cards -> {0, 1}]
<1>1. call' \in [Boxes -> Calls]
  BY DEF TypeOK
<1>2. eri' \in [Cards -> {None} \cup Row]
  BY DEF TypeOK
<1>3. running' \in [Cards -> {0, 1}]
  BY DEF TypeOK
<1> QED
  BY <1>1, <1>2, <1>3

(* The calls of the stations keep every variable's type.                   *)
LEMMA TypeCall ==
  ASSUME IInv, NEW b \in Boxes, Initialisation(b)
  PROVE  TypeOK'
<1> USE StockAssumption DEF At
<1> DEFINE c == call[b].card
<1>0. TypeOK
  BY DEF IInv
<1>a. Idle \in Calls
  BY DEF Calls
<1>b. call[b].step \in Working => call[b] \in WorkingCalls /\ c \in Cards /\ call[b].bzhh \in Boxes
                                  /\ call[b].kh \in Numbers
  BY <1>0, CallTypes DEF Busy, WorkingCalls
<1>1. ASSUME NEW kh \in Numbers, NEW d \in Cards, FactoryInitialize(b, kh, d) PROVE TypeOK'
  <2> DEFINE k == [step |-> "card", card |-> d, kh |-> kh, bzhh |-> b, planned |-> zt[b] = "PLANNED"]
  <2>1. k \in Calls
    BY DEF Calls
  <2> QED
    BY <1>0, <1>1, <2>1, OneChange DEF FactoryInitialize, TypeOK, shelves, examined
<1>2. CASE ReadCard(b)
  <2>1. call[b] \in WorkingCalls /\ c \in Cards
    BY <1>2, <1>b DEF ReadCard, Working
  <2>2. eri[c] = None \/ eri[c].bzhh \in Boxes
    BY <1>0, <2>1 DEF TypeOK, Row
  <2>3. \E k \in Calls : call' = [call EXCEPT ![b] = k]
    BY <1>2, <1>a, <2>1, <2>2, CallMoves DEF ReadCard, Goto, Return, Working
  <2> QED
    BY <1>0, <1>2, <2>1, <2>3, OneChange DEF ReadCard, TypeOK, shelves, examined
<1>3. CASE WriteRow(b)
  <2>1. call[b] \in WorkingCalls /\ c \in Cards /\ call[b].kh \in Numbers /\ call[b].bzhh \in Boxes
    BY <1>3, <1>b DEF WriteRow, Working
  <2>2. [kh |-> call[b].kh, zt |-> "NEW", bzhh |-> call[b].bzhh] \in Row
    BY <2>1 DEF Row
  <2>3. \E k \in Calls : call' = [call EXCEPT ![b] = k]
    BY <1>3, <2>1, CallMoves DEF WriteRow, Goto, Working
  <2> QED
    BY <1>0, <1>3, <2>1, <2>2, <2>3, OneChange DEF WriteRow, TypeOK, shelves, examined
<1>4. CASE CreateRecord(b)
  <2>1. call[b] \in WorkingCalls /\ c \in Cards
    BY <1>4, <1>b DEF CreateRecord, Working
  <2>2. running[c] + 1 = 1
    BY <1>4 DEF CreateRecord, IInv, Records
  <2>3. \E k \in Calls : call' = [call EXCEPT ![b] = k]
    BY <1>4, <2>1, CallMoves DEF CreateRecord, Goto, Working
  <2> QED
    BY <1>0, <1>4, <2>1, <2>2, <2>3, OneChange DEF CreateRecord, TypeOK, shelves, examined
<1>5. CASE SetProducing(b)
  <2>1. call[b] \in WorkingCalls /\ c \in Cards
    BY <1>5, <1>b DEF SetProducing, Working
  <2>2. \E k \in Calls : call' = [call EXCEPT ![b] = k]
    BY <1>5, <2>1, CallMoves DEF SetProducing, Goto, Working
  <2> QED
    BY <1>0, <1>5, <2>1, <2>2, OneChange DEF SetProducing, TypeOK, shelves, examined
<1>6. CASE Report(b)
  <2>1. c \in Cards
    BY <1>6, <1>b DEF Report, Working
  <2>2. eri[c] \in Row
    BY <1>0, <1>6, <2>1 DEF Report, IInv, Records, TypeOK
  <2>3. /\ [eri[c] EXCEPT !.zt = "AVAILABLE", !.bzhh = b] \in Row
        /\ [eri[c] EXCEPT !.zt = "DISABLE"] \in Row
    BY <2>2 DEF Row
  <2>4. \E k \in Calls : call' = [call EXCEPT ![b] = k]
    BY <1>6, <1>a DEF Report, Return
  <2>5. \E row \in Row : eri' = [eri EXCEPT ![c] = row]
    BY <1>6, <2>3 DEF Report
  <2> QED
    BY <1>0, <1>6, <2>1, <2>4, <2>5, OneChange DEF Report, TypeOK, shelves, examined
<1>7. CASE Break(b)
  BY <1>0, <1>7, <1>a DEF Break, Return, TypeOK, shelves, examined
<1>8. CASE FinishSubTask(b)
  <2>1. [step |-> "finish", ssbm |-> ssbm[b]] \in Calls
    BY <1>0 DEF TypeOK, Calls
  <2> QED
    BY <1>0, <1>8, <2>1 DEF FinishSubTask, TypeOK, shelves, examined
<1>9. CASE SetProduced(b)
  <2>1. call[b].ssbm \in Places
    BY <1>0, <1>9, CallTypes DEF SetProduced
  <2> QED
    BY <1>0, <1>9, <1>a, <2>1 DEF SetProduced, Return, TypeOK, Places, shelves, examined
<1> QED
  BY <1>1, <1>2, <1>3, <1>4, <1>5, <1>6, <1>7, <1>8, <1>9 DEF Initialisation

(* The clerks' steps keep every variable's type.                           *)
LEMMA TypeClerk == ASSUME TypeOK, Clerk PROVE TypeOK'
<1> USE StockAssumption DEF TypeOK, production, examined
<1>1. ASSUME NEW b \in Boxes, ScanIn(b) PROVE TypeOK'
  BY <1>1 DEF ScanIn, Scan
<1>2. ASSUME NEW b \in Boxes, InventoryIn(b) PROVE TypeOK'
  BY <1>2 DEF InventoryIn
<1>3. ASSUME NEW b \in Boxes, ScanCorps(b) PROVE TypeOK'
  BY <1>3 DEF ScanCorps, Scan
<1>4. ASSUME NEW b \in Boxes, InventoryInCorps(b) PROVE TypeOK'
  BY <1>4 DEF InventoryInCorps
<1>5. ASSUME NEW n \in Notes, NEW b \in Boxes, ScanOut(n, b) PROVE TypeOK'
  BY <1>5 DEF ScanOut, Scan
<1>6. ASSUME NEW n \in Notes, SaveExWarehouse(n) PROVE TypeOK'
  BY <1>6 DEF SaveExWarehouse
<1>7. ASSUME NEW n \in Notes, NEW e \in Examiners, Examine(e, n) PROVE TypeOK'
  BY <1>7 DEF Examine, examined
<1>8. ASSUME NEW e \in Examiners, InventoryOutByCkdh(e) PROVE TypeOK'
  BY <1>8 DEF InventoryOutByCkdh
<1>9. ASSUME NEW e \in Examiners, ExamineBreaks(e) PROVE TypeOK'
  BY <1>9 DEF ExamineBreaks
<1> QED
  BY <1>1, <1>2, <1>3, <1>4, <1>5, <1>6, <1>7, <1>8, <1>9 DEF Clerk

(* Every step keeps every variable's type.                                 *)
LEMMA TypeNext == ASSUME IInv, [Next]_vars PROVE TypeOK'
<1>0. TypeOK
  BY DEF IInv
<1>1. ASSUME NEW r \in Tasks, StartTask(r) \/ FinishTask(r) PROVE TypeOK'
  BY <1>0, <1>1 DEF StartTask, FinishTask, TypeOK, shelves, examined
<1>2. CASE UNCHANGED vars
  BY <1>0, <1>2 DEF vars, production, shelves, examined, TypeOK
<1> QED
  BY <1>0, <1>1, <1>2, TypeCall, TypeClerk DEF Next

(* A step of the clerks or of a task leaves the stations alone.            *)
LEMMA Stations ==
  ASSUME [Next]_vars
  PROVE  \/ UNCHANGED <<eri, running, call>>
         \/ \E b \in Boxes : Initialisation(b)
BY DEF Next, vars, production, Clerk, StartTask, FinishTask, ScanIn, InventoryIn, ScanCorps,
       InventoryInCorps, ScanOut, Scan, SaveExWarehouse, Examine, InventoryOutByCkdh, ExamineBreaks

(* Only the card in hand changes, and it is not usable before.             *)
LEMMA GoodStays ==
  ASSUME IInv, [Next]_vars, NEW c \in Cards, Good(c)
  PROVE  eri'[c] = eri[c]
<1>1. ASSUME NEW b \in Boxes, WriteRow(b) \/ Report(b) PROVE eri'[c] = eri[c]
  <2>1. call[b].card # c
    BY <1>1 DEF WriteRow, Report, At, IInv, Records, Working
  <2> QED
    BY <1>1, <2>1 DEF WriteRow, Report, IInv, TypeOK
<1>2. ASSUME NEW b \in Boxes, Initialisation(b) PROVE eri'[c] = eri[c]
  BY <1>1, <1>2 DEF Initialisation, FactoryInitialize, ReadCard, CreateRecord, SetProducing,
     Break, FinishSubTask, SetProduced
<1> QED
  BY <1>2, Stations

(* A full box stays full.                                                  *)
LEMMA FullStays ==
  ASSUME IInv, [Next]_vars, NEW b \in Boxes, Full(b)
  PROVE  Full(b)'
<1> SUFFICES ASSUME NEW i \in 1 .. Capacity PROVE Usable(<<b, i>>)' # {}
  BY DEF Full
<1>1. PICK c \in Usable(<<b, i>>) : TRUE
  BY DEF Full
<1> QED
  BY <1>1, GoodStays DEF Usable, Good

(* What the step of a station is to the calls of all: its own moves on,    *)
(* begins with a card nobody holds, or ends; the others stay.              *)
LEMMA OneCall ==
  ASSUME IInv, NEW b \in Boxes, Initialisation(b)
  PROVE  /\ \A d \in Boxes \ {b} : call'[d] = call[d]
         /\ \/ Busy(b)' /\ Busy(b) /\ call'[b].card = call[b].card /\ call'[b].kh = call[b].kh
            \/ Busy(b)' /\ call'[b].step = "card" /\ ~InHand(call'[b].card)
                 /\ BoxOf(call'[b].kh) = b /\ Usable(call'[b].kh) = {}
                 /\ UNCHANGED <<eri, running>>
            \/ ~Busy(b)' /\ (call'[b].step = "idle" \/ FinishSubTask(b))
<1> USE DEF At
<1>0. call \in [Boxes -> Calls] /\ (call[b].step \in Working => call[b] \in WorkingCalls)
  BY CallTypes DEF IInv, TypeOK, Busy
<1>1. ASSUME NEW kh \in Numbers, NEW c \in Cards, FactoryInitialize(b, kh, c) PROVE
      /\ \A d \in Boxes \ {b} : call'[d] = call[d]
      /\ Busy(b)' /\ call'[b].step = "card" /\ ~InHand(call'[b].card)
      /\ BoxOf(call'[b].kh) = b /\ Usable(call'[b].kh) = {}
      /\ UNCHANGED <<eri, running>>
  BY <1>0, <1>1 DEF FactoryInitialize, Busy, Working
<1>2. ASSUME ReadCard(b) \/ WriteRow(b) \/ CreateRecord(b) \/ SetProducing(b) PROVE
      /\ \A d \in Boxes \ {b} : call'[d] = call[d]
      /\ \/ Busy(b)' /\ Busy(b) /\ call'[b].card = call[b].card /\ call'[b].kh = call[b].kh
         \/ ~Busy(b)' /\ call'[b].step = "idle"
  <2>1. call[b] \in WorkingCalls
    BY <1>0, <1>2 DEF ReadCard, WriteRow, CreateRecord, SetProducing, Working
  <2>2. \/ Return(b)
        \/ \E s \in Working : Goto(b, s)
        \/ \E s \in Working : \E d \in Boxes : call' = [call EXCEPT ![b] = [@ EXCEPT !.step = s, !.bzhh = d]]
    <3>1. CASE ReadCard(b)
      <4>1. call[b].card \in Cards
        BY <2>1 DEF WorkingCalls
      <4>2. eri[call[b].card] = None \/ eri[call[b].card].bzhh \in Boxes
        BY <4>1 DEF IInv, TypeOK, Row
      <4> QED
        BY <3>1, <4>2 DEF ReadCard, Working
    <3> QED
      BY <1>2, <3>1 DEF WriteRow, CreateRecord, SetProducing, Working
  <2>3. CASE Return(b)
    BY <1>0, <2>3 DEF Return, Busy, Working, Idle
  <2>4. ASSUME NEW s \in Working, Goto(b, s) PROVE
        /\ \A d \in Boxes \ {b} : call'[d] = call[d]
        /\ Busy(b)' /\ Busy(b) /\ call'[b].card = call[b].card /\ call'[b].kh = call[b].kh
    BY <1>0, <2>1, <2>4 DEF Goto, Busy, WorkingCalls
  <2>5. ASSUME NEW s \in Working, NEW d \in Boxes,
               call' = [call EXCEPT ![b] = [@ EXCEPT !.step = s, !.bzhh = d]]
        PROVE  /\ \A e \in Boxes \ {b} : call'[e] = call[e]
               /\ Busy(b)' /\ Busy(b) /\ call'[b].card = call[b].card /\ call'[b].kh = call[b].kh
    BY <1>0, <2>1, <2>5 DEF Busy, WorkingCalls
  <2> QED
    BY <2>2, <2>3, <2>4, <2>5
<1>3. ASSUME Report(b) \/ Break(b) \/ SetProduced(b) \/ FinishSubTask(b) PROVE
      /\ \A d \in Boxes \ {b} : call'[d] = call[d]
      /\ ~Busy(b)' /\ (call'[b].step = "idle" \/ FinishSubTask(b))
  BY <1>0, <1>3 DEF Report, Break, SetProduced, FinishSubTask, Return, Busy, Working, Idle
<1> QED
  BY <1>1, <1>2, <1>3 DEF Initialisation

(* A card becomes usable only by its report, with its station's number.    *)
LEMMA GoodBecomes ==
  ASSUME IInv, [Next]_vars, NEW c \in Cards, ~Good(c), Good(c)'
  PROVE  \E b \in Boxes : /\ Report(b) /\ call[b].card = c /\ ~Busy(b)'
                          /\ eri'[c].kh = call[b].kh /\ eri'[c].bzhh = b
                          /\ \A d \in Cards \ {c} : eri'[d] = eri[d]
<1>1. PICK b \in Boxes : Initialisation(b)
  BY Stations DEF Good
<1>2. Report(b)
  <2>1. ~WriteRow(b)
    BY StockAssumption DEF WriteRow, Good, IInv, TypeOK
  <2> QED
    BY <1>1, <2>1 DEF Initialisation, FactoryInitialize, ReadCard, CreateRecord, SetProducing,
       Break, FinishSubTask, SetProduced, Good
<1>3. call[b].card \in Cards /\ call[b].step = "report" /\ eri[call[b].card] \in Row
      /\ eri[call[b].card].kh = call[b].kh
  BY <1>2, CallTypes DEF Report, At, IInv, TypeOK, Records, Busy, Working, WorkingCalls
<1>4. call[b].card = c
  BY <1>2, <1>3 DEF Report, Good, IInv, TypeOK
<1>5. eri' = [eri EXCEPT ![c] = [@ EXCEPT !.zt = "AVAILABLE", !.bzhh = b]]
  BY <1>2, <1>3, <1>4 DEF Report, Good, IInv, TypeOK, Row
<1>6. ~Busy(b)'
  BY <1>2 DEF Report, Return, Busy, Working, Idle, IInv, TypeOK
<1> QED
  BY <1>2, <1>3, <1>4, <1>5, <1>6 DEF IInv, TypeOK, Row

(* No usable card comes to carry the number of a station still at work.    *)
LEMMA NumberStaysFree ==
  ASSUME IInv, [Next]_vars, NEW d \in Boxes, Busy(d), Busy(d)', call'[d].kh = call[d].kh
  PROVE  Usable(call[d].kh)' = {}
<1> SUFFICES ASSUME NEW c \in Cards, Good(c)', eri'[c].kh = call[d].kh PROVE FALSE
  BY DEF Usable, Good
<1>1. CASE Good(c)
  BY <1>1, GoodStays DEF IInv, Hands, Usable, Good
<1>2. CASE ~Good(c)
  <2>1. PICK e \in Boxes : Report(e) /\ ~Busy(e)' /\ eri'[c].kh = call[e].kh
    BY <1>2, GoodBecomes
  <2>2. Busy(e)
    BY <2>1 DEF Report, At, Busy, Working
  <2>3. e = d
    BY <2>1, <2>2 DEF IInv, Hands
  <2> QED
    BY <2>1, <2>3
<1> QED
  BY <1>1, <1>2

(* What the stations hold stays right, whoever takes the next step.        *)
LEMMA HandsNext == ASSUME IInv, [Next]_vars PROVE Hands'
<1>1. CASE UNCHANGED <<eri, running, call>>
  BY <1>1 DEF IInv, Hands, Busy, Usable
<1>2. ASSUME NEW b \in Boxes, Initialisation(b) PROVE Hands'
  <2>1. ASSUME NEW d \in Boxes, Busy(d)'
        PROVE  BoxOf(call'[d].kh) = d /\ Usable(call[d].kh)' = {}
    <3>1. CASE Busy(d) /\ call'[d].kh = call[d].kh
      BY <2>1, <3>1, NumberStaysFree DEF IInv, Hands
    <3>2. CASE d = b /\ BoxOf(call'[b].kh) = b /\ Usable(call'[b].kh) = {} /\ UNCHANGED eri
      BY <3>2 DEF Usable
    <3> QED
      BY <1>2, <2>1, <3>1, <3>2, OneCall DEF Busy
  <2>2. ASSUME NEW d \in Boxes, NEW e \in Boxes, Busy(d)', Busy(e)', d # e
        PROVE  call'[d].card # call'[e].card
    <3>1. ASSUME NEW f \in Boxes \ {b}, Busy(f)', Busy(b)' PROVE call'[f].card # call'[b].card
      BY <1>2, <3>1, OneCall DEF Busy, Working, InHand, IInv, Hands
    <3> QED
      BY <1>2, <2>2, <3>1, OneCall DEF Busy, IInv, Hands
  <2> QED
    BY <2>1, <2>2 DEF Hands
<1> QED
  BY <1>1, <1>2, Stations

(* A station changes no other card than the one in its hand.               *)
LEMMA OthersStay ==
  ASSUME IInv, NEW b \in Boxes, Initialisation(b), NEW c \in Cards,
         Busy(b) => call[b].card # c
  PROVE  eri'[c] = eri[c] /\ running'[c] = running[c]
<1>1. CASE Busy(b)
  BY <1>1 DEF Initialisation, FactoryInitialize, ReadCard, WriteRow, CreateRecord, SetProducing,
     Report, Break, FinishSubTask, SetProduced, IInv, TypeOK
<1>2. CASE ~Busy(b)
  BY <1>2 DEF Initialisation, FactoryInitialize, ReadCard, WriteRow, CreateRecord, SetProducing,
     Report, Break, FinishSubTask, SetProduced, At, Busy, Working
<1> QED
  BY <1>1, <1>2

(* A station's own card and records, at its next step.                     *)
LEMMA OwnRecord ==
  ASSUME IInv, NEW b \in Boxes, Initialisation(b)
  PROVE  /\ call'[b].step \in Working \ {"card"} => ~Good(call[b].card)'
         /\ call'[b].step \in {"row", "record"} => running'[call'[b].card] = 0
         /\ call'[b].step \in {"inventory", "report"} => running'[call'[b].card] = 1
         /\ call'[b].step \in {"record", "inventory", "report"} =>
              eri'[call'[b].card] # None /\ eri'[call'[b].card].kh = call'[b].kh
         /\ Busy(b) /\ eri'[call[b].card] = None => running'[call[b].card] = 0
<1> USE DEF At
<1> DEFINE c == call[b].card
<1>0. /\ call \in [Boxes -> Calls] /\ eri \in [Cards -> {None} \cup Row] /\ running \in [Cards -> {0, 1}]
      /\ call[b].step \in Working => call[b] \in WorkingCalls /\ c \in Cards
  BY CallTypes DEF IInv, TypeOK, Busy, WorkingCalls
<1>1. ASSUME NEW kh \in Numbers, NEW d \in Cards, FactoryInitialize(b, kh, d)
      PROVE  call'[b].step = "card" /\ ~Busy(b)
  BY <1>0, <1>1 DEF FactoryInitialize, Busy, Working
<1>2. CASE ReadCard(b)
  <2>1. call[b] \in WorkingCalls /\ c \in Cards /\ UNCHANGED eri
    BY <1>0, <1>2 DEF ReadCard, Working
  <2>2. CASE Return(b) /\ running' = [running EXCEPT ![c] = 0]
    BY <1>0, <2>1, <2>2 DEF Return, Idle, Working
  <2>3. CASE /\ ~Good(c) /\ running'[c] = 0
             /\ call'[b].step = "row" /\ call'[b].card = c
    BY <2>1, <2>3 DEF Good
  <2> QED
    BY <1>0, <1>2, <2>1, <2>2, <2>3 DEF ReadCard, Goto, Good, IInv, Records, WorkingCalls
<1>3. CASE WriteRow(b)
  <2>1. call[b] \in WorkingCalls /\ c \in Cards /\ running[c] = 0 /\ UNCHANGED running
    BY <1>0, <1>3 DEF WriteRow, Working, IInv, Records
  <2>2. [kh |-> call[b].kh, zt |-> "NEW", bzhh |-> call[b].bzhh] \in Row
    BY <2>1 DEF WorkingCalls, Row
  <2>3. call'[b] = [call[b] EXCEPT !.step = "record"]
    BY <1>0, <1>3 DEF WriteRow, Goto
  <2>4. call'[b].step = "record" /\ call'[b].card = c /\ call'[b].kh = call[b].kh
    BY <2>1, <2>3 DEF WorkingCalls
  <2>5. eri'[c] = [kh |-> call[b].kh, zt |-> "NEW", bzhh |-> call[b].bzhh]
    BY <1>0, <1>3, <2>1 DEF WriteRow
  <2> QED
    BY <2>1, <2>2, <2>4, <2>5, StockAssumption DEF Good
<1>4. CASE CreateRecord(b)
  <2>1. /\ call[b] \in WorkingCalls /\ c \in Cards /\ running[c] = 0 /\ UNCHANGED eri
        /\ eri[c] # None /\ eri[c].kh = call[b].kh /\ ~Good(c)
    BY <1>0, <1>4 DEF CreateRecord, Working, IInv, Records
  <2>2. \E s \in {"inventory", "report"} : call'[b] = [call[b] EXCEPT !.step = s]
    BY <1>0, <1>4 DEF CreateRecord, Goto
  <2>3. call'[b].step \in {"inventory", "report"} /\ call'[b].card = c /\ call'[b].kh = call[b].kh
    BY <2>1, <2>2 DEF WorkingCalls
  <2>4. running'[c] = 1
    BY <1>0, <1>4, <2>1 DEF CreateRecord
  <2> QED
    BY <2>1, <2>3, <2>4 DEF Good
<1>5. CASE SetProducing(b)
  <2>1. /\ call[b] \in WorkingCalls /\ c \in Cards /\ running[c] = 1 /\ UNCHANGED <<eri, running>>
        /\ eri[c] # None /\ eri[c].kh = call[b].kh /\ ~Good(c)
    BY <1>0, <1>5 DEF SetProducing, Working, IInv, Records
  <2>2. call'[b] = [call[b] EXCEPT !.step = "report"]
    BY <1>0, <1>5 DEF SetProducing, Goto
  <2>3. call'[b].step = "report" /\ call'[b].card = c /\ call'[b].kh = call[b].kh
    BY <2>1, <2>2 DEF WorkingCalls
  <2> QED
    BY <2>1, <2>3 DEF Good
<1>6. CASE Report(b)
  BY <1>0, <1>6 DEF Report, Return, Idle, Working
<1>7. CASE Break(b) \/ SetProduced(b)
  <2>1. call'[b] = Idle /\ UNCHANGED <<eri, running>>
    BY <1>0, <1>7 DEF Break, SetProduced, Return
  <2> QED
    BY <1>0, <2>1 DEF Idle, Busy, Working, IInv, Records
<1>8. CASE FinishSubTask(b)
  <2>1. call'[b].step = "finish" /\ call[b].step = "idle"
    BY <1>0, <1>8 DEF FinishSubTask
  <2> QED
    BY <2>1 DEF Busy, Working
<1> QED
  BY <1>1, <1>2, <1>3, <1>4, <1>5, <1>6, <1>7, <1>8 DEF Initialisation, Working

(* Cards in work keep their record, whoever takes the next step.           *)
LEMMA RecordsNext == ASSUME IInv, [Next]_vars PROVE Records'
<1>1. CASE UNCHANGED <<eri, running, call>>
  BY <1>1 DEF IInv, Records, Good
<1>2. ASSUME NEW b \in Boxes, Initialisation(b) PROVE Records'
  <2>1. ASSUME NEW c \in Cards, eri'[c] = None PROVE running'[c] = 0
    BY <1>2, <2>1, OthersStay, OwnRecord DEF IInv, Records
  <2>2. ASSUME NEW d \in Boxes \ {b}, Busy(d)
        PROVE  /\ call'[d] = call[d] /\ call[d].card \in Cards
               /\ eri'[call[d].card] = eri[call[d].card]
               /\ running'[call[d].card] = running[call[d].card]
    BY <1>2, <2>2, OneCall, OthersStay, CallTypes DEF IInv, Hands, WorkingCalls
  <2>3. ASSUME NEW d \in Boxes \ {b}, ~Busy(d) PROVE ~Busy(d)'
    BY <1>2, <2>3, OneCall DEF Busy
  <2> QED
    BY <1>2, <2>1, <2>2, <2>3, OwnRecord DEF Records, IInv, Busy, Working, Good
<1> QED
  BY <1>1, <1>2, Stations

(* A card that becomes usable gets a number no usable card has.            *)
LEMMA NumbersNext == ASSUME IInv, [Next]_vars PROVE OneCardPerNumber'
<1> SUFFICES ASSUME NEW c \in Cards, Good(c)'
             PROVE  /\ \A d \in Cards : Good(d)' /\ eri'[d].kh = eri'[c].kh => d = c
                    /\ eri'[c].bzhh = BoxOf(eri'[c].kh)
  BY DEF OneCardPerNumber, Usable, Good
<1>1. ASSUME NEW d \in Cards, ~Good(d), Good(d)', NEW e \in Cards, Good(e)', eri'[e].kh = eri'[d].kh
      PROVE  e = d
  <2>1. PICK b \in Boxes : Report(b) /\ eri'[d].kh = call[b].kh /\ \A f \in Cards \ {d} : eri'[f] = eri[f]
    BY <1>1, GoodBecomes
  <2>2. Usable(call[b].kh) = {}
    BY <2>1 DEF Report, At, Busy, Working, IInv, Hands
  <2> QED
    BY <1>1, <2>1, <2>2 DEF Usable, Good
<1>2. CASE Good(c)
  <2>1. eri'[c] = eri[c]
    BY <1>2, GoodStays
  <2>2. ASSUME NEW d \in Cards, Good(d), eri'[d].kh = eri'[c].kh PROVE d = c
    BY <1>2, <2>1, <2>2, GoodStays DEF IInv, OneCardPerNumber, Usable, Good
  <2> QED
    BY <1>1, <1>2, <2>1, <2>2 DEF IInv, OneCardPerNumber, Usable, Good
<1>3. CASE ~Good(c)
  <2>1. PICK b \in Boxes : Report(b) /\ eri'[c].kh = call[b].kh /\ eri'[c].bzhh = b
    BY <1>3, GoodBecomes
  <2>2. BoxOf(call[b].kh) = b
    BY <2>1 DEF Report, At, Busy, Working, IInv, Hands
  <2> QED
    BY <1>1, <1>3, <2>1, <2>2
<1> QED
  BY <1>2, <1>3

(* A box with as many usable cards as it has numbers is full, because no   *)
(* two of them carry the same number.                                      *)
LEMMA CountedIsFull ==
  ASSUME IInv, NEW b \in Boxes, Cardinality(Finished(b)) >= Capacity
  PROVE  Full(b)
<1> DEFINE S == Finished(b)
           f == [c \in S |-> eri[c].kh[2]]
<1> USE StockAssumption
<1>1. \A c \in S : eri[c].kh = <<b, f[c]>> /\ f[c] \in 1 .. Capacity
  BY DEF Finished, BoxOf, IInv, TypeOK, Row, Numbers
<1>2. f \in Injection(S, 1 .. Capacity)
  <2>1. ASSUME NEW c \in S, NEW d \in S, f[c] = f[d] PROVE c = d
    <3>1. eri[c].kh = eri[d].kh
      BY <1>1, <2>1
    <3> HIDE DEF f
    <3>2. Usable(eri[c].kh) = {c} /\ d \in Usable(eri[c].kh)
      BY <3>1 DEF IInv, OneCardPerNumber, Usable, Finished
    <3> QED
      BY <3>2
  <2>2. f \in [S -> 1 .. Capacity]
    BY <1>1
  <2> HIDE DEF f, S
  <2> QED
    BY <2>1, <2>2 DEF Injection, IsInjective
<1>3. IsFiniteSet(1 .. Capacity) /\ Cardinality(1 .. Capacity) = Capacity
  BY FS_Interval
<1>4. IsFiniteSet(S) /\ Cardinality(S) \in Nat
  BY FS_Subset, FS_CardinalityType DEF Finished
<1>5. f \in Surjection(S, 1 .. Capacity)
  BY <1>2, <1>3, <1>4, FS_Injection
<1> SUFFICES ASSUME NEW i \in 1 .. Capacity PROVE Usable(<<b, i>>) # {}
  BY DEF Full
<1>6. PICK c \in S : f[c] = i
  BY <1>5 DEF Surjection
<1> QED
  BY <1>1, <1>6 DEF Usable, Finished

(* What a station finds full, and what goes on a form or a note, is full.  *)
LEMMA FullInHandNext == ASSUME IInv, [Next]_vars PROVE FullInHand'
<1> SUFFICES ASSUME NEW b \in Boxes, ~Full(b)
             PROVE  /\ call'[b].step # "finish"
                    /\ \A f \in Notes \cup {"in", "corps"} : b \notin scanned'[f]
                    /\ \A n \in Notes : b \notin listed'[n]
  BY FullStays DEF FullInHand
<1>0. /\ call[b].step # "finish"
      /\ \A f \in Notes \cup {"in", "corps"} : b \notin scanned[f]
      /\ \A n \in Notes : b \notin listed[n]
      /\ zt[b] \in {"PLANNED", "PRODUCING"}
      /\ ~FinishSubTask(b)
  BY CountedIsFull DEF IInv, FullInHand, ProducedIsFull, FinishSubTask
<1>1. call'[b].step # "finish"
  <2>1. ASSUME NEW d \in Boxes, Initialisation(d) PROVE call'[b].step # "finish"
    <3>1. CASE d # b
      BY <1>0, <2>1, <3>1, OneCall
    <3>2. CASE d = b
      BY <1>0, <2>1, <3>2, OneCall DEF Busy, Working
    <3> QED
      BY <3>1, <3>2
  <2> QED
    BY <1>0, <2>1, Stations
<1>2. /\ \A f \in Notes \cup {"in", "corps"} : b \notin scanned'[f]
      /\ \A n \in Notes : b \notin listed'[n]
  <2>1. CASE Clerk
    BY <1>0, <2>1 DEF Clerk, ScanIn, InventoryIn, ScanCorps, InventoryInCorps, ScanOut, Scan,
       SaveExWarehouse, Examine, InventoryOutByCkdh, ExamineBreaks, IInv, TypeOK
  <2>2. CASE UNCHANGED <<scanned, listed>>
    BY <1>0, <2>2
  <2> QED
    BY <2>1, <2>2 DEF Next, vars, shelves, examined, Initialisation, StartTask, FinishTask, FactoryInitialize,
       ReadCard, WriteRow, CreateRecord, SetProducing, Report, Break, FinishSubTask, SetProduced
<1> QED
  BY <1>1, <1>2

(* A box leaves production when its station has found it full; after that  *)
(* the clerks only move boxes they have on their forms and notes.          *)
LEMMA ProducedNext == ASSUME IInv, [Next]_vars PROVE ProducedIsFull'
<1> SUFFICES ASSUME NEW b \in Boxes, ~Full(b) PROVE zt'[b] \in {"PLANNED", "PRODUCING"}
  BY FullStays DEF ProducedIsFull
<1>0. /\ call[b].step # "finish" /\ zt[b] \in {"PLANNED", "PRODUCING"}
      /\ \A f \in Notes \cup {"in", "corps"} : b \notin scanned[f]
      /\ \A n \in Notes : b \notin listed[n]
  BY DEF IInv, FullInHand, ProducedIsFull, TypeOK
<1>1. CASE Clerk
  BY <1>0, <1>1 DEF Clerk, ScanIn, InventoryIn, ScanCorps, InventoryInCorps, ScanOut, Scan,
     SaveExWarehouse, Examine, InventoryOutByCkdh, ExamineBreaks, IInv, TypeOK
<1>2. ASSUME NEW d \in Boxes, Initialisation(d) PROVE zt'[b] \in {"PLANNED", "PRODUCING"}
  BY <1>0, <1>2 DEF Initialisation, FactoryInitialize, ReadCard, WriteRow, CreateRecord, SetProducing,
     Report, Break, FinishSubTask, SetProduced, At, IInv, TypeOK
<1>3. CASE UNCHANGED zt
  BY <1>0, <1>3
<1> QED
  BY <1>1, <1>2, <1>3 DEF Next, vars, StartTask, FinishTask

(* A task is finished when all its boxes are produced, and so full.        *)
LEMMA FinishedNext == ASSUME IInv, [Next]_vars PROVE FinishedIsFull'
<1> SUFFICES ASSUME NEW r \in Tasks, task'[r] = "PRODUCED", NEW b \in BoxesOf(r)
             PROVE  Full(b)
  BY FullStays DEF FinishedIsFull, BoxesOf
<1>1. CASE task[r] = "PRODUCED"
  BY <1>1 DEF IInv, FinishedIsFull
<1>2. CASE task[r] # "PRODUCED"
  <2>1. FinishTask(r)
    BY <1>2 DEF Next, vars, production, StartTask, FinishTask, IInv, TypeOK, Initialisation,
       FactoryInitialize, ReadCard, WriteRow, CreateRecord, SetProducing, Report, Break, FinishSubTask,
       SetProduced, Clerk, ScanIn, InventoryIn, ScanCorps, InventoryInCorps, ScanOut, Scan,
       SaveExWarehouse, Examine, InventoryOutByCkdh, ExamineBreaks
  <2> QED
    BY <2>1 DEF FinishTask, IInv, ProducedIsFull, BoxesOf
<1> QED
  BY <1>1, <1>2

(* A saved note keeps its boxes and a note that was approved has been, so  *)
(* a box that is out stays with the applicant of one that was approved.    *)
LEMMA OutNext == ASSUME IInv, [Next]_vars PROVE Approving' /\ OutIsApproved'
<1> USE StockAssumption
<1>0. \/ UNCHANGED <<note, listed, examined>>
      \/ \E n \in Notes : SaveExWarehouse(n) \/ \E e \in Examiners : Examine(e, n)
      \/ \E e \in Examiners : InventoryOutByCkdh(e) \/ ExamineBreaks(e)
  BY DEF Next, vars, shelves, StartTask, FinishTask, Initialisation,
     FactoryInitialize, ReadCard, WriteRow, CreateRecord, SetProducing, Report, Break, FinishSubTask,
     SetProduced, Clerk, ScanIn, InventoryIn, ScanCorps, InventoryInCorps, ScanOut, Scan
<1>1. ASSUME NEW n \in Notes, note[n] # None PROVE note'[n] # None /\ listed'[n] = listed[n]
  BY <1>0, <1>1 DEF SaveExWarehouse, Examine, InventoryOutByCkdh, ExamineBreaks, IInv, TypeOK
<1>2. approved \subseteq approved'
  BY <1>0 DEF examined, SaveExWarehouse, Examine, InventoryOutByCkdh, ExamineBreaks
<1>3. Approving'
  <2>1. \/ UNCHANGED <<approving, approved>>
        \/ \E e \in Examiners : approving' = [approving EXCEPT ![e] = None] /\ UNCHANGED approved
        \/ \E n \in Notes : \E e \in Examiners :
             /\ note[n] # None /\ approved' = approved \cup {n}
             /\ approving' = [approving EXCEPT ![e] = n]
    BY <1>0 DEF examined, SaveExWarehouse, Examine, InventoryOutByCkdh, ExamineBreaks
  <2>2. \A e \in Examiners : approving'[e] # None => approving'[e] \in approved'
    BY <2>1 DEF Approving, IInv, TypeOK
  <2>3. \A n \in approved' : n \in Notes /\ note[n] # None
    BY <2>1 DEF Approving, IInv, TypeOK
  <2> QED
    BY <1>1, <2>2, <2>3 DEF Approving
<1>4. ASSUME NEW b \in Boxes, zt'[b] = "SENDOUT"
      PROVE  \E n \in approved' : b \in listed'[n] /\ ssbm'[b] = Applicant[n]
  <2>1. CASE zt[b] = "SENDOUT" /\ ssbm'[b] = ssbm[b]
    <3>1. PICK n \in approved : b \in listed[n] /\ ssbm[b] = Applicant[n]
      BY <2>1 DEF IInv, OutIsApproved
    <3>2. n \in Notes /\ note[n] # None
      BY DEF IInv, TypeOK, Approving
    <3> QED
      BY <1>1, <1>2, <2>1, <3>1, <3>2
  <2>2. ASSUME NEW e \in Examiners, InventoryOutByCkdh(e), b \in listed[approving[e]]
        PROVE  \E n \in approved' : b \in listed'[n] /\ ssbm'[b] = Applicant[n]
    BY <1>2, <2>2 DEF InventoryOutByCkdh, IInv, Approving
  <2>3. \/ zt[b] = "SENDOUT" /\ ssbm'[b] = ssbm[b]
        \/ \E e \in Examiners : InventoryOutByCkdh(e) /\ b \in listed[approving[e]]
    <3>1. ASSUME NEW e \in Examiners, InventoryOutByCkdh(e), b \notin listed[approving[e]]
          PROVE  zt[b] = "SENDOUT" /\ ssbm'[b] = ssbm[b]
      BY <1>4, <3>1 DEF InventoryOutByCkdh
    <3>2. ASSUME NEW d \in Boxes, Initialisation(d)
          PROVE  zt[b] = "SENDOUT" /\ ssbm'[b] = ssbm[b]
      <4>1. UNCHANGED <<zt, ssbm>> \/ SetProducing(d) \/ SetProduced(d)
        BY <3>2 DEF Initialisation, FactoryInitialize, ReadCard, WriteRow, CreateRecord, Report,
           Break, FinishSubTask
      <4> QED
        BY <1>4, <4>1 DEF SetProducing, SetProduced, IInv, TypeOK
    <3>3. CASE \E d \in Boxes : ScanIn(d) \/ InventoryIn(d) \/ ScanCorps(d) \/ InventoryInCorps(d)
      BY <1>4, <3>3 DEF ScanIn, InventoryIn, ScanCorps, InventoryInCorps, Scan, IInv, TypeOK
    <3>4. CASE UNCHANGED <<zt, ssbm>>
      BY <1>4, <3>4
    <3> QED
      BY <3>1, <3>2, <3>3, <3>4 DEF Next, vars, StartTask, FinishTask, Clerk, ScanOut, Scan,
         SaveExWarehouse, Examine, ExamineBreaks
  <2> QED
    BY <2>1, <2>2, <2>3
<1> QED
  BY <1>3, <1>4 DEF OutIsApproved

(* The invariant holds at the start and after every step.                  *)
LEMMA InitInv == Init => IInv
<1> SUFFICES ASSUME Init PROVE IInv
  OBVIOUS
<1> USE DEF Init, Idle
<1>1. TypeOK
  BY DEF TypeOK, Calls
<1>2. Hands /\ Records
  BY DEF Hands, Records, Busy, Working
<1>3. OneCardPerNumber /\ ProducedIsFull /\ FullInHand /\ FinishedIsFull
  BY DEF OneCardPerNumber, ProducedIsFull, FullInHand, FinishedIsFull
<1>4. Approving /\ OutIsApproved
  BY DEF Approving, OutIsApproved
<1> QED
  BY <1>1, <1>2, <1>3, <1>4 DEF IInv

(* All parts hold together in every reachable state.                       *)
LEMMA Invariant == Spec => []IInv
<1>1. IInv /\ [Next]_vars => IInv'
  BY TypeNext, HandsNext, RecordsNext, NumbersNext, ProducedNext, FullInHandNext, FinishedNext, OutNext
     DEF IInv
<1> QED
  BY <1>1, InitInv, PTL DEF Spec

(* Every variable keeps its type; in particular a card never has two       *)
(* records in progress.                                                    *)
THEOREM TypeCorrect == Spec => []TypeOK
<1>1. IInv => TypeOK
  BY DEF IInv
<1> QED
  BY <1>1, Invariant, PTL

(* No two usable cards carry one number, whatever calls are cut off and    *)
(* whatever boxes cards come from (initialize, saveFactoryInitializeResult). *)
THEOREM NumbersAreUnique == Spec => []OneCardPerNumber
<1>1. IInv => OneCardPerNumber
  BY DEF IInv
<1> QED
  BY <1>1, Invariant, PTL

(* A card just written is accepted by its report, however many earlier     *)
(* attempts were cut off (factoryInitialize, saveFactoryInitializeResult). *)
THEOREM ReportsAreAccepted == Spec => []ReportIsAccepted
<1>1. IInv => ReportIsAccepted
  BY DEF IInv, Records, ReportIsAccepted, At
<1> QED
  BY <1>1, Invariant, PTL

(* A box that has left production is full, for any capacity: counting its  *)
(* cards is enough because numbers are unique (finishSubTask).             *)
THEOREM BoxesAreFull == Spec => []ProducedIsFull
<1>1. IInv => ProducedIsFull
  BY DEF IInv
<1> QED
  BY <1>1, Invariant, PTL

(* A finished task has only full boxes (finishTask).                       *)
THEOREM TasksAreFull == Spec => []FinishedIsFull
<1>1. IInv => FinishedIsFull
  BY DEF IInv
<1> QED
  BY <1>1, Invariant, PTL

(* A box that is out is with the applicant of a note that lists it and     *)
(* that was approved, for any number of notes that list it and of          *)
(* examinations of each (examine, inventoryOutByCkdh).                     *)
THEOREM OutByNote == Spec => []OutIsApproved
<1>1. IInv => OutIsApproved
  BY DEF IInv
<1> QED
  BY <1>1, Invariant, PTL

=============================================================================
