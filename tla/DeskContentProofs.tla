------------------------- MODULE DeskContentProofs -------------------------
(***************************************************************************)
(* What the page reads from a card and shows of it, for any number of      *)
(* cards, vehicles, tasks and commands, and however many answers are late: *)
(* the number is the card's, a card written right passes the check, and a  *)
(* card of another vehicle does not.  The page's steps keep track of what  *)
(* was read and shown; what the contents are is proved in                  *)
(* CardContentProofs.                                                      *)
(***************************************************************************)
EXTENDS DeskProofs

PlateFields4 == {"hphm", "hpzl", "syxz", "cllx"}

(* The texts are blank, or those of the plate and the type are there.      *)
TextsKnown ==
  page.texts = BlankTexts \/ \A f \in PlateFields4 : page.texts[f] # None

Busy == {"select", "check", "reset"}
PageKnown == InputKnown /\ ShownIsFree /\ NumberReadBack /\ TextsKnown
ContentInv == Shapes /\ PageKnown

(* Nothing is read or shown at the start.                                  *)
LEMMA ContentInit == Init => ContentInv
<1> SUFFICES ASSUME Init PROVE ContentInv
  OBVIOUS
<1>1. page.at = "idle" /\ page.tid = None /\ page.texts = BlankTexts
  BY DEF Init, FreshPage
<1> QED BY <1>1, ShapesInit DEF ContentInv, PageKnown, InputKnown, ShownIsFree, NumberReadBack, TextsKnown

(* Most steps keep the card and the texts of the page, or clear them.      *)
LEMMA KeepsKnown ==
  ASSUME ContentInv,
         page'.tid = None \/ (page'.tid = page.tid /\ page'.kh = page.kh),
         page'.texts \in {page.texts, BlankTexts},
         page'.at \in Busy => input' \in Vehicles,
         page'.at # "shown"
  PROVE  PageKnown'
<1>1. InputKnown' /\ ShownIsFree'
  BY DEF InputKnown, ShownIsFree, Busy
<1>2. NumberReadBack'
  BY DEF ContentInv, PageKnown, NumberReadBack
<1>3. TextsKnown'
  BY DEF ContentInv, PageKnown, TextsKnown
<1> QED BY <1>1, <1>2, <1>3 DEF PageKnown

(* Others leave the page and the records as they are.                      *)
LEMMA SamePage ==
  ASSUME ContentInv, page' = page, records' = records,
         page.at \in Busy => input' = input
  PROVE  PageKnown'
BY DEF ContentInv, PageKnown, InputKnown, ShownIsFree, OpenRecord, NumberReadBack, TextsKnown, Busy

(* What the clerk does leaves the page as it is, or clears it.             *)
LEMMA KnownClerk ==
  ASSUME ContentInv, Clerk
  PROVE  PageKnown'
<1>1. DOMAIN page = PageFields
  BY DEF ContentInv, Shapes, PageShape
<1> USE <1>1 DEF PageFields
<1>2. CASE \E v \in Vehicles : TypeIn(v)
  <2>1. page' = page /\ records' = records /\ page.at \notin Busy
    BY <1>2 DEF TypeIn, server, Busy
  <2> QED BY <2>1, SamePage
<1>3. CASE \E c \in Cards \cup {None} : PutCard(c)
  <2>1. page' = page /\ input' = input /\ records' = records
    BY <1>3 DEF PutCard, server
  <2> QED BY <2>1, SamePage
<1>4. CASE Query
  <2>1. /\ page'.tid = None /\ page'.texts = page.texts /\ page'.at = "select"
        /\ input' = input /\ input \in Vehicles
    BY <1>4 DEF Query, CheckCard, ContentInv, Shapes, MaybeVehicle
  <2> QED BY <2>1, KeepsKnown
<1>5. CASE Decline
  <2>1. page'.at = "idle" /\ page'.tid = page.tid /\ page'.kh = page.kh /\ page'.texts = page.texts
    BY <1>5 DEF Decline
  <2> QED BY <2>1, KeepsKnown DEF Busy
<1>6. CASE Continue
  <2>1. CASE page' = ClearedPage
    <3>1. page'.at = "idle" /\ page'.tid = None /\ page'.texts = BlankTexts
      BY <2>1 DEF ClearedPage, FreshPage
    <3> QED BY <3>1, KeepsKnown DEF Busy
  <2>2. CASE page' = [page EXCEPT !.at = "idle"]
    <3>1. page'.at = "idle" /\ page'.tid = page.tid /\ page'.kh = page.kh /\ page'.texts = page.texts
      BY <2>2
    <3> QED BY <3>1, KeepsKnown DEF Busy
  <2> QED BY <1>6, <2>1, <2>2 DEF Continue
<1>7. CASE Reload
  <2>1. page'.at = "idle" /\ page'.tid = None /\ page'.texts = BlankTexts
    BY <1>7 DEF Reload, FreshPage
  <2> QED BY <2>1, KeepsKnown DEF Busy
<1> QED BY <1>2, <1>3, <1>4, <1>5, <1>6, <1>7 DEF Clerk

(* An inventory shows the number of the card that answered.                *)
LEMMA KnownChecked ==
  ASSUME ContentInv, CardChecked
  PROVE  PageKnown'
<1> DEFINE answer == Head(inbox)
<1>1. DOMAIN page = PageFields /\ inbox \in Seq(Answers) /\ case \in Cases
  BY DEF ContentInv, Shapes, PageShape, ReaderShapes
<1> USE <1>1 DEF PageFields
<1>2. page.at = "select" /\ inbox # <<>> /\ input' = input
  BY DEF CardChecked, TakeAnswer
<1>3. input \in Vehicles
  BY <1>2 DEF ContentInv, PageKnown, InputKnown
<1>4. CASE answer.kind = "selected"
  <2>1. answer \in Answers
    BY <1>2, FirstAndOthers
  <2>2. answer.tid \in Cards /\ answer.veh \in MaybeVehicle
    BY <1>4, <2>1 DEF Answers
  <2>3. /\ page'.tid = answer.tid /\ page'.texts = page.texts
        /\ page'.kh = Content(answer.tid, answer.veh).kh /\ page'.at = "check"
    BY <1>4 DEF CardChecked
  <2>4. NumberReadBack'
    BY <2>2, <2>3, ContentNumber DEF NumberReadBack
  <2>5. TextsKnown' /\ InputKnown' /\ ShownIsFree'
    BY <1>2, <1>3, <2>3 DEF ContentInv, PageKnown, TextsKnown, InputKnown, ShownIsFree
  <2> QED BY <2>4, <2>5 DEF PageKnown
<1>5. CASE answer.kind # "selected"
  <2>1. /\ page'.at \in {"stuck", "idle"} /\ page'.tid = page.tid /\ page'.kh = page.kh
        /\ page'.texts = page.texts
    BY <1>5 DEF CardChecked
  <2> QED BY <2>1, KeepsKnown DEF Busy
<1> QED BY <1>4, <1>5

(* The texts of a vehicle that is shown are there.                         *)
LEMMA RowTexts ==
  ASSUME NEW row \in Rows
  PROVE  \A f \in PlateFields4 : Translate(row)[f] # None
<1>1. /\ Translate(row).hphm # None /\ Translate(row).hpzl # None
      /\ Translate(row).syxz # None /\ Translate(row).cllx # None
  <2>1. /\ Translate(row).hphm = <<row.fzjg, row.fpdh, row.xh>> /\ Translate(row).hpzl = row.hpzl
        /\ Translate(row).syxz = row.syxz /\ Translate(row).cllx = row.cllx
    BY DEF Translate
  <2> QED BY <2>1, PlateTextType
<1> QED BY <1>1 DEF PlateFields4

(* Showing a vehicle leaves none of these texts out.                       *)
LEMMA TextsOfVehicle ==
  ASSUME NEW texts, NEW row \in Rows
  PROVE  \A f \in PlateFields4 : Show(texts, Translate(row))[f] # None
BY RowTexts DEF Show, PlateFields4, TextFields

(* A card that may be written shows the texts of the vehicle typed in.     *)
LEMMA KnownStatus ==
  ASSUME ContentInv, CheckCardStatus
  PROVE  PageKnown'
<1>1. DOMAIN page = PageFields /\ case \in Cases
  BY DEF ContentInv, Shapes, PageShape
<1> USE <1>1 DEF PageFields
<1>2. page.at = "check" /\ input \in Vehicles
  BY DEF CheckCardStatus, ContentInv, PageKnown, InputKnown
<1>3. CASE page' = [page EXCEPT !.at = "reset"] /\ UNCHANGED input
  <2>1. page'.tid = page.tid /\ page'.kh = page.kh /\ page'.texts = page.texts
    BY <1>3
  <2> QED BY <1>2, <1>3, <2>1, KeepsKnown
<1>4. CASE page' = ClearedPage
  <2>1. page'.at = "idle" /\ page'.tid = None /\ page'.texts = BlankTexts
    BY <1>4 DEF ClearedPage, FreshPage
  <2> QED BY <2>1, KeepsKnown DEF Busy
<1>5. CASE /\ page' = [page EXCEPT !.at = "shown", !.texts = Show(page.texts, Translate(Row(input)))]
           /\ ~OpenRecord(page.tid)
  <2>1. /\ page'.at = "shown" /\ page'.tid = page.tid /\ page'.kh = page.kh
        /\ page'.texts = Show(page.texts, Translate(Row(input)))
    BY <1>5
  <2>2. Row(input) \in Rows
    BY <1>2, DeskAssumption DEF Row
  <2>3. TextsKnown'
    BY <2>1, <2>2, TextsOfVehicle DEF TextsKnown
  <2>4. records' = records
    BY DEF CheckCardStatus, server
  <2>5. NumberReadBack' /\ InputKnown' /\ ShownIsFree'
    BY <1>5, <2>1, <2>4 DEF ContentInv, PageKnown, NumberReadBack, InputKnown, ShownIsFree, OpenRecord
  <2> QED BY <2>3, <2>5 DEF PageKnown
<1> QED BY <1>3, <1>4, <1>5 DEF CheckCardStatus

(* The other steps of the page keep the card and the texts.                *)
LEMMA KnownPage ==
  ASSUME ContentInv, Page
  PROVE  PageKnown'
<1> DEFINE kept == page'.tid = page.tid /\ page'.kh = page.kh /\ page'.texts = page.texts
<1>1. DOMAIN page = PageFields
  BY DEF ContentInv, Shapes, PageShape
<1> USE <1>1 DEF PageFields
<1>2. CASE NoResponse \/ CardWritten \/ WriteCard \/ UploadSuccess \/ UploadFailure
  <2>1. page'.at \notin Busy \cup {"shown"}
    BY <1>2 DEF NoResponse, CardWritten, WriteCard, UploadSuccess, UploadFailure, Busy
  <2>2. kept
    BY <1>2 DEF NoResponse, CardWritten, WriteCard, UploadSuccess, UploadFailure
  <2> QED BY <2>1, <2>2, KeepsKnown
<1>3. CASE ResetTask
  <2>1. /\ page'.tid = None /\ page'.texts = page.texts
        /\ page.at = "reset" /\ page'.at = "select" /\ input' = input
    BY <1>3 DEF ResetTask, CheckCard
  <2> QED BY <2>1, KeepsKnown DEF ContentInv, PageKnown, InputKnown
<1>4. CASE FetchData
  <2>1. page.at = "shown" /\ ~OpenRecord(page.tid)
    BY <1>4 DEF FetchData, ContentInv, PageKnown, ShownIsFree
  <2>2. CASE UNCHANGED <<tasks, records, page>>
    BY <2>1, <2>2, SamePage DEF Busy
  <2>3. ASSUME NEW k, Customize(k) PROVE PageKnown'
    <3>1. CASE records' = records /\ page' = page
      BY <2>1, <3>1, SamePage DEF Busy
    <3>2. CASE page' = [page EXCEPT !.at = "fetched", !.xh = k,
                                    !.data = [tid |-> page.tid, veh |-> tasks'[k].veh]]
      <4>1. page'.at = "fetched" /\ kept
        BY <3>2
      <4> QED BY <4>1, KeepsKnown DEF Busy
    <3> QED BY <2>1, <2>3, <3>1, <3>2 DEF Customize, OpenFor, Outcome
  <2> QED BY <1>4, <2>2, <2>3, Fetches DEF ContentInv
<1> QED BY <1>2, <1>3, <1>4, KnownChecked, KnownStatus DEF Page

(* What is read and shown stays known, whatever step is taken.             *)
LEMMA ContentStep ==
  ASSUME ContentInv, [Next]_vars
  PROVE  ContentInv'
<1>1. Shapes'
  BY ShapesStep DEF ContentInv
<1>2. CASE Reader
  <2>1. page' = page /\ input' = input /\ records' = records
    BY <1>2 DEF Reader, server
  <2> QED BY <1>1, <2>1, SamePage DEF ContentInv
<1>3. CASE UNCHANGED vars
  <2>1. page' = page /\ input' = input /\ records' = records
    BY <1>3 DEF vars, server
  <2> QED BY <1>1, <2>1, SamePage DEF ContentInv
<1> QED BY <1>1, <1>2, <1>3, KnownClerk, KnownPage DEF Next, ContentInv

(* What is read and shown is known in every state.                         *)
LEMMA ContentAlways == Spec => []ContentInv
  BY ContentInit, ContentStep, PTL DEF Spec

-----------------------------------------------------------------------------
(* Desk.NumberReadBack: the number on the page is that of the card with    *)
(* the TID on the page, for every number of a province and 28 bits; of the *)
(* 40 bits eri.js shifts, those that 32-bit shifts drop are not lost       *)
(* (EriUtil.calculateVehicleInfo, eri.js, customizeEdit.jsp checkCard).    *)
THEOREM ReadsNumber == Spec => []NumberReadBack
<1>1. ContentInv => NumberReadBack
  BY DEF ContentInv, PageKnown
<1> QED BY <1>1, ContentAlways, PTL

(* Desk.GoodCardPasses: the content of a card that is written with the     *)
(* data of a vehicle passes the check against that vehicle's texts, for    *)
(* every row that the layout has room for (EriUtil.calculateVehicleInfo,   *)
(* eri.js, customizeEdit.jsp checkContent).                                *)
THEOREM GoodPasses == Spec => []GoodCardPasses
<1>1. ContentInv => GoodCardPasses
  <2> SUFFICES ASSUME ContentInv, NEW c \in Cards, NEW v \in Vehicles,
                      page.tid = c, Encodable(Row(v)), page.texts = Translate(Row(v))
               PROVE  CheckContent(Content(c, v), page.kh, page.texts)
    BY DEF GoodCardPasses
  <2>1. case \in Cases
    BY DEF ContentInv, Shapes
  <2>2. /\ Number[c] \in Numbers /\ Row(v) \in Rows
        /\ Content(c, v) = Parse(CalculateVehicleInfo(Number[c], Row(v)))
    BY <2>1, Contents
  <2>3. page.kh = Number[c]
    BY DeskAssumption DEF ContentInv, PageKnown, NumberReadBack
  <2>4. Content(c, v).kh = Number[c]
    BY <2>1, ContentNumber DEF MaybeVehicle
  <2>5. VehicleAgrees(Content(c, v), page.texts)
    BY <2>2, GoodCardAgrees
  <2> QED BY <2>3, <2>4, <2>5 DEF CheckContent
<1> QED BY <1>1, ContentAlways, PTL

(* Desk.WrongVehicleRefused: a card that passes the check against the      *)
(* texts shown has their plate, and the shown kind of plate, usage and     *)
(* type of vehicle occur in names of codes that have the card's numbers; a *)
(* field without an entry in the page's tables would agree with any text,  *)
(* and the ones named here always have one (customizeEdit.jsp              *)
(* checkContent, eri.js).                                                  *)
THEOREM WrongRefused == Spec => []WrongVehicleRefused
<1>1. ContentInv => WrongVehicleRefused
  <2> SUFFICES ASSUME ContentInv, NEW c \in Cards, memory[c] # None, page.texts # BlankTexts,
                      Encodable(Row(memory[c])),
                      CheckContent(Content(c, memory[c]), page.kh, page.texts)
               PROVE  LET row == Row(memory[c]) IN
                      /\ page.texts.hphm = Translate(row).hphm
                      /\ \A f \in Kinds : \E d \in Codes[f] :
                           Packed[f][d] = Packed[f][row[f]] /\ <<page.texts[f], d>> \in Within[f]
    BY DEF WrongVehicleRefused
  <2> DEFINE row == Row(memory[c])
             card == Content(c, memory[c])
  <2>1. case \in Cases /\ memory[c] \in Vehicles
    BY DEF ContentInv, Shapes, ReaderShapes, MaybeVehicle
  <2>2. /\ Number[c] \in Numbers /\ row \in Rows
        /\ card = Parse(CalculateVehicleInfo(Number[c], row))
    BY <2>1, Contents
  <2>3. Len(row.xh) \in 4 .. 6
    BY DEF Encodable
  <2>4. /\ card.hphm = <<row.fzjg, row.fpdh, row.xh>>
        /\ \A f \in Kinds : card[f] = Entry(f, Packed[f][row[f]])
    BY <2>2, <2>3, PlateOnCard
  <2>5. \A f \in PlateFields4 : page.texts[f] # None
    BY DEF ContentInv, PageKnown, TextsKnown
  <2>6. Agree(card, page.texts, {"hphm"}) /\ KindsAgree(card, page.texts, Kinds)
    BY DEF CheckContent, VehicleAgrees, Agree, Exact
  <2>7. Translate(row).hphm = <<row.fzjg, row.fpdh, row.xh>> /\ Translate(row).hphm # None
    BY <2>2, PlateTextType DEF Translate
  <2>8. \A f \in Kinds : row[f] \in Entry(f, Packed[f][row[f]])
    BY <2>2, RowFields DEF Kinds, Entry
  <2> HIDE DEF row, card
  <2>9. page.texts.hphm = Translate(row).hphm
    BY <2>4, <2>5, <2>6, <2>7 DEF Agree, PlateFields4
  <2>10. ASSUME NEW f \in Kinds
         PROVE  \E d \in Codes[f] :
                  Packed[f][d] = Packed[f][row[f]] /\ <<page.texts[f], d>> \in Within[f]
    <3>1. card[f] # {} /\ page.texts[f] # None
      BY <2>4, <2>5, <2>8 DEF Kinds, PlateFields4
    <3>2. PICK d \in card[f] : <<page.texts[f], d>> \in Within[f]
      BY <2>6, <3>1 DEF KindsAgree
    <3> QED BY <2>4, <3>2 DEF Entry
  <2> QED BY <2>9, <2>10 DEF row
<1> QED BY <1>1, ContentAlways, PTL
=============================================================================
