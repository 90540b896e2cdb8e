---------------------------- MODULE CardContent ----------------------------
(***************************************************************************)
(* What a personalised card holds, as three pieces of code see it: the     *)
(* server packs a vehicle into hexadecimal digits                          *)
(* (EriServiceImpl.calculateVehicleInfo), the desk page unpacks the digits *)
(* read from the card (eri.js), and then compares them with the vehicle's  *)
(* texts (checkContent of customizeEdit.jsp).  The three were written      *)
(* apart, in Java and in JavaScript, around the same layout.               *)
(*                                                                         *)
(* A long is the set of the positions of its ones; the data is the set of  *)
(* its ones counted from the left of the first digit.  Codes are their     *)
(* places in the code tables, and stand for their names.  Dates are        *)
(* <<year, month>>; power (gl) is in tenths of a kilowatt, mass in         *)
(* kilograms, displacement in millilitres.                                 *)
(***************************************************************************)
EXTENDS Integers, Sequences, FiniteSets

CONSTANTS
  None,   \* null, undefined, or an empty text
  Radix,  \* digits of a plate: 36 in the code
  Codes,  \* of every kind: for hpzl, syxz and cllx, the codes of its table
  Packed, \* for every kind: the number (dmz2) a code has on a card
  Within, \* for every kind: <<c, d>> when the name of c occurs in that of d
  Buses,  \* the vehicle types whose code starts with K
  Now     \* the date of personalising

Dates == Nat \X (1 .. 12)
PlateTexts == Nat \X Nat \X Seq(Nat)

(* Kind of plate, usage and type of vehicle.                               *)
Kinds == {"hpzl", "syxz", "cllx"}

ASSUME ContentAssumption ==
  /\ Radix \in 2 .. 36
  /\ \A f \in Kinds : Codes[f] \subseteq Nat /\ \A c \in Codes[f] : <<c, c>> \in Within[f]
  /\ \A c \in Codes.hpzl : Packed.hpzl[c] \in 0 .. 15
  /\ \A c \in Codes.syxz : Packed.syxz[c] \in 1 .. 15
  /\ \A c \in Codes.cllx : Packed.cllx[c] \in 0 .. 511
  /\ Buses \subseteq Codes.cllx
  /\ Now \in Dates
  /\ None \notin Nat \cup (Nat \X Nat) \cup PlateTexts

-----------------------------------------------------------------------------
(* Numbers and their digits.                                               *)

(* x with its last digits to the base d dropped one after the other.       *)
Quotients(x, d, n) ==
  LET q[i \in 0 .. n] == IF i = 0 THEN x ELSE q[i - 1] \div d IN q

(* The number that digits stand for, the first one counting most.          *)
ValueOf(digits, d) ==
  LET h[i \in 0 .. Len(digits)] == IF i = 0 THEN 0 ELSE d * h[i - 1] + digits[i]
  IN  h[Len(digits)]

-----------------------------------------------------------------------------
(* Packing: calculateVehicleInfo and EriUtil.                              *)

(* The ones of a long; a negative one drags its sign.                      *)
Ones(x) == LET q == Quotients(x, 2, 39) IN {i \in 0 .. 39 : q[i] % 2 = 1}

(* info <<= width; info |= value                                           *)
Push(long, field) == {i + field[1] : i \in long} \cup Ones(field[2])
Long(fields) ==
  LET info[i \in 0 .. Len(fields)] == IF i = 0 THEN {} ELSE Push(info[i - 1], fields[i])
  IN  info[Len(fields)]

(* toHexString and appendZero: the last n digits, put after digit "at".    *)
Digits(long, n, at) == {4 * (at + n) - 1 - i : i \in {j \in long : j < 4 * n}}

(* The years that months are counted from.                                 *)
MadeFrom == 1990
ValidFrom == 2013

MonthsSince(year, date) == 12 * (date[1] - year) + date[2] - 1

(* Math.round(x / d)                                                       *)
Rounded(x, d) == (x + d \div 2) \div d

(* ccrq: 511 months at most; earlier than 1990 wraps to the top.           *)
MadeMonths(row) ==
  LET n == MonthsSince(MadeFrom, row.ccrq) IN
  IF row.ccrq = None THEN 0
  ELSE IF n >= 511 THEN 511
  ELSE IF n < 0 THEN (((-n) \div 511 + 1) * 511 + n) % 511 ELSE n

ValidMonths(row) ==
  LET n == MonthsSince(ValidFrom, row.yxqz) IN
  IF row.yxqz = None THEN 0 ELSE IF n < 0 THEN 511 ELSE n % 511

(* The calendar still holds the last date it was given.                    *)
ScrapYears(row) ==
  LET base == IF row.yxqz # None THEN row.yxqz[1]
              ELSE IF row.ccrq # None THEN row.ccrq[1] ELSE Now[1] IN
  IF row.qzbfqz = None THEN 0
  ELSE IF row.qzbfqz - base > 31 THEN 31 ELSE row.qzbfqz - base

Capacity(row) ==
  IF row.cllx \in Buses THEN row.hdzk
  ELSE IF row.zzl >= 102300 THEN 1023 ELSE Rounded(row.zzl, 100)

(* 1 when the engine field holds the power, 0 the displacement.            *)
PowerFlag(row) == IF row.pl \in {None, 0, 1} THEN 1 ELSE 0

Engine(row) ==
  IF PowerFlag(row) = 0 THEN IF row.pl >= 25600 THEN 255 ELSE Rounded(row.pl, 100)
  ELSE IF row.gl = None \/ row.gl <= 10 THEN 0
  ELSE IF row.gl >= 2550 THEN 255 ELSE Rounded(row.gl, 10)

(* Longer suffixes are numbered after the shorter ones.                    *)
Power4 == Radix * Radix * Radix * Radix
Offset(length) == (IF length > 4 THEN Power4 ELSE 0) + (IF length > 5 THEN Power4 * Radix ELSE 0)

(* Wrong variant: a shorter suffix is filled up with the first digit.      *)
ParseWithoutOffset(suffix) == ValueOf(suffix, Radix)

(* parseHPHMToLong                                                         *)
ParseHPHMToLong(suffix) == ValueOf(suffix, Radix) + Offset(Len(suffix))

(* The upper half: card number no = <<province, sequence number>>, then    *)
(* the vehicle; digits 18 and 19 are the reader's.  The lower half is the  *)
(* vehicle's alone.                                                        *)
UpperHalf(no, row) ==
  LET number == Long(<< <<1, 0>>, <<6, no[1]>>, <<30, no[2]>>, <<6, row.fzjg>> >>)
      vehicle == Long(<< <<6, row.fzjg>>, <<5, row.fpdh>>, <<4, Packed.syxz[row.syxz]>>,
                         <<9, MadeMonths(row)>>, <<9, Packed.cllx[row.cllx]>>,
                         <<1, PowerFlag(row)>>, <<1, 0>> >>)
  IN  Digits({i - 3 : i \in {j \in number : j >= 3}}, 10, 0) \cup Digits(vehicle, 8, 10)

LowerHalf(row) ==
  LET plate == Long(<< <<4, Packed.hpzl[row.hpzl]>>, <<32, ParseHPHMToLong(row.xh)>> >>)
      rest == Long(<< <<9, ValidMonths(row)>>, <<5, ScrapYears(row)>>, <<10, Capacity(row)>>,
                      <<4, IF row.csys = None THEN 0 ELSE row.csys>>, <<8, Engine(row)>> >>)
  IN  Digits(plate, 9, 20) \cup Digits(rest, 9, 29)

CalculateVehicleInfo(no, row) == UpperHalf(no, row) \cup LowerHalf(row)

(* calculateHexCardNumber: what a card holds before any vehicle.           *)
FactoryData(no) ==
  Digits(Long(<< <<1, 0>>, <<6, no[1]>>, <<30, no[2]>>, <<3, 0>> >>), 10, 0)

-----------------------------------------------------------------------------
(* Unpacking: eri.js.                                                      *)

(* parseInt(data.substring(a, b), 16) >> k, its last m bits                *)
Window(data, a, b, k, m) ==
  {i \in 0 .. m - 1 : 4 * b - 1 - (i + k) \in data /\ i + k < 4 * (b - a)}
Value(ones, m) == ValueOf([i \in 1 .. m |-> IF m - i \in ones THEN 1 ELSE 0], 2)
Read(data, a, b, k, m) == Value(Window(data, a, b, k, m), m)

(* Wrong variant: the three bits of the plate's province left in.          *)
ParseUnshifted(data) ==
  <<Read(data, 0, 2, 1, 6), Read(data, 0, 10, 0, 29)>>

(* The number has 40 bits but >> works on 32 of them, signed: bit 29 of    *)
(* the sequence number comes out as a copy of bit 28.                      *)
ParseNumber(data) ==
  LET low == Window(data, 0, 10, 3, 29) IN
  <<Read(data, 0, 2, 1, 6), Value(low \cup {i \in {29} : 28 \in low}, 30)>>

(* setFullYear truncates and setMonth takes the remainder's sign, so a     *)
(* month before the base borrows a year twice.                             *)
DateFrom(year, n) ==
  <<(12 * year + n) \div 12 - (IF n < 0 /\ n % 12 # 0 THEN 1 ELSE 0), (n % 12) + 1>>

(* More months than have passed since 1990 stand for earlier dates.        *)
ParseMade(n) ==
  LET m == IF MonthsSince(MadeFrom, Now) + 1 < n THEN n - 511 ELSE n IN
  IF m = 511 THEN None ELSE DateFrom(MadeFrom, m)

ParseHphm(n) ==
  LET length == IF n < Power4 THEN 4 ELSE IF n < Power4 * Radix + Power4 THEN 5 ELSE 6
      result == Quotients(n - Offset(length), Radix, 5)
  IN  [i \in 1 .. length |-> result[length - i] % Radix]

(* The entry of a number in the page's tables: the names of all codes that *)
(* share it, joined.  There may be none.                                   *)
Entry(f, n) == {c \in Codes[f] : Packed[f][c] = n}

(* The first code of an entry starts with K.                               *)
IsBus(entry) == \E c \in entry : c \in Buses /\ \A d \in entry : c <= d

(* Without a vehicle (usage 0) only the number matters here.               *)
Parse(data) ==
  LET cllx == Entry("cllx", Read(data, 15, 18, 2, 9))
      capacity == Read(data, 32, 35, 0, 10)
      power == Read(data, 17, 18, 1, 1) = 1
      engine == Read(data, 36, 38, 0, 8)
      valid == Read(data, 29, 32, 3, 9)
      yxqz == DateFrom(ValidFrom, valid)
      csys == Read(data, 35, 36, 0, 4)
  IN
  [kh |-> ParseNumber(data),
   hphm |-> <<Read(data, 9, 11, 1, 6), Read(data, 10, 12, 0, 5), ParseHphm(Read(data, 21, 29, 0, 32))>>,
   hpzl |-> Entry("hpzl", Read(data, 20, 21, 0, 4)),
   syxz |-> Entry("syxz", Read(data, 12, 13, 0, 4)),
   ccrq |-> ParseMade(Read(data, 13, 16, 3, 9)),
   cllx |-> cllx,
   yxqz |-> IF valid = 511 THEN None ELSE yxqz,
   qzbfqz |-> IF valid = 511 THEN None ELSE yxqz[1] + Read(data, 31, 33, 2, 5),
   hdzk |-> IF IsBus(cllx) THEN capacity ELSE None,
   zzl |-> IF IsBus(cllx) THEN None ELSE capacity,
   csys |-> IF csys = 0 THEN None ELSE csys,
   pl |-> IF power THEN None ELSE engine,
   gl |-> IF power THEN engine ELSE None]

-----------------------------------------------------------------------------
(* The page's texts (VehicleServiceImpl.translate) and checkContent.       *)

TextFields == {"hphm", "hpzl", "syxz", "ccrq", "cllx", "yxqz", "qzbfqz",
               "hdzk", "zzl", "csys", "pl", "gl"}
BlankTexts == [f \in TextFields |-> None]

Translate(row) ==
  [hphm |-> <<row.fzjg, row.fpdh, row.xh>>, hpzl |-> row.hpzl, syxz |-> row.syxz,
   ccrq |-> row.ccrq, cllx |-> row.cllx, yxqz |-> row.yxqz, qzbfqz |-> row.qzbfqz,
   hdzk |-> IF row.cllx \in Buses THEN row.hdzk ELSE None,
   zzl |-> Rounded(row.zzl, 100), csys |-> row.csys,
   pl |-> IF row.pl = None THEN None ELSE Rounded(row.pl, 100), gl |-> row.gl]

(* text(undefined) changes nothing: a missing value keeps the older text.  *)
Show(texts, new) == [f \in TextFields |-> IF new[f] = None THEN texts[f] ELSE new[f]]

(* indexOf(...) == 0 on dates like 2016-1-5: January on the card is also   *)
(* the beginning of October, November and December.                        *)
BeginsWith(text, date) ==
  text[1] = date[1] /\ (text[2] = date[2] \/ (date[2] = 1 /\ text[2] >= 10))

Agree(card, texts, fields) ==
  \A f \in fields : card[f] = texts[f] \/ card[f] = None \/ texts[f] = None

(* indexOf(...) < 0: the text may be any part of the joined names.         *)
KindsAgree(card, texts, kinds) ==
  \A f \in kinds :
    card[f] = {} \/ texts[f] = None \/ \E c \in card[f] : <<texts[f], c>> \in Within[f]

DateAgrees(card, texts, f) ==
  card[f] = None \/ texts[f] = None \/ BeginsWith(texts[f], card[f])

PowerAgrees(card, texts) ==
  \/ card.gl \in {None, 0}
  \/ texts.gl = None
  \/ 10 * card.gl = texts.gl
  \/ texts.gl >= 2550 /\ card.gl = 255

ScrapAgrees(card, texts) ==
  \/ Agree(card, texts, {"qzbfqz"})
  \/ texts.yxqz # None /\ texts.qzbfqz - texts.yxqz[1] >= 31

Exact == {"hphm", "csys", "pl", "zzl", "hdzk"}

VehicleAgrees(card, texts) ==
  /\ KindsAgree(card, texts, Kinds)
  /\ Agree(card, texts, Exact)
  /\ PowerAgrees(card, texts)
  /\ ScrapAgrees(card, texts)
  /\ DateAgrees(card, texts, "yxqz") /\ DateAgrees(card, texts, "ccrq")

(* Wrong variants: the plate is not compared; the kind of plate is not.    *)
CheckWithoutPlate(card, kh, texts) ==
  card.kh = kh /\ KindsAgree(card, texts, Kinds) /\ Agree(card, texts, Exact \ {"hphm"})
CheckWithoutKind(card, kh, texts) ==
  card.kh = kh /\ KindsAgree(card, texts, Kinds \ {"hpzl"}) /\ Agree(card, texts, Exact)

CheckContent(card, kh, texts) == card.kh = kh /\ VehicleAgrees(card, texts)

-----------------------------------------------------------------------------
(* Rows of vehicles: the numbers of the code tables have the widths that   *)
(* calculateVehicleInfo shifts by; usage 0 is for another layout.  A       *)
(* colour has a number of its own.                                         *)
Rows ==
  [fzjg : 0 .. 63, fpdh : 0 .. 25, xh : Seq(0 .. Radix - 1), hpzl : Codes.hpzl,
   syxz : Codes.syxz, cllx : Codes.cllx, csys : {None} \cup 0 .. 15,
   ccrq : {None} \cup Dates, yxqz : {None} \cup Dates, qzbfqz : {None} \cup Nat,
   hdzk : Nat, zzl : Nat, pl : {None} \cup Nat, gl : {None} \cup Nat]

(* What the layout has room for.  The rest is refused by the check after   *)
(* the card has been written.  The page takes a type for a bus when the    *)
(* first type with the same number is one.                                 *)
Encodable(row) ==
  /\ Len(row.xh) \in 4 .. 6
  /\ row.ccrq # None => MonthsSince(MadeFrom, row.ccrq) \in 0 .. MonthsSince(MadeFrom, Now)
  /\ row.yxqz # None => MonthsSince(ValidFrom, row.yxqz) < 511
  /\ row.qzbfqz # None => row.yxqz # None /\ row.qzbfqz >= row.yxqz[1]
  /\ row.cllx \in Buses <=> IsBus(Entry("cllx", Packed.cllx[row.cllx]))
  /\ row.cllx \in Buses => row.hdzk \in 0 .. 1023
  /\ row.cllx \notin Buses => row.zzl < 102350
  /\ row.pl # None => row.pl < 25550
  /\ row.gl # None => row.gl <= 10 \/ row.gl % 10 = 0 \/ row.gl >= 2550
=============================================================================
