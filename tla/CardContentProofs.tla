------------------------- MODULE CardContentProofs -------------------------
(***************************************************************************)
(* What is packed on a card is unpacked from it: for every card number,    *)
(* and every vehicle whose codes have the widths of the layout, the page   *)
(* reads what the server wrote.  Numbers come back from their digits and   *)
(* digits from their numbers, to any base; from these follow the fields,   *)
(* whose base is 2, and the plates.                                        *)
(***************************************************************************)
EXTENDS CardContent, WellFoundedInduction, TLAPS

-----------------------------------------------------------------------------
(* Induction, for a set of numbers.                                        *)

(* A set that has 0 and each next number has them all.                     *)
LEMMA SetInduction ==
  ASSUME NEW S, 0 \in S, \A n \in Nat : n \in S => n + 1 \in S
  PROVE  Nat \subseteq S
<1> SUFFICES ASSUME Nat \ S # {} PROVE FALSE
  OBVIOUS
<1>1. PICK x \in Nat \ S : \A y \in Nat \ S : ~ (<<y, x>> \in OpToRel(<, Nat))
  BY NatLessThanWellFounded, WFMin, Nat \ S \subseteq Nat
<1>2. x - 1 \in Nat /\ x - 1 \notin S
  OBVIOUS
<1>3. <<x - 1, x>> \in OpToRel(<, Nat)
  BY <1>2 DEF OpToRel
<1> QED BY <1>1, <1>2, <1>3

(* What holds at 0 and is handed on from each number to the next.          *)
LEMMA IntervalInduction ==
  ASSUME NEW m \in Nat, NEW S, 0 \in S, \A i \in 0 .. m - 1 : i \in S => i + 1 \in S
  PROVE  0 .. m \subseteq S
<1> DEFINE T == S \cup {i \in Nat : i > m}
<1>1. \A n \in Nat : n \in T => n + 1 \in T
  OBVIOUS
<1>2. Nat \subseteq T
  <2> HIDE DEF T
  <2>1. 0 \in T
    BY DEF T
  <2> QED BY <1>1, <2>1, SetInduction
<1> QED BY <1>2

-----------------------------------------------------------------------------
(* The recursive functions are what their definitions say.                 *)

AreQuotients(q, x, d, n) == q = [i \in 0 .. n |-> IF i = 0 THEN x ELSE q[i - 1] \div d]

(* There is a function like Quotients describes, for every length.         *)
LEMMA QuotientsExist ==
  ASSUME NEW x, NEW d, NEW n \in Nat
  PROVE  \E q : AreQuotients(q, x, d, n)
<1> DEFINE S == {m \in Nat : \E q : AreQuotients(q, x, d, m)}
<1>1. 0 \in S
  <2>1. AreQuotients([i \in 0 .. 0 |-> x], x, d, 0)
    BY DEF AreQuotients
  <2> QED BY <2>1
<1>2. ASSUME NEW m \in Nat, m \in S PROVE m + 1 \in S
  <2>1. PICK q : AreQuotients(q, x, d, m)
    BY <1>2
  <2> DEFINE r == [i \in 0 .. m + 1 |-> IF i = m + 1 THEN q[m] \div d ELSE q[i]]
  <2>2. \A i \in 0 .. m + 1 : r[i] = IF i = 0 THEN x ELSE r[i - 1] \div d
    BY <2>1 DEF AreQuotients
  <2>3. AreQuotients(r, x, d, m + 1)
    BY <2>2 DEF AreQuotients
  <2> HIDE DEF r
  <2> QED BY <2>3
<1> HIDE DEF S
<1>3. n \in S
  BY <1>1, <1>2, SetInduction
<1> QED BY <1>3 DEF S

(* So Quotients is one: each of its values comes from the one before.      *)
LEMMA QuotientsDef ==
  ASSUME NEW x, NEW d, NEW n \in Nat
  PROVE  AreQuotients(Quotients(x, d, n), x, d, n)
<1>1. Quotients(x, d, n) = CHOOSE q : AreQuotients(q, x, d, n)
  BY DEF Quotients, AreQuotients
<1> QED BY <1>1, QuotientsExist

(* The values of ever longer beginnings of a sequence of digits.           *)
AreValues(h, f, d, n) == h = [i \in 0 .. n |-> IF i = 0 THEN 0 ELSE d * h[i - 1] + f[i]]

(* There is a function like the one in ValueOf, for all digits.            *)
LEMMA ValuesExist ==
  ASSUME NEW f, NEW d, NEW n \in Nat
  PROVE  \E h : AreValues(h, f, d, n)
<1> DEFINE S == {m \in Nat : \E h : AreValues(h, f, d, m)}
<1>1. 0 \in S
  <2>1. AreValues([i \in 0 .. 0 |-> 0], f, d, 0)
    BY DEF AreValues
  <2> QED BY <2>1
<1>2. ASSUME NEW m \in Nat, m \in S PROVE m + 1 \in S
  <2>1. PICK h : AreValues(h, f, d, m)
    BY <1>2
  <2> DEFINE r == [i \in 0 .. m + 1 |-> IF i = m + 1 THEN d * h[m] + f[m + 1] ELSE h[i]]
  <2>2. \A i \in 0 .. m + 1 : r[i] = IF i = 0 THEN 0 ELSE d * r[i - 1] + f[i]
    BY <2>1 DEF AreValues
  <2>3. AreValues(r, f, d, m + 1)
    BY <2>2 DEF AreValues
  <2> HIDE DEF r
  <2> QED BY <2>3
<1> HIDE DEF S
<1>3. n \in S
  BY <1>1, <1>2, SetInduction
<1> QED BY <1>3 DEF S

(* So ValueOf is what that function ends with.                             *)
LEMMA ValueOfDef ==
  ASSUME NEW f, NEW d, Len(f) \in Nat
  PROVE  \E h : AreValues(h, f, d, Len(f)) /\ ValueOf(f, d) = h[Len(f)]
<1> DEFINE h == CHOOSE h : AreValues(h, f, d, Len(f))
<1>1. ValueOf(f, d) = h[Len(f)]
  BY DEF ValueOf, AreValues
<1>2. AreValues(h, f, d, Len(f))
  BY ValuesExist
<1> HIDE DEF h
<1> QED BY <1>1, <1>2

(* What a long is after each of its fields.                                *)
AreLongs(l, fields, n) == l = [i \in 0 .. n |-> IF i = 0 THEN {} ELSE Push(l[i - 1], fields[i])]

(* There is a function like the one in Long, for all fields.               *)
LEMMA LongsExist ==
  ASSUME NEW fields, NEW n \in Nat
  PROVE  \E l : AreLongs(l, fields, n)
<1> DEFINE S == {m \in Nat : \E l : AreLongs(l, fields, m)}
<1>1. 0 \in S
  <2>1. AreLongs([i \in 0 .. 0 |-> {}], fields, 0)
    BY DEF AreLongs
  <2> QED BY <2>1
<1>2. ASSUME NEW m \in Nat, m \in S PROVE m + 1 \in S
  <2>1. PICK l : AreLongs(l, fields, m)
    BY <1>2
  <2> DEFINE r == [i \in 0 .. m + 1 |-> IF i = m + 1 THEN Push(l[m], fields[m + 1]) ELSE l[i]]
  <2>2. \A i \in 0 .. m + 1 : r[i] = IF i = 0 THEN {} ELSE Push(r[i - 1], fields[i])
    <3> SUFFICES ASSUME NEW i \in 0 .. m + 1
                 PROVE  r[i] = IF i = 0 THEN {} ELSE Push(r[i - 1], fields[i])
      OBVIOUS
    <3>1. CASE i = 0
      BY <2>1, <3>1 DEF AreLongs
    <3>2. CASE i \in 1 .. m
      <4>1. r[i] = l[i] /\ r[i - 1] = l[i - 1]
        BY <3>2
      <4>2. i \in 0 .. m /\ i # 0
        BY <3>2
      <4>3. l[i] = Push(l[i - 1], fields[i])
        BY <2>1, <4>2, Zenon DEF AreLongs
      <4> QED BY <4>1, <4>2, <4>3
    <3>3. CASE i = m + 1
      <4>1. r[i] = Push(l[m], fields[m + 1]) /\ r[i - 1] = l[m]
        BY <3>3
      <4> QED BY <3>3, <4>1
    <3> QED BY <3>1, <3>2, <3>3
  <2>3. AreLongs(r, fields, m + 1)
    BY <2>2 DEF AreLongs
  <2> HIDE DEF r
  <2> QED BY <2>3
<1> HIDE DEF S
<1>3. n \in S
  BY <1>1, <1>2, SetInduction
<1> QED BY <1>3 DEF S

(* So Long is what that function ends with.                                *)
LEMMA LongDef ==
  ASSUME NEW fields, Len(fields) \in Nat
  PROVE  \E l : AreLongs(l, fields, Len(fields)) /\ Long(fields) = l[Len(fields)]
<1> DEFINE l == CHOOSE l : AreLongs(l, fields, Len(fields))
<1>1. Long(fields) = l[Len(fields)]
  BY DEF Long, AreLongs
<1>2. AreLongs(l, fields, Len(fields))
  BY LongsExist
<1> HIDE DEF l
<1> QED BY <1>1, <1>2

-----------------------------------------------------------------------------
(* Numbers and digits, to any base.                                        *)

Bases == Nat \ {0, 1}

(* A number is its quotient and its last digit, and no other two make it.  *)
LEMMA Division ==
  ASSUME NEW d \in Bases, NEW x \in Int
  PROVE  /\ x = d * (x \div d) + (x % d)
         /\ x \div d \in Int /\ x % d \in 0 .. d - 1
         /\ x \in Nat => x \div d \in Nat
         /\ \A y \in Int, f \in 0 .. d - 1 : x = d * y + f => x \div d = y /\ x % d = f
<1>1. x = d * (x \div d) + (x % d)
  BY DEF Bases
<1>2. x \div d \in Int /\ x % d \in 0 .. d - 1
  BY DEF Bases
<1>3. x \in Nat => x \div d \in Nat
  BY DEF Bases
<1>4. ASSUME NEW y \in Int, NEW f \in 0 .. d - 1, x = d * y + f
      PROVE  x \div d = y /\ x % d = f
  BY <1>4 DEF Bases
<1> QED BY <1>1, <1>2, <1>3, <1>4

(* Quotients are numbers; nothing is left after nothing.                   *)
LEMMA QuotientsType ==
  ASSUME NEW d \in Bases, NEW x \in Int, NEW n \in Nat, NEW q, AreQuotients(q, x, d, n)
  PROVE  /\ q \in [0 .. n -> Int] /\ q[0] = x
         /\ \A i \in 0 .. n - 1 : q[i + 1] = q[i] \div d
         /\ \A i \in 0 .. n : q[i] = 0 => \A j \in i .. n : q[j] = 0
<1>1. q[0] = x /\ \A i \in 0 .. n - 1 : q[i + 1] = q[i] \div d
  BY DEF AreQuotients
<1>2. \A i \in 0 .. n : q[i] \in Int
  <2> DEFINE S == {i \in 0 .. n : q[i] \in Int}
  <2>1. \A i \in 0 .. n - 1 : i \in S => i + 1 \in S
    <3> SUFFICES ASSUME NEW i \in 0 .. n - 1, q[i] \in Int PROVE q[i + 1] \in Int
      OBVIOUS
    <3>1. q[i] \div d \in Int
      BY Division
    <3> QED BY <1>1, <3>1
  <2>2. 0 \in S
    BY <1>1
  <2> HIDE DEF S
  <2>3. 0 .. n \subseteq S
    BY <2>1, <2>2, IntervalInduction
  <2> QED BY <2>3 DEF S
<1>3. q \in [0 .. n -> Int]
  BY <1>2 DEF AreQuotients
<1>4. ASSUME NEW i \in 0 .. n, q[i] = 0 PROVE \A j \in i .. n : q[j] = 0
  <2> DEFINE S == {k \in 0 .. n - i : q[i + k] = 0}
  <2>1. \A k \in 0 .. n - i - 1 : k \in S => k + 1 \in S
    <3> SUFFICES ASSUME NEW k \in 0 .. n - i - 1, q[i + k] = 0 PROVE q[i + k + 1] = 0
      OBVIOUS
    <3>1. q[i + k + 1] = 0 \div d
      BY <1>1
    <3> QED BY <3>1 DEF Bases
  <2>2. 0 \in S
    BY <1>4
  <2> HIDE DEF S
  <2>3. 0 .. n - i \subseteq S
    BY <2>1, <2>2, IntervalInduction
  <2>4. \A j \in i .. n : j - i \in S
    BY <2>3
  <2> QED BY <2>4 DEF S
<1> QED BY <1>1, <1>3, <1>4
(* The last w digits of the number with these quotients.                   *)
AreDigits(f, q, d, w) == Len(f) = w /\ \A k \in 1 .. w : f[k] = q[w - k] % d

(* A number has the value of its digits, as soon as they are all there.    *)
LEMMA DigitsToNumber ==
  ASSUME NEW d \in Bases, NEW x \in Int, NEW n \in Nat, NEW q, AreQuotients(q, x, d, n),
         NEW w \in 0 .. n, q[w] = 0,
         NEW f, AreDigits(f, q, d, w)
  PROVE  ValueOf(f, d) = x
<1>1. PICK h : AreValues(h, f, d, w) /\ ValueOf(f, d) = h[w]
  BY ValueOfDef DEF AreDigits
<1>2. /\ q \in [0 .. n -> Int] /\ q[0] = x
      /\ \A i \in 0 .. n - 1 : q[i + 1] = q[i] \div d
  BY QuotientsType
<1> DEFINE S == {k \in 0 .. w : h[k] = q[w - k]}
<1>3. 0 \in S
  BY <1>1 DEF AreValues
<1>4. ASSUME NEW k \in 0 .. w - 1, k \in S PROVE k + 1 \in S
  <2>1. h[k] = q[w - k] /\ h[k + 1] = d * h[k] + f[k + 1] /\ f[k + 1] = q[w - k - 1] % d
    BY <1>1, <1>4 DEF AreValues, AreDigits
  <2>2. q[w - k - 1] \in Int /\ q[w - k] = q[w - k - 1] \div d
    BY <1>2
  <2>3. q[w - k - 1] = d * (q[w - k - 1] \div d) + (q[w - k - 1] % d)
    BY <2>2, Division
  <2>4. h[k + 1] = q[w - (k + 1)]
    BY <2>1, <2>2, <2>3
  <2> QED BY <2>4
<1> HIDE DEF S
<1>5. w \in Nat
  OBVIOUS
<1>6. 0 .. w \subseteq S
  BY <1>3, <1>4, <1>5, IntervalInduction
<1>7. w \in S
  BY <1>5, <1>6
<1> QED BY <1>1, <1>2, <1>7 DEF S

(* Values of digits.                                                       *)
LEMMA ValuesType ==
  ASSUME NEW d \in Bases, NEW w \in Nat, NEW f \in [1 .. w -> 0 .. d - 1],
         NEW h, AreValues(h, f, d, w)
  PROVE  /\ h \in [0 .. w -> Nat] /\ h[0] = 0
         /\ \A i \in 0 .. w - 1 : h[i + 1] = d * h[i] + f[i + 1] /\ f[i + 1] \in 0 .. d - 1
<1>1. h[0] = 0 /\ \A i \in 0 .. w - 1 : h[i + 1] = d * h[i] + f[i + 1] /\ f[i + 1] \in 0 .. d - 1
  BY DEF AreValues
<1> DEFINE S == {i \in 0 .. w : h[i] \in Nat}
<1>2. 0 \in S
  BY <1>1
<1>3. ASSUME NEW i \in 0 .. w - 1, i \in S PROVE i + 1 \in S
  <2>1. h[i] \in Nat /\ d \in Nat /\ f[i + 1] \in Nat
    BY <1>1, <1>3 DEF Bases
  <2>2. d * h[i] \in Nat
    BY <2>1
  <2>3. d * h[i] + f[i + 1] \in Nat
    BY <2>1, <2>2
  <2> QED BY <1>1, <2>3
<1> HIDE DEF S
<1>4. 0 .. w \subseteq S
  BY <1>2, <1>3, IntervalInduction
<1>5. \A i \in 0 .. w : h[i] \in Nat
  BY <1>4 DEF S
<1> QED BY <1>1, <1>5 DEF AreValues

(* Digits come back from their value.                                      *)
LEMMA NumberToDigits ==
  ASSUME NEW d \in Bases, NEW w \in Nat, NEW f \in [1 .. w -> 0 .. d - 1],
         NEW h, AreValues(h, f, d, w),
         NEW n \in Nat, w <= n + 1, NEW q, AreQuotients(q, h[w], d, n)
  PROVE  \A j \in 0 .. w - 1 : q[j] % d = f[w - j]
<1>1. /\ h \in [0 .. w -> Nat]
      /\ \A i \in 0 .. w - 1 : h[i + 1] = d * h[i] + f[i + 1] /\ f[i + 1] \in 0 .. d - 1
  BY ValuesType
<1>2. q[0] = h[w] /\ \A i \in 0 .. n - 1 : q[i + 1] = q[i] \div d
  <2>1. h[w] \in Int
    BY <1>1
  <2> QED BY <2>1, QuotientsType
<1>3. ASSUME NEW i \in 0 .. w - 1 PROVE h[i + 1] \div d = h[i] /\ h[i + 1] % d = f[i + 1]
  <2>1. h[i + 1] = d * h[i] + f[i + 1] /\ f[i + 1] \in 0 .. d - 1 /\ h[i] \in Int /\ h[i + 1] \in Int
    BY <1>1
  <2>2. PICK x, y, g : x = h[i + 1] /\ y = h[i] /\ g = f[i + 1]
    OBVIOUS
  <2>3. x \div d = y /\ x % d = g
    <3>1. x = d * y + g /\ g \in 0 .. d - 1 /\ y \in Int /\ x \in Int
      BY <2>1, <2>2
    <3> QED BY <3>1, Division
  <2> QED BY <2>2, <2>3
<1> DEFINE S == {j \in Nat : j <= w - 1 => q[j] = h[w - j]}
<1>4. 0 \in S
  BY <1>2
<1>5. ASSUME NEW j \in Nat, j \in S PROVE j + 1 \in S
  <2> SUFFICES ASSUME j + 1 <= w - 1 PROVE q[j + 1] = h[w - (j + 1)]
    OBVIOUS
  <2>1. q[j] = h[w - j] /\ q[j + 1] = q[j] \div d
    BY <1>2, <1>5
  <2> DEFINE i == w - (j + 1)
  <2>2. i \in 0 .. w - 1 /\ i + 1 = w - j
    OBVIOUS
  <2> HIDE DEF i
  <2>3. h[w - j] \div d = h[i]
    BY <1>3, <2>2
  <2> QED BY <2>1, <2>3 DEF i
<1> HIDE DEF S
<1>6. Nat \subseteq S
  BY <1>4, <1>5, SetInduction
<1>7. \A j \in 0 .. w - 1 : q[j] = h[w - j]
  BY <1>6 DEF S
<1> SUFFICES ASSUME NEW j \in 0 .. w - 1 PROVE q[j] % d = f[w - j]
  OBVIOUS
<1>8. PICK i \in 0 .. w - 1 : i + 1 = w - j
  <2>1. w - j - 1 \in 0 .. w - 1 /\ (w - j - 1) + 1 = w - j
    OBVIOUS
  <2> QED BY <2>1
<1>9. q[j] = h[i + 1] /\ h[i + 1] % d = f[i + 1]
  BY <1>3, <1>7, <1>8
<1> QED BY <1>8, <1>9
-----------------------------------------------------------------------------
(* Fields of a long.                                                       *)

(* x has at most w binary digits.                                          *)
Fits(x, w) == x \in Nat /\ Quotients(x, 2, 39)[w] = 0

(* Halves of a number.                                                     *)
LEMMA Halves ==
  ASSUME NEW x \in Int
  PROVE  LET q == Quotients(x, 2, 39) IN
         /\ AreQuotients(q, x, 2, 39) /\ q \in [0 .. 39 -> Int] /\ q[0] = x
         /\ \A i \in 0 .. 38 : q[i + 1] = q[i] \div 2
         /\ \A i \in 0 .. 39 : q[i] = 0 => \A j \in i .. 39 : q[j] = 0
<1> DEFINE q == Quotients(x, 2, 39)
<1>1. AreQuotients(q, x, 2, 39)
  BY QuotientsDef
<1> HIDE DEF q
<1>2. PICK d \in Bases, n \in Nat : d = 2 /\ n = 39
  BY DEF Bases
<1>3. /\ q \in [0 .. n -> Int] /\ q[0] = x
      /\ \A i \in 0 .. n - 1 : q[i + 1] = q[i] \div d
      /\ \A i \in 0 .. n : q[i] = 0 => \A j \in i .. n : q[j] = 0
  <2>1. AreQuotients(q, x, d, n)
    BY <1>1, <1>2
  <2> QED BY <2>1, QuotientsType
<1>4. \A i \in 0 .. 38 : q[i + 1] = q[i] \div 2
  BY <1>2, <1>3
<1> QED BY <1>1, <1>2, <1>3, <1>4 DEF q

(* A number that fits has its ones in that width, and they make it.        *)
LEMMA OnesMakeValue ==
  ASSUME NEW x, NEW w \in 0 .. 39, Fits(x, w)
  PROVE  /\ Ones(x) \subseteq 0 .. w - 1
         /\ Value(Ones(x), w) = x
<1> DEFINE q == Quotients(x, 2, 39)
<1>1. /\ AreQuotients(q, x, 2, 39) /\ q \in [0 .. 39 -> Int] /\ x \in Nat /\ q[w] = 0
      /\ \A j \in w .. 39 : q[j] = 0
  <2>1. x \in Nat /\ x \in Int /\ q[w] = 0
    BY DEF Fits
  <2>2. /\ AreQuotients(q, x, 2, 39) /\ q \in [0 .. 39 -> Int]
        /\ \A i \in 0 .. 39 : q[i] = 0 => \A j \in i .. 39 : q[j] = 0
    BY <2>1, Halves
  <2> HIDE DEF q
  <2> QED BY <2>1, <2>2
<1>2. Ones(x) = {i \in 0 .. 39 : q[i] % 2 = 1}
  BY DEF Ones
<1> HIDE DEF q
<1>3. Ones(x) \subseteq 0 .. w - 1
  BY <1>1, <1>2
<1> DEFINE f == [i \in 1 .. w |-> IF w - i \in Ones(x) THEN 1 ELSE 0]
<1>4. Len(f) = w
  OBVIOUS
<1>5. AreDigits(f, q, 2, w)
  <2>1. \A k \in 1 .. w : f[k] = q[w - k] % 2
    BY <1>1, <1>2
  <2> QED BY <1>4, <2>1 DEF AreDigits
<1>6. Value(Ones(x), w) = ValueOf(f, 2)
  BY DEF Value
<1> HIDE DEF f
<1>7. ValueOf(f, 2) = x
  <2>1. PICK d \in Bases, n \in Nat : d = 2 /\ n = 39
    BY DEF Bases
  <2>2. x \in Int /\ AreQuotients(q, x, d, n) /\ w \in 0 .. n /\ AreDigits(f, q, d, w)
    BY <1>1, <1>5, <2>1
  <2>3. ValueOf(f, d) = x
    BY <1>1, <2>2, DigitsToNumber
  <2> QED BY <2>1, <2>3
<1> QED BY <1>3, <1>6, <1>7

(* Eight halvings divide by 256.                                           *)
LEMMA EightHalvings ==
  ASSUME NEW q \in [0 .. 39 -> Int], \A i \in 0 .. 38 : q[i + 1] = q[i] \div 2,
         NEW i \in 0 .. 31
  PROVE  q[i + 8] = q[i] \div 256
<1>0. \A j \in 0 .. 37 : q[j + 2] = q[j] \div 4
  <2> SUFFICES ASSUME NEW j \in 0 .. 37 PROVE q[j + 2] = q[j] \div 4
    OBVIOUS
  <2>1. q[j + 1] = q[j] \div 2 /\ q[j] \in Int
    OBVIOUS
  <2>2. q[j + 2] = q[j + 1] \div 2
    <3>1. j + 1 \in 0 .. 38 /\ (j + 1) + 1 = j + 2
      OBVIOUS
    <3>2. q[(j + 1) + 1] = q[j + 1] \div 2
      BY <3>1, Zenon
    <3> QED BY <3>1, <3>2, Zenon
  <2>3. \A y \in Int : (y \div 2) \div 2 = y \div 4
    OBVIOUS
  <2> QED BY <2>1, <2>2, <2>3
<1>1. q[i + 2] = q[i] \div 4
  <2>1. i \in 0 .. 37 /\ i + 2 = i + 2
    OBVIOUS
  <2>2. q[i + 2] = q[i] \div 4
    BY <1>0, <2>1, Zenon
  <2> QED BY <2>1, <2>2, Zenon
<1>2. q[i + 4] = q[i + 2] \div 4
  <2>1. i + 2 \in 0 .. 37 /\ (i + 2) + 2 = i + 4
    OBVIOUS
  <2>2. q[(i + 2) + 2] = q[i + 2] \div 4
    BY <1>0, <2>1, Zenon
  <2> QED BY <2>1, <2>2, Zenon
<1>3. q[i + 6] = q[i + 4] \div 4
  <2>1. i + 4 \in 0 .. 37 /\ (i + 4) + 2 = i + 6
    OBVIOUS
  <2>2. q[(i + 4) + 2] = q[i + 4] \div 4
    BY <1>0, <2>1, Zenon
  <2> QED BY <2>1, <2>2, Zenon
<1>4. q[i + 8] = q[i + 6] \div 4
  <2>1. i + 6 \in 0 .. 37 /\ (i + 6) + 2 = i + 8
    OBVIOUS
  <2>2. q[(i + 6) + 2] = q[i + 6] \div 4
    BY <1>0, <2>1, Zenon
  <2> QED BY <2>1, <2>2, Zenon
<1>5. q[i] \in Int /\ q[i + 4] = q[i] \div 16 /\ q[i + 4] \in Int
  BY <1>1, <1>2
<1>6. q[i + 8] = q[i + 4] \div 16
  BY <1>3, <1>4, <1>5
<1>7. \A y \in Int : (y \div 16) \div 16 = y \div 256
  OBVIOUS
<1> QED BY <1>5, <1>6, <1>7

(* The widths of the layout.                                               *)
LEMMA Widths ==
  ASSUME NEW x \in Nat
  PROVE  /\ x <= 1 => Fits(x, 1)
         /\ x <= 15 => Fits(x, 4)
         /\ x <= 31 => Fits(x, 5)
         /\ x <= 63 => Fits(x, 6)
         /\ x <= 255 => Fits(x, 8)
         /\ x <= 511 => Fits(x, 9)
         /\ x <= 1023 => Fits(x, 10)
         /\ x < 2^28 => Fits(x, 28)
         /\ x < 2^32 => Fits(x, 32)
<1> DEFINE q == Quotients(x, 2, 39)
<1>1. /\ q \in [0 .. 39 -> Int] /\ q[0] = x
      /\ \A i \in 0 .. 38 : q[i + 1] = q[i] \div 2
  BY Halves
<1>2. \A w : Fits(x, w) <=> q[w] = 0
  BY DEF Fits
<1> HIDE DEF q
<1>3. x <= 1 => q[1] = 0
  BY <1>1
<1>4. x <= 15 => q[4] = 0
  BY <1>1
<1>5. x <= 31 => q[5] = 0
  BY <1>1
<1>6. x <= 63 => q[6] = 0
  BY <1>1
<1>7. \A i \in 0 .. 31 : q[i + 8] = q[i] \div 256
  BY <1>1, EightHalvings
<1>8. q[0 + 8] = x \div 256 /\ q[8 + 8] = q[8] \div 256 /\ q[16 + 8] = q[16] \div 256
      /\ q[24 + 8] = q[24] \div 256
  BY <1>1, <1>7
<1>9. x <= 255 => q[8] = 0
  BY <1>8
<1>10. x <= 511 => q[9] = 0
  <2>1. q[9] = q[8] \div 2
    BY <1>1
  <2> QED BY <1>8, <2>1
<1>11. x <= 1023 => q[10] = 0
  <2>1. q[9] = q[8] \div 2 /\ q[10] = q[9] \div 2
    BY <1>1
  <2> QED BY <1>8, <2>1
<1>12. x < 2^28 => q[28] = 0
  <2>1. x < 2^28 => q[24] \in 0 .. 15
    BY <1>8
  <2>2. q[24] \in 0 .. 15 => q[28] = 0
    BY <1>1
  <2> QED BY <2>1, <2>2
<1>13. x < 2^32 => q[32] = 0
  BY <1>8
<1> QED BY <1>2, <1>3, <1>4, <1>5, <1>6, <1>9, <1>10, <1>11, <1>12, <1>13
(* A field of a long, from position "at" on.                               *)
FieldAt(long, at, w, v) == \A i \in 0 .. w - 1 : at + i \in long <=> i \in Ones(v)

(* A field that fits is put at the end, and moves the others as they are.  *)
LEMMA PushField ==
  ASSUME NEW long, long \subseteq Nat, NEW w \in 0 .. 39, NEW v
  PROVE  /\ Push(long, <<w, v>>) \subseteq Nat
         /\ Fits(v, w) => /\ FieldAt(Push(long, <<w, v>>), 0, w, v)
                          /\ \A at \in Nat, u \in Nat : \A x :
                               FieldAt(long, at, u, x) => FieldAt(Push(long, <<w, v>>), at + w, u, x)
<1> DEFINE new == Push(long, <<w, v>>)
<1>1. new = {i + w : i \in long} \cup Ones(v)
  BY DEF Push
<1>2. Ones(v) \subseteq Nat
  BY DEF Ones
<1>3. new \subseteq Nat
  BY <1>1, <1>2
<1>4. ASSUME Fits(v, w) PROVE FieldAt(new, 0, w, v)
  <2> SUFFICES ASSUME NEW i \in 0 .. w - 1 PROVE 0 + i \in new <=> i \in Ones(v)
    BY DEF FieldAt
  <2>1. \A j \in long : j + w # i
    OBVIOUS
  <2> QED BY <1>1, <2>1
<1>5. ASSUME Fits(v, w), NEW at \in Nat, NEW u \in Nat, NEW x, FieldAt(long, at, u, x)
      PROVE  FieldAt(new, at + w, u, x)
  <2> SUFFICES ASSUME NEW i \in 0 .. u - 1 PROVE at + w + i \in new <=> i \in Ones(x)
    BY DEF FieldAt
  <2>1. Ones(v) \subseteq 0 .. w - 1
    BY <1>5, OnesMakeValue
  <2>2. at + w + i \notin Ones(v)
    BY <2>1
  <2>3. at + w + i \in {j + w : j \in long} <=> at + i \in long
    OBVIOUS
  <2>4. at + i \in long <=> i \in Ones(x)
    BY <1>5 DEF FieldAt
  <2> QED BY <1>1, <2>2, <2>3, <2>4
<1> HIDE DEF new
<1> QED BY <1>3, <1>4, <1>5 DEF new

(* A long, field after field.                                              *)
Grows(l, fields, n) ==
  /\ l[0] = {} /\ Long(fields) = l[n]
  /\ \A i \in 1 .. n : l[i] = Push(l[i - 1], fields[i])

(* A long grows by one field at a time.                                    *)
LEMMA LongOfFields ==
  ASSUME NEW fields, NEW n \in Nat, Len(fields) = n
  PROVE  \E l : Grows(l, fields, n)
<1>1. PICK l : AreLongs(l, fields, n) /\ Long(fields) = l[n]
  BY LongDef
<1>2. l[0] = {}
  BY <1>1 DEF AreLongs
<1>3. ASSUME NEW i \in 1 .. n PROVE l[i] = Push(l[i - 1], fields[i])
  <2>1. i \in 0 .. n /\ i # 0
    OBVIOUS
  <2> QED BY <1>1, <2>1, Zenon DEF AreLongs
<1> QED BY <1>1, <1>2, <1>3 DEF Grows

(* The longs of the code, spelled out: two fields,                         *)
LEMMA LongOfTwo ==
  ASSUME NEW a, NEW b
  PROVE  Long(<<a, b>>) = Push(Push({}, a), b)
<1> DEFINE fields == <<a, b>>
<1>1. Len(fields) = 2 /\ fields[1] = a /\ fields[2] = b
  OBVIOUS
<1> HIDE DEF fields
<1>2. PICK l : Grows(l, fields, 2)
  BY <1>1, LongOfFields
<1>3. l[1] = Push(l[0], fields[1]) /\ l[2] = Push(l[1], fields[2])
  BY <1>2 DEF Grows
<1> QED BY <1>1, <1>2, <1>3 DEF fields, Grows

(* four fields,                                                            *)
LEMMA LongOfFour ==
  ASSUME NEW a, NEW b, NEW c, NEW d
  PROVE  Long(<<a, b, c, d>>) = Push(Push(Push(Push({}, a), b), c), d)
<1> DEFINE fields == <<a, b, c, d>>
<1>1. Len(fields) = 4 /\ fields[1] = a /\ fields[2] = b /\ fields[3] = c /\ fields[4] = d
  OBVIOUS
<1> HIDE DEF fields
<1>2. PICK l : Grows(l, fields, 4)
  BY <1>1, LongOfFields
<1>3. /\ l[1] = Push(l[0], fields[1]) /\ l[2] = Push(l[1], fields[2])
      /\ l[3] = Push(l[2], fields[3]) /\ l[4] = Push(l[3], fields[4])
  BY <1>2 DEF Grows
<1> QED BY <1>1, <1>2, <1>3 DEF fields, Grows

(* five fields,                                                            *)
LEMMA LongOfFive ==
  ASSUME NEW a, NEW b, NEW c, NEW d, NEW e
  PROVE  Long(<<a, b, c, d, e>>) = Push(Push(Push(Push(Push({}, a), b), c), d), e)
<1> DEFINE fields == <<a, b, c, d, e>>
<1>1. /\ Len(fields) = 5 /\ fields[1] = a /\ fields[2] = b /\ fields[3] = c /\ fields[4] = d
      /\ fields[5] = e
  OBVIOUS
<1> HIDE DEF fields
<1>2. PICK l : Grows(l, fields, 5)
  BY <1>1, LongOfFields
<1>3. /\ l[1] = Push(l[0], fields[1]) /\ l[2] = Push(l[1], fields[2])
      /\ l[3] = Push(l[2], fields[3]) /\ l[4] = Push(l[3], fields[4])
      /\ l[5] = Push(l[4], fields[5])
  BY <1>2 DEF Grows
<1> QED BY <1>1, <1>2, <1>3 DEF fields, Grows

(* and seven.                                                              *)
LEMMA LongOfSeven ==
  ASSUME NEW a, NEW b, NEW c, NEW d, NEW e, NEW f, NEW g
  PROVE  Long(<<a, b, c, d, e, f, g>>) =
           Push(Push(Push(Push(Push(Push(Push({}, a), b), c), d), e), f), g)
<1> DEFINE fields == <<a, b, c, d, e, f, g>>
<1>1. /\ Len(fields) = 7 /\ fields[1] = a /\ fields[2] = b /\ fields[3] = c /\ fields[4] = d
      /\ fields[5] = e /\ fields[6] = f /\ fields[7] = g
  OBVIOUS
<1> HIDE DEF fields
<1>2. PICK l : Grows(l, fields, 7)
  BY <1>1, LongOfFields
<1>3. /\ l[1] = Push(l[0], fields[1]) /\ l[2] = Push(l[1], fields[2])
      /\ l[3] = Push(l[2], fields[3]) /\ l[4] = Push(l[3], fields[4])
      /\ l[5] = Push(l[4], fields[5]) /\ l[6] = Push(l[5], fields[6])
      /\ l[7] = Push(l[6], fields[7])
  BY <1>2 DEF Grows
<1> QED BY <1>1, <1>2, <1>3 DEF fields, Grows
(* The bits that a window reads are those of a field that fits.            *)
Covers(data, a, b, k, m, v) ==
  /\ a \in Nat /\ b \in Nat /\ k \in Nat /\ m \in 1 .. 39 /\ m - 1 + k < 4 * (b - a)
  /\ \A i \in 0 .. m - 1 : 4 * b - 1 - (i + k) \in data <=> i \in Ones(v)

(* What is read from a window that covers a field is its value.            *)
LEMMA ReadField ==
  ASSUME NEW data, NEW a, NEW b, NEW k, NEW m, NEW v, Fits(v, m), Covers(data, a, b, k, m, v)
  PROVE  Read(data, a, b, k, m) = v
<1>1. m \in 0 .. 39
  BY DEF Covers
<1>2. Ones(v) \subseteq 0 .. m - 1 /\ Value(Ones(v), m) = v
  BY <1>1, OnesMakeValue
<1>3. \A i \in 0 .. m - 1 : i + k < 4 * (b - a)
  BY DEF Covers
<1>4. Window(data, a, b, k, m) = Ones(v)
  BY <1>2, <1>3 DEF Window, Covers
<1> QED BY <1>2, <1>4 DEF Read

-----------------------------------------------------------------------------
(* The four longs of a vehicle.                                            *)

Numbers == (0 .. 63) \X (0 .. 2^28 - 1)

(* Pairs and their parts.                                                  *)
LEMMA Pairs ==
  ASSUME NEW A, NEW B, NEW p \in A \X B
  PROVE  p[1] \in A /\ p[2] \in B /\ p = <<p[1], p[2]>>
OBVIOUS

(* A card number is two numbers.                                           *)
LEMMA NumbersType == Numbers \subseteq Nat \X Nat
<1> SUFFICES ASSUME NEW no \in Numbers PROVE no \in Nat \X Nat
  OBVIOUS
<1>1. PICK A, B : Numbers = A \X B /\ A = 0 .. 63 /\ B = 0 .. 2^28 - 1
  BY Zenon DEF Numbers
<1>2. no[1] \in A /\ no[2] \in B /\ no = <<no[1], no[2]>>
  <2>1. no \in A \X B
    BY <1>1
  <2> QED BY <2>1, Pairs, Zenon
<1>3. A \subseteq Nat /\ B \subseteq Nat
  <2>1. \A n \in Int : 0 .. n \subseteq Nat
    OBVIOUS
  <2>2. 63 \in Int /\ 2^28 - 1 \in Int
    BY SMT
  <2> QED BY <1>1, <2>1, <2>2, Zenon
<1> QED BY <1>2, <1>3

(* One more field, with its position and those of the others computed.     *)
LEMMA PushOne ==
  ASSUME NEW long, long \subseteq Nat, NEW w \in 0 .. 39, NEW v, Fits(v, w)
  PROVE  Push(long, <<w, v>>) \subseteq Nat /\ FieldAt(Push(long, <<w, v>>), 0, w, v)
BY PushField

(* A field pushed moves the ones before it to the left.                    *)
LEMMA PushMoves ==
  ASSUME NEW long, long \subseteq Nat, NEW w \in 0 .. 39, NEW v, Fits(v, w),
         NEW at \in Nat, NEW u \in Nat, NEW x, FieldAt(long, at, u, x), NEW to, to = at + w
  PROVE  FieldAt(Push(long, <<w, v>>), to, u, x)
BY PushField

(* The parts of a card number fit in their fields.                         *)
LEMMA NumberFits ==
  ASSUME NEW no \in Numbers
  PROVE  Fits(no[1], 6) /\ Fits(no[2], 28) /\ Fits(no[2], 30)
<1>1. PICK a \in 0 .. 63, b \in 0 .. 2^28 - 1 : no[1] = a /\ no[2] = b
  BY Pairs, Zenon DEF Numbers
<1>2. a \in Nat /\ a <= 63 /\ b \in Nat /\ b < 2^28
  OBVIOUS
<1>3. Fits(a, 6) /\ Fits(b, 28)
  BY <1>2, Widths
<1> DEFINE q == Quotients(b, 2, 39)
<1>4. b \in Int
  BY <1>2
<1>5. \A i \in 0 .. 39 : q[i] = 0 => \A j \in i .. 39 : q[j] = 0
  BY <1>4, Halves
<1>6. q[28] = 0
  BY <1>3 DEF Fits
<1>7. (b \in Nat /\ q[30] = 0) => Fits(b, 30)
  BY DEF Fits
<1> HIDE DEF q
<1>8. Fits(b, 30)
  BY <1>2, <1>5, <1>6, <1>7
<1> QED BY <1>1, <1>3, <1>8

(* The card number in a long of the card, before three bits or six.        *)
LEMMA NumberFields ==
  ASSUME NEW no \in Numbers, NEW w \in {3, 6}, NEW x, Fits(x, w)
  PROVE  LET long == Long(<< <<1, 0>>, <<6, no[1]>>, <<30, no[2]>>, <<w, x>> >>) IN
         /\ long \subseteq Nat
         /\ FieldAt(long, 30 + w, 6, no[1])
         /\ FieldAt(long, w, 30, no[2])
         /\ FieldAt(long, 0, w, x)
<1> DEFINE p1 == Push({}, <<1, 0>>)
           p2 == Push(p1, <<6, no[1]>>)
           p3 == Push(p2, <<30, no[2]>>)
           p4 == Push(p3, <<w, x>>)
<1>1. Fits(no[1], 6) /\ Fits(no[2], 30)
  BY NumberFits
<1>2. {} \subseteq Nat /\ 1 \in 0 .. 39 /\ 6 \in 0 .. 39 /\ 30 \in 0 .. 39 /\ w \in 0 .. 39
  OBVIOUS
<1>3. p1 \subseteq Nat
  BY <1>2, PushField, Zenon
<1>7. p4 = Long(<< <<1, 0>>, <<6, no[1]>>, <<30, no[2]>>, <<w, x>> >>)
  BY LongOfFour
<1> HIDE DEF p1
<1>4. p2 \subseteq Nat /\ FieldAt(p2, 0, 6, no[1])
  BY <1>1, <1>2, <1>3, PushOne, Zenon
<1> HIDE DEF p2
<1>5. p3 \subseteq Nat /\ FieldAt(p3, 0, 30, no[2]) /\ FieldAt(p3, 30, 6, no[1])
  <2>1. 0 \in Nat /\ 6 \in Nat /\ 30 = 0 + 30
    OBVIOUS
  <2> QED BY <1>1, <1>2, <1>4, <2>1, PushOne, PushMoves, Zenon
<1> HIDE DEF p3
<1>6. /\ p4 \subseteq Nat /\ FieldAt(p4, 0, w, x) /\ FieldAt(p4, w, 30, no[2])
      /\ FieldAt(p4, 30 + w, 6, no[1])
  <2>1. 0 \in Nat /\ 6 \in Nat /\ 30 \in Nat /\ w = 0 + w
    OBVIOUS
  <2> QED BY <1>2, <1>5, <2>1, PushOne, PushMoves, Zenon
<1> HIDE DEF p4
<1> QED BY <1>6, <1>7

(* The vehicle long: place of registration, letter, usage, month, type, the*)
(* flag of the power, and the end.                                         *)
LEMMA VehicleFields ==
  ASSUME NEW a, NEW b, NEW c, NEW d, NEW e, NEW f,
         Fits(a, 6), Fits(b, 5), Fits(c, 4), Fits(d, 9), Fits(e, 9), Fits(f, 1)
  PROVE  LET long == Long(<< <<6, a>>, <<5, b>>, <<4, c>>, <<9, d>>, <<9, e>>, <<1, f>>, <<1, 0>> >>) IN
         /\ long \subseteq Nat
         /\ FieldAt(long, 29, 6, a)
         /\ FieldAt(long, 24, 5, b)
         /\ FieldAt(long, 20, 4, c)
         /\ FieldAt(long, 11, 9, d)
         /\ FieldAt(long, 2, 9, e)
         /\ FieldAt(long, 1, 1, f)
<1> DEFINE p1 == Push({}, <<6, a>>)
           p2 == Push(p1, <<5, b>>)
           p3 == Push(p2, <<4, c>>)
           p4 == Push(p3, <<9, d>>)
           p5 == Push(p4, <<9, e>>)
           p6 == Push(p5, <<1, f>>)
           p7 == Push(p6, <<1, 0>>)
<1>1. {} \subseteq Nat /\ 1 \in 0 .. 39 /\ 4 \in 0 .. 39 /\ 5 \in 0 .. 39 /\ 6 \in 0 .. 39 /\ 9 \in 0 .. 39
  OBVIOUS
<1>2. p7 = Long(<< <<6, a>>, <<5, b>>, <<4, c>>, <<9, d>>, <<9, e>>, <<1, f>>, <<1, 0>> >>)
  BY LongOfSeven
<1>3. Fits(0, 1)
  BY Widths
<1>4. /\ p1 \subseteq Nat /\ FieldAt(p1, 0, 6, a)
  BY <1>1, PushOne, Zenon
<1> HIDE DEF p1
<1>5. /\ p2 \subseteq Nat /\ FieldAt(p2, 0, 5, b) /\ FieldAt(p2, 5, 6, a)
  <2>1. 0 \in Nat /\ 6 \in Nat
    OBVIOUS
  <2>2. 5 = 0 + 5
    OBVIOUS
  <2> QED BY <1>1, <1>4, <2>1, <2>2, PushOne, PushMoves, Zenon
<1> HIDE DEF p2
<1>6. /\ p3 \subseteq Nat /\ FieldAt(p3, 0, 4, c) /\ FieldAt(p3, 9, 6, a)
      /\ FieldAt(p3, 4, 5, b)
  <2>1. 0 \in Nat /\ 5 \in Nat /\ 6 \in Nat
    OBVIOUS
  <2>2. 4 = 0 + 4 /\ 9 = 5 + 4
    OBVIOUS
  <2> QED BY <1>1, <1>5, <2>1, <2>2, PushOne, PushMoves, Zenon
<1> HIDE DEF p3
<1>7. /\ p4 \subseteq Nat /\ FieldAt(p4, 0, 9, d) /\ FieldAt(p4, 18, 6, a)
      /\ FieldAt(p4, 13, 5, b) /\ FieldAt(p4, 9, 4, c)
  <2>1. 0 \in Nat /\ 4 \in Nat /\ 5 \in Nat /\ 6 \in Nat /\ 9 \in Nat
    OBVIOUS
  <2>2. 9 = 0 + 9 /\ 13 = 4 + 9 /\ 18 = 9 + 9
    OBVIOUS
  <2> QED BY <1>1, <1>6, <2>1, <2>2, PushOne, PushMoves, Zenon
<1> HIDE DEF p4
<1>8. /\ p5 \subseteq Nat /\ FieldAt(p5, 0, 9, e) /\ FieldAt(p5, 27, 6, a)
      /\ FieldAt(p5, 22, 5, b) /\ FieldAt(p5, 18, 4, c) /\ FieldAt(p5, 9, 9, d)
  <2>1. 0 \in Nat /\ 4 \in Nat /\ 5 \in Nat /\ 6 \in Nat /\ 9 \in Nat /\ 13 \in Nat /\ 18 \in Nat
    OBVIOUS
  <2>2. 9 = 0 + 9 /\ 18 = 9 + 9 /\ 22 = 13 + 9 /\ 27 = 18 + 9
    OBVIOUS
  <2> QED BY <1>1, <1>7, <2>1, <2>2, PushOne, PushMoves, Zenon
<1> HIDE DEF p5
<1>9. /\ p6 \subseteq Nat /\ FieldAt(p6, 0, 1, f) /\ FieldAt(p6, 28, 6, a)
      /\ FieldAt(p6, 23, 5, b) /\ FieldAt(p6, 19, 4, c) /\ FieldAt(p6, 10, 9, d)
      /\ FieldAt(p6, 1, 9, e)
  <2>1. 0 \in Nat /\ 4 \in Nat /\ 5 \in Nat /\ 6 \in Nat /\ 9 \in Nat /\ 18 \in Nat /\ 22 \in Nat /\ 27 \in Nat
    OBVIOUS
  <2>2. 1 = 0 + 1 /\ 10 = 9 + 1 /\ 19 = 18 + 1 /\ 23 = 22 + 1 /\ 28 = 27 + 1
    OBVIOUS
  <2> QED BY <1>1, <1>8, <2>1, <2>2, PushOne, PushMoves, Zenon
<1> HIDE DEF p6
<1>10. /\ p7 \subseteq Nat /\ FieldAt(p7, 0, 1, 0) /\ FieldAt(p7, 29, 6, a)
      /\ FieldAt(p7, 24, 5, b) /\ FieldAt(p7, 20, 4, c) /\ FieldAt(p7, 11, 9, d)
      /\ FieldAt(p7, 2, 9, e) /\ FieldAt(p7, 1, 1, f)
  <2>1. /\ 0 \in Nat /\ 1 \in Nat /\ 4 \in Nat /\ 5 \in Nat /\ 6 \in Nat
        /\ 9 \in Nat /\ 10 \in Nat /\ 19 \in Nat /\ 23 \in Nat /\ 28 \in Nat
    OBVIOUS
  <2>2. 1 = 0 + 1 /\ 2 = 1 + 1 /\ 11 = 10 + 1 /\ 20 = 19 + 1 /\ 24 = 23 + 1 /\ 29 = 28 + 1
    OBVIOUS
  <2> QED BY <1>1, <1>3, <1>9, <2>1, <2>2, PushOne, PushMoves, Zenon
<1> HIDE DEF p7
<1> QED BY <1>2, <1>10

(* The plate long: kind and number.                                        *)
LEMMA PlateFields ==
  ASSUME NEW a, NEW b,
         Fits(a, 4), Fits(b, 32)
  PROVE  LET long == Long(<< <<4, a>>, <<32, b>> >>) IN
         /\ long \subseteq Nat
         /\ FieldAt(long, 32, 4, a)
         /\ FieldAt(long, 0, 32, b)
<1> DEFINE p1 == Push({}, <<4, a>>)
           p2 == Push(p1, <<32, b>>)
<1>1. {} \subseteq Nat /\ 4 \in 0 .. 39 /\ 32 \in 0 .. 39
  OBVIOUS
<1>2. p2 = Long(<< <<4, a>>, <<32, b>> >>)
  BY LongOfTwo
<1>4. /\ p1 \subseteq Nat /\ FieldAt(p1, 0, 4, a)
  BY <1>1, PushOne, Zenon
<1> HIDE DEF p1
<1>5. /\ p2 \subseteq Nat /\ FieldAt(p2, 0, 32, b) /\ FieldAt(p2, 32, 4, a)
  <2>1. 0 \in Nat /\ 4 \in Nat
    OBVIOUS
  <2>2. 32 = 0 + 32
    OBVIOUS
  <2> QED BY <1>1, <1>4, <2>1, <2>2, PushOne, PushMoves, Zenon
<1> HIDE DEF p2
<1> QED BY <1>2, <1>5

(* The rest: validity, scrapping, capacity, colour and engine.             *)
LEMMA RestFields ==
  ASSUME NEW a, NEW b, NEW c, NEW d, NEW e,
         Fits(a, 9), Fits(b, 5), Fits(c, 10), Fits(d, 4), Fits(e, 8)
  PROVE  LET long == Long(<< <<9, a>>, <<5, b>>, <<10, c>>, <<4, d>>, <<8, e>> >>) IN
         /\ long \subseteq Nat
         /\ FieldAt(long, 27, 9, a)
         /\ FieldAt(long, 22, 5, b)
         /\ FieldAt(long, 12, 10, c)
         /\ FieldAt(long, 8, 4, d)
         /\ FieldAt(long, 0, 8, e)
<1> DEFINE p1 == Push({}, <<9, a>>)
           p2 == Push(p1, <<5, b>>)
           p3 == Push(p2, <<10, c>>)
           p4 == Push(p3, <<4, d>>)
           p5 == Push(p4, <<8, e>>)
<1>1. {} \subseteq Nat /\ 4 \in 0 .. 39 /\ 5 \in 0 .. 39 /\ 8 \in 0 .. 39 /\ 9 \in 0 .. 39 /\ 10 \in 0 .. 39
  OBVIOUS
<1>2. p5 = Long(<< <<9, a>>, <<5, b>>, <<10, c>>, <<4, d>>, <<8, e>> >>)
  BY LongOfFive
<1>4. /\ p1 \subseteq Nat /\ FieldAt(p1, 0, 9, a)
  BY <1>1, PushOne, Zenon
<1> HIDE DEF p1
<1>5. /\ p2 \subseteq Nat /\ FieldAt(p2, 0, 5, b) /\ FieldAt(p2, 5, 9, a)
  <2>1. 0 \in Nat /\ 9 \in Nat
    OBVIOUS
  <2>2. 5 = 0 + 5
    OBVIOUS
  <2> QED BY <1>1, <1>4, <2>1, <2>2, PushOne, PushMoves, Zenon
<1> HIDE DEF p2
<1>6. /\ p3 \subseteq Nat /\ FieldAt(p3, 0, 10, c) /\ FieldAt(p3, 15, 9, a)
      /\ FieldAt(p3, 10, 5, b)
  <2>1. 0 \in Nat /\ 5 \in Nat /\ 9 \in Nat
    OBVIOUS
  <2>2. 10 = 0 + 10 /\ 15 = 5 + 10
    OBVIOUS
  <2> QED BY <1>1, <1>5, <2>1, <2>2, PushOne, PushMoves, Zenon
<1> HIDE DEF p3
<1>7. /\ p4 \subseteq Nat /\ FieldAt(p4, 0, 4, d) /\ FieldAt(p4, 19, 9, a)
      /\ FieldAt(p4, 14, 5, b) /\ FieldAt(p4, 4, 10, c)
  <2>1. 0 \in Nat /\ 5 \in Nat /\ 9 \in Nat /\ 10 \in Nat /\ 15 \in Nat
    OBVIOUS
  <2>2. 4 = 0 + 4 /\ 14 = 10 + 4 /\ 19 = 15 + 4
    OBVIOUS
  <2> QED BY <1>1, <1>6, <2>1, <2>2, PushOne, PushMoves, Zenon
<1> HIDE DEF p4
<1>8. /\ p5 \subseteq Nat /\ FieldAt(p5, 0, 8, e) /\ FieldAt(p5, 27, 9, a)
      /\ FieldAt(p5, 22, 5, b) /\ FieldAt(p5, 12, 10, c) /\ FieldAt(p5, 8, 4, d)
  <2>1. 0 \in Nat /\ 4 \in Nat /\ 5 \in Nat /\ 9 \in Nat /\ 10 \in Nat /\ 14 \in Nat /\ 19 \in Nat
    OBVIOUS
  <2>2. 8 = 0 + 8 /\ 12 = 4 + 8 /\ 22 = 14 + 8 /\ 27 = 19 + 8
    OBVIOUS
  <2> QED BY <1>1, <1>7, <2>1, <2>2, PushOne, PushMoves, Zenon
<1> HIDE DEF p5
<1> QED BY <1>2, <1>8
-----------------------------------------------------------------------------
(* The digits, and the bits that each field has among them.                *)

NumberLong(no, row) == Long(<< <<1, 0>>, <<6, no[1]>>, <<30, no[2]>>, <<6, row.fzjg>> >>)
VehicleLong(row) ==
  Long(<< <<6, row.fzjg>>, <<5, row.fpdh>>, <<4, Packed.syxz[row.syxz]>>,
          <<9, MadeMonths(row)>>, <<9, Packed.cllx[row.cllx]>>, <<1, PowerFlag(row)>>, <<1, 0>> >>)
PlateLong(row) == Long(<< <<4, Packed.hpzl[row.hpzl]>>, <<32, ParseHPHMToLong(row.xh)>> >>)
RestLong(row) ==
  Long(<< <<9, ValidMonths(row)>>, <<5, ScrapYears(row)>>, <<10, Capacity(row)>>,
          <<4, IF row.csys = None THEN 0 ELSE row.csys>>, <<8, Engine(row)>> >>)

(* The ones of digits are those of the long, counted from the left.        *)
LEMMA DigitsBits ==
  ASSUME NEW long, long \subseteq Nat, NEW n \in Nat, NEW at \in Nat, NEW p \in Nat
  PROVE  p \in Digits(long, n, at) <=>
           4 * at <= p /\ p < 4 * (at + n) /\ 4 * (at + n) - 1 - p \in long
<1>1. ASSUME p \in Digits(long, n, at)
      PROVE  4 * at <= p /\ p < 4 * (at + n) /\ 4 * (at + n) - 1 - p \in long
  <2>1. PICK i \in long : i < 4 * n /\ p = 4 * (at + n) - 1 - i
    BY <1>1 DEF Digits
  <2>2. i \in Nat /\ i = 4 * (at + n) - 1 - p
    BY <2>1
  <2> QED BY <2>1, <2>2
<1>2. ASSUME 4 * at <= p, p < 4 * (at + n), 4 * (at + n) - 1 - p \in long
      PROVE  p \in Digits(long, n, at)
  <2> DEFINE i == 4 * (at + n) - 1 - p
  <2>1. i \in long /\ i < 4 * n /\ p = 4 * (at + n) - 1 - i
    BY <1>2
  <2> QED BY <2>1 DEF Digits
<1> QED BY <1>1, <1>2

(* Positions lo to hi of the data, from the left, are those of the long,   *)
(* from the right.                                                         *)
Mirrors(data, long, lo, hi, top) == \A p \in lo .. hi : p \in data <=> top - p \in long

(* Where the bits of the four longs are in the data.                       *)
LEMMA DataBits ==
  ASSUME NEW no, NEW row,
         NumberLong(no, row) \subseteq Nat, VehicleLong(row) \subseteq Nat,
         PlateLong(row) \subseteq Nat, RestLong(row) \subseteq Nat
  PROVE  LET data == CalculateVehicleInfo(no, row) IN
         /\ Mirrors(data, NumberLong(no, row), 0, 39, 42)
         /\ Mirrors(data, VehicleLong(row), 40, 71, 71)
         /\ Mirrors(data, PlateLong(row), 80, 115, 115)
         /\ Mirrors(data, RestLong(row), 116, 151, 151)
<1> DEFINE data == CalculateVehicleInfo(no, row)
           number == NumberLong(no, row)
           shifted == {i - 3 : i \in {j \in number : j >= 3}}
           vehicle == VehicleLong(row)
           plate == PlateLong(row)
           rest == RestLong(row)
<1>1. data = (Digits(shifted, 10, 0) \cup Digits(vehicle, 8, 10))
               \cup (Digits(plate, 9, 20) \cup Digits(rest, 9, 29))
  BY DEF CalculateVehicleInfo, UpperHalf, LowerHalf, NumberLong, VehicleLong, PlateLong, RestLong
<1>2. number \subseteq Nat /\ vehicle \subseteq Nat /\ plate \subseteq Nat /\ rest \subseteq Nat
  OBVIOUS
<1> HIDE DEF data, number, vehicle, plate, rest
<1>3. shifted \subseteq Nat
  BY <1>2
<1>4. \A i \in Nat : i \in shifted <=> i + 3 \in number
  BY <1>2
<1> HIDE DEF shifted
<1> SUFFICES ASSUME NEW p \in 0 .. 151
             PROVE  /\ p \in 0 .. 39 => (p \in data <=> 42 - p \in number)
                    /\ p \in 40 .. 71 => (p \in data <=> 71 - p \in vehicle)
                    /\ p \in 80 .. 115 => (p \in data <=> 115 - p \in plate)
                    /\ p \in 116 .. 151 => (p \in data <=> 151 - p \in rest)
  BY DEF data, number, vehicle, plate, rest, Mirrors
<1>5. p \in Nat /\ 0 \in Nat /\ 8 \in Nat /\ 9 \in Nat /\ 10 \in Nat /\ 20 \in Nat /\ 29 \in Nat
  OBVIOUS
<1>6. p \in Digits(shifted, 10, 0) <=>
        4 * 0 <= p /\ p < 4 * (0 + 10) /\ 4 * (0 + 10) - 1 - p \in shifted
  BY <1>3, <1>5, DigitsBits, Zenon
<1>7. p \in Digits(vehicle, 8, 10) <=>
        4 * 10 <= p /\ p < 4 * (10 + 8) /\ 4 * (10 + 8) - 1 - p \in vehicle
  BY <1>2, <1>5, DigitsBits, Zenon
<1>8. p \in Digits(plate, 9, 20) <=>
        4 * 20 <= p /\ p < 4 * (20 + 9) /\ 4 * (20 + 9) - 1 - p \in plate
  BY <1>2, <1>5, DigitsBits, Zenon
<1>9. p \in Digits(rest, 9, 29) <=>
        4 * 29 <= p /\ p < 4 * (29 + 9) /\ 4 * (29 + 9) - 1 - p \in rest
  BY <1>2, <1>5, DigitsBits, Zenon
<1>10. p \in data <=> \/ p \in Digits(shifted, 10, 0) \/ p \in Digits(vehicle, 8, 10)
                      \/ p \in Digits(plate, 9, 20) \/ p \in Digits(rest, 9, 29)
  BY <1>1
<1>11. p \in 0 .. 39 => (p \in data <=> 42 - p \in number)
  <2> SUFFICES ASSUME p \in 0 .. 39 PROVE p \in data <=> 42 - p \in number
    OBVIOUS
  <2>1. 39 - p \in Nat /\ 39 - p + 3 = 42 - p
    OBVIOUS
  <2>2. 39 - p \in shifted <=> 42 - p \in number
    BY <1>4, <2>1
  <2> QED BY <1>6, <1>7, <1>8, <1>9, <1>10, <2>2
<1>12. p \in 40 .. 71 => (p \in data <=> 71 - p \in vehicle)
  BY <1>6, <1>7, <1>8, <1>9, <1>10
<1>13. p \in 80 .. 115 => (p \in data <=> 115 - p \in plate)
  BY <1>6, <1>7, <1>8, <1>9, <1>10
<1>14. p \in 116 .. 151 => (p \in data <=> 151 - p \in rest)
  BY <1>6, <1>7, <1>8, <1>9, <1>10
<1> QED BY <1>11, <1>12, <1>13, <1>14
-----------------------------------------------------------------------------
(* Each field is read back from where it was packed.                       *)

(* The fields of the vehicle long, but for the place of registration.      *)
LEMMA VehicleReads ==
  ASSUME NEW data, NEW vehicle, Mirrors(data, vehicle, 40, 71, 71),
         NEW fpdh, Fits(fpdh, 5), FieldAt(vehicle, 24, 5, fpdh),
         NEW syxz, Fits(syxz, 4), FieldAt(vehicle, 20, 4, syxz),
         NEW made, Fits(made, 9), FieldAt(vehicle, 11, 9, made),
         NEW cllx, Fits(cllx, 9), FieldAt(vehicle, 2, 9, cllx),
         NEW flag, Fits(flag, 1), FieldAt(vehicle, 1, 1, flag)
  PROVE  /\ Read(data, 10, 12, 0, 5) = fpdh
         /\ Read(data, 12, 13, 0, 4) = syxz
         /\ Read(data, 13, 16, 3, 9) = made
         /\ Read(data, 15, 18, 2, 9) = cllx
         /\ Read(data, 17, 18, 1, 1) = flag
<1>1. Read(data, 10, 12, 0, 5) = fpdh
  <2>1. ASSUME NEW i \in 0 .. 4 PROVE 4 * 12 - 1 - (i + 0) \in data <=> i \in Ones(fpdh)
    <3>1. 4 * 12 - 1 - (i + 0) \in data <=> 24 + i \in vehicle
      BY DEF Mirrors
    <3> QED BY <3>1 DEF FieldAt
  <2>2. Covers(data, 10, 12, 0, 5, fpdh)
    BY <2>1 DEF Covers
  <2> QED BY <2>2, ReadField, Zenon
<1>2. Read(data, 12, 13, 0, 4) = syxz
  <2>1. ASSUME NEW i \in 0 .. 3 PROVE 4 * 13 - 1 - (i + 0) \in data <=> i \in Ones(syxz)
    <3>1. 4 * 13 - 1 - (i + 0) \in data <=> 20 + i \in vehicle
      BY DEF Mirrors
    <3> QED BY <3>1 DEF FieldAt
  <2>2. Covers(data, 12, 13, 0, 4, syxz)
    BY <2>1 DEF Covers
  <2> QED BY <2>2, ReadField, Zenon
<1>3. Read(data, 13, 16, 3, 9) = made
  <2>1. ASSUME NEW i \in 0 .. 8 PROVE 4 * 16 - 1 - (i + 3) \in data <=> i \in Ones(made)
    <3>1. 4 * 16 - 1 - (i + 3) \in data <=> 11 + i \in vehicle
      BY DEF Mirrors
    <3> QED BY <3>1 DEF FieldAt
  <2>2. Covers(data, 13, 16, 3, 9, made)
    BY <2>1 DEF Covers
  <2> QED BY <2>2, ReadField, Zenon
<1>4. Read(data, 15, 18, 2, 9) = cllx
  <2>1. ASSUME NEW i \in 0 .. 8 PROVE 4 * 18 - 1 - (i + 2) \in data <=> i \in Ones(cllx)
    <3>1. 4 * 18 - 1 - (i + 2) \in data <=> 2 + i \in vehicle
      BY DEF Mirrors
    <3> QED BY <3>1 DEF FieldAt
  <2>2. Covers(data, 15, 18, 2, 9, cllx)
    BY <2>1 DEF Covers
  <2> QED BY <2>2, ReadField, Zenon
<1>5. Read(data, 17, 18, 1, 1) = flag
  <2>1. ASSUME NEW i \in 0 .. 0 PROVE 4 * 18 - 1 - (i + 1) \in data <=> i \in Ones(flag)
    <3>1. 4 * 18 - 1 - (i + 1) \in data <=> 1 + i \in vehicle
      BY DEF Mirrors
    <3> QED BY <3>1 DEF FieldAt
  <2>2. Covers(data, 17, 18, 1, 1, flag)
    BY <2>1 DEF Covers
  <2> QED BY <2>2, ReadField, Zenon
<1> QED BY <1>1, <1>2, <1>3, <1>4, <1>5

(* The fields of the plate long.                                           *)
LEMMA PlateReads ==
  ASSUME NEW data, NEW plate, Mirrors(data, plate, 80, 115, 115),
         NEW hpzl, Fits(hpzl, 4), FieldAt(plate, 32, 4, hpzl),
         NEW number, Fits(number, 32), FieldAt(plate, 0, 32, number)
  PROVE  /\ Read(data, 20, 21, 0, 4) = hpzl
         /\ Read(data, 21, 29, 0, 32) = number
<1>1. Read(data, 20, 21, 0, 4) = hpzl
  <2>1. ASSUME NEW i \in 0 .. 3 PROVE 4 * 21 - 1 - (i + 0) \in data <=> i \in Ones(hpzl)
    <3>1. 4 * 21 - 1 - (i + 0) \in data <=> 32 + i \in plate
      BY DEF Mirrors
    <3> QED BY <3>1 DEF FieldAt
  <2>2. Covers(data, 20, 21, 0, 4, hpzl)
    BY <2>1 DEF Covers
  <2> QED BY <2>2, ReadField, Zenon
<1>2. Read(data, 21, 29, 0, 32) = number
  <2>1. ASSUME NEW i \in 0 .. 31 PROVE 4 * 29 - 1 - (i + 0) \in data <=> i \in Ones(number)
    <3>1. 4 * 29 - 1 - (i + 0) \in data <=> 0 + i \in plate
      BY DEF Mirrors
    <3> QED BY <3>1 DEF FieldAt
  <2>2. Covers(data, 21, 29, 0, 32, number)
    BY <2>1 DEF Covers
  <2> QED BY <2>2, ReadField, Zenon
<1> QED BY <1>1, <1>2

(* The fields of the rest.                                                 *)
LEMMA RestReads ==
  ASSUME NEW data, NEW rest, Mirrors(data, rest, 116, 151, 151),
         NEW valid, Fits(valid, 9), FieldAt(rest, 27, 9, valid),
         NEW scrap, Fits(scrap, 5), FieldAt(rest, 22, 5, scrap),
         NEW capacity, Fits(capacity, 10), FieldAt(rest, 12, 10, capacity),
         NEW csys, Fits(csys, 4), FieldAt(rest, 8, 4, csys),
         NEW engine, Fits(engine, 8), FieldAt(rest, 0, 8, engine)
  PROVE  /\ Read(data, 29, 32, 3, 9) = valid
         /\ Read(data, 31, 33, 2, 5) = scrap
         /\ Read(data, 32, 35, 0, 10) = capacity
         /\ Read(data, 35, 36, 0, 4) = csys
         /\ Read(data, 36, 38, 0, 8) = engine
<1>1. Read(data, 29, 32, 3, 9) = valid
  <2>1. ASSUME NEW i \in 0 .. 8 PROVE 4 * 32 - 1 - (i + 3) \in data <=> i \in Ones(valid)
    <3>1. 4 * 32 - 1 - (i + 3) \in data <=> 27 + i \in rest
      BY DEF Mirrors
    <3> QED BY <3>1 DEF FieldAt
  <2>2. Covers(data, 29, 32, 3, 9, valid)
    BY <2>1 DEF Covers
  <2> QED BY <2>2, ReadField, Zenon
<1>2. Read(data, 31, 33, 2, 5) = scrap
  <2>1. ASSUME NEW i \in 0 .. 4 PROVE 4 * 33 - 1 - (i + 2) \in data <=> i \in Ones(scrap)
    <3>1. 4 * 33 - 1 - (i + 2) \in data <=> 22 + i \in rest
      BY DEF Mirrors
    <3> QED BY <3>1 DEF FieldAt
  <2>2. Covers(data, 31, 33, 2, 5, scrap)
    BY <2>1 DEF Covers
  <2> QED BY <2>2, ReadField, Zenon
<1>3. Read(data, 32, 35, 0, 10) = capacity
  <2>1. ASSUME NEW i \in 0 .. 9 PROVE 4 * 35 - 1 - (i + 0) \in data <=> i \in Ones(capacity)
    <3>1. 4 * 35 - 1 - (i + 0) \in data <=> 12 + i \in rest
      BY DEF Mirrors
    <3> QED BY <3>1 DEF FieldAt
  <2>2. Covers(data, 32, 35, 0, 10, capacity)
    BY <2>1 DEF Covers
  <2> QED BY <2>2, ReadField, Zenon
<1>4. Read(data, 35, 36, 0, 4) = csys
  <2>1. ASSUME NEW i \in 0 .. 3 PROVE 4 * 36 - 1 - (i + 0) \in data <=> i \in Ones(csys)
    <3>1. 4 * 36 - 1 - (i + 0) \in data <=> 8 + i \in rest
      BY DEF Mirrors
    <3> QED BY <3>1 DEF FieldAt
  <2>2. Covers(data, 35, 36, 0, 4, csys)
    BY <2>1 DEF Covers
  <2> QED BY <2>2, ReadField, Zenon
<1>5. Read(data, 36, 38, 0, 8) = engine
  <2>1. ASSUME NEW i \in 0 .. 7 PROVE 4 * 38 - 1 - (i + 0) \in data <=> i \in Ones(engine)
    <3>1. 4 * 38 - 1 - (i + 0) \in data <=> 0 + i \in rest
      BY DEF Mirrors
    <3> QED BY <3>1 DEF FieldAt
  <2>2. Covers(data, 36, 38, 0, 8, engine)
    BY <2>1 DEF Covers
  <2> QED BY <2>2, ReadField, Zenon
<1> QED BY <1>1, <1>2, <1>3, <1>4, <1>5

(* The place of registration lies across the number and the vehicle: three *)
(* bits in each.                                                           *)
LEMMA PlaceRead ==
  ASSUME NEW data, NEW number, Mirrors(data, number, 0, 39, 42),
         NEW vehicle, Mirrors(data, vehicle, 40, 71, 71),
         NEW fzjg, Fits(fzjg, 6), FieldAt(number, 0, 6, fzjg), FieldAt(vehicle, 29, 6, fzjg)
  PROVE  Read(data, 9, 11, 1, 6) = fzjg
<1>1. ASSUME NEW i \in 0 .. 5 PROVE 4 * 11 - 1 - (i + 1) \in data <=> i \in Ones(fzjg)
  <2>1. CASE i < 3
    <3>1. 4 * 11 - 1 - (i + 1) \in data <=> 29 + i \in vehicle
      BY <2>1 DEF Mirrors
    <3> QED BY <3>1 DEF FieldAt
  <2>2. CASE i >= 3
    <3>1. 4 * 11 - 1 - (i + 1) \in data <=> 0 + i \in number
      BY <2>2 DEF Mirrors
    <3> QED BY <3>1 DEF FieldAt
  <2> QED BY <2>1, <2>2
<1>2. Covers(data, 9, 11, 1, 6, fzjg)
  BY <1>1 DEF Covers
<1> QED BY <1>2, ReadField, Zenon

(* The card's number, at the front of the ten first digits.  Its sequence  *)
(* number is below 2^28, so that no copy of bit 28 gets in.                *)
LEMMA NumberRead ==
  ASSUME NEW data, NEW number, NEW top \in {39, 42},
         Mirrors(data, number, 0, 39, top),
         NEW no \in Numbers, FieldAt(number, top - 6, 6, no[1]), FieldAt(number, top - 36, 30, no[2])
  PROVE  ParseNumber(data) = no
<1>1. Fits(no[1], 6) /\ Fits(no[2], 28) /\ Fits(no[2], 30)
  BY NumberFits
<1>2. Read(data, 0, 2, 1, 6) = no[1]
  <2>1. ASSUME NEW i \in 0 .. 5 PROVE 4 * 2 - 1 - (i + 1) \in data <=> i \in Ones(no[1])
    <3>1. 4 * 2 - 1 - (i + 1) \in data <=> top - 6 + i \in number
      BY DEF Mirrors
    <3> QED BY <3>1 DEF FieldAt
  <2>2. Covers(data, 0, 2, 1, 6, no[1])
    BY <2>1 DEF Covers
  <2> QED BY <1>1, <2>2, ReadField, Zenon
<1> DEFINE low == Window(data, 0, 10, 3, 29)
           ones == Ones(no[2])
<1>3. ones \subseteq 0 .. 28 - 1 /\ Value(ones, 30) = no[2]
  <2>1. 28 \in 0 .. 39 /\ 30 \in 0 .. 39
    OBVIOUS
  <2>2. Ones(no[2]) \subseteq 0 .. 28 - 1
    BY <1>1, <2>1, OnesMakeValue, Zenon
  <2>3. Value(Ones(no[2]), 30) = no[2]
    BY <1>1, <2>1, OnesMakeValue, Zenon
  <2> QED BY <2>2, <2>3
<1>4. low = ones
  <2>1. ASSUME NEW i \in 0 .. 28 PROVE 4 * 10 - 1 - (i + 3) \in data <=> i \in ones
    <3>1. 4 * 10 - 1 - (i + 3) \in data <=> top - 36 + i \in number
      BY DEF Mirrors
    <3> QED BY <3>1 DEF FieldAt
  <2>2. \A i \in 0 .. 29 - 1 : i + 3 < 4 * (10 - 0)
    OBVIOUS
  <2>3. low = {i \in 0 .. 29 - 1 : 4 * 10 - 1 - (i + 3) \in data /\ i + 3 < 4 * (10 - 0)}
    BY DEF Window
  <2> HIDE DEF low, ones
  <2>4. ASSUME NEW i \in 0 .. 28 PROVE i \in low <=> i \in ones
    BY <2>1, <2>2, <2>3
  <2>5. low \subseteq 0 .. 28 /\ ones \subseteq 0 .. 28
    BY <1>3, <2>3
  <2> QED BY <2>4, <2>5
<1>5. ParseNumber(data) = <<Read(data, 0, 2, 1, 6), Value(low \cup {i \in {29} : 28 \in low}, 30)>>
  BY DEF ParseNumber
<1> HIDE DEF low, ones
<1>6. low \cup {i \in {29} : 28 \in low} = ones
  BY <1>3, <1>4
<1>7. no = <<no[1], no[2]>>
  <2>1. PICK A, B : Numbers = A \X B
    BY Zenon DEF Numbers
  <2> QED BY <2>1, Pairs
<1> QED BY <1>2, <1>3, <1>5, <1>6, <1>7
-----------------------------------------------------------------------------
(* Plates.                                                                 *)

(* Products of numbers are numbers, and grow with them.                    *)
LEMMA Products ==
  ASSUME NEW a \in Nat, NEW b \in Nat, NEW c \in Nat, NEW d \in Nat, a <= b, c <= d
  PROVE  a * c \in Nat /\ a * c <= b * d
<1>1. a * c <= b * c
  OBVIOUS
<1>2. b * c <= b * d
  OBVIOUS
<1> QED BY <1>1, <1>2

(* One more digit keeps a number below the next power.                     *)
LEMMA OneMore ==
  ASSUME NEW d \in Bases, NEW h \in Nat, NEW b \in Nat, h < b, NEW f \in 0 .. d - 1
  PROVE  d * h + f < b * d
<1>1. h + 1 \in Nat /\ h + 1 <= b /\ d \in Nat
  BY DEF Bases
<1>2. d * (h + 1) <= d * b
  BY <1>1
<1>3. d * (h + 1) = d * h + d /\ d * b = b * d
  BY <1>1
<1>4. d * h \in Nat /\ b * d \in Nat
  BY <1>1
<1> QED BY <1>1, <1>2, <1>3, <1>4

(* The powers of the radix, and bounds that make them fit in 32 bits.      *)
LEMMA RadixFacts ==
  /\ Radix \in Bases /\ Radix \in Nat /\ Power4 \in Nat
  /\ Power4 <= 1296 * 1296
  /\ Power4 * Radix \in Nat /\ Power4 * Radix <= (1296 * 1296) * 36
  /\ Power4 * Radix * Radix \in Nat /\ Power4 * Radix * Radix <= (1296 * 1296) * 36 * 36
<1>1. Radix \in Nat /\ Radix <= 36 /\ Radix \in Bases
  BY ContentAssumption DEF Bases
<1>2. Radix * Radix \in Nat /\ Radix * Radix <= 36 * 36
  BY <1>1, Products
<1>3. Radix * Radix * Radix \in Nat /\ Radix * Radix * Radix <= 36 * 36 * 36
  BY <1>1, <1>2, Products
<1>4. Power4 \in Nat /\ Power4 <= 36 * 36 * 36 * 36
  BY <1>1, <1>3, Products DEF Power4
<1>5. Power4 <= 1296 * 1296
  BY <1>4
<1>6. Power4 * Radix \in Nat /\ Power4 * Radix <= (1296 * 1296) * 36
  BY <1>1, <1>4, <1>5, Products
<1>7. Power4 * Radix * Radix \in Nat /\ Power4 * Radix * Radix <= (1296 * 1296) * 36 * 36
  BY <1>1, <1>6, Products
<1> QED BY <1>1, <1>4, <1>5, <1>6, <1>7

(* The number of a plate is below the power of its length.                 *)
LEMMA PlateBounds ==
  ASSUME NEW w \in 4 .. 6, NEW f \in [1 .. w -> 0 .. Radix - 1], NEW h, AreValues(h, f, Radix, w)
  PROVE  /\ h[w] \in Nat
         /\ w = 4 => h[w] < Power4
         /\ w = 5 => h[w] < Power4 * Radix
         /\ w = 6 => h[w] < Power4 * Radix * Radix
<1>1. /\ h \in [0 .. w -> Nat] /\ h[0] = 0
      /\ \A i \in 0 .. w - 1 : h[i + 1] = Radix * h[i] + f[i + 1] /\ f[i + 1] \in 0 .. Radix - 1
  <2>1. w \in Nat
    OBVIOUS
  <2>2. Radix \in Bases
    BY RadixFacts
  <2> QED BY <2>1, <2>2, ValuesType, Zenon
<1>2. ASSUME NEW i \in 0 .. w - 1, NEW b \in Nat, h[i] < b PROVE h[i + 1] < b * Radix
  <2>1. h[i] \in Nat /\ f[i + 1] \in 0 .. Radix - 1 /\ h[i + 1] = Radix * h[i] + f[i + 1]
    BY <1>1
  <2>2. Radix \in Bases
    BY RadixFacts
  <2>3. Radix * h[i] + f[i + 1] < b * Radix
    BY <1>2, <2>1, <2>2, OneMore, Zenon
  <2> QED BY <2>1, <2>3
<1>3. h[1] < 1 * Radix
  <2>1. h[0] < 1 /\ 0 \in 0 .. w - 1
    BY <1>1
  <2>2. h[0 + 1] < 1 * Radix
    BY <1>2, <2>1
  <2> QED BY <2>2
<1>4. h[1] < Radix
  BY <1>3, RadixFacts
<1>5. h[2] < Radix * Radix
  <2>1. 1 \in 0 .. w - 1 /\ 1 + 1 = 2 /\ Radix \in Nat
    BY RadixFacts
  <2> QED BY <1>2, <1>4, <2>1
<1>6. h[3] < Radix * Radix * Radix
  <2>1. 2 \in 0 .. w - 1 /\ 2 + 1 = 3 /\ Radix * Radix \in Nat
    BY RadixFacts
  <2> QED BY <1>2, <1>5, <2>1
<1>7. h[4] < Power4
  <2>1. 3 \in 0 .. w - 1 /\ 3 + 1 = 4 /\ Radix * Radix * Radix \in Nat
    BY RadixFacts
  <2> QED BY <1>2, <1>6, <2>1 DEF Power4
<1>8. w >= 5 => h[5] < Power4 * Radix
  <2>1. w >= 5 => 4 \in 0 .. w - 1 /\ 4 + 1 = 5
    OBVIOUS
  <2> QED BY <1>2, <1>7, <2>1, RadixFacts
<1>9. w = 6 => h[6] < Power4 * Radix * Radix
  <2>1. w = 6 => 5 \in 0 .. w - 1 /\ 5 + 1 = 6
    OBVIOUS
  <2> QED BY <1>2, <1>8, <2>1, RadixFacts
<1> QED BY <1>1, <1>7, <1>8, <1>9

(* The number of a plate of four to six characters fits its 32 bits, and   *)
(* the plate comes back from it: parseHPHMToLong and parseHphm agree.      *)
LEMMA PlateReadBack ==
  ASSUME NEW xh \in Seq(0 .. Radix - 1), Len(xh) \in 4 .. 6
  PROVE  Fits(ParseHPHMToLong(xh), 32) /\ ParseHphm(ParseHPHMToLong(xh)) = xh
<1>1. PICK w \in 4 .. 6 : w = Len(xh)
  OBVIOUS
<1>2. xh \in [1 .. w -> 0 .. Radix - 1]
  <2>1. \A S : \A s \in Seq(S) : s \in [1 .. Len(s) -> S]
    OBVIOUS
  <2> QED BY <1>1, <2>1, Zenon
<1>3. PICK h : AreValues(h, xh, Radix, w) /\ ValueOf(xh, Radix) = h[w]
  <2>1. Len(xh) \in Nat
    BY <1>1
  <2>2. \E h : AreValues(h, xh, Radix, Len(xh)) /\ ValueOf(xh, Radix) = h[Len(xh)]
    BY <2>1, ValueOfDef, Zenon
  <2> QED BY <1>1, <2>2, Zenon
<1>4. PICK v \in Nat : v = h[w] /\ /\ w = 4 => v < Power4
                                   /\ w = 5 => v < Power4 * Radix
                                   /\ w = 6 => v < Power4 * Radix * Radix
  BY <1>2, <1>3, PlateBounds
<1>5. PICK p \in Nat, r \in Nat, s \in Nat : /\ p = Power4 /\ r = Power4 * Radix
                                             /\ s = Power4 * Radix * Radix
                                             /\ p <= 1296 * 1296 /\ r <= (1296 * 1296) * 36
                                             /\ s <= (1296 * 1296) * 36 * 36
  BY RadixFacts
<1> DEFINE N == ParseHPHMToLong(xh)
           length == IF N < Power4 THEN 4 ELSE IF N < Power4 * Radix + Power4 THEN 5 ELSE 6
           result == Quotients(N - Offset(length), Radix, 5)
<1>6. N = v + Offset(w)
  BY <1>1, <1>3, <1>4 DEF ParseHPHMToLong
<1>7. ParseHphm(N) = [i \in 1 .. length |-> result[length - i] % Radix]
  BY DEF ParseHphm
<1>8. Offset(w) = (IF w > 4 THEN p ELSE 0) + (IF w > 5 THEN r ELSE 0)
  BY <1>5 DEF Offset
<1> HIDE DEF N
<1>9. Offset(w) \in Nat /\ N \in Nat /\ N - Offset(w) = v
  BY <1>6, <1>8
<1>10. length = w
  <2>1. w = 4 => N < p
    BY <1>4, <1>5, <1>6, <1>8
  <2>2. w = 5 => ~(N < p) /\ N < r + p
    BY <1>4, <1>5, <1>6, <1>8
  <2>3. w = 6 => ~(N < p) /\ ~(N < r + p)
    BY <1>4, <1>5, <1>6, <1>8
  <2>4. length = IF N < p THEN 4 ELSE IF N < r + p THEN 5 ELSE 6
    BY <1>5
  <2> HIDE DEF length
  <2> QED BY <2>1, <2>2, <2>3, <2>4
<1>11. N < 2^32
  <2>1. N < (1296 * 1296) * 36 * 36 + (1296 * 1296) * 36 + 1296 * 1296
    BY <1>4, <1>5, <1>6, <1>8
  <2>2. (1296 * 1296) * 36 * 36 + (1296 * 1296) * 36 + 1296 * 1296 < 2^32
    BY SMT
  <2> QED BY <1>9, <2>1, <2>2
<1>12. Fits(N, 32)
  BY <1>9, <1>11, Widths
<1> HIDE DEF length
<1>13. result = Quotients(v, Radix, 5)
  BY <1>9, <1>10
<1>14. AreQuotients(Quotients(v, Radix, 5), v, Radix, 5)
  <2>1. 5 \in Nat
    OBVIOUS
  <2> QED BY <2>1, QuotientsDef, Zenon
<1>15. \A j \in 0 .. w - 1 : result[j] % Radix = xh[w - j]
  <2>1. w \in Nat /\ 5 \in Nat /\ w <= 5 + 1 /\ Radix \in Bases
    BY RadixFacts
  <2>2. AreQuotients(result, h[w], Radix, 5)
    BY <1>4, <1>13, <1>14
  <2> HIDE DEF result
  <2>3. \A j \in 0 .. w - 1 : result[j] % Radix = xh[w - j]
    BY <1>2, <1>3, <2>1, <2>2, NumberToDigits
  <2> QED BY <2>3
<1> HIDE DEF result
<1>16. ParseHphm(N) = [i \in 1 .. w |-> result[w - i] % Radix]
  BY <1>7, <1>10, Zenon
<1>17. \A i \in 1 .. w : result[w - i] % Radix = xh[i]
  <2> SUFFICES ASSUME NEW i \in 1 .. w PROVE result[w - i] % Radix = xh[i]
    OBVIOUS
  <2>1. w - i \in 0 .. w - 1 /\ w - (w - i) = i
    OBVIOUS
  <2>2. result[w - i] % Radix = xh[w - (w - i)]
    BY <1>15, <2>1, Zenon
  <2> QED BY <2>1, <2>2
<1>18. ParseHphm(N) = xh
  <2>1. xh = [i \in 1 .. w |-> xh[i]]
    BY <1>2
  <2>2. [i \in 1 .. w |-> result[w - i] % Radix] = [i \in 1 .. w |-> xh[i]]
    BY <1>17, Zenon
  <2> QED BY <1>16, <2>1, <2>2
<1> QED BY <1>12, <1>18 DEF N
-----------------------------------------------------------------------------
(* The number comes back from every card.                                  *)

(* The types of the columns of a row.                                      *)
LEMMA RowFields ==
  ASSUME NEW row \in Rows
  PROVE  /\ row.fzjg \in 0 .. 63 /\ row.fpdh \in 0 .. 25 /\ row.xh \in Seq(0 .. Radix - 1)
         /\ row.hpzl \in Codes.hpzl /\ row.syxz \in Codes.syxz /\ row.cllx \in Codes.cllx
         /\ Packed.hpzl[row.hpzl] \in 0 .. 15
         /\ Packed.syxz[row.syxz] \in 1 .. 15
         /\ Packed.cllx[row.cllx] \in 0 .. 511
         /\ row.csys = None \/ row.csys \in 0 .. 15
         /\ row.ccrq = None \/ row.ccrq \in Dates
         /\ row.yxqz = None \/ row.yxqz \in Dates
         /\ row.qzbfqz = None \/ row.qzbfqz \in Nat
         /\ row.hdzk \in Nat /\ row.zzl \in Nat
         /\ row.pl = None \/ row.pl \in Nat
         /\ row.gl = None \/ row.gl \in Nat
BY ContentAssumption DEF Rows

(* Whatever is packed, a long has its ones at positions.                   *)
LEMMA LongsType ==
  ASSUME NEW no, NEW row
  PROVE  /\ NumberLong(no, row) \subseteq Nat /\ VehicleLong(row) \subseteq Nat
         /\ PlateLong(row) \subseteq Nat /\ RestLong(row) \subseteq Nat
<1>1. \A l, v : \A w \in 0 .. 39 : l \subseteq Nat => Push(l, <<w, v>>) \subseteq Nat
  BY PushField
<1>2. /\ {} \subseteq Nat
      /\ 1 \in 0 .. 39 /\ 4 \in 0 .. 39 /\ 5 \in 0 .. 39 /\ 6 \in 0 .. 39 /\ 8 \in 0 .. 39
      /\ 9 \in 0 .. 39 /\ 10 \in 0 .. 39 /\ 30 \in 0 .. 39 /\ 32 \in 0 .. 39
  OBVIOUS
<1>3. ASSUME NEW a, NEW b, NEW c, NEW d
      PROVE  Long(<< <<1, a>>, <<6, b>>, <<30, c>>, <<6, d>> >>) \subseteq Nat
  <2>1. Push(Push({}, <<1, a>>), <<6, b>>) \subseteq Nat
    BY <1>1, <1>2, Zenon
  <2>2. Push(Push(Push(Push({}, <<1, a>>), <<6, b>>), <<30, c>>), <<6, d>>) \subseteq Nat
    BY <1>1, <1>2, <2>1, Zenon
  <2>3. Long(<< <<1, a>>, <<6, b>>, <<30, c>>, <<6, d>> >>) =
          Push(Push(Push(Push({}, <<1, a>>), <<6, b>>), <<30, c>>), <<6, d>>)
    BY LongOfFour
  <2> QED BY <2>2, <2>3, Zenon
<1>4. ASSUME NEW a, NEW b, NEW c, NEW d, NEW e, NEW f, NEW g
      PROVE  Long(<< <<6, a>>, <<5, b>>, <<4, c>>, <<9, d>>, <<9, e>>, <<1, f>>, <<1, g>> >>)
               \subseteq Nat
  <2> DEFINE l == Push(Push(Push(Push({}, <<6, a>>), <<5, b>>), <<4, c>>), <<9, d>>)
  <2>1. Push(Push({}, <<6, a>>), <<5, b>>) \subseteq Nat
    BY <1>1, <1>2, Zenon
  <2>2. l \subseteq Nat
    BY <1>1, <1>2, <2>1, Zenon
  <2>3. Push(Push(Push(l, <<9, e>>), <<1, f>>), <<1, g>>) \subseteq Nat
    <3> HIDE DEF l
    <3>1. Push(l, <<9, e>>) \subseteq Nat
      BY <1>1, <1>2, <2>2, Zenon
    <3>2. Push(Push(l, <<9, e>>), <<1, f>>) \subseteq Nat
      BY <1>1, <1>2, <3>1, Zenon
    <3> QED BY <1>1, <1>2, <3>2, Zenon
  <2>4. Long(<< <<6, a>>, <<5, b>>, <<4, c>>, <<9, d>>, <<9, e>>, <<1, f>>, <<1, g>> >>) =
          Push(Push(Push(l, <<9, e>>), <<1, f>>), <<1, g>>)
    BY LongOfSeven
  <2> QED BY <2>3, <2>4, Zenon
<1>5. ASSUME NEW a, NEW b PROVE Long(<< <<4, a>>, <<32, b>> >>) \subseteq Nat
  <2>1. Push(Push({}, <<4, a>>), <<32, b>>) \subseteq Nat
    BY <1>1, <1>2, Zenon
  <2> QED BY <2>1, LongOfTwo, Zenon
<1>6. ASSUME NEW a, NEW b, NEW c, NEW d, NEW e
      PROVE  Long(<< <<9, a>>, <<5, b>>, <<10, c>>, <<4, d>>, <<8, e>> >>) \subseteq Nat
  <2> DEFINE l == Push(Push(Push({}, <<9, a>>), <<5, b>>), <<10, c>>)
  <2>1. Push(Push({}, <<9, a>>), <<5, b>>) \subseteq Nat
    BY <1>1, <1>2, Zenon
  <2>2. l \subseteq Nat
    BY <1>1, <1>2, <2>1, Zenon
  <2>3. Push(Push(l, <<4, d>>), <<8, e>>) \subseteq Nat
    <3> HIDE DEF l
    <3>1. Push(l, <<4, d>>) \subseteq Nat
      BY <1>1, <1>2, <2>2, Zenon
    <3> QED BY <1>1, <1>2, <3>1, Zenon
  <2>4. Long(<< <<9, a>>, <<5, b>>, <<10, c>>, <<4, d>>, <<8, e>> >>) =
          Push(Push(l, <<4, d>>), <<8, e>>)
    BY LongOfFive
  <2> QED BY <2>3, <2>4, Zenon
<1>7. NumberLong(no, row) \subseteq Nat
  BY <1>3, Zenon DEF NumberLong
<1>8. VehicleLong(row) \subseteq Nat
  BY <1>4, Zenon DEF VehicleLong
<1>9. PlateLong(row) \subseteq Nat
  BY <1>5, Zenon DEF PlateLong
<1>10. RestLong(row) \subseteq Nat
  BY <1>6, Zenon DEF RestLong
<1> QED BY <1>7, <1>8, <1>9, <1>10

(* The number of a card is read back as it was packed, for every vehicle   *)
(* (calculateVehicleInfo, eri.js).                                         *)
THEOREM NumberOnCard ==
  ASSUME NEW no \in Numbers, NEW row \in Rows
  PROVE  Parse(CalculateVehicleInfo(no, row)).kh = no
<1>1. Fits(row.fzjg, 6)
  <2>1. PICK x \in 0 .. 63 : x = row.fzjg
    BY RowFields
  <2>2. x \in Nat /\ x <= 63
    OBVIOUS
  <2> QED BY <2>1, <2>2, Widths
<1> DEFINE data == CalculateVehicleInfo(no, row)
           number == NumberLong(no, row)
<1>2. FieldAt(number, 36, 6, no[1]) /\ FieldAt(number, 6, 30, no[2])
  <2>1. 6 \in {3, 6} /\ 30 + 6 = 36
    OBVIOUS
  <2>2. FieldAt(number, 30 + 6, 6, no[1]) /\ FieldAt(number, 6, 30, no[2])
    BY <1>1, <2>1, NumberFields, Zenon DEF NumberLong
  <2> QED BY <2>1, <2>2
<1>3. Mirrors(data, number, 0, 39, 42)
  BY LongsType, DataBits, Zenon
<1> HIDE DEF data, number
<1>4. ParseNumber(data) = no
  <2>1. PICK top \in {39, 42} : top = 42
    OBVIOUS
  <2>2. FieldAt(number, top - 6, 6, no[1]) /\ FieldAt(number, top - 36, 30, no[2])
    BY <1>2, <2>1
  <2>3. Mirrors(data, number, 0, 39, top)
    BY <1>3, <2>1
  <2> QED BY <2>2, <2>3, NumberRead, Zenon
<1>5. Parse(data).kh = ParseNumber(data)
  BY DEF Parse
<1> QED BY <1>4, <1>5 DEF data

(* And so it is from a card that no vehicle has been written to            *)
(* (calculateHexCardNumber).                                               *)
THEOREM NumberOnBlankCard ==
  ASSUME NEW no \in Numbers
  PROVE  Parse(FactoryData(no)).kh = no
<1> DEFINE data == FactoryData(no)
           number == Long(<< <<1, 0>>, <<6, no[1]>>, <<30, no[2]>>, <<3, 0>> >>)
<1>1. Fits(0, 3)
  <2>1. 0 \in Nat /\ 0 \in Int /\ 1 \in 0 .. 39 /\ 3 \in 1 .. 39
    OBVIOUS
  <2>2. Fits(0, 1)
    BY Widths
  <2> DEFINE q == Quotients(0, 2, 39)
  <2>3. \A i \in 0 .. 39 : q[i] = 0 => \A j \in i .. 39 : q[j] = 0
    BY <2>1, Halves, Zenon
  <2>4. q[1] = 0
    BY <2>2 DEF Fits
  <2>5. q[3] = 0
    BY <2>1, <2>3, <2>4, Zenon
  <2> QED BY <2>5 DEF Fits
<1>2. number \subseteq Nat /\ FieldAt(number, 33, 6, no[1]) /\ FieldAt(number, 3, 30, no[2])
  <2>1. 3 \in {3, 6} /\ 30 + 3 = 33
    OBVIOUS
  <2>2. number \subseteq Nat /\ FieldAt(number, 30 + 3, 6, no[1]) /\ FieldAt(number, 3, 30, no[2])
    BY <1>1, <2>1, NumberFields, Zenon
  <2> HIDE DEF number
  <2> QED BY <2>1, <2>2
<1>3. data = Digits(number, 10, 0)
  BY DEF FactoryData
<1> HIDE DEF data, number
<1>4. ASSUME NEW p \in 0 .. 39 PROVE p \in data <=> 39 - p \in number
  <2>1. 10 \in Nat /\ 0 \in Nat /\ p \in Nat
    OBVIOUS
  <2>2. p \in Digits(number, 10, 0) <=>
          4 * 0 <= p /\ p < 4 * (0 + 10) /\ 4 * (0 + 10) - 1 - p \in number
    BY <1>2, <2>1, DigitsBits, Zenon
  <2>3. 4 * 0 <= p /\ p < 4 * (0 + 10) /\ 4 * (0 + 10) - 1 - p = 39 - p
    OBVIOUS
  <2> QED BY <1>3, <2>2, <2>3
<1>5. ParseNumber(data) = no
  <2>1. PICK top \in {39, 42} : top = 39
    OBVIOUS
  <2>2. FieldAt(number, top - 6, 6, no[1]) /\ FieldAt(number, top - 36, 30, no[2])
    BY <1>2, <2>1
  <2>3. Mirrors(data, number, 0, 39, top)
    BY <1>4, <2>1 DEF Mirrors
  <2> QED BY <2>2, <2>3, NumberRead, Zenon
<1>6. Parse(data).kh = ParseNumber(data)
  BY DEF Parse
<1> QED BY <1>5, <1>6 DEF data
-----------------------------------------------------------------------------
(* The vehicle comes back from a card that has room for it.                *)

(* The values packed in the upper half fit in their fields.                *)
LEMMA VehicleFits ==
  ASSUME NEW row \in Rows
  PROVE  /\ Fits(row.fzjg, 6) /\ Fits(row.fpdh, 5) /\ Fits(Packed.syxz[row.syxz], 4)
         /\ Fits(MadeMonths(row), 9) /\ Fits(Packed.cllx[row.cllx], 9) /\ Fits(PowerFlag(row), 1)
         /\ Fits(Packed.hpzl[row.hpzl], 4)
<1>1. PICK a \in 0 .. 63, b \in 0 .. 25, c \in 0 .. 15, d \in 0 .. 511, e \in 0 .. 15 :
        /\ a = row.fzjg /\ b = row.fpdh /\ c = Packed.syxz[row.syxz]
        /\ d = Packed.cllx[row.cllx] /\ e = Packed.hpzl[row.hpzl]
  <2>1. /\ row.fzjg \in 0 .. 63 /\ row.fpdh \in 0 .. 25 /\ Packed.syxz[row.syxz] \in 0 .. 15
        /\ Packed.cllx[row.cllx] \in 0 .. 511 /\ Packed.hpzl[row.hpzl] \in 0 .. 15
    BY RowFields
  <2> QED BY <2>1, Zenon
<1>2. Fits(a, 6) /\ Fits(b, 5) /\ Fits(c, 4) /\ Fits(d, 9) /\ Fits(e, 4)
  <2>1. /\ a \in Nat /\ a <= 63 /\ b \in Nat /\ b <= 31 /\ c \in Nat /\ c <= 15
        /\ d \in Nat /\ d <= 511 /\ e \in Nat /\ e <= 15
    OBVIOUS
  <2> QED BY <2>1, Widths
<1>3. Fits(PowerFlag(row), 1)
  <2>1. PICK x \in 0 .. 1 : x = PowerFlag(row)
    BY DEF PowerFlag
  <2>2. x \in Nat /\ x <= 1
    OBVIOUS
  <2> QED BY <2>1, <2>2, Widths
<1>4. PICK x \in Nat : x = MadeMonths(row) /\ x <= 511
  <2> DEFINE n == MonthsSince(MadeFrom, row.ccrq)
             m == (((-n) \div 511 + 1) * 511 + n) % 511
  <2>1. MadeMonths(row) = IF row.ccrq = None THEN 0
                          ELSE IF n >= 511 THEN 511 ELSE IF n < 0 THEN m ELSE n
    BY DEF MadeMonths
  <2>2. CASE row.ccrq = None
    BY <2>1, <2>2
  <2>3. CASE row.ccrq # None
    <3>1. row.ccrq \in Dates
      BY <2>3, RowFields
    <3>2. PICK y \in Nat, k \in 1 .. 12 : y = row.ccrq[1] /\ k = row.ccrq[2]
      BY <3>1, Pairs DEF Dates
    <3>3. n = 12 * (y - 1990) + k - 1
      BY <3>2 DEF MonthsSince, MadeFrom
    <3>4. n \in Int
      BY <3>3
    <3>5. m \in 0 .. 510
      <4> HIDE DEF n
      <4>1. ((-n) \div 511 + 1) * 511 + n \in Int
        BY <3>4
      <4> QED BY <4>1
    <3> HIDE DEF n, m
    <3> QED BY <2>1, <2>3, <3>4, <3>5
  <2> QED BY <2>2, <2>3
<1>5. Fits(MadeMonths(row), 9)
  BY <1>4, Widths
<1> QED BY <1>1, <1>2, <1>3, <1>5

(* What is read for the plate and the vehicle.                             *)
LEMMA ReadsOfVehicle ==
  ASSUME NEW no \in Numbers, NEW row \in Rows
  PROVE  LET data == CalculateVehicleInfo(no, row) IN
         /\ Read(data, 9, 11, 1, 6) = row.fzjg
         /\ Read(data, 10, 12, 0, 5) = row.fpdh
         /\ Read(data, 12, 13, 0, 4) = Packed.syxz[row.syxz]
         /\ Read(data, 13, 16, 3, 9) = MadeMonths(row)
         /\ Read(data, 15, 18, 2, 9) = Packed.cllx[row.cllx]
         /\ Read(data, 17, 18, 1, 1) = PowerFlag(row)
         /\ Fits(ParseHPHMToLong(row.xh), 32) =>
              /\ Read(data, 20, 21, 0, 4) = Packed.hpzl[row.hpzl]
              /\ Read(data, 21, 29, 0, 32) = ParseHPHMToLong(row.xh)
<1> DEFINE data == CalculateVehicleInfo(no, row)
           number == NumberLong(no, row)
           vehicle == VehicleLong(row)
           plate == PlateLong(row)
<1>1. /\ Fits(row.fzjg, 6) /\ Fits(row.fpdh, 5) /\ Fits(Packed.syxz[row.syxz], 4)
      /\ Fits(MadeMonths(row), 9) /\ Fits(Packed.cllx[row.cllx], 9) /\ Fits(PowerFlag(row), 1)
      /\ Fits(Packed.hpzl[row.hpzl], 4)
  BY VehicleFits, Zenon
<1>2. /\ Mirrors(data, number, 0, 39, 42)
      /\ Mirrors(data, vehicle, 40, 71, 71)
      /\ Mirrors(data, plate, 80, 115, 115)
  BY LongsType, DataBits, Zenon
<1>3. FieldAt(number, 0, 6, row.fzjg)
  <2>1. 6 \in {3, 6}
    OBVIOUS
  <2> QED BY <1>1, <2>1, NumberFields, Zenon DEF NumberLong
<1>4. /\ FieldAt(vehicle, 29, 6, row.fzjg) /\ FieldAt(vehicle, 24, 5, row.fpdh)
      /\ FieldAt(vehicle, 20, 4, Packed.syxz[row.syxz]) /\ FieldAt(vehicle, 11, 9, MadeMonths(row))
      /\ FieldAt(vehicle, 2, 9, Packed.cllx[row.cllx]) /\ FieldAt(vehicle, 1, 1, PowerFlag(row))
  BY <1>1, VehicleFields, Zenon DEF VehicleLong
<1>5. Fits(ParseHPHMToLong(row.xh), 32) =>
        FieldAt(plate, 32, 4, Packed.hpzl[row.hpzl]) /\ FieldAt(plate, 0, 32, ParseHPHMToLong(row.xh))
  BY <1>1, PlateFields, Zenon DEF PlateLong
<1> HIDE DEF data, number, vehicle, plate
<1>6. Read(data, 9, 11, 1, 6) = row.fzjg
  BY <1>1, <1>2, <1>3, <1>4, PlaceRead, Zenon
<1>7. /\ Read(data, 10, 12, 0, 5) = row.fpdh
      /\ Read(data, 12, 13, 0, 4) = Packed.syxz[row.syxz]
      /\ Read(data, 13, 16, 3, 9) = MadeMonths(row)
      /\ Read(data, 15, 18, 2, 9) = Packed.cllx[row.cllx]
      /\ Read(data, 17, 18, 1, 1) = PowerFlag(row)
  <2>1. PICK fpdh, syxz, made, cllx, flag :
          /\ fpdh = row.fpdh /\ syxz = Packed.syxz[row.syxz] /\ made = MadeMonths(row)
          /\ cllx = Packed.cllx[row.cllx] /\ flag = PowerFlag(row)
    OBVIOUS
  <2>2. /\ Fits(fpdh, 5) /\ Fits(syxz, 4) /\ Fits(made, 9) /\ Fits(cllx, 9) /\ Fits(flag, 1)
        /\ FieldAt(vehicle, 24, 5, fpdh) /\ FieldAt(vehicle, 20, 4, syxz)
        /\ FieldAt(vehicle, 11, 9, made) /\ FieldAt(vehicle, 2, 9, cllx)
        /\ FieldAt(vehicle, 1, 1, flag)
    BY <1>1, <1>4, <2>1
  <2>3. /\ Read(data, 10, 12, 0, 5) = fpdh /\ Read(data, 12, 13, 0, 4) = syxz
        /\ Read(data, 13, 16, 3, 9) = made /\ Read(data, 15, 18, 2, 9) = cllx
        /\ Read(data, 17, 18, 1, 1) = flag
    BY <1>2, <2>2, VehicleReads, Zenon
  <2> QED BY <2>1, <2>3
<1>8. Fits(ParseHPHMToLong(row.xh), 32) =>
        /\ Read(data, 20, 21, 0, 4) = Packed.hpzl[row.hpzl]
        /\ Read(data, 21, 29, 0, 32) = ParseHPHMToLong(row.xh)
  BY <1>1, <1>2, <1>5, PlateReads, Zenon
<1> QED BY <1>6, <1>7, <1>8 DEF data

(* The plate is read back as it was packed, and for its kind, the usage    *)
(* and the type of the vehicle the page has the names of the codes that    *)
(* have their numbers, for every vehicle whose plate has four to six       *)
(* characters after the letter (parseHPHMToLong, eri.js).                  *)
THEOREM PlateOnCard ==
  ASSUME NEW no \in Numbers, NEW row \in Rows, Len(row.xh) \in 4 .. 6
  PROVE  LET card == Parse(CalculateVehicleInfo(no, row)) IN
         /\ card.hphm = <<row.fzjg, row.fpdh, row.xh>>
         /\ \A f \in Kinds : card[f] = Entry(f, Packed[f][row[f]])
<1>1. row.xh \in Seq(0 .. Radix - 1)
  BY RowFields
<1>2. Fits(ParseHPHMToLong(row.xh), 32) /\ ParseHphm(ParseHPHMToLong(row.xh)) = row.xh
  BY <1>1, PlateReadBack, Zenon
<1> DEFINE data == CalculateVehicleInfo(no, row)
<1>3. /\ Read(data, 9, 11, 1, 6) = row.fzjg /\ Read(data, 10, 12, 0, 5) = row.fpdh
      /\ Read(data, 12, 13, 0, 4) = Packed.syxz[row.syxz]
      /\ Read(data, 15, 18, 2, 9) = Packed.cllx[row.cllx]
      /\ Read(data, 20, 21, 0, 4) = Packed.hpzl[row.hpzl]
      /\ Read(data, 21, 29, 0, 32) = ParseHPHMToLong(row.xh)
  BY <1>2, ReadsOfVehicle, Zenon
<1> HIDE DEF data
<1>4. /\ Parse(data).hphm =
           <<Read(data, 9, 11, 1, 6), Read(data, 10, 12, 0, 5), ParseHphm(Read(data, 21, 29, 0, 32))>>
      /\ Parse(data).hpzl = Entry("hpzl", Read(data, 20, 21, 0, 4))
      /\ Parse(data).syxz = Entry("syxz", Read(data, 12, 13, 0, 4))
      /\ Parse(data).cllx = Entry("cllx", Read(data, 15, 18, 2, 9))
  BY DEF Parse
<1>5. /\ Parse(data).hpzl = Entry("hpzl", Packed["hpzl"][row["hpzl"]])
      /\ Parse(data).syxz = Entry("syxz", Packed["syxz"][row["syxz"]])
      /\ Parse(data).cllx = Entry("cllx", Packed["cllx"][row["cllx"]])
  BY <1>3, <1>4
<1> QED BY <1>2, <1>3, <1>4, <1>5 DEF data, Kinds
-----------------------------------------------------------------------------
(* The page's check of a card that holds what it should.                   *)

(* So do those of the lower half, if the layout has room for them.         *)
LEMMA RestFits ==
  ASSUME NEW row \in Rows, Encodable(row)
  PROVE  /\ Fits(ValidMonths(row), 9) /\ Fits(ScrapYears(row), 5) /\ Fits(Capacity(row), 10)
         /\ Fits(IF row.csys = None THEN 0 ELSE row.csys, 4) /\ Fits(Engine(row), 8)
<1>1. ValidMonths(row) \in 0 .. 511
  <2> DEFINE n == MonthsSince(ValidFrom, row.yxqz)
  <2>1. ValidMonths(row) = IF row.yxqz = None THEN 0 ELSE IF n < 0 THEN 511 ELSE n % 511
    BY DEF ValidMonths
  <2>2. CASE row.yxqz = None
    BY <2>1, <2>2
  <2>3. CASE row.yxqz # None
    <3>1. row.yxqz \in Dates
      BY <2>3, RowFields
    <3>2. PICK y \in Nat, k \in 1 .. 12 : y = row.yxqz[1] /\ k = row.yxqz[2]
      BY <3>1, Pairs DEF Dates
    <3>3. n \in Int
      BY <3>2 DEF MonthsSince, ValidFrom
    <3> HIDE DEF n
    <3>4. n % 511 \in 0 .. 510
      BY <3>3
    <3> QED BY <2>1, <2>3, <3>4
  <2> QED BY <2>2, <2>3
<1>2. ScrapYears(row) \in 0 .. 31
  <2>1. CASE row.qzbfqz = None
    BY <2>1 DEF ScrapYears
  <2>2. CASE row.qzbfqz # None
    <3>1. row.yxqz \in Dates /\ row.yxqz # None /\ row.qzbfqz >= row.yxqz[1] /\ row.qzbfqz \in Nat
      BY <2>2, RowFields DEF Encodable
    <3>2. PICK b \in Nat, q \in Nat : b = row.yxqz[1] /\ q = row.qzbfqz
      BY <3>1, Pairs DEF Dates
    <3>3. ScrapYears(row) = IF q - b > 31 THEN 31 ELSE q - b
      BY <2>2, <3>1, <3>2, Zenon DEF ScrapYears
    <3>4. q >= b
      BY <3>1, <3>2
    <3>5. CASE q - b > 31
      BY <3>3, <3>5
    <3>6. CASE ~(q - b > 31)
      BY <3>3, <3>4, <3>6
    <3> QED BY <3>5, <3>6
  <2> QED BY <2>1, <2>2
<1>3. Capacity(row) \in 0 .. 1023
  <2>1. PICK h \in Nat, m \in Nat : h = row.hdzk /\ m = row.zzl
    BY RowFields
  <2>2. Capacity(row) = IF row.cllx \in Buses THEN h ELSE IF m >= 102300 THEN 1023
                        ELSE (m + 50) \div 100
    BY <2>1 DEF Capacity, Rounded
  <2>3. (row.cllx \in Buses => h <= 1023) /\ (row.cllx \notin Buses => m < 102350)
    BY <2>1 DEF Encodable
  <2>4. CASE row.cllx \in Buses
    BY <2>2, <2>3, <2>4
  <2>5. CASE row.cllx \notin Buses
    <3>1. m < 102300 => (m + 50) \div 100 \in 0 .. 1023
      OBVIOUS
    <3> QED BY <2>2, <2>5, <3>1
  <2> QED BY <2>4, <2>5
<1>4. (IF row.csys = None THEN 0 ELSE row.csys) \in 0 .. 15
  BY RowFields
<1>5. Engine(row) \in 0 .. 255
  <2>1. CASE PowerFlag(row) = 0
    <3>1. row.pl \in Nat /\ row.pl < 25550
      BY <2>1, RowFields DEF PowerFlag, Encodable
    <3>2. PICK p \in Nat : p = row.pl /\ p < 25550
      BY <3>1
    <3>3. Engine(row) = (p + 50) \div 100
      BY <2>1, <3>2 DEF Engine, Rounded
    <3>4. (p + 50) \div 100 \in 0 .. 255
      BY <3>2
    <3> QED BY <3>3, <3>4
  <2>2. CASE PowerFlag(row) # 0
    <3>1. CASE row.gl = None
      BY <2>2, <3>1 DEF Engine
    <3>2. CASE row.gl # None
      <4>1. PICK g \in Nat : g = row.gl
        BY <3>2, RowFields
      <4>2. Engine(row) = IF g <= 10 THEN 0 ELSE IF g >= 2550 THEN 255 ELSE (g + 5) \div 10
        BY <2>2, <3>2, <4>1 DEF Engine, Rounded
      <4>3. g < 2550 => (g + 5) \div 10 \in 0 .. 255
        OBVIOUS
      <4> QED BY <4>2, <4>3
    <3> QED BY <3>1, <3>2
  <2> QED BY <2>1, <2>2
<1> DEFINE csys == IF row.csys = None THEN 0 ELSE row.csys
<1> HIDE DEF csys
<1>6. csys \in 0 .. 15
  BY <1>4 DEF csys
<1>7. Fits(ValidMonths(row), 9)
  <2>1. ValidMonths(row) \in Nat /\ ValidMonths(row) <= 511
    BY <1>1
  <2> QED BY <2>1, Widths
<1>8. Fits(ScrapYears(row), 5)
  <2>1. ScrapYears(row) \in Nat /\ ScrapYears(row) <= 31
    BY <1>2
  <2> QED BY <2>1, Widths
<1>9. Fits(Capacity(row), 10)
  <2>1. Capacity(row) \in Nat /\ Capacity(row) <= 1023
    BY <1>3
  <2> QED BY <2>1, Widths
<1>10. Fits(csys, 4)
  <2>1. csys \in Nat /\ csys <= 15
    BY <1>6
  <2> QED BY <2>1, Widths
<1>11. Fits(Engine(row), 8)
  <2>1. Engine(row) \in Nat /\ Engine(row) <= 255
    BY <1>5
  <2> QED BY <2>1, Widths
<1> QED BY <1>7, <1>8, <1>9, <1>10, <1>11, Zenon DEF csys

(* The fields after the plate are read back.                               *)
LEMMA ReadsOfRest ==
  ASSUME NEW no, NEW row \in Rows, Encodable(row)
  PROVE  LET data == CalculateVehicleInfo(no, row) IN
         /\ Read(data, 29, 32, 3, 9) = ValidMonths(row)
         /\ Read(data, 31, 33, 2, 5) = ScrapYears(row)
         /\ Read(data, 32, 35, 0, 10) = Capacity(row)
         /\ Read(data, 35, 36, 0, 4) = IF row.csys = None THEN 0 ELSE row.csys
         /\ Read(data, 36, 38, 0, 8) = Engine(row)
<1> DEFINE data == CalculateVehicleInfo(no, row)
           rest == RestLong(row)
           csys == IF row.csys = None THEN 0 ELSE row.csys
<1>1. /\ Fits(ValidMonths(row), 9) /\ Fits(ScrapYears(row), 5) /\ Fits(Capacity(row), 10)
      /\ Fits(csys, 4) /\ Fits(Engine(row), 8)
  BY RestFits, Zenon
<1>2. Mirrors(data, rest, 116, 151, 151)
  BY LongsType, DataBits, Zenon
<1>3. rest = Long(<< <<9, ValidMonths(row)>>, <<5, ScrapYears(row)>>, <<10, Capacity(row)>>,
                     <<4, csys>>, <<8, Engine(row)>> >>)
  BY DEF RestLong
<1> HIDE DEF data, rest, csys
<1>4. PICK v, y, z, u, e : /\ v = ValidMonths(row) /\ y = ScrapYears(row) /\ z = Capacity(row)
                           /\ u = csys /\ e = Engine(row)
  OBVIOUS
<1>5. Fits(v, 9) /\ Fits(y, 5) /\ Fits(z, 10) /\ Fits(u, 4) /\ Fits(e, 8)
  BY <1>1, <1>4
<1>6. /\ FieldAt(rest, 27, 9, v) /\ FieldAt(rest, 22, 5, y) /\ FieldAt(rest, 12, 10, z)
      /\ FieldAt(rest, 8, 4, u) /\ FieldAt(rest, 0, 8, e)
  <2>1. rest = Long(<< <<9, v>>, <<5, y>>, <<10, z>>, <<4, u>>, <<8, e>> >>)
    BY <1>3, <1>4
  <2> QED BY <1>5, <2>1, RestFields, Zenon
<1>7. /\ Read(data, 29, 32, 3, 9) = v /\ Read(data, 31, 33, 2, 5) = y
      /\ Read(data, 32, 35, 0, 10) = z /\ Read(data, 35, 36, 0, 4) = u
      /\ Read(data, 36, 38, 0, 8) = e
  BY <1>2, <1>5, <1>6, RestReads, ZenonT(60)
<1> QED BY <1>4, <1>7 DEF data, csys

(* A date comes back from its months.                                      *)
LEMMA DateBack ==
  ASSUME NEW year \in Nat, NEW date \in Dates, NEW n, n = MonthsSince(year, date), n >= 0
  PROVE  n \in Nat /\ DateFrom(year, n) = date
<1>1. PICK y \in Nat, k \in 1 .. 12 : date = <<y, k>> /\ y = date[1] /\ k = date[2]
  BY Pairs DEF Dates
<1>2. n = 12 * (y - year) + k - 1
  BY <1>1 DEF MonthsSince
<1>3. n \in Nat
  BY <1>2
<1>4. 12 * year + n = 12 * y + (k - 1) /\ k - 1 \in 0 .. 11
  BY <1>2
<1>5. (12 * year + n) \div 12 = y
  BY <1>4
<1>6. n % 12 = k - 1
  BY <1>2
<1>7. DateFrom(year, n) = <<y, k>>
  BY <1>3, <1>5, <1>6 DEF DateFrom
<1> QED BY <1>1, <1>3, <1>7
(* Everything that the page shows of a vehicle, as it was packed.          *)
LEMMA CardFields ==
  ASSUME NEW no \in Numbers, NEW row \in Rows, Encodable(row)
  PROVE  LET card == Parse(CalculateVehicleInfo(no, row))
             valid == ValidMonths(row)
             csys == IF row.csys = None THEN 0 ELSE row.csys
         IN
         /\ card.ccrq = ParseMade(MadeMonths(row))
         /\ card.yxqz = IF valid = 511 THEN None ELSE DateFrom(ValidFrom, valid)
         /\ card.qzbfqz = IF valid = 511 THEN None ELSE DateFrom(ValidFrom, valid)[1] + ScrapYears(row)
         /\ card.hdzk = IF row.cllx \in Buses THEN Capacity(row) ELSE None
         /\ card.zzl = IF row.cllx \in Buses THEN None ELSE Capacity(row)
         /\ card.csys = IF csys = 0 THEN None ELSE csys
         /\ card.pl = IF PowerFlag(row) = 1 THEN None ELSE Engine(row)
         /\ card.gl = IF PowerFlag(row) = 1 THEN Engine(row) ELSE None
<1> DEFINE data == CalculateVehicleInfo(no, row)
           csys == IF row.csys = None THEN 0 ELSE row.csys
<1>1. /\ Read(data, 13, 16, 3, 9) = MadeMonths(row) /\ Read(data, 15, 18, 2, 9) = Packed.cllx[row.cllx]
      /\ Read(data, 17, 18, 1, 1) = PowerFlag(row)
  BY ReadsOfVehicle, Zenon
<1>2. /\ Read(data, 29, 32, 3, 9) = ValidMonths(row) /\ Read(data, 31, 33, 2, 5) = ScrapYears(row)
      /\ Read(data, 32, 35, 0, 10) = Capacity(row) /\ Read(data, 35, 36, 0, 4) = csys
      /\ Read(data, 36, 38, 0, 8) = Engine(row)
  BY ReadsOfRest
<1> HIDE DEF data, csys
<1>3. PICK made, cllx, flag, valid, scrap, capacity, c, engine :
        /\ made = Read(data, 13, 16, 3, 9) /\ cllx = Entry("cllx", Read(data, 15, 18, 2, 9))
        /\ flag = Read(data, 17, 18, 1, 1) /\ valid = Read(data, 29, 32, 3, 9)
        /\ scrap = Read(data, 31, 33, 2, 5) /\ capacity = Read(data, 32, 35, 0, 10)
        /\ c = Read(data, 35, 36, 0, 4) /\ engine = Read(data, 36, 38, 0, 8)
  OBVIOUS
<1>4. LET card == Parse(data) IN
      /\ card.ccrq = ParseMade(made)
      /\ card.yxqz = IF valid = 511 THEN None ELSE DateFrom(ValidFrom, valid)
      /\ card.qzbfqz = IF valid = 511 THEN None ELSE DateFrom(ValidFrom, valid)[1] + scrap
      /\ card.hdzk = IF IsBus(cllx) THEN capacity ELSE None
      /\ card.zzl = IF IsBus(cllx) THEN None ELSE capacity
      /\ card.csys = IF c = 0 THEN None ELSE c
      /\ card.pl = IF flag = 1 THEN None ELSE engine
      /\ card.gl = IF flag = 1 THEN engine ELSE None
  BY <1>3 DEF Parse
<1>5. /\ made = MadeMonths(row) /\ flag = PowerFlag(row)
      /\ cllx = Entry("cllx", Packed.cllx[row.cllx])
      /\ valid = ValidMonths(row) /\ scrap = ScrapYears(row) /\ capacity = Capacity(row)
      /\ c = csys /\ engine = Engine(row)
  BY <1>1, <1>2, <1>3
<1>6. Parse(CalculateVehicleInfo(no, row)) = Parse(data)
  BY DEF data
<1>7. csys = IF row.csys = None THEN 0 ELSE row.csys
  BY DEF csys
<1>8. IsBus(cllx) <=> row.cllx \in Buses
  BY <1>5 DEF Encodable
<1> QED BY <1>4, <1>5, <1>6, <1>7, <1>8

(* Months are integers, for any date.                                      *)
LEMMA MonthsType ==
  ASSUME NEW year \in Int, NEW date \in Dates
  PROVE  MonthsSince(year, date) \in Int /\ date[1] \in Nat /\ date[2] \in 1 .. 12
<1>1. PICK y \in Nat, k \in 1 .. 12 : y = date[1] /\ k = date[2]
  BY Pairs DEF Dates
<1> QED BY <1>1 DEF MonthsSince

(* The years that months are counted from are integers.                    *)
LEMMA Years == MadeFrom \in Nat /\ MadeFrom \in Int /\ ValidFrom \in Nat /\ ValidFrom \in Int
BY DEF MadeFrom, ValidFrom

(* The date of making: none, when 511 months or more had passed.           *)
LEMMA MadeAgrees ==
  ASSUME NEW row \in Rows, Encodable(row), row.ccrq # None
  PROVE  ParseMade(MadeMonths(row)) \in {None, row.ccrq}
<1>1. row.ccrq \in Dates
  BY RowFields
<1>2. PICK n \in Int, now \in Int : /\ n = MonthsSince(MadeFrom, row.ccrq)
                                    /\ now = MonthsSince(MadeFrom, Now)
  <2>1. Now \in Dates
    BY ContentAssumption
  <2> QED BY <1>1, <2>1, Years, MonthsType, Zenon
<1>3. n >= 0 /\ n <= now
  <2>1. n \in 0 .. now
    BY <1>2 DEF Encodable
  <2> QED BY <1>2, <2>1
<1>4. MadeMonths(row) = IF n >= 511 THEN 511 ELSE n
  BY <1>2, <1>3 DEF MadeMonths
<1>5. CASE n >= 511
  <2>1. MadeMonths(row) = 511 /\ ~(now + 1 < 511)
    BY <1>2, <1>3, <1>4, <1>5
  <2> QED BY <1>2, <2>1 DEF ParseMade
<1>6. CASE ~(n >= 511)
  <2>1. MadeMonths(row) = n /\ ~(now + 1 < n) /\ n # 511
    BY <1>2, <1>3, <1>4, <1>6
  <2>2. ParseMade(n) = DateFrom(MadeFrom, n)
    BY <1>2, <2>1 DEF ParseMade
  <2>3. DateFrom(MadeFrom, n) = row.ccrq
    BY <1>1, <1>2, <1>3, Years, DateBack, Zenon
  <2> QED BY <2>1, <2>2, <2>3
<1> QED BY <1>5, <1>6

(* The end of the validity: none, when before 2013.                        *)
LEMMA ValidAgrees ==
  ASSUME NEW row \in Rows, Encodable(row), row.yxqz # None
  PROVE  ValidMonths(row) = 511 \/ DateFrom(ValidFrom, ValidMonths(row)) = row.yxqz
<1>1. row.yxqz \in Dates
  BY RowFields
<1>2. PICK n \in Int : n = MonthsSince(ValidFrom, row.yxqz)
  BY <1>1, Years, MonthsType, Zenon
<1>3. n < 511
  BY <1>2 DEF Encodable
<1>4. ValidMonths(row) = IF n < 0 THEN 511 ELSE n % 511
  BY <1>2 DEF ValidMonths
<1>5. CASE n < 0
  BY <1>4, <1>5
<1>6. CASE ~(n < 0)
  <2>1. ValidMonths(row) = n /\ n >= 0
    BY <1>2, <1>3, <1>4, <1>6
  <2>2. DateFrom(ValidFrom, n) = row.yxqz
    BY <1>1, <1>2, <2>1, Years, DateBack, Zenon
  <2> QED BY <2>1, <2>2
<1> QED BY <1>5, <1>6

(* Every comparison of checkContent holds between a card and the texts of  *)
(* the vehicle it was packed for, if the layout has room for it: the       *)
(* server, the page and the texts round and cut off alike                  *)
(* (calculateVehicleInfo, eri.js, translate, checkContent).                *)
THEOREM GoodCardAgrees ==
  ASSUME NEW no \in Numbers, NEW row \in Rows, Encodable(row)
  PROVE  VehicleAgrees(Parse(CalculateVehicleInfo(no, row)), Translate(row))
<1> DEFINE card == Parse(CalculateVehicleInfo(no, row))
           texts == Translate(row)
           valid == ValidMonths(row)
           csys == IF row.csys = None THEN 0 ELSE row.csys
<1>1. /\ card.hphm = <<row.fzjg, row.fpdh, row.xh>>
      /\ \A f \in Kinds : card[f] = Entry(f, Packed[f][row[f]])
  <2>1. Len(row.xh) \in 4 .. 6
    BY DEF Encodable
  <2> QED BY <2>1, PlateOnCard
<1>2. /\ card.ccrq = ParseMade(MadeMonths(row))
      /\ card.yxqz = IF valid = 511 THEN None ELSE DateFrom(ValidFrom, valid)
      /\ card.qzbfqz = IF valid = 511 THEN None ELSE DateFrom(ValidFrom, valid)[1] + ScrapYears(row)
      /\ card.hdzk = IF row.cllx \in Buses THEN Capacity(row) ELSE None
      /\ card.zzl = IF row.cllx \in Buses THEN None ELSE Capacity(row)
      /\ card.csys = IF csys = 0 THEN None ELSE csys
      /\ card.pl = IF PowerFlag(row) = 1 THEN None ELSE Engine(row)
      /\ card.gl = IF PowerFlag(row) = 1 THEN Engine(row) ELSE None
  BY CardFields
<1>3. /\ texts.hphm = <<row.fzjg, row.fpdh, row.xh>> /\ texts.hpzl = row.hpzl
      /\ texts.syxz = row.syxz /\ texts.ccrq = row.ccrq /\ texts.cllx = row.cllx
      /\ texts.yxqz = row.yxqz /\ texts.qzbfqz = row.qzbfqz
      /\ texts.hdzk = (IF row.cllx \in Buses THEN row.hdzk ELSE None)
      /\ texts.zzl = Rounded(row.zzl, 100) /\ texts.csys = row.csys
      /\ texts.pl = (IF row.pl = None THEN None ELSE Rounded(row.pl, 100)) /\ texts.gl = row.gl
  BY DEF Translate
<1> HIDE DEF card, texts, valid
<1>4. card.zzl = texts.zzl \/ card.zzl = None
  <2>1. PICK m \in Nat : m = row.zzl /\ (row.cllx \notin Buses => m < 102350)
    BY RowFields DEF Encodable
  <2>2. row.cllx \notin Buses => Capacity(row) = IF m >= 102300 THEN 1023 ELSE (m + 50) \div 100
    BY <2>1 DEF Capacity, Rounded
  <2>3. texts.zzl = (m + 50) \div 100
    BY <1>3, <2>1 DEF Rounded
  <2>4. m >= 102300 /\ m < 102350 => (m + 50) \div 100 = 1023
    OBVIOUS
  <2> QED BY <1>2, <2>1, <2>2, <2>3, <2>4
<1>5. card.hdzk = texts.hdzk
  BY <1>2, <1>3 DEF Capacity
<1>6. card.csys = texts.csys \/ card.csys = None
  BY <1>2, <1>3
<1>7. card.pl = texts.pl \/ card.pl = None
  <2>1. CASE PowerFlag(row) = 1
    BY <1>2, <2>1
  <2>2. CASE PowerFlag(row) # 1
    <3>1. PowerFlag(row) = 0 /\ row.pl # None
      BY <2>2 DEF PowerFlag
    <3>2. row.pl \in Nat /\ row.pl < 25550
      BY <3>1, RowFields DEF Encodable
    <3>3. Engine(row) = Rounded(row.pl, 100)
      BY <3>1, <3>2 DEF Engine
    <3> QED BY <1>2, <1>3, <2>2, <3>1, <3>3
  <2> QED BY <2>1, <2>2
<1>8. Agree(card, texts, Exact)
  <2>1. card.hphm = texts.hphm
    BY <1>1, <1>3
  <2> QED BY <1>4, <1>5, <1>6, <1>7, <2>1, Zenon DEF Agree, Exact
<1>9. PowerAgrees(card, texts)
  <2>1. CASE PowerFlag(row) # 1
    BY <1>2, <2>1 DEF PowerAgrees
  <2>2. CASE row.gl = None
    BY <1>3, <2>2 DEF PowerAgrees
  <2>3. CASE PowerFlag(row) = 1 /\ row.gl # None
    <3>1. PICK g \in Nat : g = row.gl /\ (g <= 10 \/ g % 10 = 0 \/ g >= 2550)
      BY <2>3, RowFields DEF Encodable
    <3>2. Engine(row) = IF g <= 10 THEN 0 ELSE IF g >= 2550 THEN 255 ELSE (g + 5) \div 10
      BY <2>3, <3>1 DEF Engine, Rounded
    <3>3. PICK e : e = card.gl /\ e = Engine(row)
      BY <1>2, <2>3
    <3>4. g % 10 = 0 => 10 * ((g + 5) \div 10) = g
      OBVIOUS
    <3>5. e = 0 \/ 10 * e = g \/ (g >= 2550 /\ e = 255)
      BY <3>1, <3>2, <3>3, <3>4
    <3>6. g = texts.gl
      BY <1>3, <3>1
    <3>7. card.gl = 0 \/ 10 * card.gl = texts.gl \/ (texts.gl >= 2550 /\ card.gl = 255)
      BY <3>3, <3>5, <3>6
    <3> QED BY <3>7 DEF PowerAgrees
  <2> QED BY <2>1, <2>2, <2>3
<1>10. row.yxqz # None => valid = 511 \/ DateFrom(ValidFrom, valid) = row.yxqz
  BY ValidAgrees DEF valid
<1>11. ScrapAgrees(card, texts)
  <2>1. CASE row.qzbfqz = None \/ valid = 511
    BY <1>2, <1>3, <2>1 DEF ScrapAgrees, Agree
  <2>2. CASE row.qzbfqz # None /\ valid # 511
    <3>1. row.yxqz # None /\ row.yxqz \in Dates /\ row.qzbfqz \in Nat
      BY <2>2, RowFields DEF Encodable
    <3>2. PICK q \in Nat, b \in Nat : q = row.qzbfqz /\ b = row.yxqz[1]
      BY <3>1, Pairs DEF Dates
    <3>3. ScrapYears(row) = IF q - b > 31 THEN 31 ELSE q - b
      BY <2>2, <3>1, <3>2 DEF ScrapYears
    <3>4. card.qzbfqz = b + ScrapYears(row)
      BY <1>2, <1>10, <2>2, <3>1, <3>2
    <3>5. CASE q - b > 31
      <4>1. texts.yxqz # None /\ texts.qzbfqz - texts.yxqz[1] >= 31
        BY <1>3, <3>1, <3>2, <3>5
      <4> QED BY <4>1, Zenon DEF ScrapAgrees
    <3>6. CASE ~(q - b > 31)
      <4>1. card.qzbfqz = q
        BY <3>3, <3>4, <3>6
      <4>2. card.qzbfqz = texts.qzbfqz
        BY <1>3, <3>2, <4>1
      <4> QED BY <4>2 DEF ScrapAgrees, Agree
    <3> QED BY <3>5, <3>6
  <2> QED BY <2>1, <2>2
<1>12. DateAgrees(card, texts, "yxqz")
  <2>1. card.yxqz = None \/ texts.yxqz = None \/ card.yxqz = texts.yxqz
    BY <1>2, <1>3, <1>10
  <2> QED BY <2>1 DEF DateAgrees, BeginsWith
<1>13. DateAgrees(card, texts, "ccrq")
  <2>1. card.ccrq = None \/ texts.ccrq = None \/ card.ccrq = texts.ccrq
    BY <1>2, <1>3, MadeAgrees
  <2> QED BY <2>1 DEF DateAgrees, BeginsWith
<1>14. KindsAgree(card, texts, Kinds)
  <2> SUFFICES ASSUME NEW f \in Kinds
               PROVE  \E c \in card[f] : <<texts[f], c>> \in Within[f]
    BY DEF KindsAgree
  <2>1. row[f] \in Codes[f]
    BY RowFields DEF Kinds
  <2>2. row[f] \in card[f] /\ <<row[f], row[f]>> \in Within[f]
    BY <1>1, <2>1, ContentAssumption DEF Entry
  <2>3. texts[f] = row[f]
    BY <1>3 DEF Kinds
  <2> QED BY <2>2, <2>3
<1>15. VehicleAgrees(card, texts)
  BY <1>8, <1>9, <1>11, <1>12, <1>13, <1>14 DEF VehicleAgrees
<1> QED BY <1>15 DEF card, texts
(* The text of a plate is not empty, and the codes are not.                *)
LEMMA PlateTextType ==
  ASSUME NEW row \in Rows
  PROVE  /\ <<row.fzjg, row.fpdh, row.xh>> # None /\ row.hpzl # None /\ row.syxz # None
         /\ row.cllx # None
<1>1. /\ row.fzjg \in Nat /\ row.fpdh \in Nat /\ row.hpzl \in Nat /\ row.syxz \in Nat
      /\ row.cllx \in Nat
  <2>1. row.fzjg \in 0 .. 63 /\ row.fpdh \in 0 .. 25
    BY RowFields
  <2>2. Codes.hpzl \subseteq Nat /\ Codes.syxz \subseteq Nat /\ Codes.cllx \subseteq Nat
    BY ContentAssumption DEF Kinds
  <2>3. row.hpzl \in Codes.hpzl /\ row.syxz \in Codes.syxz /\ row.cllx \in Codes.cllx
    BY RowFields
  <2> QED BY <2>1, <2>2, <2>3
<1>2. row.xh \in Seq(Nat)
  <2>1. row.xh \in Seq(0 .. Radix - 1)
    BY RowFields
  <2>2. 0 .. Radix - 1 \subseteq Nat
    BY RadixFacts
  <2>3. \A S, T : S \subseteq T => Seq(S) \subseteq Seq(T)
    OBVIOUS
  <2> QED BY <2>1, <2>2, <2>3, Zenon
<1>3. <<row.fzjg, row.fpdh, row.xh>> \in PlateTexts
  BY <1>1, <1>2 DEF PlateTexts
<1> QED BY <1>1, <1>3, ContentAssumption
=============================================================================
