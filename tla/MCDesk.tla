------------------------------- MODULE MCDesk -------------------------------
(***************************************************************************)
(* Settings for Desk: two with ordinary vehicles, long enough for answers  *)
(* to be taken by the wrong command, and one for each unusual vehicle,     *)
(* just long enough to write it and check another against it.              *)
(***************************************************************************)
EXTENDS Desk, TLC

CONSTANTS c1, c2, v1, v2

MCNow == <<2017, 12>>
(* Plates 2 and 3, usages 2 and 3, types 100 to 102, and 200 and 201 share *)
(* a number; 101 is a bus behind one that is not.  The names of plate 15,  *)
(* usage 15 and type 511 contain others.                                   *)
MCCodes ==
  [hpzl |-> {0, 2, 3, 15}, syxz |-> {1, 2, 3, 15}, cllx |-> {0, 100, 101, 102, 200, 201, 511}]
MCPacked ==
  [hpzl |-> [c \in MCCodes.hpzl |-> IF c = 3 THEN 2 ELSE c],
   syxz |-> [c \in MCCodes.syxz |-> IF c = 3 THEN 2 ELSE c],
   cllx |-> [c \in MCCodes.cllx |->
              IF c \in {101, 102} THEN 100 ELSE IF c = 201 THEN 200 ELSE c]]
MCWithin ==
  LET Itself(f) == {<<c, c>> : c \in MCCodes[f]} IN
  [hpzl |-> Itself("hpzl") \cup {<<2, 15>>}, syxz |-> Itself("syxz") \cup {<<1, 15>>},
   cllx |-> Itself("cllx") \cup {<<100, 511>>}]

MCNumber == (c1 :> <<11, 2^28 - 1>>) @@ (c2 :> <<63, 0>>)

Ordinary ==
  [fzjg |-> 11, fpdh |-> 0, xh |-> <<1, 2, 3, 0, 7>>, hpzl |-> 2, syxz |-> 1,
   ccrq |-> <<2010, 5>>, cllx |-> 100, yxqz |-> <<2018, 5>>, qzbfqz |-> 2025,
   hdzk |-> 5, zzl |-> 1500, csys |-> 3, pl |-> 1600, gl |-> 850]

OtherPlate == [Ordinary EXCEPT !.xh = <<1, 2, 3, 0, 6>>]

With(f, values) == {[Ordinary EXCEPT ![f] = x] : x \in values}
OnPower(gl) == [Ordinary EXCEPT !.pl = None, !.gl = gl]
Bus(seats) == [Ordinary EXCEPT !.cllx = 200, !.hdzk = seats]

(* Both sides of every edge of every field.                                *)
Unusual ==
  UNION {
    With("fzjg", {1, 31, 63}), With("fpdh", {25}),
    With("xh", {<<0, 0, 0, 0>>, <<9, 9, 9, 9>>, <<0, 0, 0, 0, 0>>, <<9, 9, 9, 9, 9>>,
                <<0, 0, 0, 0, 0, 0>>, <<9, 9, 9, 9, 9, 9>>}),
    With("hpzl", {0, 3, 15}), With("syxz", {2, 3, 15}), With("cllx", {0, 101, 102, 511}),
    With("ccrq", {None, <<1989, 12>>, <<1990, 1>>, <<1990, 12>>, <<2017, 12>>}),
    With("yxqz", {<<2012, 12>>, <<2013, 1>>, <<2024, 12>>}),
    With("qzbfqz", {None, 2018, 2049, 2050, 2080}),
    With("zzl", {49, 50, 102249, 102250, 102299, 102300, 102349, 102350}),
    With("csys", {None, 1, 15}),
    With("pl", {1, 2, 49, 50, 25549, 25550, 25600}),
    {OnPower(g) : g \in {None, 0, 10, 11, 855, 2540, 2550, 2555, 9000}},
    {Bus(n) : n \in {0, 5, 1023, 1024}}, {[Bus(5) EXCEPT !.cllx = 201]}}

Setting(type, u, v, made, edits, commands, slow) ==
  [type |-> type, rows |-> (v1 :> u) @@ (v2 :> v), tasks |-> made, edits |-> edits,
   commands |-> commands, late |-> slow]

SubmittedTask == [veh |-> v1, tid |-> None, st |-> "SUBMIT"]

SlowCase == Setting("NEW", Ordinary, OtherPlate, <<SubmittedTask>>, TRUE, 6, 2)
ModifyCase == Setting("MODIFY", Ordinary, OtherPlate, <<>>, TRUE, 6, 1)
UnusualCases == {Setting("NEW", u, Ordinary, <<>>, FALSE, 3, 0) : u \in Unusual}

MCCases == {SlowCase, ModifyCase} \cup UnusualCases

(* Two answers late at a time, and a card that may be bound anew.          *)
TwoLateCases == {Setting("MODIFY", Ordinary, OtherPlate, <<>>, TRUE, 8, 2)}
OneNumber == (c1 :> <<11, 2^28 - 1>>)
=============================================================================
