------------------------------- MODULE Choices -------------------------------
(***************************************************************************)
(* The choices of a case and their bounds (_prop/engine/choice.py,         *)
(* float.py, order.py, edge.py) and what a draw returns for bounds         *)
(* (_prop/engine/draw.py, source.py).                                      *)
(*                                                                         *)
(* A choice is <<kind, value>>.  A float is a fixed-point number: n stands *)
(* for n/4, a value of width 32 has one fractional bit and one of width 64 *)
(* two, and -Infinite and Infinite are the infinities.  A sequence is a    *)
(* tuple of elements from 0 on.                                            *)
(***************************************************************************)
EXTENDS Integers, Sequences, FiniteSetsExt, SequencesExt

CONSTANTS Infinite,   \* the float that is the positive infinity
          NaN,        \* the number that stands for a NaN
          NoMax       \* the maximum of a collection without one

ASSUME FloatAssumption == /\ Infinite \in Nat /\ Infinite % 4 = 0 /\ Infinite > 0
                          /\ NaN \in Int /\ NaN > Infinite

ASSUME NoMaxAssumption == NoMax \in Nat

Abs(n) == IF n < 0 THEN -n ELSE n
Lesser(m, n) == IF m < n THEN m ELSE n
Greater(m, n) == IF m < n THEN n ELSE m
CeilDiv(m, n) == -((-m) \div n)

-----------------------------------------------------------------------------
(* Integers *)

IntegerTarget(lo, hi) == IF lo <= 0 /\ 0 <= hi THEN 0 ELSE IF lo > 0 THEN lo ELSE hi

IntegerBounds(lo, hi) ==
  [kind |-> "integer", lo |-> lo, hi |-> hi, target |-> IntegerTarget(lo, hi)]

Bit == IntegerBounds(0, 1)
Off == IntegerBounds(0, 0)

IntegerKey(b, v) == <<Abs(v - b.target), IF v < b.target THEN 1 ELSE 0>>

Shorter(b) == Lesser(b.hi - b.target, b.target - b.lo)

\* The values on both sides of the target alternate until the shorter side ends.
Rank(b, v) ==
  LET distance == Abs(v - b.target) IN
  IF distance > Shorter(b) THEN Shorter(b) + distance
  ELSE IF v > b.target THEN 2 * distance - 1 ELSE 2 * distance

AtRank(b, rank) ==
  LET above    == b.hi - b.target > b.target - b.lo
      distance == IF rank > 2 * Shorter(b) THEN rank - Shorter(b) ELSE (rank + 1) \div 2
      up       == IF rank > 2 * Shorter(b) THEN above ELSE rank % 2 = 1
  IN IF up THEN b.target + distance ELSE b.target - distance

IntegerAdmits(b, v) == b.lo <= v /\ v <= b.hi

IntegerCoerce(b, choice) ==
  IF choice[1] = "integer" /\ IntegerAdmits(b, choice[2]) THEN choice[2] ELSE b.target

IntegerEdges(b) ==
  {v \in {b.target, b.lo, b.hi, b.target + 1, b.target - 1} : IntegerAdmits(b, v)}

\* An edge value, or an offset from the target that stays under one of the caps.
IntegerDraws(b, caps) ==
  IF b.lo = b.hi THEN {b.lo}
  ELSE IntegerEdges(b)
       \cup (UNION {{b.target + o : o \in 0 .. Lesser(b.hi - b.target, cap - 1)} : cap \in caps})
       \cup (UNION {{b.target - o : o \in 0 .. Lesser(b.target - b.lo, cap - 1)} : cap \in caps})

-----------------------------------------------------------------------------
(* Floats *)

Representable(v, width) == width = 64 \/ v = NaN \/ v % 2 = 0

Spacing(width) == IF width = 64 THEN 1 ELSE 2

NextUp(v, width) == IF v \in {NaN, Infinite} THEN v ELSE v + Spacing(width)
NextDown(v, width) == -NextUp(-v, width)

\* Integers come first, then fractions by their bits, the infinities, and NaN.
FloatKey(v) ==
  LET negative == IF v < 0 THEN 1 ELSE 0
      bits     == IF v % 2 = 0 THEN 1 ELSE 2
  IN IF v = NaN THEN <<3>>
     ELSE IF Abs(v) = Infinite THEN <<2, negative>>
     ELSE IF v % 4 = 0 THEN <<0, Abs(v) \div 4, negative>>
     ELSE <<1, bits, (Abs(v) * 2 ^ bits) \div 4, negative>>

CeilScaled(v, bits) == CeilDiv(v * 2 ^ bits, 4)

SimplestIntegral(lo, hi) ==
  LET least == 4 * CeilScaled(lo, 0) IN {v \in {least} : v <= hi /\ v < Infinite}

\* The least odd numerator of each number of fractional bits.
SimplestFraction(lo, hi, width) ==
  LET Odd(n) == IF n % 2 = 0 THEN n + 1 ELSE n
      Of(bits) == Odd(CeilScaled(lo, bits)) * (4 \div 2 ^ bits)
      found == {bits \in 1 .. (IF width = 64 THEN 2 ELSE 1) : Of(bits) <= hi}
  IN IF found = {} THEN {} ELSE {Of(Min(found))}

SimplestPositive(lo, hi, width) ==
  IF lo = Infinite THEN {lo}
  ELSE IF SimplestIntegral(lo, hi) # {} THEN SimplestIntegral(lo, hi)
  ELSE SimplestFraction(lo, hi, width)

SimplestFloat(lo, hi, width) ==
  IF lo <= 0 /\ 0 <= hi THEN 0
  ELSE IF lo > 0 THEN CHOOSE v \in SimplestPositive(lo, hi, width) : TRUE
  ELSE -(CHOOSE v \in SimplestPositive(-hi, -lo, width) : TRUE)

FloatBounds(lo, hi, nan, width) ==
  [kind |-> "float", lo |-> lo, hi |-> hi, nan |-> nan, width |-> width,
   target |-> SimplestFloat(lo, hi, width)]

FloatAdmits(b, v) ==
  IF v = NaN THEN b.nan ELSE b.lo <= v /\ v <= b.hi /\ Representable(v, b.width)

FloatCoerce(b, choice) ==
  IF choice[1] = "float" /\ FloatAdmits(b, choice[2]) THEN choice[2] ELSE b.target

FloatEdges(b) ==
  {v \in {b.target, b.lo, b.hi, NextUp(b.target, b.width), NextDown(b.target, b.width)} :
     FloatAdmits(b, v)}
  \cup {v \in {NaN} : b.nan}

\* Any bits of the width, moved into the bounds, are a float of the bounds.
FromParts(b, v) ==
  IF v = NaN THEN IF b.nan THEN v ELSE b.target
  ELSE Lesser(Greater(v, b.lo), b.hi)

\* The integers that the bounds admit, as floats.
IntegralDraws(b) == {v \in b.lo .. b.hi : v % 4 = 0 /\ Abs(v) < Infinite}

FloatDraws(b) ==
  FloatEdges(b) \cup IntegralDraws(b)
  \cup {FromParts(b, v) : v \in {u \in (-Infinite .. Infinite) \cup {NaN} :
                                    Representable(u, b.width)}}

-----------------------------------------------------------------------------
(* Sequences *)

SequenceBounds(k, min, max) ==
  [kind |-> "sequence", k |-> k, min |-> min, max |-> max,
   target |-> [i \in 1 .. min |-> 0]]

SequenceAdmits(b, v) ==
  /\ Len(v) >= b.min
  /\ b.max = NoMax \/ Len(v) <= b.max
  /\ \A i \in DOMAIN v : 0 <= v[i] /\ v[i] < b.k

\* Elements outside the bounds become 0, and the length is cut or padded.
SequenceCoerce(b, choice) ==
  LET v    == choice[2]
      kept == IF b.max = NoMax THEN Len(v) ELSE Lesser(Len(v), b.max)
  IN IF choice[1] # "sequence" THEN b.target
     ELSE [i \in 1 .. Greater(kept, b.min) |->
             IF i <= kept /\ 0 <= v[i] /\ v[i] < b.k THEN v[i] ELSE 0]

-----------------------------------------------------------------------------
(* Any choice *)

ChoiceOf(b, v) == <<b.kind, v>>

Admits(b, choice) ==
  /\ choice[1] = b.kind
  /\ CASE b.kind = "integer" -> IntegerAdmits(b, choice[2])
       [] b.kind = "float"   -> FloatAdmits(b, choice[2])
       [] OTHER              -> SequenceAdmits(b, choice[2])

\* The recorded value fitted to the bounds.
Coerce(b, choice) ==
  CASE b.kind = "integer" -> IntegerCoerce(b, choice)
    [] b.kind = "float"   -> FloatCoerce(b, choice)
    [] OTHER              -> SequenceCoerce(b, choice)

ChoiceKey(b, v) ==
  CASE b.kind = "integer" -> <<0>> \o IntegerKey(b, v)
    [] b.kind = "float"   -> <<1>> \o FloatKey(v)
    [] OTHER              -> <<2, Len(v)>> \o v

\* The order of two keys: the first different element, or else the length.
KeyLess(a, b) ==
  LET n == Lesser(Len(a), Len(b))
      differ == {i \in 1 .. n : a[i] # b[i]}
  IN IF differ = {} THEN Len(a) < Len(b) ELSE a[Min(differ)] < b[Min(differ)]

\* The shortlex order of two sequences of keys.
Shortlex(a, b) ==
  LET differ == {i \in DOMAIN a : a[i] # b[i]} IN
  IF Len(a) # Len(b) THEN Len(a) < Len(b)
  ELSE differ # {} /\ KeyLess(a[Min(differ)], b[Min(differ)])

-----------------------------------------------------------------------------
(* Collections *)

\* The bounds of the decision whether a collection of count elements grows.
FlagBounds(count, min, max) ==
  IF count < min THEN IntegerBounds(1, 1)
  ELSE IF max # NoMax /\ count >= max THEN Off
  ELSE Bit

-----------------------------------------------------------------------------
(* Edge cases *)

Boundaries == <<"min", "max", "above", "below">>

IntegerAt(b, boundary) ==
  LET v == CASE boundary = "min" -> b.lo [] boundary = "max" -> b.hi
             [] boundary = "above" -> b.target + 1 [] OTHER -> b.target - 1
  IN IF IntegerAdmits(b, v) THEN v ELSE b.target

FloatAt(b, boundary) ==
  LET v == CASE boundary = "min" -> b.lo [] boundary = "max" -> b.hi
             [] boundary = "above" -> NextUp(b.target, b.width)
             [] OTHER -> NextDown(b.target, b.width)
  IN IF FloatAdmits(b, v) THEN v ELSE b.target

SequenceAt(b, boundary) ==
  LET length == IF b.max = NoMax THEN Greater(b.min, 1) ELSE Lesser(Greater(b.min, 1), b.max)
      e == CASE boundary = "min" -> 0 [] boundary = "max" -> b.k - 1
             [] boundary = "above" -> 1 [] OTHER -> -1
  IN [i \in 1 .. length |-> IF 0 <= e /\ e < b.k THEN e ELSE 0]

==============================================================================
