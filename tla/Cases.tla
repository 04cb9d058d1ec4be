-------------------------------- MODULE Cases --------------------------------
(***************************************************************************)
(* The record of one call of a body (_prop/engine/case.py) and the         *)
(* providers of its values: the random source, a replay, the bytes of a    *)
(* fuzzer (_prop/engine/bridge.py), an edge case, and given values.        *)
(*                                                                         *)
(* An operation takes a case and returns a result: the case after it, the  *)
(* value, and how it ended.  The random source is a stream of words; after *)
(* the last word it gives zeros.                                           *)
(***************************************************************************)
EXTENDS Choices

CONSTANTS MaxChoices,   \* the cap of the cost of a case (MAX_CHOICES)
          ByteBase,     \* the number of values of one byte of a fuzzer
          UnboundedLengths  \* the longest sequence of a fuzzer beyond its minimum

ASSUME CaseAssumption == MaxChoices \in Nat /\ ByteBase \in Nat /\ ByteBase > 1

NoEdge == -1
NoValue == <<"no value", 0>>

Request(bounds, edge, reuse) == [bounds |-> bounds, edge |-> edge, reuse |-> reuse]

Result(c, v) == [c |-> c, v |-> v, end |-> "value"]
Ended(c, how) == [c |-> c, v |-> NoValue, end |-> how]

\* The result of Next on the value of r, or r when its body has ended.
Then(r, Next(_, _)) == IF r.end = "value" THEN Next(r.c, r.v) ELSE r

-----------------------------------------------------------------------------
(* The random source *)

Word(p) == IF p.at <= Len(p.words) THEN p.words[p.at] ELSE 0
Read(p) == [p EXCEPT !.at = @ + 1]
Coin(word) == word % 2 = 1
Below(word, n) == word % n

\* One draw of each kind gives any value of the bounds.  A value that the bounds
\* force does not read the source.
DrawInteger(b, p) ==
  IF b.lo = b.hi THEN [v |-> b.lo, p |-> p]
  ELSE [v |-> AtRank(b, Below(Word(p), b.hi - b.lo + 1)), p |-> Read(p)]

FloatsBelow(b, x) == {y \in FloatDraws(b) : KeyLess(FloatKey(y), FloatKey(x))}

DrawFloat(b, p) ==
  LET rank == Below(Word(p), Cardinality(FloatDraws(b))) IN
  [v |-> CHOOSE x \in FloatDraws(b) : Cardinality(FloatsBelow(b, x)) = rank, p |-> Read(p)]

DrawFlag(b, v, p) == DrawInteger(FlagBounds(Len(v), b.min, b.max), p)

RECURSIVE Grown(_, _, _)
GrownBy(b, v, item) == Grown(b, Append(v, item.v), DrawFlag(b, Append(v, item.v), item.p))
Grown(b, v, flag) ==
  IF flag.v = 0 THEN [v |-> v, p |-> flag.p]
  ELSE GrownBy(b, v, DrawInteger(IntegerBounds(0, b.k - 1), flag.p))

\* A flag before each element, and then the element.
DrawSequence(b, p) == Grown(b, <<>>, DrawFlag(b, <<>>, p))

Drawn(b, p) ==
  CASE b.kind = "integer" -> DrawInteger(b, p)
    [] b.kind = "float"   -> DrawFloat(b, p)
    [] OTHER              -> DrawSequence(b, p)

-----------------------------------------------------------------------------
(* The providers *)

Generating(words) == [is |-> "generating", words |-> words, at |-> 1, earlier |-> <<>>]
Replaying(choices) == [is |-> "replaying", choices |-> choices]
Bridging(bytes) == [is |-> "bridging", bytes |-> bytes, at |-> 0]
EdgeOf(boundary) == [is |-> "edge", boundary |-> boundary]
Valuing(values) == [is |-> "valuing", values |-> values, at |-> 0]

Forced(b) == b.kind = "integer" /\ b.lo = b.hi

\* The reusable values of the choices before index.  A rewind removes the others.
Remembered(p, index) == SelectSeq(p.earlier, LAMBDA e : e.index < index)

\* A draw, or one of the same values when the source says so.
DrawnOrReused(b, p, same) ==
  IF same # <<>> /\ Coin(Word(p))
  THEN [v |-> same[1 + Below(Word(Read(p)), Len(same))].value, p |-> Read(Read(p))]
  ELSE Drawn(b, IF same = <<>> THEN p ELSE Read(p))

Remembering(b, index, drawn) ==
  [drawn EXCEPT !.p.earlier = Append(@, [bounds |-> b, index |-> index, value |-> drawn.v])]

\* A reusable draw takes an earlier value of the same bounds at some odds.
GeneratingValue(p, request, index) ==
  LET b      == request.bounds
      forgot == [p EXCEPT !.earlier = Remembered(p, index)]
  IN IF ~request.reuse \/ Forced(b) THEN Drawn(b, forgot)
     ELSE Remembering(b, index,
            DrawnOrReused(b, forgot, SelectSeq(forgot.earlier, LAMBDA e : e.bounds = b)))

\* A choice past the last recorded one is the target.
ReplayingValue(p, request, index) ==
  [v |-> IF index >= Len(p.choices) THEN request.bounds.target
         ELSE Coerce(request.bounds, p.choices[index + 1]),
   p |-> p]

EdgeValue(p, request) ==
  LET b == request.bounds IN
  [v |-> IF request.edge # NoEdge
         THEN IF IntegerAdmits(b, request.edge) THEN request.edge ELSE b.target
         ELSE CASE b.kind = "integer" -> IntegerAt(b, p.boundary)
                [] b.kind = "float"   -> FloatAt(b, p.boundary)
                [] OTHER              -> SequenceAt(b, p.boundary),
   p |-> p]

\* The number of bytes that cover 0 .. span.
Width(span) == Min({n \in 0 .. span : ByteBase ^ n > span})

\* The next bytes, the least significant first, or none when too few are left.
Take(p, count) ==
  LET sum[i \in 0 .. count] == IF i = 0 THEN 0 ELSE sum[i - 1] + p.bytes[p.at + i] * ByteBase ^ (i - 1) IN
  IF count > Len(p.bytes) - p.at THEN [u |-> {}, p |-> [p EXCEPT !.at = Len(p.bytes)]]
  ELSE [u |-> {sum[count]}, p |-> [p EXCEPT !.at = @ + count]]

BridgedBelow(p, span) ==
  LET taken == Take(p, Width(span)) IN [taken EXCEPT !.u = {u % (span + 1) : u \in @}]

IntegerOf(b, offset) ==
  [v |-> IF offset.u = {} THEN b.target ELSE b.lo + Max(offset.u), p |-> offset.p]

BridgingInteger(p, b) == IntegerOf(b, BridgedBelow(p, b.hi - b.lo))

\* The bits of a float, as an offset among the floats and NaN.
FloatOf(b, bits) ==
  LET v == IF Max(bits.u) = 0 THEN NaN ELSE Max(bits.u) - ByteBase \div 2 IN
  [v |-> IF bits.u = {} THEN b.target ELSE FloatCoerce(b, <<"float", v>>), p |-> bits.p]

BridgingFloat(p, b) ==
  IF b.lo = b.hi /\ b.lo # 0 /\ ~b.nan THEN [v |-> b.target, p |-> p] ELSE FloatOf(b, Take(p, 1))

\* The elements until there are count of them or the bytes have ended.
RECURSIVE Elements(_, _, _, _)
WithElement(b, v, count, e) ==
  IF e.u = {} THEN [v |-> v, p |-> e.p] ELSE Elements(b, e.p, Append(v, Max(e.u)), count)
Elements(b, p, v, count) ==
  IF Len(v) = count THEN [v |-> v, p |-> p] ELSE WithElement(b, v, count, BridgedBelow(p, b.k - 1))

Padded(b, read) == [v |-> read.v \o [i \in 1 .. b.min - Len(read.v) |-> 0], p |-> read.p]

SequenceOf(b, extra) ==
  IF extra.u = {} THEN [v |-> b.target, p |-> extra.p]
  ELSE Padded(b, Elements(b, extra.p, <<>>, b.min + Max(extra.u)))

\* The length and then the elements until the bytes end.
BridgingSequence(p, b) ==
  SequenceOf(b, BridgedBelow(p, IF b.max = NoMax THEN UnboundedLengths ELSE b.max - b.min))

BridgingValue(p, request) ==
  LET b == request.bounds IN
  CASE b.kind = "integer" -> BridgingInteger(p, b)
    [] b.kind = "float"   -> BridgingFloat(p, b)
    [] OTHER              -> BridgingSequence(p, b)

\* The value of a provider without choices is the target.
ValueOf(p, request, index) ==
  CASE p.is = "generating" -> GeneratingValue(p, request, index)
    [] p.is = "replaying"  -> ReplayingValue(p, request, index)
    [] p.is = "bridging"   -> BridgingValue(p, request)
    [] p.is = "edge"       -> EdgeValue(p, request)
    [] OTHER               -> [v |-> request.bounds.target, p |-> p]

-----------------------------------------------------------------------------
(* The case *)

NewCase(provider) ==
  [provider |-> provider, cost |-> 0, choices |-> <<>>, requests |-> <<>>, spans |-> <<>>,
   open |-> <<>>, draws |-> <<>>, walk |-> <<>>, used |-> <<>>, leaves |-> <<>>]

Cost(b, v) == IF b.kind = "sequence" THEN 1 + Len(v) ELSE 1

\* The case after it was given a value for a request.
Chosen(c, request, given) ==
  LET b     == request.bounds
      cost  == c.cost + Cost(b, given.v)
      asked == [c EXCEPT !.provider = given.p, !.cost = cost]
  IN IF cost > MaxChoices THEN Ended(asked, "overrun")
     ELSE Result([asked EXCEPT !.choices = Append(@, ChoiceOf(b, given.v)),
                               !.requests = Append(@, request),
                               !.walk = Append(@, [index |-> Len(c.choices), bounds |-> b,
                                                   value |-> given.v])],
                 given.v)

\* The value for a request.  A sequence whose minimum is above the cap ends the
\* case before its draw.
Choose(c, request) ==
  IF request.bounds.kind = "sequence" /\ c.cost + 1 + request.bounds.min > MaxChoices
  THEN Ended(c, "overrun")
  ELSE Chosen(c, request, ValueOf(c.provider, request, Len(c.choices)))

Integer(c, b, edge, reuse) == Choose(c, Request(b, edge, reuse))
Sequence(c, b) == Choose(c, Request(b, NoEdge, FALSE))

\* open, with the first choice of the span
Open(c, label, start) ==
  [c EXCEPT !.spans = Append(@, [label |-> label, start |-> start, end |-> start,
                                 depth |-> Len(c.open),
                                 parent |-> IF c.open = <<>> THEN 0 ELSE Last(c.open)]),
            !.open = Append(@, Len(c.spans) + 1)]

Close(c) ==
  [c EXCEPT !.open = Front(@), !.spans[Last(c.open)].end = Len(c.choices)]

\* A body in a span.  The span closes however the body ends.
SpanFrom(c, label, start, Body(_)) ==
  LET r == Body(Open(c, label, start)) IN [r EXCEPT !.c = Close(@)]

Span(c, label, Body(_)) == SpanFrom(c, label, Len(c.choices), Body)

MarkOf(c) == [choices |-> Len(c.choices), spans |-> Len(c.spans), draws |-> Len(c.draws)]

\* MUTANT: a rewind leaves the spans of the attempt.
RewindWithoutSpans(c, mark) ==
  [c EXCEPT !.choices = SubSeq(@, 1, mark.choices), !.requests = SubSeq(@, 1, mark.choices),
            !.draws = SubSeq(@, 1, mark.draws)]

Rewind(c, mark) ==
  [c EXCEPT !.choices = SubSeq(@, 1, mark.choices), !.requests = SubSeq(@, 1, mark.choices),
            !.spans = SubSeq(@, 1, mark.spans), !.draws = SubSeq(@, 1, mark.draws)]

\* The record after the first n steps of the walk.
RecordAt(c, n) ==
  FoldLeft(LAMBDA record, w : Append(SubSeq(record, 1, w.index), ChoiceOf(w.bounds, w.value)),
           <<>>, SubSeq(c.walk, 1, n))

Assume(c, condition, v) == IF condition THEN Result(c, v) ELSE Ended(c, "rejected")

==============================================================================
