----------------------------- MODULE Generators ------------------------------
(***************************************************************************)
(* How the generators decode a value from a case (_prop/engine/            *)
(* generator.py, collection.py, pattern.py, value.py), and the generators  *)
(* of the shapes (_prop/engine/shape.py).                                  *)
(*                                                                         *)
(* A generator is a record whose field is names its class.  A value is     *)
(* <<tag, content>>.  Functions of a caller are named, and the constants   *)
(* say what they do.                                                       *)
(***************************************************************************)
EXTENDS Cases

CONSTANTS Named,            \* the generators of definitions, and of deferred ones
          Recursives,       \* the base, the extension and max_leaves of each recursive
          Zones,            \* the zones: the changes of each, <<at, before, after>>
          Keeps(_, _),      \* whether a predicate keeps a value
          Applied(_, _),    \* the value of a function of a map or a composite
          BoundTo(_, _),    \* the generator that the function of a bind returns
          FilterAttempts,   \* _FILTER_ATTEMPTS
          MaxDiscards,      \* _MAX_DISCARDS
          Budget,           \* the nodes of one value of a recursive shape (_BUDGET)
          Endless,          \* the nodes past which a decode does not end
          Half,             \* the number of values of one half of a wide integer
          Day               \* the number of seconds of a day

ASSUME GeneratorAssumption == FilterAttempts > 0 /\ MaxDiscards > 0 /\ Endless > Budget

Null == <<"null", 0>>

\* The text of a value.  The entries of a map have no order.
RECURSIVE Canonical(_)
CanonicalPairs(pairs) == [i \in DOMAIN pairs |-> <<pairs[i][1], Canonical(pairs[i][2])>>]
Canonical(v) ==
  CASE v[1] = "list"    -> <<"list", [i \in DOMAIN v[2] |-> Canonical(v[2][i])]>>
    [] v[1] = "map"     -> <<"map", {<<Canonical(e[1]), Canonical(e[2])>> : e \in Range(v[2])}>>
    [] v[1] = "record"  -> <<"record", CanonicalPairs(v[2])>>
    [] v[1] = "variant" -> <<"variant", <<v[2][1]>> \o [i \in 1 .. Len(v[2]) - 1 |-> Canonical(v[2][2])]>>
    [] OTHER            -> v

\* The result with F of its value.
OnValue(r, F(_)) == IF r.end = "value" THEN [r EXCEPT !.v = F(r.v)] ELSE r

Tagged(tag, r) == OnValue(r, LAMBDA v : <<tag, v>>)

RECURSIVE Decode(_, _)

-----------------------------------------------------------------------------
(* Scalars *)

DecodeInteger(g, c) ==
  Tagged("int", Span(c, "integer", LAMBDA in : Integer(in, g.bounds, NoEdge, TRUE)))

DecodeFloat(g, c) ==
  Tagged("float", Span(c, "float", LAMBDA in : Choose(in, Request(g.bounds, NoEdge, FALSE))))

DecodeBool(g, c) ==
  Tagged("bool", Span(c, "boolean", LAMBDA in : Choose(in, Request(Bit, NoEdge, FALSE))))

DecodeJust(g, c) == Span(c, "just", LAMBDA in : Result(in, g.value))

IndexOf(s) == IntegerBounds(0, Len(s) - 1)

DecodeSampled(g, c) ==
  OnValue(Span(c, "sampled-from", LAMBDA in : Integer(in, IndexOf(g.values), 0, FALSE)),
          LAMBDA i : g.values[i + 1])

DecodeText(g, c) == Tagged("text", Span(c, "string", LAMBDA in : Sequence(in, g.bounds)))

DecodeBytes(g, c) == Tagged("bytes", Span(c, "bytes", LAMBDA in : Sequence(in, g.bounds)))

-----------------------------------------------------------------------------
(* Branches *)

DecodeOneOf(g, c) ==
  Span(c, "one-of", LAMBDA in :
    Then(Integer(in, IndexOf(g.of), 0, FALSE), LAMBDA d, i : Decode(g.of[i + 1], d)))

\* The value in progress of a recursive shape has used its budget.
Exhausted(c) == c.used # <<>> /\ Last(c.used) >= Budget

\* An exit of a shape forces the presence choice to absent.
DecodeOptional(g, c) ==
  Span(c, "optional", LAMBDA in :
    Then(Integer(in, IF g.exits /\ Exhausted(c) THEN Off ELSE Bit, 1, FALSE),
         LAMBDA d, i : IF i = 1 THEN Decode(g.of, d) ELSE Result(d, Null)))

-----------------------------------------------------------------------------
(* Collections *)

\* The decision to grow a collection of count elements.
More(c, count, g, stopped) ==
  Choose(c, Request(FlagBounds(count, g.min, IF stopped THEN count ELSE g.max),
                    IF count = 0 THEN 1 ELSE 0, FALSE))

RECURSIVE Pieces(_, _)

\* One element, one entry, or one repetition of a pattern.
Item(g, c) ==
  CASE g.is = "list" -> Decode(g.of, c)
    [] g.is = "dict" -> Then(Decode(g.key, c), LAMBDA d, k :
                          OnValue(Decode(g.of, d), LAMBDA v : <<k, v>>))
    [] OTHER         -> Pieces(g.of, c)

Keyed(g) == g.is = "dict" \/ (g.is = "list" /\ g.unique)
KeyOf(g, item) == Canonical(IF g.is = "dict" THEN item[1] ELSE item)
SeenIn(g, items, item) == \E i \in DOMAIN items : KeyOf(g, items[i]) = KeyOf(g, item)

\* A duplicate is discarded, and several in a row end the collection.
RECURSIVE Collect(_, _, _, _)
Collect(g, c, items, discards) ==
  LET stopped == g.exits /\ Len(items) >= g.min /\ Exhausted(c)
      label   == IF g.is = "dict" THEN "entry" ELSE "element"
  IN Then(More(c, Len(items), g, stopped), LAMBDA d, flag :
       IF flag = 0 THEN Result(d, items)
       ELSE Then(SpanFrom(d, label, Len(c.choices), LAMBDA in : Item(g, in)), LAMBDA e, item :
              IF ~Keyed(g) \/ ~SeenIn(g, items, item) THEN Collect(g, e, Append(items, item), 0)
              ELSE IF discards + 1 < MaxDiscards THEN Collect(g, e, items, discards + 1)
              ELSE Assume(e, Len(items) >= g.min, items)))

DecodeList(g, c) == Tagged("list", Span(c, "list", LAMBDA in : Collect(g, in, <<>>, 0)))

DecodeDict(g, c) == Tagged("map", Span(c, "dict", LAMBDA in : Collect(g, in, <<>>, 0)))

-----------------------------------------------------------------------------
(* Patterns *)

\* The members of a class in order, without repetitions.
ClassOf(ranges) ==
  [is |-> "class",
   members |-> SetToSortSeq(UNION {r[1] .. r[2] : r \in ranges}, LAMBDA x, y : x < y)]

PiecesInOrder(items, c) ==
  FoldLeft(LAMBDA r, item : Then(r, LAMBDA d, out :
             OnValue(Pieces(item, d), LAMBDA chars : out \o chars)),
           Result(c, <<>>), items)

\* The characters that a piece appends.
Pieces(p, c) ==
  CASE p.is = "literal"     -> Result(c, <<p.char>>)
    [] p.is = "class"       -> OnValue(Integer(c, IndexOf(p.members), NoEdge, FALSE),
                                       LAMBDA i : <<p.members[i + 1]>>)
    [] p.is = "sequence"    -> PiecesInOrder(p.items, c)
    [] p.is = "alternation" -> Span(c, "alternation", LAMBDA in :
                                 Then(Integer(in, IndexOf(p.branches), 0, FALSE),
                                      LAMBDA d, i : Pieces(p.branches[i + 1], d)))
    [] p.is = "repeat"      -> OnValue(Span(c, "repeat", LAMBDA in : Collect(p, in, <<>>, 0)),
                                       LAMBDA parts : FlattenSeq(parts))

DecodeMatching(g, c) ==
  Tagged("text", Span(c, "string-matching", LAMBDA in : Pieces(g.piece, in)))

-----------------------------------------------------------------------------
(* Generators of other generators *)

Swapped(s, i, j) == [s EXCEPT ![i] = s[j], ![j] = s[i]]

DecodePermutation(g, c) ==
  LET last == Len(g.values) - 1
      Swap(r, i) == Then(r, LAMBDA d, ordered :
                      OnValue(Integer(d, IntegerBounds(i, last), NoEdge, FALSE),
                              LAMBDA j : Swapped(ordered, i + 1, j + 1)))
  IN Tagged("list", Span(c, "permutation", LAMBDA in :
       FoldLeft(Swap, Result(in, g.values), [i \in 1 .. last |-> i - 1])))

RECURSIVE Attempts(_, _, _)
Attempts(g, c, left) ==
  Then(Span(c, "filter", LAMBDA in : Decode(g.of, in)), LAMBDA d, v :
    IF left = 1 THEN Assume(d, Keeps(g.keep, v), v)
    ELSE IF Keeps(g.keep, v) THEN Result(d, v)
    ELSE Attempts(g, Rewind(d, MarkOf(c)), left - 1))

DecodeFilter(g, c) == Attempts(g, c, FilterAttempts)

DecodeMapped(g, c) == OnValue(Decode(g.of, c), LAMBDA v : Applied(g.f, v))

DecodeBound(g, c) ==
  Span(c, "bind", LAMBDA in :
    Then(Decode(g.of, in), LAMBDA d, v : Decode(BoundTo(g.f, v), d)))

\* The case has a draw when it has a value.
Drew(r, label, span) ==
  IF r.end = "value"
  THEN [r EXCEPT !.c.draws = Append(@, [label |-> label, value |-> r.v, span |-> span])] ELSE r

\* A draw of a body or a composite: a given value, or one that is decoded.
Draw(c, g, label) ==
  LET p == c.provider
      stated == p.is = "valuing" /\ p.at < Len(p.values)
  IN Drew(IF stated THEN Result([c EXCEPT !.provider.at = @ + 1], p.values[p.at + 1]) ELSE Decode(g, c),
          label, Len(c.spans) + 1)

\* The draws of several generators in order, as one list.
DrawAll(gens, c) ==
  FoldLeft(LAMBDA r, g : Then(r, LAMBDA d, vs : OnValue(Draw(d, g, "draw"), LAMBDA v : Append(vs, v))),
           Result(c, <<>>), gens)

DecodeComposite(g, c) ==
  OnValue(Span(c, "composite", LAMBDA in : DrawAll(g.of, in)),
          LAMBDA vs : Applied(g.f, <<"list", vs>>))

DecodeDeferred(g, c) == Decode(Named[g.name], c)

-----------------------------------------------------------------------------
(* Recursive generators *)

\* The place of the innermost leaf count of a recursive.
LeavesOf(c, name) == Max({i \in DOMAIN c.leaves : c.leaves[i].name = name})

CountLeaf(c, name) == [c EXCEPT !.leaves[LeavesOf(c, name)].count = @ + 1]

\* One position: a leaf from the base, or the extension.
DecodePosition(g, c) ==
  LET owner == Recursives[g.name]
      exhausted == c.leaves[LeavesOf(c, g.name)].count >= owner.max
  IN Span(c, "recursive", LAMBDA in :
       Then(Integer(in, IF exhausted THEN Off ELSE Bit, 0, FALSE), LAMBDA d, branch :
         IF branch = 1 THEN Decode(owner.extend, d)
         ELSE Decode(owner.base, CountLeaf(d, g.name))))

\* The leaf count of each value starts at zero.
DecodeRecursive(g, c) ==
  LET begun == [c EXCEPT !.leaves = Append(@, [name |-> g.name, count |-> 0])]
      r == DecodePosition(g, begun)
  IN [r EXCEPT !.c.leaves = Front(@)]

-----------------------------------------------------------------------------
(* Shapes *)

DecodeRoot(g, c) ==
  LET r == Decode(g.of, [c EXCEPT !.used = Append(@, 0)]) IN [r EXCEPT !.c.used = Front(@)]

\* A ref to a definition that can refer to itself counts one node.
Spend(c) == [c EXCEPT !.used = [@ EXCEPT ![Len(@)] = @ + 1]]

DecodeRef(g, c) ==
  IF g.cyclic /\ Last(c.used) >= Endless THEN Ended(c, "endless")
  ELSE Decode(Named[g.name], IF g.cyclic THEN Spend(c) ELSE c)

DecodeRecord(g, c) ==
  Tagged("record", Span(c, "record", LAMBDA in :
    FoldLeft(LAMBDA r, field : Then(r, LAMBDA d, values :
               OnValue(Decode(field[2], d), LAMBDA v : Append(values, <<field[1], v>>))),
             Result(in, <<>>), g.fields)))

\* An exit forces the first variant that does not refer back.
DecodeEnum(g, c) ==
  LET bounds == IF g.exit # NoEdge /\ Exhausted(c) THEN IntegerBounds(g.exit, g.exit)
                ELSE IndexOf(g.variants)
  IN Tagged("variant", Span(c, "enum", LAMBDA in :
       Then(Integer(in, bounds, 0, FALSE), LAMBDA d, i :
         LET variant == g.variants[i + 1] IN
         IF Len(variant) = 1 THEN Result(d, variant)
         ELSE OnValue(Decode(variant[2], d), LAMBDA v : <<variant[1], v>>))))

\* The bounds of the second choice of a shape of two choices.
SecondPart(first, lo, hi, top) ==
  IntegerBounds(IF first = lo[1] THEN lo[2] ELSE 0, IF first = hi[1] THEN hi[2] ELSE top)

Halves(n) == <<n \div Half, n % Half>>

\* Two choices, the second within the bounds of the first.
TwoParts(c, label, lo, hi, top) ==
  Span(c, label, LAMBDA in :
    Then(Integer(in, IntegerBounds(lo[1], hi[1]), NoEdge, TRUE), LAMBDA d, first :
      OnValue(Integer(d, SecondPart(first, lo, hi, top), NoEdge, TRUE),
              LAMBDA second : <<first, second>>)))

DecodeInt128(g, c) ==
  OnValue(TwoParts(c, "int", Halves(g.lo), Halves(g.hi), Half - 1),
          LAMBDA parts : <<"int", parts[1] * Half + parts[2]>>)

Fields(first, second, parts) ==
  <<"record", <<<<first, <<"int", parts[1]>>>>, <<second, <<"int", parts[2]>>>>>>>>

\* An instant at seconds does not have a second choice.
DecodeInstant(g, c) ==
  OnValue(IF g.per # 1 THEN TwoParts(c, "instant", g.lo, g.hi, g.per - 1)
          ELSE OnValue(Span(c, "instant", LAMBDA in :
                              Integer(in, IntegerBounds(g.lo[1], g.hi[1]), NoEdge, TRUE)),
                       LAMBDA seconds : <<seconds, 0>>),
          LAMBDA parts : Fields("seconds", "units", parts))

DecodeLocal(g, c) ==
  OnValue(TwoParts(c, "local-date-time", g.lo, g.hi, Day * g.per - 1),
          LAMBDA parts : Fields("date", "time-of-day", parts))

Near(c, zone) ==
  IF Zones[zone] = <<>> THEN Result(c, 0) ELSE Choose(c, Request(Bit, NoEdge, FALSE))

ZonedValue(field, value, zone) == <<"record", <<<<field, value>>, <<"zone", <<"int", zone - 1>>>>>>>>

\* The total units of a time near a change, at most one unit away.
NearChange(c, zone, per, local) ==
  LET changes == Zones[zone] IN
  Then(Integer(c, IndexOf(changes), 0, FALSE), LAMBDA d, i :
    Then(Integer(d, IntegerBounds(-1, 1), NoEdge, TRUE), LAMBDA e, step :
      LET change == changes[i + 1] IN
      IF ~local THEN Result(e, change[1] * per + step)
      ELSE OnValue(Choose(e, Request(Bit, NoEdge, FALSE)), LAMBDA after :
             (change[1] + (IF after = 1 THEN change[3] ELSE change[2])) * per + step)))

\* A time in a zone, near one of its changes or in the whole range.
InZone(c, label, Whole(_), Nearby(_, _)) ==
  Span(c, label, LAMBDA in :
    Then(Integer(in, IndexOf(Zones), 0, FALSE), LAMBDA d, i :
      Then(Near(d, i + 1), LAMBDA e, near :
        OnValue(IF near = 1 THEN Nearby(e, i + 1) ELSE Whole(e),
                LAMBDA v : <<i + 1, v>>))))

DecodeZoned(g, c) ==
  LET Nearby(e, zone) ==
        OnValue(NearChange(e, zone, g.instant.per, FALSE), LAMBDA total :
          Fields("seconds", "units", <<total \div g.instant.per, total % g.instant.per>>))
  IN OnValue(InZone(c, "zoned-date-time", LAMBDA e : DecodeInstant(g.instant, e), Nearby),
             LAMBDA pair : ZonedValue("instant", pair[2], pair[1]))

DecodeWall(g, c) ==
  LET per == g.local.per
      Nearby(e, zone) ==
        OnValue(NearChange(e, zone, per, TRUE), LAMBDA total :
          Fields("date", "time-of-day", <<total \div (Day * per), total % (Day * per)>>))
  IN OnValue(InZone(c, "wall-time", LAMBDA e : DecodeLocal(g.local, e), Nearby),
             LAMBDA pair : ZonedValue("local-date-time", pair[2], pair[1]))

DecodeIp(g, c) ==
  Span(c, "ip-address", LAMBDA in :
    Then(Integer(in, Bit, 0, FALSE), LAMBDA d, i : DecodeBytes(g.versions[i + 1], d)))

-----------------------------------------------------------------------------

Decode(g, c) ==
  CASE g.is = "integer"     -> DecodeInteger(g, c)
    [] g.is = "float"       -> DecodeFloat(g, c)
    [] g.is = "boolean"     -> DecodeBool(g, c)
    [] g.is = "just"        -> DecodeJust(g, c)
    [] g.is = "sampled"     -> DecodeSampled(g, c)
    [] g.is = "text"        -> DecodeText(g, c)
    [] g.is = "bytes"       -> DecodeBytes(g, c)
    [] g.is = "one-of"      -> DecodeOneOf(g, c)
    [] g.is = "optional"    -> DecodeOptional(g, c)
    [] g.is = "list"        -> DecodeList(g, c)
    [] g.is = "dict"        -> DecodeDict(g, c)
    [] g.is = "matching"    -> DecodeMatching(g, c)
    [] g.is = "permutation" -> DecodePermutation(g, c)
    [] g.is = "filter"      -> DecodeFilter(g, c)
    [] g.is = "mapped"      -> DecodeMapped(g, c)
    [] g.is = "bound"       -> DecodeBound(g, c)
    [] g.is = "composite"   -> DecodeComposite(g, c)
    [] g.is = "recursive"   -> DecodeRecursive(g, c)
    [] g.is = "position"    -> DecodePosition(g, c)
    [] g.is = "root"        -> DecodeRoot(g, c)
    [] g.is = "deferred"    -> DecodeDeferred(g, c)
    [] g.is = "ref"         -> DecodeRef(g, c)
    [] g.is = "record"      -> DecodeRecord(g, c)
    [] g.is = "enum"        -> DecodeEnum(g, c)
    [] g.is = "int128"      -> DecodeInt128(g, c)
    [] g.is = "instant"     -> DecodeInstant(g, c)
    [] g.is = "local"       -> DecodeLocal(g, c)
    [] g.is = "zoned"       -> DecodeZoned(g, c)
    [] g.is = "wall"        -> DecodeWall(g, c)
    [] g.is = "ip"          -> DecodeIp(g, c)

==============================================================================
