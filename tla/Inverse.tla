------------------------------- MODULE Inverse -------------------------------
(***************************************************************************)
(* The inverse of a generator, from a value to the choices that decode to  *)
(* it (_prop/engine/inverse.py).                                           *)
(*                                                                         *)
(* Emit gives the steps of a value, each with its bounds, and the value    *)
(* that they decode to, or says that the value has none ("cannot") or that *)
(* the engine does not know them ("unknown").                              *)
(***************************************************************************)
EXTENDS Shapes

CONSTANT Backs(_, _)   \* the values of the inverse of a function of a map, or none

NoInverse == {"unknown"}   \* Backs of a map without an inverse

Emitted(steps, v) == [end |-> "value", steps |-> steps, v |-> v]
Refused(how) == [end |-> how, steps |-> <<>>, v |-> NoValue]
Cannot == Refused("cannot")
Unknown == Refused("unknown")

\* A result with a change of its steps and of its value.
With(e, Steps(_), Of(_)) ==
  IF e.end = "value" THEN Emitted(Steps(e.steps), Of(e.v)) ELSE e
After(first, e) == With(e, LAMBDA steps : first \o steps, LAMBDA v : v)

\* One emitted choice.
StepOf(b, v) == <<[bounds |-> b, value |-> v]>>
Within(b, v) == IF Admits(b, ChoiceOf(b, v)) THEN Emitted(StepOf(b, v), NoValue) ELSE Cannot

\* The first of several results that is not refused, as Python evaluates them.
FirstRefusal(es) == LET bad == {i \in DOMAIN es : es[i].end # "value"} IN es[Min(bad)]
AllEmitted(es) == \A i \in DOMAIN es : es[i].end = "value"
StepsOfAll(es) == FlattenSeq([i \in DOMAIN es |-> es[i].steps])
ValuesOf(es) == [i \in DOMAIN es |-> es[i].v]

RECURSIVE Emit(_, _)

-----------------------------------------------------------------------------
(* Scalars and branches *)

EmitScalar(g, tag, v) ==
  IF v[1] # tag THEN Cannot
  ELSE With(Within(g.bounds, v[2]), LAMBDA steps : steps, LAMBDA none : v)

EmitBool(v) == IF v[1] = "bool" THEN Emitted(StepOf(Bit, v[2]), v) ELSE Cannot

EmitJust(g, v) == IF Canonical(v) = Canonical(g.value) THEN Emitted(<<>>, v) ELSE Cannot

\* The first index of an equal value.
Equals(values, v) == {i \in DOMAIN values : Canonical(values[i]) = Canonical(v)}

EmitSampled(g, v) ==
  IF Equals(g.values, v) = {} THEN Cannot
  ELSE Emitted(StepOf(IndexOf(g.values), Min(Equals(g.values, v)) - 1), v)

\* The first branch that produces the value.
RECURSIVE FirstBranch(_, _, _, _)
FirstBranch(branches, v, b, i) ==
  IF i > Len(branches) THEN Cannot
  ELSE LET e == Emit(branches[i], v)
           rest == FirstBranch(branches, v, b, i + 1)
       IN IF e.end = "value" THEN After(StepOf(b, i - 1), e)
          ELSE IF e.end = "unknown" /\ rest.end = "cannot" THEN Unknown ELSE rest

EmitOneOf(g, v) == FirstBranch(g.of, v, IndexOf(g.of), 1)

EmitOptional(g, v) ==
  IF v = Null THEN Emitted(StepOf(Bit, 0), Null) ELSE After(StepOf(Bit, 1), Emit(g.of, v))

-----------------------------------------------------------------------------
(* Collections *)

KeysOf(steps) == [i \in DOMAIN steps |-> ChoiceKey(steps[i].bounds, steps[i].value)]
InOrder(es) == SortSeq(es, LAMBDA x, y : Shortlex(KeysOf(x.steps), KeysOf(y.steps)))

\* The flags, the steps of the items and the stop.
Collection(g, es) ==
  LET n == Len(es)
      Flag(i, on) == StepOf(FlagBounds(i, g.min, g.max), on)
  IN IF n < g.min \/ (g.max # NoMax /\ n > g.max) THEN Cannot
     ELSE Emitted(FlattenSeq([i \in 1 .. n |-> Flag(i - 1, 1) \o es[i].steps]) \o Flag(n, 0),
                  ValuesOf(es))

Distinct(values) == \A i, j \in DOMAIN values :
                      Canonical(values[i]) = Canonical(values[j]) => i = j

EmitItems(g, es, tag) ==
  IF ~AllEmitted(es) THEN FirstRefusal(es)
  ELSE With(Collection(g, es), LAMBDA steps : steps, LAMBDA vs : <<tag, vs>>)

EntryOf(k, v) ==
  IF k.end # "value" THEN k ELSE With(v, LAMBDA steps : k.steps \o steps, LAMBDA x : <<k.v, x>>)

EmitSorted(g, es, sorted, tag) ==
  EmitItems(g, IF sorted /\ AllEmitted(es) THEN InOrder(es) ELSE es, tag)

\* The elements of a set come in the shortlex order of their choices.
EmitList(g, v) ==
  IF v[1] # "list" \/ (g.unique /\ ~Distinct(v[2])) THEN Cannot
  ELSE EmitSorted(g, [i \in DOMAIN v[2] |-> Emit(g.of, v[2][i])], g.sorted, "list")

EmitDict(g, v) ==
  IF v[1] # "map" \/ ~Distinct([i \in DOMAIN v[2] |-> v[2][i][1]]) THEN Cannot
  ELSE EmitSorted(g, [i \in DOMAIN v[2] |-> EntryOf(Emit(g.key, v[2][i][1]), Emit(g.of, v[2][i][2]))],
                  TRUE, "map")

EmitPermutation(g, v) ==
  LET last == Len(g.values) - 1
      Place(state, i) ==
        LET found == {j \in i .. Len(g.values) : Canonical(state.now[j]) = Canonical(v[2][i])} IN
        IF ~state.ok \/ found = {} THEN [state EXCEPT !.ok = FALSE]
        ELSE [ok |-> TRUE, now |-> Swapped(state.now, i, Min(found)),
              steps |-> state.steps \o StepOf(IntegerBounds(i - 1, last), Min(found) - 1)]
      done == FoldLeft(Place, [ok |-> TRUE, now |-> g.values, steps |-> <<>>], [i \in 1 .. last |-> i])
  IN IF v[1] # "list" \/ Len(v[2]) # Len(g.values) THEN Cannot
     ELSE IF done.ok /\ Canonical(<<"list", done.now>>) = Canonical(v) THEN Emitted(done.steps, v)
     ELSE Cannot

-----------------------------------------------------------------------------
(* Patterns: a search with a stack of states.  A state has the work left,  *)
(* the characters read, and the steps so far.                              *)

CountOf(p, count) == [is |-> "count", piece |-> p, count |-> count]
CheckOf(p, count, start) == [is |-> "check", piece |-> p, count |-> count, start |-> start]
State(work, at, steps) == [work |-> work, at |-> at, steps |-> steps]

\* The states after a literal or a class.
Single(p, rest, at, steps, chars) ==
  IF at = Len(chars) THEN <<>>
  ELSE IF p.is = "literal"
       THEN IF chars[at + 1] = p.char THEN <<State(rest, at + 1, steps)>> ELSE <<>>
  ELSE IF chars[at + 1] \notin Range(p.members) THEN <<>>
  ELSE <<State(rest, at + 1,
               steps \o StepOf(IndexOf(p.members), SelectInSeq(p.members, LAMBDA m : m = chars[at + 1]) - 1))>>

\* The states after a piece, the first to try last.
PieceStates(p, rest, at, steps, chars) ==
  CASE p.is \in {"literal", "class"} -> Single(p, rest, at, steps, chars)
    [] p.is = "sequence"    -> <<State(p.items \o rest, at, steps)>>
    [] p.is = "alternation" -> Reverse([i \in DOMAIN p.branches |->
                                 State(<<p.branches[i]>> \o rest, at, steps \o StepOf(IndexOf(p.branches), i - 1))])
    [] p.is = "repeat"      -> <<State(<<CountOf(p, 0)>> \o rest, at, steps)>>

\* MUTANT: a repetition that reads nothing is tried again below the minimum alone.
QuantifierStatesAtTheStart(work, rest, at, steps) ==
  LET p == work.piece
      flag == FlagBounds(work.count, p.min, p.max)
      Stop == <<State(rest, at, steps \o StepOf(flag, 0))>>
      Again == <<State(<<p.of, CheckOf(p, work.count, at)>> \o rest, at, steps \o StepOf(flag, 1))>>
  IN IF work.is = "check"
     THEN IF at # work.start THEN <<State(<<CountOf(p, work.count + 1)>> \o rest, at, steps)>> ELSE <<>>
     ELSE (IF flag.lo = 0 THEN Stop ELSE <<>>) \o (IF flag.hi = 1 THEN Again ELSE <<>>)

\* One more repetition is tried before the stop.  A repetition above the minimum
\* that reads nothing is not tried again.
QuantifierStates(work, rest, at, steps) ==
  LET p == work.piece
      flag == FlagBounds(work.count, p.min, p.max)
      Stop == <<State(rest, at, steps \o StepOf(flag, 0))>>
      Again == <<State(<<p.of, CheckOf(p, work.count, at)>> \o rest, at, steps \o StepOf(flag, 1))>>
  IN IF work.is = "check"
     THEN IF at # work.start \/ work.count < p.min
          THEN <<State(<<CountOf(p, work.count + 1)>> \o rest, at, steps)>> ELSE <<>>
     ELSE (IF flag.lo = 0 THEN Stop ELSE <<>>) \o (IF flag.hi = 1 THEN Again ELSE <<>>)

\* The steps of the first match that ends at the end of the characters, or none.
RECURSIVE Match(_, _)
Match(stack, chars) ==
  IF stack = <<>> THEN {}
  ELSE LET state == Last(stack)
           item  == Head(state.work)
           rest  == Tail(state.work)
       IN IF state.work = <<>>
          THEN IF state.at = Len(chars) THEN {state.steps} ELSE Match(Front(stack), chars)
          ELSE Match(Front(stack) \o
                       (IF item.is \in {"count", "check"}
                        THEN QuantifierStates(item, rest, state.at, state.steps)
                        ELSE PieceStates(item, rest, state.at, state.steps, chars)), chars)

EmitMatching(g, v) ==
  LET found == Match(<<State(<<g.piece>>, 0, <<>>)>>, v[2]) IN
  IF v[1] # "text" \/ found = {} THEN Cannot ELSE Emitted(CHOOSE steps \in found : TRUE, v)

-----------------------------------------------------------------------------
(* Generators of other generators *)

EmitFilter(g, v) == IF Keeps(g.keep, v) THEN Emit(g.of, v) ELSE Cannot

EmitMapped(g, v) ==
  IF Backs(g.f, v) = NoInverse THEN Unknown
  ELSE IF Backs(g.f, v) = {} THEN Cannot
  ELSE With(Emit(g.of, CHOOSE inner \in Backs(g.f, v) : TRUE), LAMBDA steps : steps,
            LAMBDA normal : Applied(g.f, normal))

\* The base, or else the extension, whatever the leaves that are left.
EmitRecursive(g, v) ==
  FirstBranch(<<Recursives[g.name].base, Recursives[g.name].extend>>, v, Bit, 1)

-----------------------------------------------------------------------------
(* Shapes *)

EmitFields(g, es) ==
  IF ~AllEmitted(es) THEN FirstRefusal(es)
  ELSE Emitted(StepsOfAll(es), <<"record", [i \in DOMAIN es |-> <<g.fields[i][1], es[i].v>>]>>)

EmitRecord(g, v) ==
  IF v[1] # "record" THEN Cannot
  ELSE IF [i \in DOMAIN v[2] |-> v[2][i][1]] # [i \in DOMAIN g.fields |-> g.fields[i][1]] THEN Cannot
  ELSE EmitFields(g, [i \in DOMAIN g.fields |-> Emit(g.fields[i][2], v[2][i][2])])

EmitEnum(g, v) ==
  LET i == SelectInSeq(g.variants, LAMBDA variant : variant[1] = v[2][1])
      head == StepOf(IndexOf(g.variants), i - 1)
  IN IF v[1] # "variant" THEN Cannot
     ELSE IF i = 0 THEN Cannot
     ELSE IF Len(g.variants[i]) = 1 THEN IF Len(v[2]) = 1 THEN Emitted(head, v) ELSE Cannot
     ELSE After(head, With(Emit(g.variants[i][2], IF Len(v[2]) = 1 THEN Null ELSE v[2][2]),
                           LAMBDA steps : steps, LAMBDA x : <<"variant", <<v[2][1], x>>>>))

\* The two fields of a record of a shape of two choices.
AreTwoParts(v, first, second) ==
  /\ v[1] = "record" /\ Len(v[2]) = 2 /\ v[2][1][1] = first /\ v[2][2][1] = second

\* The steps of two choices, the second within the bounds of the first.
EmitBoth(a, b, v) ==
  IF a.end # "value" THEN a ELSE With(b, LAMBDA steps : a.steps \o steps, LAMBDA none : v)

EmitTwo(lo, hi, top, parts, v) ==
  EmitBoth(Within(IntegerBounds(lo[1], hi[1]), parts[1]),
           Within(SecondPart(parts[1], lo, hi, top), parts[2]), v)

EmitInt128(g, v) ==
  IF v[1] = "int" THEN EmitTwo(Halves(g.lo), Halves(g.hi), Half - 1, Halves(v[2]), v) ELSE Cannot

Numbers(v) == <<v[2][1][2][2], v[2][2][2][2]>>

EmitInstant(g, v) ==
  IF ~AreTwoParts(v, "seconds", "units") THEN Cannot
  ELSE IF g.per # 1 THEN EmitTwo(g.lo, g.hi, g.per - 1, Numbers(v), v)
  ELSE IF Numbers(v)[2] # 0 THEN Cannot
  ELSE With(Within(IntegerBounds(g.lo[1], g.hi[1]), Numbers(v)[1]), LAMBDA steps : steps, LAMBDA none : v)

EmitLocal(g, v) ==
  IF ~AreTwoParts(v, "date", "time-of-day") THEN Cannot
  ELSE EmitTwo(g.lo, g.hi, Day * g.per - 1, Numbers(v), v)

\* The index of the zone and the choice of the whole range.
EmitZone(zone) ==
  StepOf(IndexOf(Zones), zone - 1) \o (IF Zones[zone] = <<>> THEN <<>> ELSE StepOf(Bit, 0))

EmitInZone(v, part, Whole(_)) ==
  LET zone == v[2][2][2][2] + 1 IN
  IF ~AreTwoParts(v, part, "zone") THEN Cannot
  ELSE IF zone \notin DOMAIN Zones THEN Cannot
  ELSE With(Whole(v[2][1][2]), LAMBDA steps : EmitZone(zone) \o steps, LAMBDA inner : v)

EmitIp(g, v) ==
  LET versions == {i \in DOMAIN g.versions : g.versions[i].bounds.min = Len(v[2])} IN
  IF v[1] # "bytes" THEN Cannot
  ELSE IF versions = {} THEN Cannot
  ELSE After(StepOf(Bit, Min(versions) - 1), EmitScalar(g.versions[Min(versions)], "bytes", v))

-----------------------------------------------------------------------------

\* A bind and a composite do not run backwards.
Emit(g, v) ==
  CASE g.is = "integer"     -> EmitScalar(g, "int", v)
    [] g.is = "float"       -> EmitScalar(g, "float", v)
    [] g.is = "boolean"     -> EmitBool(v)
    [] g.is = "just"        -> EmitJust(g, v)
    [] g.is = "sampled"     -> EmitSampled(g, v)
    [] g.is = "text"        -> EmitScalar(g, "text", v)
    [] g.is = "bytes"       -> EmitScalar(g, "bytes", v)
    [] g.is = "one-of"      -> EmitOneOf(g, v)
    [] g.is = "optional"    -> EmitOptional(g, v)
    [] g.is = "list"        -> EmitList(g, v)
    [] g.is = "dict"        -> EmitDict(g, v)
    [] g.is = "matching"    -> EmitMatching(g, v)
    [] g.is = "permutation" -> EmitPermutation(g, v)
    [] g.is = "filter"      -> EmitFilter(g, v)
    [] g.is = "mapped"      -> EmitMapped(g, v)
    [] g.is \in {"recursive", "position"} -> EmitRecursive(g, v)
    [] g.is = "root"        -> Emit(g.of, v)
    [] g.is \in {"deferred", "ref"} -> Emit(Named[g.name], v)
    [] g.is = "record"      -> EmitRecord(g, v)
    [] g.is = "enum"        -> EmitEnum(g, v)
    [] g.is = "int128"      -> EmitInt128(g, v)
    [] g.is = "instant"     -> EmitInstant(g, v)
    [] g.is = "local"       -> EmitLocal(g, v)
    [] g.is = "zoned"       -> EmitInZone(v, "instant", LAMBDA inner : EmitInstant(g.instant, inner))
    [] g.is = "wall"        -> EmitInZone(v, "local-date-time", LAMBDA inner : EmitLocal(g.local, inner))
    [] g.is = "ip"          -> EmitIp(g, v)
    [] OTHER                -> Unknown

\* The choices of the steps.
ChoicesOf(steps) == [i \in DOMAIN steps |-> ChoiceOf(steps[i].bounds, steps[i].value)]

\* The choices, when their replay r has the value of the steps and records them unchanged.
Checked(e, choices, r) ==
  IF r.end = "value" /\ r.c.choices = choices /\ Canonical(r.v) = Canonical(e.v)
  THEN [end |-> "value", choices |-> choices] ELSE [end |-> "cannot", choices |-> <<>>]

CheckedBy(g, e, choices) == Checked(e, choices, Decode(g, NewCase(Replaying(choices))))

Inverted(g, e) ==
  IF e.end # "value" THEN [end |-> e.end, choices |-> <<>>] ELSE CheckedBy(g, e, ChoicesOf(e.steps))

\* The choices that decode to a value: its steps, when a replay of them decodes to it.
Invert(g, v) == Inverted(g, Emit(g, v))

==============================================================================
