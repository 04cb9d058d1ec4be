-------------------------------- MODULE Values -------------------------------
(***************************************************************************)
(* The life of the values of one case: a body draws them from a provider   *)
(* (Case.draw), the record of the case is replayed, as a stored failure or *)
(* the shrinker does, its values are given as an example (Valuing), and    *)
(* each of them runs backwards, as a named draw of a trace does.           *)
(***************************************************************************)
EXTENDS Inverse

CONSTANTS Bodies,     \* each body: the generators that it draws from, whether all of
                      \* them run backwards, and whether its values have sets
          Providers,  \* the providers of the first call
          Foreign     \* values that a caller asks the inverse of a generator about

VARIABLES body,       \* the body that runs
          given,      \* the provider of its first call
          ran,        \* the result of the first call
          again,      \* the result of the replay of its record
          stated,     \* the result of the call with its values
          inverses    \* the inverse of each value

valueVars == <<body, given, ran, again, stated, inverses>>

NotYet == [end |-> "not yet"]

ValuesInit ==
  /\ \E i \in DOMAIN Bodies : body = Bodies[i]
  /\ given \in Providers
  /\ ran = NotYet /\ again = NotYet /\ stated = NotYet /\ inverses = NotYet

Run(provider) == DrawAll(body.of, NewCase(provider))

\* The first call of the body.
Execute ==
  /\ ran = NotYet
  /\ ran' = Run(given)
  /\ UNCHANGED <<body, given, again, stated, inverses>>

\* A call on the choices of the record, whatever ended the first one.
Replay ==
  /\ ran # NotYet /\ again = NotYet
  /\ again' = Run(Replaying(ran.c.choices))
  /\ UNCHANGED <<body, given, ran, stated, inverses>>

\* A call on the values of a completed case.
Restate ==
  /\ again # NotYet /\ stated = NotYet /\ ran.end = "value"
  /\ stated' = Run(Valuing(ran.v))
  /\ UNCHANGED <<body, given, ran, again, inverses>>

\* The values of a completed case, and the foreign values, each with a generator.
Asked == [i \in DOMAIN ran.v |-> [of |-> body.of[i], value |-> ran.v[i]]]
         \o [i \in DOMAIN Foreign |-> [of |-> body.of[1], value |-> Foreign[i]]]

\* Each of them runs backwards.
RunBackwards ==
  /\ stated # NotYet /\ inverses = NotYet
  /\ inverses' = [i \in DOMAIN Asked |-> Invert(Asked[i].of, Asked[i].value)]
  /\ UNCHANGED <<body, given, ran, again, stated>>

ValuesNext == Execute \/ Replay \/ Restate \/ RunBackwards

-----------------------------------------------------------------------------
(* What a record is *)

\* The requests admit their choices, and a value that a later draw may reuse is the
\* value of a choice that is still in the record.
ChoicesAreSound(c) ==
  /\ Len(c.requests) = Len(c.choices)
  /\ \A i \in DOMAIN c.choices : Admits(c.requests[i].bounds, c.choices[i])
  /\ c.provider.is = "generating" =>
       \A e \in Range(Remembered(c.provider, Len(c.choices))) :
         c.choices[e.index + 1] = ChoiceOf(e.bounds, e.value)

\* Each span is inside its parent, and two spans of one parent do not overlap.
SpansNest(c) ==
  /\ c.open = <<>>
  /\ \A i \in DOMAIN c.spans :
       LET s == c.spans[i] IN
       /\ s.start <= s.end /\ s.end <= Len(c.choices)
       /\ s.parent # 0 => /\ s.parent < i
                          /\ c.spans[s.parent].start <= s.start
                          /\ s.end <= c.spans[s.parent].end
                          /\ s.depth = c.spans[s.parent].depth + 1
       /\ \A j \in 1 .. i - 1 : c.spans[j].parent = s.parent => c.spans[j].end <= s.start

\* The walk leads to the record, and the cost is at most the cap.
WalkLeadsThere(c) == RecordAt(c, Len(c.walk)) = c.choices

\* What a case records is a case: whatever gave its values, its requests admit its
\* choices, its spans nest, its walk leads to its record, and a replay of the record
\* makes the same choices, spans and draws and ends in the same way, and a call with its values draws
\* these values (case.py).
\* A case over its cap is not replayed to the same end: its last choice is missing.
RecordIsACase ==
  ran # NotYet =>
    /\ ChoicesAreSound(ran.c)
    /\ SpansNest(ran.c)
    /\ WalkLeadsThere(ran.c)
    /\ stated # NotYet => stated.end = "value" /\ stated.v = ran.v /\ stated.c.choices = <<>>
    /\ (again # NotYet /\ ran.end \in {"value", "rejected"}) =>
         /\ again.end = ran.end
         /\ again.c.choices = ran.c.choices
         /\ again.c.spans = ran.c.spans
         /\ again.c.draws = ran.c.draws

-----------------------------------------------------------------------------
(* What a shape is *)

\* The decode of a generator that the reader returns for an accepted shape ends: past
\* its budget a value takes exits, however its choices are given (shape.py).
ShapesEnd == ran # NotYet => ran.end # "endless"

-----------------------------------------------------------------------------
(* What an inverse is *)

\* A value with its lists as bags: the elements of a set have no order.
RECURSIVE Loose(_)
Loose(v) ==
  CASE v[1] = "list" -> <<"list", LET items == [i \in DOMAIN v[2] |-> Loose(v[2][i])] IN
                           {<<x, Cardinality({i \in DOMAIN items : items[i] = x})>> : x \in Range(items)}>>
    [] v[1] = "map" -> <<"map", {<<Loose(e[1]), Loose(e[2])>> : e \in Range(v[2])}>>
    [] v[1] = "record" -> <<"record", [i \in DOMAIN v[2] |-> <<v[2][i][1], Loose(v[2][i][2])>>]>>
    [] v[1] = "variant" -> <<"variant", <<v[2][1]>> \o [i \in 1 .. Len(v[2]) - 1 |-> Loose(v[2][2])]>>
    [] OTHER -> v

Same(v, w) == IF body.sets THEN Loose(v) = Loose(w) ELSE Canonical(v) = Canonical(w)

\* The choices of an inverse decode to the value.
IsOf(r, choices, v) == r.end = "value" /\ r.c.choices = choices /\ Same(r.v, v)
DecodesTo(g, choices, v) == IsOf(Decode(g, NewCase(Replaying(choices))), choices, v)

\* An inverse that gives choices gives choices that decode to the value, for any value.
\* Every drawn value of a generator has one, except below a map without an inverse, a
\* bind and a composite (inverse.py).
ValuesRunBackwards ==
  inverses # NotYet =>
    /\ \A i \in DOMAIN inverses :
         inverses[i].end = "value" => DecodesTo(Asked[i].of, inverses[i].choices, Asked[i].value)
    /\ body.backwards => \A i \in DOMAIN ran.v : inverses[i].end = "value"

\* "The error of a value that a generator cannot produce from any choices" is never
\* that of a value that the generator produced (CannotInvertError, inverse.py).
OnlyForeignValuesAreRefused ==
  inverses # NotYet => \A i \in DOMAIN ran.v : inverses[i].end # "cannot"

==============================================================================
