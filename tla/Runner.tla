------------------------------- MODULE Runner -------------------------------
(***************************************************************************)
(* A run (runner.py): the known cases, the simplest case, the random cases *)
(* up to the checks of the coverage, and the conclusion of a failure.  It  *)
(* also is the run of the stored cases, of a token and of one input of a   *)
(* fuzzer, which stop after their known cases.                             *)
(*                                                                         *)
(* The generated cases walk the case tree.  CaseTree and Ahead are about   *)
(* the walk and about the workers; here the tree is the number of inputs   *)
(* that were tested, and it is exhausted when the body has no other.       *)
(***************************************************************************)
EXTENDS Integers, Sequences, FiniteSets, FiniteSetsExt, SequencesExt

-----------------------------------------------------------------------------
(***************************************************************************)
(* What a run and a campaign share (runner.py): the counts, the known      *)
(* cases, and the outcome with the conclusion of a failure.                *)
(*                                                                         *)
(* A case is how it ended, with the labels that it counted.  A body either *)
(* requests an input in every case or in none, and inputs is the number of *)
(* its inputs.  What the shrinker does is a choice: it keeps the identity  *)
(* of the failure, and it may find others.                                 *)
(***************************************************************************)

-----------------------------------------------------------------------------
(***************************************************************************)
(* The test of a required share (_prop/engine/coverage.py), and the first  *)
(* requirement that the counts of a run refute or leave unmet.             *)
(*                                                                         *)
(* Shares are percentages.  The Wilson bounds are compared without a root: *)
(* the bound of k in n lies above a share s, or below it, as the sign of   *)
(* (k - n s)^2 - z^2 n s (1 - s) and the side of k / n say.  Square stands *)
(* for z^2 = 37.32...; on up to twelve cases and shares in steps of five   *)
(* it decides as the code does.                                            *)
(***************************************************************************)

Square == 37

Spread(n, permille) == Square * n * permille * (1000 - permille)
Off(k, n, permille) == (1000 * k - n * permille) * (1000 * k - n * permille)

\* _bound with -z and with z: the lower bound reaches a share, the upper misses it.
LowerReaches(k, n, permille) ==
  1000 * k >= n * permille /\ Off(k, n, permille) >= Spread(n, permille)

UpperMisses(k, n, permille) ==
  1000 * k < n * permille /\ Off(k, n, permille) > Spread(n, permille)

\* verdict: nine tenths of the share are enough.
Verdict(k, n, share, last, exact) ==
  IF ~exact /\ LowerReaches(k, n, 9 * share) THEN "met"
  ELSE IF ~exact /\ UpperMisses(k, n, 10 * share) THEN "refuted"
  ELSE IF ~exact /\ ~last THEN "undecided"
  ELSE IF 1000 * k >= 9 * share * n THEN "met" ELSE "unmet"

\* shortfall_of: count is the number of valid cases of each label.
Verdicts(count, valid, requirements, last, exact) ==
  [i \in DOMAIN requirements |->
     Verdict(count[requirements[i].label], valid, requirements[i].share, last, exact)]

Missed(verdicts) == {i \in DOMAIN verdicts : verdicts[i] \in {"refuted", "unmet"}}
AllMet(verdicts) == \A i \in DOMAIN verdicts : verdicts[i] = "met"

-----------------------------------------------------------------------------

CONSTANTS
  Labels,           \* the labels that a case may count
  Identities,       \* the identities of failures
  Starts,           \* what callers ask for: [mode, body, settings, known]
  Cases,            \* the valid cases that a run aims for
  MaxRejections     \* _MAX_REJECTIONS

Mode == {"run", "stored", "token", "fuzz", "campaign"}

\* Shares are of labels that are counted.  An identity is an exception at a place in
\* the body, of which a body has finitely many.
ASSUME TallyAssumption ==
  /\ Cases \in Nat \ {0} /\ MaxRejections \in Nat
  /\ IsFiniteSet(Identities)
  /\ \A s \in Starts :
       /\ s.mode \in Mode /\ s.settings.shrinks \in BOOLEAN
       /\ s.known \in Seq({"trace", "values", "stored"})
       /\ s.settings.requirements \in Seq([label : Labels, share : Nat])
       /\ s.body.draws \in BOOLEAN
       /\ s.body.inputs \in Nat \ {0} /\ (~s.body.draws => s.body.inputs = 1)
       /\ s.body.labels \subseteq Labels

VARIABLES
  mode,       \* what the caller runs
  body,       \* its body: [inputs, draws, labels]
  settings,   \* its requirements, a sequence of [label, share], and whether it shrinks
  stage,      \* where the run is
  known,      \* the kinds of the known cases left
  tally,      \* the counts
  stored,     \* the stored cases that ran: how each ended
  outcome     \* the outcome, or NoOutcome

common == <<mode, body, settings, stage, known, tally, stored, outcome>>

-----------------------------------------------------------------------------
(* Cases *)

NoFailure == "none"

Ended(status) == [status |-> status, labels |-> {}, identity |-> NoFailure]
Passed        == [status : {"passed"}, labels : SUBSET body.labels, identity : {NoFailure}]
Failed        == [status : {"failed"}, labels : {{}}, identity : Identities]

\* How a case outside the case tree ends.
OutsideCases == Passed \cup Failed \cup {Ended("rejected"), Ended("skipped")}

EndsRun(x) == x.status \in {"failed", "diverged", "skipped"}

-----------------------------------------------------------------------------
(* The tally *)

NewTally == [valid |-> 0, rejected |-> 0, requested |-> FALSE, count |-> [l \in Labels |-> 0]]

\* Tally.take, the counts.  Only a passed case has labels here.
Counted(x) ==
  [valid     |-> tally.valid + (IF x.status = "passed" THEN 1 ELSE 0),
   rejected  |-> tally.rejected + (IF x.status = "rejected" THEN 1 ELSE 0),
   requested |-> tally.requested \/ body.draws,
   count     |-> [l \in Labels |-> tally.count[l] + (IF l \in x.labels THEN 1 ELSE 0)]]

\* Tally.outcome.
OutcomeOf(kind, t) ==
  [kind |-> kind, cases |-> t.valid, rejected |-> t.rejected, stored |-> <<>>,
   failing |-> NoFailure, others |-> <<>>, valued |-> FALSE, token |-> FALSE,
   missed |-> 0]

NoOutcome == OutcomeOf("none", NewTally)

\* Tally.take, the outcome of a case that ends the run.
EndOf(x, t) ==
  IF x.status = "failed" THEN [OutcomeOf("counterexample", t) EXCEPT !.failing = x.identity]
  ELSE IF x.status = "diverged" THEN OutcomeOf("flaky", t)
  ELSE OutcomeOf("skipped", t)

\* failure_without_counterexample.
WithoutCounterexample(t) ==
  IF t.rejected > MaxRejections * t.valid THEN "rejected"
  ELSE IF ~t.requested THEN "vacuous" ELSE "none"

-----------------------------------------------------------------------------
(* conclude *)

\* The other failures that a shrink may find, in the order of discovery.
OthersOf(identity) == SetToAllKPermutations(Identities \ {identity})

\* The outcomes into which conclude may turn a counterexample: it confirms the
\* failure, shrinks it and adds the token, or it finds the body flaky.
Conclusions(found) ==
  IF found.kind # "counterexample" \/ found.valued THEN {found}
  ELSE IF ~settings.shrinks THEN {[found EXCEPT !.token = TRUE]}
  ELSE {[found EXCEPT !.kind = "flaky"]}
       \cup {[found EXCEPT !.others = o, !.token = TRUE] : o \in OthersOf(found.failing)}

-----------------------------------------------------------------------------
(* Known cases *)

\* The stored cases among the known ones.
StoredAmong(kinds) == {i \in DOMAIN kinds : kinds[i] = "stored"}

\* known_cases, and the one case of a token or of a fuzzer.
KnownOf(m, kinds) ==
  IF m \in {"run", "campaign"} THEN kinds
  ELSE IF m = "stored" THEN [i \in 1 .. Cardinality(StoredAmong(kinds)) |-> "stored"]
  ELSE <<m>>

InitCommon ==
  /\ \E s \in Starts : /\ mode = s.mode /\ body = s.body /\ settings = s.settings
                        /\ known = KnownOf(s.mode, s.known)
  /\ stage = "known"
  /\ tally = NewTally
  /\ stored = <<>>
  /\ outcome = NoOutcome

\* The next known case runs outside the tree.
StoredWith(x) == IF Head(known) = "stored" THEN Append(stored, x.status) ELSE stored

\* An exception ends the run without an outcome: a trace that the body cannot
\* follow, or a fault of the body.
Unwound == OutcomeOf("raised", tally)

-----------------------------------------------------------------------------

CONSTANTS
  Boundaries,        \* the edge cases
  GenerationFactor,  \* _GENERATION_FACTOR
  PrefixDivisor,     \* _PREFIX_DIVISOR
  Checks             \* CHECKS of coverage.py

ASSUME RunnerAssumption ==
  /\ Boundaries \in Nat
  /\ GenerationFactor \in Nat \ {0} /\ PrefixDivisor \in Nat \ {0}
  /\ Checks \in Seq(Nat \ {0}) /\ Checks # <<>>
  /\ \A i \in 1 .. Len(Checks) - 1 : Checks[i] <= Checks[i + 1]

VARIABLES
  tested,    \* the inputs that ended a case in the tree
  index,     \* _index: the random cases so far
  edges,     \* _edges: the edge cases so far
  check      \* position of _checks, from 1

phases == <<tested, index, edges, check>>

-----------------------------------------------------------------------------
(* Cases in the tree *)

Exhausted == tested = body.inputs

\* How a case ends in the tree, which is not exhausted before it.  One that
\* overran its cap is rejected without a leaf.  The first case of the tree
\* neither repeats a case nor diverges from one.
TreeCases ==
  OutsideCases
  \cup (IF body.draws THEN {Ended("overran")} ELSE {})
  \cup (IF stage # "simplest" THEN {Ended("diverged")} ELSE {})
  \cup (IF tested > 0 THEN {Ended("repeated")} ELSE {})

Result(x) == IF x.status = "overran" THEN Ended("rejected") ELSE x

\* _seen: the case is counted, and it may end the run.  _explore adds the runs
\* of the stored cases to every outcome.
Seen(x, to) ==
  LET r == Result(x) IN
  /\ tally' = Counted(r)
  /\ tested' = IF x.status \in {"passed", "rejected"} THEN tested + 1 ELSE tested
  /\ IF EndsRun(r)
       THEN stage' = "conclude" /\ outcome' = [EndOf(r, Counted(r)) EXCEPT !.stored = stored]
       ELSE stage' = to /\ UNCHANGED outcome

-----------------------------------------------------------------------------
(* The known cases: _try_known and _replay_only *)

\* MUTANT: the run of a stored case that ends the run is not kept.
EndKnownWithoutItsRun(x) ==
  /\ stage' = "conclude"
  /\ outcome' = [EndOf(x, Counted(x)) EXCEPT !.valued = Head(known) = "values",
                                             !.stored = stored]

EndKnown(x) ==
  /\ stage' = "conclude"
  /\ outcome' = [EndOf(x, Counted(x)) EXCEPT !.valued = Head(known) = "values",
                                             !.stored = StoredWith(x)]

KnownCase ==
  /\ mode # "campaign" /\ stage = "known" /\ known # <<>>
  /\ known' = Tail(known)
  /\ \E x \in OutsideCases :
       /\ tally' = Counted(x)
       /\ stored' = StoredWith(x)
       /\ IF EndsRun(x) THEN EndKnown(x) ELSE UNCHANGED <<stage, outcome>>
  /\ UNCHANGED <<mode, body, settings, phases>>

\* No known case is left.  The runs of the stored cases and of a fuzzer's input
\* pass, and the run of a token passes or fails without a counterexample.
AfterKnown ==
  /\ mode # "campaign" /\ stage = "known" /\ known = <<>>
  /\ LET kind == IF mode = "token" /\ WithoutCounterexample(tally) # "none"
                   THEN WithoutCounterexample(tally) ELSE "passed"
     IN  IF mode = "run"
           THEN stage' = "simplest" /\ UNCHANGED outcome
           ELSE /\ stage' = "ended"
                /\ outcome' = [OutcomeOf(kind, tally) EXCEPT
                                 !.stored = IF mode = "stored" THEN stored ELSE <<>>]
  /\ UNCHANGED <<mode, body, settings, known, tally, stored, phases>>

-----------------------------------------------------------------------------
(* _Phases *)

Target == Checks[check] * Cases

\* The loop condition of run_to.
WantsMore == /\ tally.valid < Target
             /\ ~Exhausted
             /\ index < GenerationFactor * Target

\* _prefix_cases.  Its cap at fifty is past every instance.
PrefixCases == Cases \div PrefixDivisor

Simplest ==
  /\ stage = "simplest"
  /\ \E x \in TreeCases : Seen(x, "random")
  /\ UNCHANGED <<mode, body, settings, known, stored, index, edges, check>>

\* A random case.  It may have too few choices for a prefix case.
Random ==
  /\ stage = "random" /\ WantsMore
  /\ index' = index + 1
  /\ \E x \in TreeCases :
       \/ Seen(x, "edge")
       \/ /\ Seen(x, "prefix")
          /\ tally'.valid <= PrefixCases
          /\ body.draws /\ tested' < body.inputs
  /\ UNCHANGED <<mode, body, settings, known, stored, edges, check>>

Prefix ==
  /\ stage = "prefix"
  /\ \E x \in TreeCases : Seen(x, "edge")
  /\ UNCHANGED <<mode, body, settings, known, stored, index, edges, check>>

\* MUTANT: the edge cases end one too early.
EdgeIsLeftButOne == edges + 1 < Boundaries /\ ~Exhausted

EdgeIsLeft == edges < Boundaries /\ ~Exhausted

\* _next_edge, after a random case and in the second loop of run_to.
Edge ==
  /\ stage \in {"edge", "left"} /\ EdgeIsLeft
  /\ edges' = edges + 1
  /\ \E x \in TreeCases : Seen(x, IF stage = "edge" THEN "random" ELSE "left")
  /\ UNCHANGED <<mode, body, settings, known, stored, index, check>>

NoEdge ==
  /\ stage = "edge" /\ ~EdgeIsLeft
  /\ stage' = "random"
  /\ UNCHANGED <<mode, body, settings, known, tally, stored, outcome, phases>>

Leave ==
  /\ stage = "random" /\ ~WantsMore
  /\ stage' = "left"
  /\ UNCHANGED <<mode, body, settings, known, tally, stored, outcome, phases>>

-----------------------------------------------------------------------------
(* _checks and _explore *)

\* A run without requirements has the first check only.
IsLast(requirements) == check = (IF requirements = <<>> THEN 1 ELSE Len(Checks))

VerdictsNow(requirements) ==
  Verdicts(tally.count, tally.valid, requirements, IsLast(requirements), Exhausted)

Decided(o) == /\ stage' = "ended"
              /\ outcome' = [o EXCEPT !.stored = stored]
              /\ UNCHANGED check

\* MUTANT: the next check is the same check.
CheckOfOneCheck(requirements) ==
  LET without  == WithoutCounterexample(tally)
      verdicts == VerdictsNow(requirements)
  IN  IF without # "none" THEN Decided(OutcomeOf(without, tally))
      ELSE IF Missed(verdicts) # {}
        THEN Decided([OutcomeOf("coverage-unmet", tally) EXCEPT !.missed = Min(Missed(verdicts))])
      ELSE IF AllMet(verdicts) THEN Decided(OutcomeOf("passed", tally))
      ELSE stage' = "random" /\ UNCHANGED <<check, outcome>>

\* MUTANT: the check decides before it counts the rejected cases.
CheckOfRequirementsOnly(requirements) ==
  LET verdicts == VerdictsNow(requirements)
  IN  IF Missed(verdicts) # {}
        THEN Decided([OutcomeOf("coverage-unmet", tally) EXCEPT !.missed = Min(Missed(verdicts))])
      ELSE IF AllMet(verdicts) THEN Decided(OutcomeOf("passed", tally))
      ELSE stage' = "random" /\ check' = check + 1 /\ UNCHANGED outcome

CheckOf(requirements) ==
  LET without  == WithoutCounterexample(tally)
      verdicts == VerdictsNow(requirements)
  IN  IF without # "none" THEN Decided(OutcomeOf(without, tally))
      ELSE IF Missed(verdicts) # {}
        THEN Decided([OutcomeOf("coverage-unmet", tally) EXCEPT !.missed = Min(Missed(verdicts))])
      ELSE IF AllMet(verdicts) THEN Decided(OutcomeOf("passed", tally))
      ELSE stage' = "random" /\ check' = check + 1 /\ UNCHANGED outcome

Check ==
  /\ stage = "left" /\ ~EdgeIsLeft
  /\ CheckOf(settings.requirements)
  /\ UNCHANGED <<mode, body, settings, known, tally, stored, tested, index, edges>>

\* The end of run, run_stored, _replay_only and conclude_case.  The runs of
\* stored cases and of a token report the failure as found.
Conclude ==
  /\ mode # "campaign" /\ stage = "conclude"
  /\ stage' = "ended"
  /\ IF mode \in {"stored", "token"}
       THEN outcome' = [outcome EXCEPT !.token = outcome.kind = "counterexample"]
       ELSE outcome' \in Conclusions(outcome)
  /\ UNCHANGED <<mode, body, settings, known, tally, stored, phases>>

\* A trace that the body cannot follow, a fault of the body or an interrupt
\* unwinds the run.
Unwind ==
  /\ mode # "campaign"
  /\ \/ stage = "known" /\ known # <<>>
     \/ stage \in {"simplest", "random", "prefix", "edge", "left", "conclude"}
  /\ stage' = "ended" /\ outcome' = Unwound
  /\ UNCHANGED <<mode, body, settings, known, tally, stored, phases>>

InitRunner == tested = 0 /\ index = 0 /\ edges = 0 /\ check = 1

NextRunner ==
  \/ KnownCase \/ AfterKnown
  \/ Simplest \/ Random \/ Prefix \/ Edge \/ NoEdge \/ Leave
  \/ Check \/ Conclude \/ Unwind
=============================================================================
