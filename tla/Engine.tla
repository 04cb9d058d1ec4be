------------------------------- MODULE Engine -------------------------------
(***************************************************************************)
(* The two ways to explore a property, as the property call chooses one:   *)
(* a run or a campaign over the same counts, known cases and conclusion.   *)
(***************************************************************************)
EXTENDS Runner

-----------------------------------------------------------------------------
(***************************************************************************)
(* A campaign (campaign.py): known cases, then one case after another      *)
(* until its time has passed.  A failure is concluded the first time that  *)
(* its identity occurs, and the campaign goes on.                          *)
(*                                                                         *)
(* No case of a campaign walks the case tree.  A mutated case and a random *)
(* case may end in every way, so they differ only in their preconditions.  *)
(***************************************************************************)

CONSTANTS
  Scores,       \* the scores of the one target
  MaxExplored   \* bound: the cases after the known ones

ASSUME CampaignAssumption == Scores \subseteq Nat /\ MaxExplored \in Nat

VARIABLES
  late,        \* the time of the campaign has passed
  explored,    \* the cases after the known ones
  pool,        \* the number of members of _pool
  seen,        \* _labels, and with them _fingerprints
  best,        \* _best of the target, or NoScore
  identities,  \* _identities
  found,       \* _found
  told,        \* the failures that concluded received, in order
  failures     \* the identities of every failing case (for the properties)

exploration == <<late, explored, pool, seen, best, identities, found, told, failures>>

NoScore == -1

\* _admit: a valid case that shows new behaviour joins the pool.
Admit(x, score) ==
  LET novel == ~(x.labels \subseteq seen) \/ score > best
  IN  /\ seen' = seen \cup x.labels
      /\ best' = IF score > best THEN score ELSE best
      /\ pool' = IF novel THEN pool + 1 ELSE pool

Keep == UNCHANGED <<pool, seen, best>>

EndWith(o) == stage' = "ended" /\ outcome' = [o EXCEPT !.stored = stored']
GoOn       == UNCHANGED <<stage, outcome>>

\* The others of a conclusion that no earlier conclusion had, in their order.
Rising(places) == {s \in SetToSeqs(places) : \A j, k \in DOMAIN s : j < k => s[j] < s[k]}

NewAmong(others) ==
  {[k \in DOMAIN at |-> others[at[k]]] :
     at \in Rising({i \in DOMAIN others : others[i] \notin identities})}

\* concluded is called, and the failure joins _found.
Concluded(o, others) ==
  /\ told' = told \o <<o.failing>> \o others
  /\ found' = IF found = NoOutcome THEN [o EXCEPT !.others = others]
              ELSE [found EXCEPT !.others = @ \o <<o.failing>> \o others]

\* MUTANT: the identities of the others are not kept.
ConcludeForgettingTheOthers(o) ==
  /\ identities' = identities \cup {o.failing}
  /\ \E others \in NewAmong(o.others) : Concluded(o, others)
  /\ GoOn

\* The end of _fail.
ConcludeFailure(o) ==
  /\ \E others \in NewAmong(o.others) :
       /\ identities' = identities \cup ToSet(<<o.failing>> \o others)
       /\ Concluded(o, others)
  /\ GoOn

\* _fail.
Fail(x, valued) ==
  /\ failures' = failures \cup {x.identity}
  /\ IF x.identity \in identities
       THEN GoOn /\ UNCHANGED <<identities, told, found>>
       ELSE \E o \in Conclusions([EndOf(x, tally) EXCEPT !.valued = valued]) :
              IF o.kind = "flaky"
                THEN EndWith(o) /\ UNCHANGED <<identities, told, found>>
                ELSE ConcludeFailure(o)

\* MUTANT: a skip ends the campaign also after a failure.
EndsCampaignAlways(x) == x.status = "skipped"

\* A skip ends the campaign before the first failure.
EndsCampaign(x) == x.status = "skipped" /\ found = NoOutcome

\* _take.
Take(x, valued) ==
  /\ tally' = Counted(x)
  /\ IF x.status = "failed"
       THEN Fail(x, valued) /\ Keep
       ELSE /\ IF EndsCampaign(x) THEN EndWith(EndOf(x, Counted(x))) ELSE GoOn
            /\ IF x.status = "passed" THEN \E s \in Scores \cup {NoScore} : Admit(x, s) ELSE Keep
            /\ UNCHANGED <<identities, told, found, failures>>

\* known.
KnownOfCampaign ==
  /\ mode = "campaign" /\ stage = "known" /\ known # <<>>
  /\ known' = Tail(known)
  /\ \E x \in OutsideCases : stored' = StoredWith(x) /\ Take(x, Head(known) = "values")
  /\ UNCHANGED <<mode, body, settings, late, explored>>

InLoop == mode = "campaign" /\ stage = "known" /\ known = <<>>

\* next: a random case, or a mutation of a member of the pool.
Explore ==
  /\ InLoop /\ ~late /\ explored < MaxExplored
  /\ explored' = explored + 1
  /\ \E x \in OutsideCases : UNCHANGED stored /\ Take(x, FALSE)
  /\ UNCHANGED <<mode, body, settings, known, late>>

ResultOf(missed) ==
  IF found # NoOutcome THEN [found EXCEPT !.cases = tally.valid, !.rejected = tally.rejected]
  ELSE IF WithoutCounterexample(tally) # "none" THEN OutcomeOf(WithoutCounterexample(tally), tally)
  ELSE IF missed # {} THEN [OutcomeOf("coverage-unmet", tally) EXCEPT !.missed = Min(missed)]
  ELSE OutcomeOf("passed", tally)

\* result.  The last check of a run decides, over a sample.
Conclusion ==
  /\ InLoop /\ late
  /\ UNCHANGED stored
  /\ EndWith(ResultOf(Missed(Verdicts(tally.count, tally.valid,
                                      settings.requirements, TRUE, FALSE))))
  /\ UNCHANGED <<mode, body, settings, known, tally, exploration>>

\* The time passes, also while a case or a conclusion runs.
PassTime ==
  /\ mode = "campaign" /\ stage # "ended" /\ ~late
  /\ late' = TRUE
  /\ UNCHANGED <<common, explored, pool, seen, best, identities, found, told, failures>>

UnwindCampaign ==
  /\ mode = "campaign" /\ stage = "known"
  /\ stage' = "ended" /\ outcome' = Unwound
  /\ UNCHANGED <<mode, body, settings, known, tally, stored, exploration>>

InitCampaign ==
  /\ late = FALSE /\ explored = 0
  /\ pool = 0 /\ seen = {} /\ best = NoScore
  /\ identities = {} /\ found = NoOutcome /\ told = <<>> /\ failures = {}

NextCampaign == KnownOfCampaign \/ Explore \/ Conclusion \/ PassTime \/ UnwindCampaign

-----------------------------------------------------------------------------

vars == <<common, phases, exploration>>

Init == InitCommon /\ InitRunner /\ InitCampaign

Next == \/ NextRunner /\ UNCHANGED exploration
        \/ NextCampaign /\ UNCHANGED phases

Spec == Init /\ [][Next]_vars

\* The thread of the test goes on, and the time of a campaign passes.
FairSpec == Spec /\ WF_vars(NextRunner /\ UNCHANGED exploration)
                 /\ WF_vars((KnownOfCampaign \/ Explore \/ Conclusion) /\ UNCHANGED phases)
                 /\ WF_vars(PassTime /\ UNCHANGED phases)

-----------------------------------------------------------------------------
(* Properties *)

IsEnded == stage = "ended"
EndsAs(kind) == IsEnded /\ outcome.kind = kind
Returned == IsEnded /\ outcome.kind # "raised"

\* The variables keep their types; a run never asks for a check past the last.
TypeOK ==
  /\ mode \in Mode
  /\ stage \in {"known", "simplest", "random", "prefix", "edge", "left", "conclude", "ended"}
  /\ tally.valid \in Nat /\ tally.rejected \in Nat /\ tally.requested \in BOOLEAN
  /\ \A l \in Labels : tally.count[l] \in 0 .. tally.valid
  /\ outcome.kind \in {"none", "passed", "counterexample", "flaky", "rejected",
                       "coverage-unmet", "vacuous", "skipped", "raised"}
  /\ tested \in 0 .. body.inputs
  /\ index \in Nat /\ edges \in 0 .. Boundaries /\ check \in DOMAIN Checks
  /\ ToSet(told) \subseteq Identities /\ failures \subseteq Identities

Share(r) == [counted |-> 1000 * tally.count[r.label], required |-> 10 * r.share * tally.valid]

\* A passed run ended its search: it has the valid cases of its check, or tested
\* every input, or made up all the random cases of the check; and no edge case
\* is left unless every input was tested.
PassIsComplete ==
  EndsAs("passed") /\ mode = "run" =>
    /\ tally.valid >= Target \/ Exhausted \/ index = GenerationFactor * Target
    /\ edges = Boundaries \/ Exhausted

Tested == /\ tally.valid > 0 /\ tally.requested
          /\ tally.rejected <= MaxRejections * tally.valid

\* A run or campaign that passed tested something, with not too many rejections,
\* and every label reached nine tenths of its share, whichever check met its
\* requirement.  One that failed for its coverage names a label that missed its
\* share.  Rejected and repeated cases take no part.
VerdictIsJustified ==
  /\ EndsAs("passed") /\ mode \in {"run", "campaign"} =>
       /\ Tested
       /\ \A i \in DOMAIN settings.requirements :
            LET s == Share(settings.requirements[i]) IN 10 * s.counted >= 9 * s.required
  /\ EndsAs("coverage-unmet") =>
       /\ Tested
       /\ LET s == Share(settings.requirements[outcome.missed]) IN s.counted < s.required

\* Whichever of its ways a run or campaign took to end, the outcome has the
\* counts of all of it, the run of each stored case, which the property pairs with
\* its files by position, and the token of a counterexample that was not given.
OutcomeIsComplete ==
  Returned =>
    /\ outcome.cases = tally.valid /\ outcome.rejected = tally.rejected
    /\ outcome.stored = stored
    /\ outcome.kind = "counterexample" => outcome.token = ~outcome.valued

Reported == <<outcome.failing>> \o outcome.others

\* A campaign reports each identity once, and it reports what it told the store,
\* failures that a shrink came across and failures of later cases alike.
ReportIsWhatWasTold ==
  /\ IsInjective(told)
  /\ EndsAs("counterexample") => IsInjective(Reported)
  /\ EndsAs("counterexample") /\ mode = "campaign" =>
       Reported = told /\ failures \subseteq ToSet(told)

\* Once a case has failed, no skip and no count hides it.
FailureIsNotHidden ==
  Returned /\ failures # {} => outcome.kind \in {"counterexample", "flaky"}

\* Whichever way a run takes, its outcome is that of a search that was made whole: what
\* a pass or a failed coverage claims was tested, and what the property pairs with its
\* files is there (runner.py, _conclude and _checked).
OutcomeIsJustified == PassIsComplete /\ VerdictIsJustified /\ OutcomeIsComplete

\* Failures reach the report: each once, in the order the store was told of them, and
\* never behind a skip or a count (campaign.py).
FailuresAreReported == ReportIsWhatWasTold /\ FailureIsNotHidden

\* A run ends, and a campaign does after its time.
RunEnds == <>IsEnded
=============================================================================
