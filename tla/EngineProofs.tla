----------------------------- MODULE EngineProofs -----------------------------
(***************************************************************************)
(* Proofs about Engine, for any callers, bodies, requirements and checks.  *)
(***************************************************************************)
EXTENDS Engine, FiniteSetTheorems, SequenceTheorems, WellFoundedInduction, TLAPS

Statuses == {"passed", "failed", "rejected", "skipped"}
Kinds == {"none", "passed", "counterexample", "flaky", "rejected", "coverage-unmet",
          "vacuous", "skipped", "raised"}

Outcomes ==
  [kind : Kinds, cases : Nat, rejected : Nat, stored : Seq(Statuses),
   failing : Identities \cup {NoFailure}, others : Seq(Identities), valued : BOOLEAN,
   token : BOOLEAN, missed : Nat]

Tallies == [valid : Nat, rejected : Nat, requested : BOOLEAN, count : [Labels -> Nat]]

InTree == {"simplest", "random", "prefix", "edge", "left"}

\* The types of what a run and a campaign share, and of the phases of a run.
SharedTypes ==
  /\ mode \in Mode
  /\ body.draws \in BOOLEAN /\ body.inputs \in Nat \ {0} /\ body.labels \subseteq Labels
  /\ settings.requirements \in Seq([label : Labels, share : Nat])
  /\ stage \in InTree \cup {"known", "conclude", "ended"}
  /\ known \in Seq({"trace", "values", "stored", "token", "fuzz"})
  /\ tally \in Tallies
  /\ stored \in Seq(Statuses)
  /\ outcome \in Outcomes

PhaseTypes ==
  /\ tested \in 0 .. body.inputs
  /\ check \in 1 .. Len(Checks)
  /\ index \in 0 .. GenerationFactor * Target
  /\ edges \in 0 .. Boundaries

CampaignTypes ==
  /\ found \in Outcomes
  /\ told \in Seq(Identities)
  /\ identities \subseteq Identities /\ failures \subseteq Identities

\* Who is in which stage.  A search in the tree has its simplest case behind it, and
\* it leaves its loop only when the loop wants no more.
StagesFollow ==
  /\ stage \in InTree => mode = "run"
  /\ stage = "conclude" => mode # "campaign"
  /\ stage \in {"known", "simplest"} => tested = 0
  /\ stage = "prefix" => ~Exhausted
  /\ stage = "left" => ~WantsMore
  /\ stage \in {"random", "prefix", "edge", "left"} => tally.valid + tally.rejected >= 1

\* A replay has the known cases of its kind only.
KnownOfItsKind ==
  /\ mode \in {"token", "fuzz"} =>
       stored = <<>> /\ \A i \in DOMAIN known : known[i] = mode
  /\ mode = "stored" => \A i \in DOMAIN known : known[i] = "stored"

\* What conclude receives.
ConcludesTheWhole ==
  stage = "conclude" =>
    /\ outcome.kind \in {"counterexample", "flaky", "skipped"}
    /\ outcome.cases = tally.valid /\ outcome.rejected = tally.rejected
    /\ outcome.stored = stored /\ outcome.others = <<>> /\ ~outcome.token
    /\ mode \in {"stored", "token"} => ~outcome.valued
    /\ outcome.kind = "counterexample" => outcome.failing \in Identities

\* A campaign keeps what it told, and its first failure begins it.  What is not a
\* campaign has none of it.
CampaignKeepsItsFailures ==
  /\ mode # "campaign" => found = NoOutcome /\ told = <<>> /\ failures = {}
  /\ identities = ToSet(told) /\ IsInjective(told)
  /\ mode = "campaign" /\ stage = "known" =>
       /\ failures \subseteq identities
       /\ found = NoOutcome => told = <<>>
       /\ found # NoOutcome =>
            /\ found.kind = "counterexample" /\ found.token = ~found.valued
            /\ told = <<found.failing>> \o found.others
       /\ found = NoOutcome /\ tally.requested => tally.valid + tally.rejected >= 1

EngineInductive ==
  /\ SharedTypes /\ PhaseTypes /\ CampaignTypes
  /\ StagesFollow /\ KnownOfItsKind /\ ConcludesTheWhole /\ CampaignKeepsItsFailures
  /\ OutcomeIsJustified /\ FailuresAreReported

-----------------------------------------------------------------------------
(* Cases, counts and outcomes *)

\* A case as a run counts it.
CaseType ==
  [status : Statuses \cup {"diverged", "repeated", "overran"}, labels : SUBSET Labels,
   identity : Identities \cup {NoFailure}]

LEMMA CasesAreCases ==
  ASSUME body.labels \subseteq Labels
  PROVE  /\ \A x \in OutsideCases : x \in CaseType /\ x.status \in Statuses
         /\ \A x \in OutsideCases : x.status = "failed" => x.identity \in Identities
         /\ \A x \in TreeCases : x \in CaseType /\ Result(x) \in CaseType
         /\ \A x \in TreeCases : Result(x).status = "failed" => Result(x).identity \in Identities
<1>1. \A x \in Passed : x \in CaseType /\ x.status = "passed"
  BY DEF Passed, CaseType, Statuses
<1>2. \A x \in Failed : x \in CaseType /\ x.status = "failed" /\ x.identity \in Identities
  BY DEF Failed, CaseType, Statuses
<1>3. \A status \in Statuses \cup {"diverged", "repeated", "overran"} :
         Ended(status) \in CaseType /\ Ended(status).status = status
  BY DEF Ended, CaseType
<1>4. \A x \in OutsideCases : /\ x \in CaseType /\ x.status \in Statuses
                              /\ x.status = "failed" => x.identity \in Identities
  BY <1>1, <1>2, <1>3 DEF OutsideCases, Statuses
<1>5. \A x \in TreeCases : x \in OutsideCases \/ x \in {Ended("overran"), Ended("diverged"), Ended("repeated")}
  BY DEF TreeCases
<1>6. \A x \in TreeCases : x \in CaseType
  BY <1>3, <1>4, <1>5 DEF Statuses
<1>7. \A x \in TreeCases : Result(x) \in CaseType
  BY <1>3, <1>6 DEF Result, Statuses
<1>8. \A x \in TreeCases : Result(x).status = "failed" => Result(x).identity \in Identities
  BY <1>3, <1>4, <1>5 DEF Result, Statuses
<1> QED
  BY <1>4, <1>6, <1>7, <1>8

\* A case changes the counts by what it is, and at most by one.
LEMMA CountsAreTallies ==
  ASSUME tally \in Tallies, body.draws \in BOOLEAN, NEW x \in CaseType
  PROVE  /\ Counted(x) \in Tallies
         /\ Counted(x).valid = tally.valid + (IF x.status = "passed" THEN 1 ELSE 0)
         /\ Counted(x).rejected = tally.rejected + (IF x.status = "rejected" THEN 1 ELSE 0)
  BY DEF Tallies, CaseType, Counted

LEMMA OutcomesOfKinds ==
  ASSUME NEW kind \in Kinds, NEW t \in Tallies
  PROVE  /\ OutcomeOf(kind, t) \in Outcomes
         /\ OutcomeOf(kind, t).kind = kind
         /\ OutcomeOf(kind, t).cases = t.valid /\ OutcomeOf(kind, t).rejected = t.rejected
         /\ OutcomeOf(kind, t).stored = <<>> /\ OutcomeOf(kind, t).others = <<>>
         /\ OutcomeOf(kind, t).valued = FALSE /\ OutcomeOf(kind, t).token = FALSE
  BY DEF Outcomes, OutcomeOf, Tallies, NoFailure

LEMMA EndsAreOutcomes ==
  ASSUME NEW t \in Tallies, NEW x \in CaseType, x.status = "failed" => x.identity \in Identities
  PROVE  /\ EndOf(x, t) \in Outcomes
         /\ EndOf(x, t).kind \in {"counterexample", "flaky", "skipped"}
         /\ EndOf(x, t).kind = "counterexample" <=> x.status = "failed"
         /\ EndOf(x, t).cases = t.valid /\ EndOf(x, t).rejected = t.rejected
         /\ EndOf(x, t).stored = <<>> /\ EndOf(x, t).others = <<>>
         /\ EndOf(x, t).valued = FALSE /\ EndOf(x, t).token = FALSE
         /\ x.status = "failed" => EndOf(x, t).failing = x.identity
<1>1. "counterexample" \in Kinds /\ "flaky" \in Kinds /\ "skipped" \in Kinds
  BY DEF Kinds
<1>2. \A kind \in {"counterexample", "flaky", "skipped"} :
         /\ OutcomeOf(kind, t) \in Outcomes
         /\ OutcomeOf(kind, t).kind = kind
         /\ OutcomeOf(kind, t).cases = t.valid /\ OutcomeOf(kind, t).rejected = t.rejected
         /\ OutcomeOf(kind, t).stored = <<>> /\ OutcomeOf(kind, t).others = <<>>
         /\ OutcomeOf(kind, t).valued = FALSE /\ OutcomeOf(kind, t).token = FALSE
  BY <1>1, OutcomesOfKinds
<1> DEFINE c == OutcomeOf("counterexample", t)
<1>3. CASE x.status = "failed"
  <2>1. EndOf(x, t) = [c EXCEPT !.failing = x.identity]
    BY <1>3 DEF EndOf
  <2>2. /\ c \in Outcomes /\ c.kind = "counterexample" /\ c.cases = t.valid
        /\ c.rejected = t.rejected /\ c.stored = <<>> /\ c.others = <<>>
        /\ c.valued = FALSE /\ c.token = FALSE
    BY <1>2
  <2> HIDE DEF c
  <2> QED
    BY <1>3, <2>1, <2>2 DEF Outcomes
<1>4. CASE x.status # "failed"
  BY <1>2, <1>4 DEF EndOf
<1> QED
  BY <1>3, <1>4

\* What conclude makes of an outcome without others or a token: the outcome keeps its
\* counts, a given counterexample keeps no token, and the others are new to it.
LEMMA ConclusionsAreOutcomes ==
  ASSUME TallyAssumption, NEW o \in Outcomes, o.others = <<>>, o.token = FALSE,
         o.kind = "counterexample" => o.failing \in Identities,
         NEW c \in Conclusions(o)
  PROVE  /\ c \in Outcomes
         /\ c.cases = o.cases /\ c.rejected = o.rejected /\ c.stored = o.stored
         /\ c.failing = o.failing /\ c.valued = o.valued
         /\ c.kind \in {o.kind, "flaky"}
         /\ c.kind = "counterexample" => c.token = ~c.valued
         /\ c.others \in Seq(Identities) /\ IsInjective(c.others)
         /\ \A i \in DOMAIN c.others : c.others[i] # c.failing
<1>1. IsInjective(<<>>) /\ <<>> \in Seq(Identities)
  BY DEF IsInjective
<1>2. CASE o.kind # "counterexample" \/ o.valued
  <2>1. c = o
    BY <1>2 DEF Conclusions
  <2> QED
    BY <1>1, <1>2, <2>1 DEF Outcomes
<1>3. CASE ~(o.kind # "counterexample" \/ o.valued) /\ ~settings.shrinks
  <2>1. c = [o EXCEPT !.token = TRUE]
    BY <1>3 DEF Conclusions
  <2>2. o.valued = FALSE /\ c \in Outcomes /\ c.token = TRUE /\ c.valued = o.valued
    BY <1>3, <2>1 DEF Outcomes
  <2>3. /\ c.kind = o.kind /\ c.cases = o.cases /\ c.rejected = o.rejected
        /\ c.stored = o.stored /\ c.failing = o.failing /\ c.others = <<>>
    BY <2>1 DEF Outcomes
  <2>4. c.token = ~c.valued
    BY <2>2
  <2>5. \A i \in DOMAIN c.others : c.others[i] # c.failing
    BY <2>3
  <2> QED
    BY <1>1, <2>2, <2>3, <2>4, <2>5
<1>4. CASE ~(o.kind # "counterexample" \/ o.valued) /\ settings.shrinks
  <2>1. c = [o EXCEPT !.kind = "flaky"] \/ c \in {[o EXCEPT !.others = s, !.token = TRUE] : s \in OthersOf(o.failing)}
    BY <1>4 DEF Conclusions
  <2>2. CASE c = [o EXCEPT !.kind = "flaky"]
    BY <1>1, <1>4, <2>2 DEF Outcomes, Kinds
  <2>3. CASE c \in {[o EXCEPT !.others = s, !.token = TRUE] : s \in OthersOf(o.failing)}
    <3>1. PICK s \in OthersOf(o.failing) : c = [o EXCEPT !.others = s, !.token = TRUE]
      BY <2>3
    <3>2. PICK T \in SUBSET (Identities \ {o.failing}) : s \in SetToSeqs(T)
      BY DEF OthersOf, SetToAllKPermutations
    <3>3. IsFiniteSet(T) /\ Cardinality(T) \in Nat
      BY FS_Subset, FS_CardinalityType DEF TallyAssumption
    <3>4. /\ s \in [1 .. Cardinality(T) -> T]
          /\ \A i, j \in 1 .. Cardinality(T) : i # j => s[i] # s[j]
      BY <3>2 DEF SetToSeqs
    <3>5. s \in Seq(Identities) /\ DOMAIN s = 1 .. Cardinality(T)
      BY <3>3, <3>4
    <3>6. IsInjective(s) /\ \A i \in DOMAIN s : s[i] # o.failing
      BY <3>4, <3>5 DEF IsInjective
    <3> QED
      BY <1>4, <3>1, <3>5, <3>6 DEF Outcomes
  <2> QED
    BY <2>1, <2>2, <2>3
<1> QED
  BY <1>2, <1>3, <1>4

-----------------------------------------------------------------------------
(* The check of the coverage *)

\* What a verdict says of the share: "met" that nine tenths of it are there, "refuted"
\* and "unmet" that it is missed, and "undecided" that a later check comes.
LEMMA VerdictsAreTrue ==
  ASSUME NEW k \in Nat, NEW n \in Nat, NEW share \in Nat, NEW last \in BOOLEAN, NEW exact \in BOOLEAN
  PROVE  LET v == Verdict(k, n, share, last, exact) IN
         /\ v \in {"met", "refuted", "unmet", "undecided"}
         /\ v = "met" => 10 * (1000 * k) >= 9 * (10 * share * n)
         /\ v \in {"refuted", "unmet"} => 1000 * k < 10 * share * n
         /\ v = "undecided" => ~last
  BY DEF Verdict, LowerReaches, UpperMisses

\* A nonempty set of numbers has a least member, which Min takes.
LEMMA SmallerIsRelated ==
  ASSUME NEW x \in Nat, NEW y \in Nat, y < x
  PROVE  <<y, x>> \in OpToRel(<, Nat)
<1>1. <<y, x>> \in Nat \X Nat
  OBVIOUS
<1>2. <<y, x>>[1] = y /\ <<y, x>>[2] = x
  OBVIOUS
<1>3. <<y, x>>[1] < <<y, x>>[2]
  BY <1>2
<1> QED
  BY ONLY <1>1, <1>3, Zenon DEF OpToRel

LEMMA LeastIsAMember ==
  ASSUME NEW S \in SUBSET Nat, S # {}
  PROVE  Min(S) \in S
<1>1. \A x \in S, y \in S : y < x => <<y, x>> \in OpToRel(<, Nat)
  BY SmallerIsRelated
<1>2. \E x \in S : \A y \in S : ~ (<<y, x>> \in OpToRel(<, Nat))
  BY NatLessThanWellFounded, WFMin
<1>3. \E x \in S : \A y \in S : ~ (y < x)
  BY <1>1, <1>2, Zenon
<1>4. \E x \in S : \A y \in S : x <= y
  BY <1>3
<1> QED
  BY <1>4 DEF Min

Reached(r) == LET s == Share(r) IN 10 * s.counted >= 9 * s.required
Missing(r) == LET s == Share(r) IN s.counted < s.required

\* A missed share is missing, met shares are reached, and what is neither waits for a
\* check that is not the last.
LEMMA ShortfallsAreTrue ==
  ASSUME tally \in Tallies, NEW requirements \in Seq([label : Labels, share : Nat]),
         NEW last \in BOOLEAN, NEW exact \in BOOLEAN,
         NEW verdicts,
         verdicts = Verdicts(tally.count, tally.valid, requirements, last, exact)
  PROVE  /\ Missed(verdicts) # {} => /\ Min(Missed(verdicts)) \in DOMAIN requirements
                                     /\ Min(Missed(verdicts)) \in Nat
                                     /\ Missing(requirements[Min(Missed(verdicts))])
         /\ AllMet(verdicts) => \A i \in DOMAIN requirements : Reached(requirements[i])
         /\ Missed(verdicts) = {} /\ ~AllMet(verdicts) => requirements # <<>> /\ ~last
<1>1. /\ DOMAIN verdicts = DOMAIN requirements /\ DOMAIN requirements \subseteq Nat
      /\ DOMAIN requirements = 1 .. Len(requirements)
  BY DEF Verdicts
<1>2. ASSUME NEW i \in DOMAIN requirements
      PROVE  /\ verdicts[i] \in {"met", "refuted", "unmet", "undecided"}
             /\ verdicts[i] = "met" => Reached(requirements[i])
             /\ verdicts[i] \in {"refuted", "unmet"} => Missing(requirements[i])
             /\ verdicts[i] = "undecided" => ~last
  <2> DEFINE k == tally.count[requirements[i].label]
             share == requirements[i].share
  <2>0. requirements[i] \in [label : Labels, share : Nat]
    BY <1>1, ElementOfSeq
  <2>1. k \in Nat /\ tally.valid \in Nat /\ share \in Nat
    BY <2>0 DEF Tallies
  <2>2. verdicts[i] = Verdict(k, tally.valid, share, last, exact)
    BY DEF Verdicts
  <2>3. /\ Share(requirements[i]).counted = 1000 * k
        /\ Share(requirements[i]).required = 10 * share * tally.valid
    BY DEF Share
  <2>4. /\ verdicts[i] \in {"met", "refuted", "unmet", "undecided"}
        /\ verdicts[i] = "met" => 10 * (1000 * k) >= 9 * (10 * share * tally.valid)
        /\ verdicts[i] \in {"refuted", "unmet"} => 1000 * k < 10 * share * tally.valid
        /\ verdicts[i] = "undecided" => ~last
    <3> HIDE DEF k, share
    <3> QED
      BY <2>1, <2>2, VerdictsAreTrue
  <2> HIDE DEF k, share
  <2> QED
    BY <2>3, <2>4 DEF Reached, Missing
<1>3. Missed(verdicts) # {} => Min(Missed(verdicts)) \in Missed(verdicts)
  BY <1>1, LeastIsAMember DEF Missed
<1> QED
  BY <1>1, <1>2, <1>3 DEF Missed, AllMet

\* An outcome that is decided on the counts: Tested is what its kind "none" means.
LEMMA WithoutIsNone ==
  ASSUME tally \in Tallies, MaxRejections \in Nat, WithoutCounterexample(tally) = "none",
         tally.requested => tally.valid + tally.rejected >= 1
  PROVE  Tested
<1>1. tally.rejected <= MaxRejections * tally.valid /\ tally.requested
  BY DEF WithoutCounterexample, Tallies
<1>2. tally.valid = 0 => MaxRejections * tally.valid = 0
  BY DEF Tallies
<1> QED
  BY <1>1, <1>2 DEF Tested, Tallies

LEMMA WithoutIsAKind ==
  ASSUME WithoutCounterexample(tally) # "none"
  PROVE  WithoutCounterexample(tally) \in {"rejected", "vacuous"}
  BY DEF WithoutCounterexample

-----------------------------------------------------------------------------
(* The initial states *)

LEMMA KnownAreOfTheirKind ==
  ASSUME NEW m \in Mode, NEW kinds \in Seq({"trace", "values", "stored"})
  PROVE  /\ KnownOf(m, kinds) \in Seq({"trace", "values", "stored", "token", "fuzz"})
         /\ m \in {"token", "fuzz"} => \A i \in DOMAIN KnownOf(m, kinds) : KnownOf(m, kinds)[i] = m
         /\ m = "stored" => \A i \in DOMAIN KnownOf(m, kinds) : KnownOf(m, kinds)[i] = "stored"
<1>1. CASE m \in {"run", "campaign"}
  BY <1>1 DEF KnownOf
<1>2. CASE m = "stored"
  <2>1. IsFiniteSet(1 .. Len(kinds)) /\ StoredAmong(kinds) \in SUBSET (1 .. Len(kinds))
    BY FS_Interval DEF StoredAmong
  <2>2. Cardinality(StoredAmong(kinds)) \in Nat
    BY <2>1, FS_Subset, FS_CardinalityType
  <2> QED
    BY <1>2, <2>2 DEF KnownOf
<1>3. CASE m \in {"token", "fuzz"}
  <2>1. KnownOf(m, kinds) = <<m>>
    BY <1>3 DEF KnownOf
  <2>2. <<m>> \in Seq({"trace", "values", "stored", "token", "fuzz"}) /\ DOMAIN <<m>> = 1 .. 1
    BY <1>3
  <2>3. \A i \in DOMAIN <<m>> : <<m>>[i] = m
    BY <2>2
  <2> QED
    BY <1>3, <2>1, <2>2, <2>3
<1> QED
  BY <1>1, <1>2, <1>3 DEF Mode

LEMMA EngineInit == Init => EngineInductive
<1> SUFFICES ASSUME Init PROVE EngineInductive
  OBVIOUS
<1>1. PICK s \in Starts : /\ mode = s.mode /\ body = s.body /\ settings = s.settings
                          /\ known = KnownOf(s.mode, s.known)
  BY DEF Init, InitCommon
<1>2. /\ s.mode \in Mode /\ s.body.draws \in BOOLEAN /\ s.body.inputs \in Nat \ {0}
      /\ s.body.labels \subseteq Labels /\ s.known \in Seq({"trace", "values", "stored"})
      /\ s.settings.requirements \in Seq([label : Labels, share : Nat])
  BY TallyAssumption
<1>3. NewTally \in Tallies
  BY DEF NewTally, Tallies
<1>4. NoOutcome \in Outcomes
  BY <1>3, OutcomesOfKinds DEF NoOutcome, Kinds
<1>5. /\ stage = "known" /\ tally = NewTally /\ stored = <<>> /\ outcome = NoOutcome
      /\ tested = 0 /\ index = 0 /\ edges = 0 /\ check = 1
      /\ identities = {} /\ found = NoOutcome /\ told = <<>> /\ failures = {}
  BY DEF Init, InitCommon, InitRunner, InitCampaign
<1>6. SharedTypes
  BY <1>1, <1>2, <1>3, <1>4, <1>5, KnownAreOfTheirKind DEF SharedTypes
<1>7. PhaseTypes
  <2>1. Len(Checks) \in Nat \ {0} /\ Checks[1] \in Nat
    BY RunnerAssumption
  <2>2. 0 \in 0 .. GenerationFactor * Target
    BY <1>5, <2>1, TallyAssumption, RunnerAssumption DEF Target
  <2> QED
    BY <1>1, <1>2, <1>5, <2>1, <2>2, RunnerAssumption DEF PhaseTypes
<1>8. CampaignTypes
  BY <1>4, <1>5 DEF CampaignTypes
<1>9. StagesFollow /\ ConcludesTheWhole
  BY <1>5 DEF StagesFollow, ConcludesTheWhole, InTree
<1>10. KnownOfItsKind
  BY <1>1, <1>2, <1>5, KnownAreOfTheirKind DEF KnownOfItsKind
<1>11. CampaignKeepsItsFailures
  <2>1. ToSet(<<>>) = {} /\ IsInjective(<<>>)
    BY DEF ToSet, IsInjective
  <2>2. tally.requested = FALSE
    BY <1>5 DEF NewTally
  <2> QED
    BY <1>5, <2>1, <2>2 DEF CampaignKeepsItsFailures
<1>12. OutcomeIsJustified /\ FailuresAreReported
  BY <1>5, <1>11 DEF OutcomeIsJustified, PassIsComplete, VerdictIsJustified, OutcomeIsComplete,
     FailuresAreReported, ReportIsWhatWasTold, FailureIsNotHidden, Returned, EndsAs, IsEnded,
     CampaignKeepsItsFailures
<1> QED
  BY <1>6, <1>7, <1>8, <1>9, <1>10, <1>11, <1>12 DEF EngineInductive

-----------------------------------------------------------------------------
(* The steps of a run *)

\* A run that goes on leaves a campaign's state alone, and has no outcome to justify.
LEMMA RunGoesOn ==
  ASSUME EngineInductive, UNCHANGED <<mode, body, settings, exploration>>,
         mode # "campaign", stage' # "ended"
  PROVE  CampaignTypes' /\ CampaignKeepsItsFailures' /\ OutcomeIsJustified' /\ FailuresAreReported'
<1>1. CampaignTypes'
  BY DEF EngineInductive, CampaignTypes, exploration
<1>2. CampaignKeepsItsFailures'
  BY DEF EngineInductive, CampaignKeepsItsFailures, exploration
<1>3. IsInjective(told')
  BY <1>2 DEF CampaignKeepsItsFailures
<1> QED
  BY <1>1, <1>2, <1>3 DEF OutcomeIsJustified, PassIsComplete, VerdictIsJustified, OutcomeIsComplete,
     FailuresAreReported, ReportIsWhatWasTold, FailureIsNotHidden, Returned, EndsAs, IsEnded

\* What a case in the tree does, whichever stage follows it.
LEMMA CaseInTheTree ==
  ASSUME EngineInductive, mode = "run", stage \in InTree, ~Exhausted,
         NEW x \in TreeCases, NEW to \in InTree, Seen(x, to),
         UNCHANGED <<mode, body, settings, known, stored, check, exploration>>
  PROVE  /\ SharedTypes' /\ KnownOfItsKind' /\ ConcludesTheWhole'
         /\ CampaignTypes' /\ CampaignKeepsItsFailures'
         /\ OutcomeIsJustified' /\ FailuresAreReported'
         /\ tested' \in 0 .. body'.inputs /\ tested' \in {tested, tested + 1}
         /\ tally'.valid >= tally.valid /\ tally'.rejected >= tally.rejected
         /\ stage' = "conclude" \/ stage' = to
         /\ x.status # "repeated" /\ stage' = to => tally'.valid + tally'.rejected >= 1
<1> DEFINE r == Result(x)
<1>1. /\ x \in CaseType /\ r \in CaseType
      /\ r.status = "failed" => r.identity \in Identities
  BY CasesAreCases DEF EngineInductive, SharedTypes
<1>2. /\ tally' = Counted(r)
      /\ tested' = IF x.status \in {"passed", "rejected"} THEN tested + 1 ELSE tested
      /\ IF EndsRun(r)
           THEN stage' = "conclude" /\ outcome' = [EndOf(r, Counted(r)) EXCEPT !.stored = stored]
           ELSE stage' = to /\ UNCHANGED outcome
  BY DEF Seen
<1>3. /\ tally \in Tallies /\ body.draws \in BOOLEAN /\ stored \in Seq(Statuses)
      /\ outcome \in Outcomes
  BY DEF EngineInductive, SharedTypes
<1> HIDE DEF r
<1>4. /\ tally' \in Tallies
      /\ tally'.valid = tally.valid + (IF r.status = "passed" THEN 1 ELSE 0)
      /\ tally'.rejected = tally.rejected + (IF r.status = "rejected" THEN 1 ELSE 0)
  BY <1>1, <1>2, <1>3, CountsAreTallies
<1>5. /\ tested' \in {tested, tested + 1}
      /\ tested' \in 0 .. body'.inputs
  BY <1>2 DEF EngineInductive, PhaseTypes, SharedTypes, Exhausted
<1>6. stage' # "ended" /\ (stage' = "conclude" \/ stage' = to)
  BY <1>2 DEF InTree
<1>9. outcome' \in Outcomes /\ ConcludesTheWhole'
  <2>1. CASE EndsRun(r)
    <3> DEFINE e == EndOf(r, tally')
    <3>1. outcome' = [e EXCEPT !.stored = stored] /\ stage' = "conclude"
      BY <1>2, <2>1
    <3>2. /\ e \in Outcomes /\ e.kind \in {"counterexample", "flaky", "skipped"}
          /\ e.cases = tally'.valid /\ e.rejected = tally'.rejected /\ e.others = <<>>
          /\ e.valued = FALSE /\ e.token = FALSE
          /\ e.kind = "counterexample" => e.failing \in Identities
      BY <1>1, <1>4, EndsAreOutcomes
    <3> HIDE DEF e
    <3>3. /\ outcome' \in Outcomes /\ outcome'.kind = e.kind /\ outcome'.cases = e.cases
          /\ outcome'.rejected = e.rejected /\ outcome'.stored = stored
          /\ outcome'.others = e.others /\ outcome'.valued = e.valued /\ outcome'.token = e.token
          /\ outcome'.failing = e.failing
      BY <1>3, <3>1, <3>2 DEF Outcomes
    <3> QED
      BY <3>1, <3>2, <3>3 DEF ConcludesTheWhole
  <2>2. CASE ~EndsRun(r)
    BY <1>2, <1>3, <2>2 DEF ConcludesTheWhole, InTree
  <2> QED
    BY <2>1, <2>2
<1>10. SharedTypes' /\ KnownOfItsKind'
  BY <1>4, <1>6, <1>9 DEF EngineInductive, SharedTypes, KnownOfItsKind
<1>11. CampaignTypes' /\ CampaignKeepsItsFailures' /\ OutcomeIsJustified' /\ FailuresAreReported'
  BY <1>6, RunGoesOn
<1>12. tally'.valid >= tally.valid /\ tally'.rejected >= tally.rejected
  BY <1>3, <1>4 DEF Tallies
<1>13. x.status # "repeated" /\ stage' = to => tally'.valid + tally'.rejected >= 1
  <2>1. SUFFICES ASSUME x.status # "repeated", stage' = to
                 PROVE  tally'.valid + tally'.rejected >= 1
    OBVIOUS
  <2>2. ~EndsRun(r)
    BY <1>2, <2>1 DEF InTree
  <2>3. r.status \in {"passed", "rejected"}
    BY <1>1, <2>1, <2>2 DEF EndsRun, r, Result, Ended, CaseType, Statuses
  <2> QED
    BY <1>3, <1>4, <2>3 DEF Tallies
<1> QED
  BY <1>5, <1>6, <1>9, <1>10, <1>11, <1>12, <1>13

\* A step of a run within the search, or to what concludes it.
LEMMA TargetsAscend ==
  ASSUME check \in 1 .. Len(Checks), check' \in {check, check + 1}, check' \in 1 .. Len(Checks)
  PROVE  /\ Target \in Nat /\ Target' \in Nat
         /\ GenerationFactor * Target \in Nat
         /\ GenerationFactor * Target <= GenerationFactor * Target'
<1>1. Checks[check] \in Nat /\ Checks[check'] \in Nat /\ Cases \in Nat /\ GenerationFactor \in Nat
  BY TallyAssumption, RunnerAssumption
<1>2. Checks[check] <= Checks[check']
  BY <1>1, RunnerAssumption
<1>3. \A a, b, c \in Nat : a <= b => a * c <= b * c /\ c * a <= c * b /\ a * c \in Nat /\ c * a \in Nat
  OBVIOUS
<1>4. Target \in Nat /\ Target' \in Nat /\ Target <= Target'
  BY <1>1, <1>2, <1>3 DEF Target
<1> QED
  BY <1>1, <1>3, <1>4

LEMMA TargetIsNat ==
  ASSUME check \in 1 .. Len(Checks)
  PROVE  Target \in Nat /\ GenerationFactor * Target \in Nat
<1>1. Checks[check] \in Nat /\ Cases \in Nat /\ GenerationFactor \in Nat
  BY TallyAssumption, RunnerAssumption
<1> QED
  BY <1>1 DEF Target

LEMMA KnownCaseStep ==
  ASSUME EngineInductive, KnownCase, UNCHANGED exploration
  PROVE  EngineInductive'
<1>1. /\ mode # "campaign" /\ stage = "known" /\ known # <<>> /\ known' = Tail(known)
      /\ UNCHANGED <<mode, body, settings, tested, index, edges, check>>
  BY DEF KnownCase, phases
<1>2. PICK x \in OutsideCases :
        /\ tally' = Counted(x)
        /\ stored' = StoredWith(x)
        /\ IF EndsRun(x) THEN EndKnown(x) ELSE UNCHANGED <<stage, outcome>>
  BY DEF KnownCase
<1>3. /\ x \in CaseType /\ x.status \in Statuses
      /\ x.status = "failed" => x.identity \in Identities
  BY CasesAreCases DEF EngineInductive, SharedTypes
<1>4. tally \in Tallies /\ body.draws \in BOOLEAN /\ stored \in Seq(Statuses) /\ outcome \in Outcomes
      /\ known \in Seq({"trace", "values", "stored", "token", "fuzz"})
  BY DEF EngineInductive, SharedTypes
<1>5. tally' \in Tallies
  BY <1>2, <1>3, <1>4, CountsAreTallies
<1>6. stored' \in Seq(Statuses)
  BY <1>2, <1>3, <1>4 DEF StoredWith
<1>7. /\ Len(known) \in Nat \ {0} /\ Head(known) = known[1]
      /\ known' \in Seq({"trace", "values", "stored", "token", "fuzz"})
      /\ DOMAIN known' = 1 .. Len(known) - 1
      /\ \A i \in DOMAIN known' : i + 1 \in DOMAIN known /\ known'[i] = known[i + 1]
  BY <1>1, <1>4
<1>8. KnownOfItsKind'
  BY <1>1, <1>2, <1>7 DEF EngineInductive, KnownOfItsKind, StoredWith
<1>9. /\ stage' \in {"known", "conclude"} /\ outcome' \in Outcomes /\ ConcludesTheWhole'
  <2>1. CASE EndsRun(x)
    <3> DEFINE e == EndOf(x, tally')
               v == Head(known) = "values"
    <3>1. /\ outcome' = [e EXCEPT !.valued = v, !.stored = stored'] /\ stage' = "conclude"
      BY <1>2, <2>1 DEF EndKnown
    <3>2. /\ e \in Outcomes /\ e.kind \in {"counterexample", "flaky", "skipped"}
          /\ e.cases = tally'.valid /\ e.rejected = tally'.rejected /\ e.others = <<>>
          /\ e.token = FALSE
          /\ e.kind = "counterexample" => e.failing \in Identities
      BY <1>3, <1>5, EndsAreOutcomes
    <3>3. v \in BOOLEAN /\ (mode \in {"stored", "token"} => v = FALSE)
      BY <1>1, <1>7 DEF EngineInductive, KnownOfItsKind
    <3> HIDE DEF e, v
    <3>4. /\ outcome' \in Outcomes /\ outcome'.kind = e.kind /\ outcome'.cases = e.cases
          /\ outcome'.rejected = e.rejected /\ outcome'.stored = stored'
          /\ outcome'.others = e.others /\ outcome'.valued = v /\ outcome'.token = e.token
          /\ outcome'.failing = e.failing
      BY <1>6, <3>1, <3>2, <3>3 DEF Outcomes
    <3> QED
      BY <1>1, <3>1, <3>2, <3>3, <3>4 DEF ConcludesTheWhole
  <2>2. CASE ~EndsRun(x)
    BY <1>1, <1>2, <1>4, <2>2 DEF ConcludesTheWhole
  <2> QED
    BY <2>1, <2>2
<1>10. SharedTypes'
  BY <1>1, <1>5, <1>6, <1>7, <1>9 DEF EngineInductive, SharedTypes
<1>11. PhaseTypes' /\ StagesFollow'
  BY <1>1, <1>9 DEF EngineInductive, PhaseTypes, StagesFollow, Target, InTree
<1>12. CampaignTypes' /\ CampaignKeepsItsFailures' /\ OutcomeIsJustified' /\ FailuresAreReported'
  BY <1>1, <1>9, RunGoesOn
<1> QED
  BY <1>8, <1>9, <1>10, <1>11, <1>12 DEF EngineInductive

\* In the tree.
LEMMA SimplestStep ==
  ASSUME EngineInductive, Simplest, UNCHANGED exploration
  PROVE  EngineInductive'
<1>1. /\ stage = "simplest" /\ UNCHANGED <<mode, body, settings, known, stored, index, edges, check>>
  BY DEF Simplest
<1>2. mode = "run" /\ tested = 0 /\ ~Exhausted /\ body.inputs \in Nat
  BY <1>1 DEF EngineInductive, StagesFollow, SharedTypes, Exhausted, InTree
<1>3. PICK x \in TreeCases : Seen(x, "random")
  BY DEF Simplest
<1>4. x.status # "repeated"
  BY <1>1, <1>2, CasesAreCases DEF TreeCases, EngineInductive, SharedTypes, Ended, Statuses
<1>5. /\ SharedTypes' /\ KnownOfItsKind' /\ ConcludesTheWhole'
      /\ CampaignTypes' /\ CampaignKeepsItsFailures'
      /\ OutcomeIsJustified' /\ FailuresAreReported'
      /\ tested' \in 0 .. body'.inputs
      /\ stage' = "conclude" \/ stage' = "random"
      /\ stage' = "random" => tally'.valid + tally'.rejected >= 1
  BY <1>1, <1>2, <1>3, <1>4, CaseInTheTree DEF InTree
<1>6. PhaseTypes' /\ StagesFollow'
  BY <1>1, <1>2, <1>5 DEF EngineInductive, PhaseTypes, StagesFollow, Target, InTree
<1> QED
  BY <1>5, <1>6 DEF EngineInductive

\* A random case, a prefix case or an edge case, with a search that is not exhausted.
LEMMA LaterCaseStep ==
  ASSUME EngineInductive, stage \in {"random", "prefix", "edge", "left"}, ~Exhausted,
         NEW x \in TreeCases, NEW to \in {"random", "prefix", "edge", "left"}, Seen(x, to),
         to = "prefix" => tested' < body.inputs,
         to = "left" => stage = "left",
         index' \in 0 .. GenerationFactor * Target, index' >= index,
         edges' \in 0 .. Boundaries,
         UNCHANGED <<mode, body, settings, known, stored, check, exploration>>
  PROVE  EngineInductive'
<1>1. mode = "run" /\ stage \in InTree /\ to \in InTree
  BY DEF EngineInductive, StagesFollow, InTree
<1>2. /\ SharedTypes' /\ KnownOfItsKind' /\ ConcludesTheWhole'
      /\ CampaignTypes' /\ CampaignKeepsItsFailures'
      /\ OutcomeIsJustified' /\ FailuresAreReported'
      /\ tested' \in 0 .. body'.inputs /\ tested' \in {tested, tested + 1}
      /\ tally'.valid >= tally.valid /\ tally'.rejected >= tally.rejected
      /\ stage' = "conclude" \/ stage' = to
  BY <1>1, CaseInTheTree
<1>3. /\ tally.valid \in Nat /\ tally.rejected \in Nat /\ tally'.valid \in Nat /\ tally'.rejected \in Nat
      /\ tally.valid + tally.rejected >= 1
  BY <1>2 DEF EngineInductive, StagesFollow, SharedTypes, Tallies
<1>4. tally'.valid + tally'.rejected >= 1
  BY <1>2, <1>3
<1>5. Target' = Target /\ Target \in Nat /\ GenerationFactor * Target \in Nat
  BY TargetsAscend DEF EngineInductive, PhaseTypes, Target
<1>6. PhaseTypes'
  BY <1>2, <1>5 DEF EngineInductive, PhaseTypes
<1>7. stage' = "left" => ~WantsMore'
  <2> SUFFICES ASSUME stage' = "left" PROVE ~WantsMore'
    OBVIOUS
  <2>1. stage = "left" /\ ~WantsMore
    BY <1>2 DEF EngineInductive, StagesFollow
  <2>2. index >= GenerationFactor * Target \/ tally.valid >= Target
    BY <1>3, <1>5, <2>1 DEF WantsMore, EngineInductive, PhaseTypes
  <2> HIDE DEF WantsMore
  <2>3. index' >= GenerationFactor * Target' \/ tally'.valid >= Target'
    BY <1>2, <1>3, <1>5, <2>2 DEF EngineInductive, PhaseTypes
  <2> QED
    BY <1>3, <1>5, <1>6, <2>3 DEF WantsMore, PhaseTypes
<1>8. StagesFollow'
  <2>1. stage' = "prefix" => ~Exhausted'
    BY <1>2 DEF Exhausted, SharedTypes
  <2> QED
    BY <1>1, <1>2, <1>4, <1>7, <2>1 DEF StagesFollow, InTree
<1> QED
  BY <1>2, <1>6, <1>8 DEF EngineInductive

LEMMA RandomStep ==
  ASSUME EngineInductive, Random, UNCHANGED exploration
  PROVE  EngineInductive'
<1>1. /\ stage = "random" /\ WantsMore /\ index' = index + 1
      /\ UNCHANGED <<mode, body, settings, known, stored, edges, check>>
  BY DEF Random
<1>2. PICK x \in TreeCases : Seen(x, "edge") \/ (Seen(x, "prefix") /\ tested' < body.inputs)
  BY DEF Random
<1>3. Target \in Nat /\ GenerationFactor * Target \in Nat
  BY <1>1, TargetsAscend DEF EngineInductive, PhaseTypes
<1>4. index' \in 0 .. GenerationFactor * Target /\ index' >= index /\ edges' \in 0 .. Boundaries
  BY <1>1, <1>3 DEF EngineInductive, PhaseTypes, WantsMore
<1>5. ~Exhausted
  BY <1>1 DEF WantsMore
<1> QED
  BY <1>1, <1>2, <1>4, <1>5, LaterCaseStep

LEMMA PrefixStep ==
  ASSUME EngineInductive, Prefix, UNCHANGED exploration
  PROVE  EngineInductive'
<1>1. /\ stage = "prefix" /\ UNCHANGED <<mode, body, settings, known, stored, index, edges, check>>
  BY DEF Prefix
<1>2. PICK x \in TreeCases : Seen(x, "edge")
  BY DEF Prefix
<1>3. ~Exhausted /\ index \in Nat /\ index' \in 0 .. GenerationFactor * Target /\ edges' \in 0 .. Boundaries
  BY <1>1 DEF EngineInductive, PhaseTypes, StagesFollow
<1> QED
  BY <1>1, <1>2, <1>3, LaterCaseStep

LEMMA EdgeStep ==
  ASSUME EngineInductive, Edge, UNCHANGED exploration
  PROVE  EngineInductive'
<1>1. /\ stage \in {"edge", "left"} /\ EdgeIsLeft /\ edges' = edges + 1
      /\ UNCHANGED <<mode, body, settings, known, stored, index, check>>
  BY DEF Edge
<1>2. PICK x \in TreeCases : Seen(x, IF stage = "edge" THEN "random" ELSE "left")
  BY DEF Edge
<1>3. ~Exhausted /\ index \in Nat /\ index' \in 0 .. GenerationFactor * Target /\ edges' \in 0 .. Boundaries
  BY <1>1, RunnerAssumption DEF EngineInductive, PhaseTypes, EdgeIsLeft
<1>4. CASE stage = "edge"
  BY <1>1, <1>2, <1>3, <1>4, LaterCaseStep
<1>5. CASE stage = "left"
  BY <1>1, <1>2, <1>3, <1>5, LaterCaseStep
<1> QED
  BY <1>1, <1>4, <1>5

\* The loops end: no edge case is left, or no more random case is wanted.
LEMMA LoopStep ==
  ASSUME EngineInductive, NoEdge \/ Leave, UNCHANGED exploration
  PROVE  EngineInductive'
<1>1. /\ stage \in {"edge", "random"} /\ stage' \in {"random", "left"}
      /\ stage' = "left" => ~WantsMore
      /\ UNCHANGED <<mode, body, settings, known, tally, stored, outcome, tested, index, edges, check>>
  BY DEF NoEdge, Leave, phases
<1>2. mode = "run"
  BY <1>1 DEF EngineInductive, StagesFollow, InTree
<1>3. SharedTypes' /\ PhaseTypes' /\ StagesFollow' /\ KnownOfItsKind' /\ ConcludesTheWhole'
  BY <1>1, <1>2 DEF EngineInductive, SharedTypes, PhaseTypes, StagesFollow, KnownOfItsKind,
     ConcludesTheWhole, Target, WantsMore, Exhausted, InTree
<1>4. CampaignTypes' /\ CampaignKeepsItsFailures' /\ OutcomeIsJustified' /\ FailuresAreReported'
  BY <1>1, <1>2, RunGoesOn
<1> QED
  BY <1>3, <1>4 DEF EngineInductive

\* A run that ends: its outcome is new, and all else stands.
LEMMA RunEndsWith ==
  ASSUME EngineInductive, mode # "campaign", stage' = "ended", outcome' \in Outcomes,
         UNCHANGED <<mode, body, settings, known, tally, stored, phases, exploration>>,
         OutcomeIsJustified',
         EndsAs("counterexample")' => IsInjective(Reported)'
  PROVE  EngineInductive'
<1>1. SharedTypes' /\ PhaseTypes' /\ StagesFollow' /\ KnownOfItsKind' /\ ConcludesTheWhole'
  BY DEF EngineInductive, SharedTypes, PhaseTypes, StagesFollow, KnownOfItsKind,
     ConcludesTheWhole, Target, InTree, phases
<1>2. CampaignTypes' /\ CampaignKeepsItsFailures'
  BY DEF EngineInductive, CampaignTypes, CampaignKeepsItsFailures, exploration
<1>3. FailuresAreReported'
  <2>1. IsInjective(told') /\ mode' # "campaign" /\ failures' = {}
    BY <1>2 DEF CampaignKeepsItsFailures
  <2>2. ReportIsWhatWasTold'
    BY <2>1 DEF ReportIsWhatWasTold
  <2>3. FailureIsNotHidden'
    BY <2>1 DEF FailureIsNotHidden
  <2> QED
    BY <2>2, <2>3 DEF FailuresAreReported
<1> QED
  BY <1>1, <1>2, <1>3 DEF EngineInductive

\* What is new before a sequence without repetition leaves it so.
LEMMA FirstIsNew ==
  ASSUME NEW S, NEW s \in Seq(S), IsInjective(s), NEW e, \A i \in DOMAIN s : s[i] # e
  PROVE  IsInjective(<<e>> \o s)
<1> DEFINE t == <<e>> \o s
<1>1. /\ Len(s) \in Nat /\ DOMAIN s = 1 .. Len(s) /\ DOMAIN t = 1 .. Len(s) + 1
      /\ t[1] = e /\ \A i \in 2 .. Len(s) + 1 : t[i] = s[i - 1] /\ i - 1 \in DOMAIN s
  OBVIOUS
<1> HIDE DEF t
<1>2. ASSUME NEW i \in DOMAIN t, NEW j \in DOMAIN t, t[i] = t[j]
      PROVE  i = j
  <2>1. CASE i = 1 /\ j # 1
    BY <1>1, <1>2, <2>1
  <2>2. CASE i # 1 /\ j = 1
    BY <1>1, <1>2, <2>2
  <2>3. CASE i # 1 /\ j # 1
    <3>1. s[i - 1] = s[j - 1] /\ i - 1 \in DOMAIN s /\ j - 1 \in DOMAIN s
      BY <1>1, <1>2, <2>3
    <3>2. i - 1 = j - 1
      BY <3>1 DEF IsInjective
    <3> QED
      BY <1>1, <3>2
  <2> QED
    BY <2>1, <2>2, <2>3
<1> QED
  BY <1>2 DEF IsInjective, t

LEMMA AfterKnownStep ==
  ASSUME EngineInductive, AfterKnown, UNCHANGED exploration
  PROVE  EngineInductive'
<1> DEFINE kind == IF mode = "token" /\ WithoutCounterexample(tally) # "none"
                     THEN WithoutCounterexample(tally) ELSE "passed"
<1>1. /\ mode # "campaign" /\ stage = "known"
      /\ UNCHANGED <<mode, body, settings, known, tally, stored, tested, index, edges, check>>
      /\ IF mode = "run"
           THEN stage' = "simplest" /\ UNCHANGED outcome
           ELSE /\ stage' = "ended"
                /\ outcome' = [OutcomeOf(kind, tally) EXCEPT
                                 !.stored = IF mode = "stored" THEN stored ELSE <<>>]
  BY DEF AfterKnown, phases
<1>2. kind \in {"passed", "rejected", "vacuous"}
  BY WithoutIsAKind
<1> HIDE DEF kind
<1>3. CASE mode = "run"
  <2>1. SharedTypes' /\ PhaseTypes' /\ StagesFollow' /\ KnownOfItsKind' /\ ConcludesTheWhole'
    BY <1>1, <1>3 DEF EngineInductive, SharedTypes, PhaseTypes, StagesFollow, KnownOfItsKind,
       ConcludesTheWhole, Target, InTree
  <2>2. CampaignTypes' /\ CampaignKeepsItsFailures' /\ OutcomeIsJustified' /\ FailuresAreReported'
    BY <1>1, <1>3, RunGoesOn
  <2> QED
    BY <2>1, <2>2 DEF EngineInductive
<1>4. CASE mode # "run"
  <2> DEFINE o == OutcomeOf(kind, tally)
             all == IF mode = "stored" THEN stored ELSE <<>>
  <2>1. all = stored /\ stored \in Seq(Statuses) /\ tally \in Tallies
    BY <1>1, <1>4 DEF EngineInductive, SharedTypes, KnownOfItsKind, Mode
  <2> kind \in Kinds
    BY <1>2 DEF Kinds
  <2>2. /\ o \in Outcomes /\ o.kind = kind /\ o.cases = tally.valid /\ o.rejected = tally.rejected
    BY <2>1, OutcomesOfKinds
  <2>3. stage' = "ended" /\ outcome' = [o EXCEPT !.stored = all]
    BY <1>1, <1>4
  <2> HIDE DEF o, all
  <2>4. /\ outcome' \in Outcomes /\ outcome'.kind = kind /\ outcome'.cases = tally'.valid
        /\ outcome'.rejected = tally'.rejected /\ outcome'.stored = stored'
    BY <1>1, <2>1, <2>2, <2>3 DEF Outcomes
  <2>5. OutcomeIsJustified' /\ ~EndsAs("counterexample")'
    BY <1>1, <1>2, <1>4, <2>4 DEF OutcomeIsJustified, PassIsComplete, VerdictIsJustified,
       OutcomeIsComplete, EndsAs
  <2> QED
    BY <1>1, <2>3, <2>4, <2>5, RunEndsWith DEF phases
<1> QED
  BY <1>3, <1>4

LEMMA UnwindStep ==
  ASSUME EngineInductive, Unwind, UNCHANGED exploration
  PROVE  EngineInductive'
<1>1. /\ mode # "campaign" /\ stage' = "ended" /\ outcome' = Unwound
      /\ UNCHANGED <<mode, body, settings, known, tally, stored, phases>>
  BY DEF Unwind
<1>2. outcome' \in Outcomes /\ outcome'.kind = "raised"
  BY <1>1, OutcomesOfKinds DEF Unwound, Kinds, EngineInductive, SharedTypes
<1>3. OutcomeIsJustified' /\ ~EndsAs("counterexample")'
  BY <1>2 DEF OutcomeIsJustified, PassIsComplete, VerdictIsJustified, OutcomeIsComplete, EndsAs, Returned
<1> QED
  BY <1>1, <1>2, <1>3, RunEndsWith

\* The outcomes that a run concludes have its counts and its stored cases.
LEMMA ConcludeStep ==
  ASSUME EngineInductive, Conclude, UNCHANGED exploration
  PROVE  EngineInductive'
<1>1. /\ mode # "campaign" /\ stage = "conclude" /\ stage' = "ended"
      /\ UNCHANGED <<mode, body, settings, known, tally, stored, phases>>
  BY DEF Conclude
<1>2. /\ outcome.kind \in {"counterexample", "flaky", "skipped"}
      /\ outcome.cases = tally.valid /\ outcome.rejected = tally.rejected
      /\ outcome.stored = stored /\ outcome.others = <<>> /\ outcome.token = FALSE
      /\ mode \in {"stored", "token"} => outcome.valued = FALSE
      /\ outcome.kind = "counterexample" => outcome.failing \in Identities
      /\ outcome \in Outcomes
  BY <1>1 DEF EngineInductive, ConcludesTheWhole, SharedTypes, Outcomes
<1>3. /\ outcome' \in Outcomes /\ outcome'.kind \in {"counterexample", "flaky", "skipped"}
      /\ outcome'.cases = tally'.valid /\ outcome'.rejected = tally'.rejected
      /\ outcome'.stored = stored'
      /\ outcome'.kind = "counterexample" => outcome'.token = ~outcome'.valued
      /\ outcome'.others \in Seq(Identities) /\ IsInjective(outcome'.others)
      /\ \A i \in DOMAIN outcome'.others : outcome'.others[i] # outcome'.failing
  <2>1. CASE mode \in {"stored", "token"}
    <3> DEFINE t == outcome.kind = "counterexample"
    <3>1. t \in BOOLEAN /\ outcome' = [outcome EXCEPT !.token = t]
      BY <2>1 DEF Conclude
    <3>2. t <=> outcome.kind = "counterexample"
      OBVIOUS
    <3> HIDE DEF t
    <3>3. /\ outcome' \in Outcomes /\ outcome'.kind = outcome.kind /\ outcome'.cases = outcome.cases
          /\ outcome'.rejected = outcome.rejected /\ outcome'.stored = outcome.stored
          /\ outcome'.others = <<>> /\ outcome'.valued = FALSE /\ outcome'.token = t
      BY <1>2, <2>1, <3>1 DEF Outcomes
    <3>4. IsInjective(<<>>)
      BY DEF IsInjective
    <3>5. outcome'.kind = "counterexample" => outcome'.token = TRUE
      BY <3>1, <3>2, <3>3
    <3>6. outcome'.kind = "counterexample" => outcome'.token = ~outcome'.valued
      BY <3>3, <3>5
    <3> QED
      BY <1>1, <1>2, <3>3, <3>4, <3>6
  <2>2. CASE mode \notin {"stored", "token"}
    <3>1. outcome' \in Conclusions(outcome)
      BY <2>2 DEF Conclude
    <3> QED
      BY <1>1, <1>2, <3>1, TallyAssumption, ConclusionsAreOutcomes
  <2> QED
    BY <2>1, <2>2
<1>4. OutcomeIsJustified'
  BY <1>3 DEF OutcomeIsJustified, PassIsComplete, VerdictIsJustified, OutcomeIsComplete, EndsAs
<1>5. IsInjective(Reported)'
  BY <1>3, FirstIsNew DEF Reported, Outcomes
<1> QED
  BY <1>1, <1>3, <1>4, <1>5, RunEndsWith

\* The search of a run that may pass.
PassIsWhole ==
  /\ tally.valid >= Target \/ Exhausted \/ index = GenerationFactor * Target
  /\ edges = Boundaries \/ Exhausted

\* An outcome decided on the counts of a whole search.
LEMMA DecidedIsJustified ==
  ASSUME EngineInductive, mode # "campaign", NEW o \in Outcomes, stage' = "ended",
         o.kind \in {"passed", "rejected", "vacuous", "coverage-unmet"},
         o.cases = tally.valid, o.rejected = tally.rejected,
         outcome' = [o EXCEPT !.stored = stored],
         UNCHANGED <<mode, body, settings, known, tally, stored, phases, exploration>>,
         o.kind = "passed" => /\ PassIsWhole /\ Tested
                              /\ \A i \in DOMAIN settings.requirements : Reached(settings.requirements[i]),
         o.kind = "coverage-unmet" => Tested /\ Missing(settings.requirements[o.missed])
  PROVE  EngineInductive'
<1>1. stored \in Seq(Statuses)
  BY DEF EngineInductive, SharedTypes
<1>2. /\ outcome' \in Outcomes /\ outcome'.kind = o.kind /\ outcome'.cases = tally'.valid
      /\ outcome'.rejected = tally'.rejected /\ outcome'.stored = stored'
      /\ outcome'.missed = o.missed
  BY <1>1 DEF Outcomes
<1>3. PassIsComplete'
  BY <1>2 DEF PassIsComplete, PassIsWhole, EndsAs, Exhausted, Target, phases
<1>4. VerdictIsJustified'
  BY <1>2 DEF VerdictIsJustified, EndsAs, Tested, Reached, Missing, Share
<1>5. OutcomeIsComplete'
  BY <1>2 DEF OutcomeIsComplete
<1>6. OutcomeIsJustified' /\ ~EndsAs("counterexample")'
  BY <1>2, <1>3, <1>4, <1>5 DEF OutcomeIsJustified, EndsAs
<1> QED
  BY <1>2, <1>6, RunEndsWith

LEMMA CheckStep ==
  ASSUME EngineInductive, Check, UNCHANGED exploration
  PROVE  EngineInductive'
<1> DEFINE requirements == settings.requirements
           without      == WithoutCounterexample(tally)
           verdicts     == VerdictsNow(requirements)
<1>1. /\ stage = "left" /\ ~EdgeIsLeft
      /\ UNCHANGED <<mode, body, settings, known, tally, stored, tested, index, edges>>
  BY DEF Check
<1>2. IF without # "none" THEN Decided(OutcomeOf(without, tally))
      ELSE IF Missed(verdicts) # {}
        THEN Decided([OutcomeOf("coverage-unmet", tally) EXCEPT !.missed = Min(Missed(verdicts))])
      ELSE IF AllMet(verdicts) THEN Decided(OutcomeOf("passed", tally))
      ELSE stage' = "random" /\ check' = check + 1 /\ UNCHANGED outcome
  BY DEF Check, CheckOf
<1>3. /\ mode = "run" /\ tally \in Tallies /\ tally.valid + tally.rejected >= 1
      /\ requirements \in Seq([label : Labels, share : Nat])
  BY <1>1 DEF EngineInductive, StagesFollow, SharedTypes, InTree
<1>4. PassIsWhole
  <2>1. ~WantsMore
    BY <1>1 DEF EngineInductive, StagesFollow
  <2>2. Target \in Nat /\ GenerationFactor * Target \in Nat /\ index \in 0 .. GenerationFactor * Target
    BY TargetIsNat DEF EngineInductive, PhaseTypes
  <2>3. tally.valid \in Nat
    BY <1>3 DEF Tallies
  <2>4. tally.valid >= Target \/ Exhausted \/ index = GenerationFactor * Target
    BY <2>1, <2>2, <2>3 DEF WantsMore
  <2>5. edges = Boundaries \/ Exhausted
    BY <1>1, RunnerAssumption DEF EdgeIsLeft, EngineInductive, PhaseTypes
  <2> QED
    BY <2>4, <2>5 DEF PassIsWhole
<1>5. without = "none" => Tested
  BY <1>3, TallyAssumption, WithoutIsNone
<1>6. /\ Missed(verdicts) # {} => /\ Min(Missed(verdicts)) \in Nat
                                 /\ Missing(requirements[Min(Missed(verdicts))])
      /\ AllMet(verdicts) => \A i \in DOMAIN requirements : Reached(requirements[i])
      /\ Missed(verdicts) = {} /\ ~AllMet(verdicts) =>
           requirements # <<>> /\ ~IsLast(requirements)
  <2>1. IsLast(requirements) \in BOOLEAN /\ Exhausted \in BOOLEAN
    BY DEF IsLast, Exhausted
  <2>2. verdicts = Verdicts(tally.count, tally.valid, requirements, IsLast(requirements), Exhausted)
    BY DEF VerdictsNow
  <2> HIDE DEF requirements, verdicts
  <2> QED
    BY <1>3, <2>1, <2>2, ShortfallsAreTrue
<1>7. CASE without # "none"
  <2> DEFINE o == OutcomeOf(without, tally)
  <2>1. without \in {"rejected", "vacuous"} /\ without \in Kinds
    BY <1>7, WithoutIsAKind DEF Kinds
  <2>2. /\ o \in Outcomes /\ o.kind = without
        /\ o.cases = tally.valid /\ o.rejected = tally.rejected
    BY <1>3, <2>1, OutcomesOfKinds
  <2>3. Decided(o)
    BY <1>2, <1>7
  <2> HIDE DEF o, without
  <2> QED
    BY <1>1, <1>3, <2>1, <2>2, <2>3, DecidedIsJustified DEF Decided, phases
<1>8. CASE without = "none" /\ Missed(verdicts) # {}
  <2> DEFINE c == OutcomeOf("coverage-unmet", tally)
             m == Min(Missed(verdicts))
             o == [c EXCEPT !.missed = m]
  <2> "coverage-unmet" \in Kinds
    BY DEF Kinds
  <2>1. /\ c \in Outcomes /\ c.kind = "coverage-unmet"
        /\ c.cases = tally.valid /\ c.rejected = tally.rejected
    BY <1>3, OutcomesOfKinds
  <2>2. m \in Nat /\ Missing(settings.requirements[m])
    BY <1>6, <1>8
  <2>3. Decided(o)
    BY <1>2, <1>8
  <2> HIDE DEF c, m
  <2>4. /\ o \in Outcomes /\ o.kind = "coverage-unmet" /\ o.missed = m
        /\ o.cases = tally.valid /\ o.rejected = tally.rejected
    BY <2>1, <2>2 DEF Outcomes
  <2> HIDE DEF o
  <2> QED
    BY <1>1, <1>3, <1>5, <1>8, <2>2, <2>3, <2>4, DecidedIsJustified DEF Decided, phases
<1>9. CASE without = "none" /\ Missed(verdicts) = {} /\ AllMet(verdicts)
  <2> DEFINE o == OutcomeOf("passed", tally)
  <2> "passed" \in Kinds
    BY DEF Kinds
  <2>1. /\ o \in Outcomes /\ o.kind = "passed"
        /\ o.cases = tally.valid /\ o.rejected = tally.rejected
    BY <1>3, OutcomesOfKinds
  <2>2. Decided(o)
    BY <1>2, <1>9
  <2> HIDE DEF o
  <2> QED
    BY <1>1, <1>3, <1>4, <1>5, <1>6, <1>9, <2>1, <2>2, DecidedIsJustified DEF Decided, phases
<1>10. CASE without = "none" /\ Missed(verdicts) = {} /\ ~AllMet(verdicts)
  <2>1. stage' = "random" /\ check' = check + 1 /\ UNCHANGED outcome
    BY <1>2, <1>10
  <2>2. check' \in 1 .. Len(Checks)
    BY <1>6, <1>10, <2>1 DEF IsLast, EngineInductive, PhaseTypes
  <2>3. /\ GenerationFactor * Target <= GenerationFactor * Target'
        /\ GenerationFactor * Target \in Nat /\ GenerationFactor * Target' \in Nat
    BY <2>1, <2>2, TargetsAscend, RunnerAssumption DEF EngineInductive, PhaseTypes
  <2>4. PhaseTypes'
    BY <1>1, <2>2, <2>3 DEF EngineInductive, PhaseTypes
  <2>5. SharedTypes' /\ StagesFollow' /\ KnownOfItsKind' /\ ConcludesTheWhole'
    BY <1>1, <1>3, <2>1 DEF EngineInductive, SharedTypes, StagesFollow, KnownOfItsKind,
       ConcludesTheWhole, InTree
  <2>6. CampaignTypes' /\ CampaignKeepsItsFailures' /\ OutcomeIsJustified' /\ FailuresAreReported'
    BY <1>1, <1>3, <2>1, RunGoesOn
  <2> QED
    BY <2>4, <2>5, <2>6 DEF EngineInductive
<1> QED
  BY <1>7, <1>8, <1>9, <1>10

LEMMA RunnerStep ==
  ASSUME EngineInductive, NextRunner, UNCHANGED exploration
  PROVE  EngineInductive'
  BY KnownCaseStep, AfterKnownStep, SimplestStep, RandomStep, PrefixStep, EdgeStep, LoopStep,
     CheckStep, ConcludeStep, UnwindStep DEF NextRunner

-----------------------------------------------------------------------------
(* The steps of a campaign *)

\* The new ones among the others are others, each once, and none is known.
LEMMA NewAreNew ==
  ASSUME NEW others \in Seq(Identities), IsInjective(others), NEW new \in NewAmong(others)
  PROVE  /\ new \in Seq(Identities) /\ IsInjective(new)
         /\ \A k \in DOMAIN new : new[k] \notin identities
         /\ \A k \in DOMAIN new : \E i \in DOMAIN others : new[k] = others[i]
<1> DEFINE places == {i \in DOMAIN others : others[i] \notin identities}
<1>1. PICK at \in Rising(places) : new = [k \in DOMAIN at |-> others[at[k]]]
  BY DEF NewAmong
<1>2. Cardinality(places) \in Nat
  <2>1. IsFiniteSet(1 .. Len(others)) /\ places \in SUBSET (1 .. Len(others))
    BY FS_Interval
  <2> QED
    BY <2>1, FS_Subset, FS_CardinalityType
<1>3. /\ at \in [1 .. Cardinality(places) -> places]
      /\ \A i, j \in 1 .. Cardinality(places) : i # j => at[i] # at[j]
  BY DEF Rising, SetToSeqs
<1> DEFINE n == Cardinality(places)
<1> HIDE DEF n
<1>4. /\ n \in Nat /\ at \in [1 .. n -> places] /\ \A i, j \in 1 .. n : i # j => at[i] # at[j]
  BY <1>2, <1>3 DEF n
<1>5. \A k \in 1 .. n : at[k] \in DOMAIN others /\ others[at[k]] \notin identities
  BY <1>4
<1> HIDE DEF places
<1>6. new = [k \in 1 .. n |-> others[at[k]]]
  BY <1>1, <1>4
<1>7. \A k \in 1 .. n : new[k] = others[at[k]] /\ new[k] \in Identities
  BY <1>5, <1>6
<1>8. new \in Seq(Identities) /\ DOMAIN new = 1 .. n
  BY <1>4, <1>6, <1>7
<1>9. IsInjective(new)
  BY <1>4, <1>5, <1>7, <1>8 DEF IsInjective
<1> QED
  BY <1>5, <1>7, <1>8, <1>9

\* Two sequences without repetition and without a common element.
LEMMA JoinedOnce ==
  ASSUME NEW S, NEW s \in Seq(S), NEW t \in Seq(S), IsInjective(s), IsInjective(t),
         \A k \in DOMAIN t : t[k] \notin ToSet(s)
  PROVE  /\ IsInjective(s \o t)
         /\ s \o t \in Seq(S)
         /\ ToSet(s \o t) = ToSet(s) \cup ToSet(t)
<1> DEFINE u == s \o t
           m == Len(s)
<1>1. /\ m \in Nat /\ DOMAIN s = 1 .. m /\ DOMAIN t = 1 .. Len(t) /\ Len(t) \in Nat
      /\ u \in Seq(S) /\ DOMAIN u = 1 .. m + Len(t)
      /\ \A i \in 1 .. m : u[i] = s[i]
      /\ \A i \in m + 1 .. m + Len(t) : u[i] = t[i - m] /\ i - m \in DOMAIN t
      /\ \A i \in DOMAIN t : u[i + m] = t[i] /\ i + m \in DOMAIN u
  OBVIOUS
<1> HIDE DEF u, m
<1>0. (\A i \in DOMAIN s : s[i] \in ToSet(s)) /\ (\A i \in DOMAIN t : t[i] \in ToSet(t))
  BY DEF ToSet
<1>a. \A i \in 1 .. m : u[i] \in ToSet(s)
  BY <1>0, <1>1
<1>b. \A i \in m + 1 .. m + Len(t) : u[i] \in ToSet(t) /\ u[i] \notin ToSet(s)
  <2> TAKE i \in m + 1 .. m + Len(t)
  <2>1. u[i] = t[i - m] /\ i - m \in DOMAIN t
    BY <1>1
  <2> QED
    BY <1>0, <2>1
<1>2. ASSUME NEW i \in DOMAIN u, NEW j \in DOMAIN u, u[i] = u[j]
      PROVE  i = j
  <2>1. CASE i <= m /\ j <= m
    BY <1>1, <1>2, <2>1 DEF IsInjective
  <2>2. CASE i <= m /\ j > m
    <3>1. u[i] \in ToSet(s) /\ u[j] \notin ToSet(s)
      BY <1>1, <1>a, <1>b, <2>2
    <3> QED
      BY <1>2, <3>1
  <2>3. CASE i > m /\ j <= m
    <3>1. u[j] \in ToSet(s) /\ u[i] \notin ToSet(s)
      BY <1>1, <1>a, <1>b, <2>3
    <3> QED
      BY <1>2, <3>1
  <2>4. CASE i > m /\ j > m
    <3>1. t[i - m] = t[j - m] /\ i - m \in DOMAIN t /\ j - m \in DOMAIN t
      BY <1>1, <1>2, <2>4
    <3>2. i - m = j - m
      BY <3>1 DEF IsInjective
    <3> QED
      BY <1>1, <3>2
  <2> QED
    BY <1>1, <2>1, <2>2, <2>3, <2>4
<1>3. ToSet(u) = ToSet(s) \cup ToSet(t)
  <2>1. \A i \in DOMAIN u : u[i] \in ToSet(s) \cup ToSet(t)
    BY <1>1, <1>a, <1>b
  <2>2. \A i \in DOMAIN s : s[i] \in ToSet(u)
    BY <1>1 DEF ToSet
  <2>3. \A i \in DOMAIN t : t[i] \in ToSet(u)
    BY <1>1 DEF ToSet
  <2> QED
    BY <2>1, <2>2, <2>3 DEF ToSet
<1> QED
  BY <1>1, <1>2, <1>3 DEF IsInjective, u

\* The campaign ends with an outcome that is no counterexample, or goes on.
LEMMA CampaignEndsWith ==
  ASSUME EngineInductive, mode = "campaign", stage' = "ended",
         UNCHANGED <<mode, body, settings, phases, identities, told, found>>,
         known' \in Seq({"trace", "values", "stored", "token", "fuzz"}),
         tally' \in Tallies, stored' \in Seq(Statuses), failures' \subseteq Identities,
         outcome' \in Outcomes, outcome'.kind \in {"flaky", "skipped"},
         outcome'.cases = tally'.valid, outcome'.rejected = tally'.rejected,
         outcome'.stored = stored',
         outcome'.kind = "skipped" => failures' = {}
  PROVE  EngineInductive'
<1>1. SharedTypes' /\ PhaseTypes' /\ CampaignTypes' /\ StagesFollow' /\ KnownOfItsKind'
      /\ ConcludesTheWhole'
  BY DEF EngineInductive, SharedTypes, PhaseTypes, CampaignTypes, StagesFollow, KnownOfItsKind,
     ConcludesTheWhole, Target, InTree, phases
<1>2. CampaignKeepsItsFailures'
  BY DEF EngineInductive, CampaignKeepsItsFailures
<1>3. IsInjective(told')
  BY <1>2 DEF CampaignKeepsItsFailures
<1>4. OutcomeIsJustified'
  BY DEF OutcomeIsJustified, PassIsComplete, VerdictIsJustified, OutcomeIsComplete, EndsAs
<1>5. ReportIsWhatWasTold'
  BY <1>3 DEF ReportIsWhatWasTold, EndsAs
<1>6. FailureIsNotHidden'
  BY DEF FailureIsNotHidden
<1> QED
  BY <1>1, <1>2, <1>4, <1>5, <1>6 DEF EngineInductive, FailuresAreReported

LEMMA CampaignGoesOn ==
  ASSUME EngineInductive, mode = "campaign", stage = "known", GoOn,
         UNCHANGED <<mode, body, settings, phases>>,
         known' \in Seq({"trace", "values", "stored", "token", "fuzz"}),
         tally' \in Tallies, stored' \in Seq(Statuses),
         CampaignTypes', CampaignKeepsItsFailures'
  PROVE  EngineInductive'
<1>1. SharedTypes' /\ PhaseTypes' /\ StagesFollow' /\ KnownOfItsKind' /\ ConcludesTheWhole'
  BY DEF EngineInductive, SharedTypes, PhaseTypes, StagesFollow, KnownOfItsKind,
     ConcludesTheWhole, Target, InTree, phases, GoOn
<1>2. IsInjective(told')
  BY DEF CampaignKeepsItsFailures
<1>3. OutcomeIsJustified' /\ FailuresAreReported'
  BY <1>2 DEF OutcomeIsJustified, PassIsComplete, VerdictIsJustified, OutcomeIsComplete, EndsAs,
     FailuresAreReported, ReportIsWhatWasTold, FailureIsNotHidden, Returned, IsEnded, GoOn
<1> QED
  BY <1>1, <1>3 DEF EngineInductive

\* A failure that no earlier one had is told with those that its shrink found.
LEMMA ConcludedFailureIsKept ==
  ASSUME EngineInductive, mode = "campaign", stage = "known", NEW x \in CaseType,
         x.identity \in Identities, x.identity \notin identities,
         NEW o \in Outcomes, o.kind = "counterexample", o.failing = x.identity,
         o.token = ~o.valued, o.others \in Seq(Identities), IsInjective(o.others),
         \A i \in DOMAIN o.others : o.others[i] # o.failing,
         failures' = failures \cup {x.identity}, ConcludeFailure(o), mode' = mode
  PROVE  CampaignTypes' /\ CampaignKeepsItsFailures' /\ GoOn
<1>1. PICK others \in NewAmong(o.others) :
        /\ identities' = identities \cup ToSet(<<o.failing>> \o others)
        /\ told' = told \o <<o.failing>> \o others
        /\ found' = IF found = NoOutcome THEN [o EXCEPT !.others = others]
                    ELSE [found EXCEPT !.others = @ \o <<o.failing>> \o others]
  BY DEF ConcludeFailure, Concluded
<1> DEFINE new == <<o.failing>> \o others
<1>2. /\ others \in Seq(Identities) /\ IsInjective(others)
      /\ \A k \in DOMAIN others : others[k] \notin identities /\ others[k] # o.failing
  BY NewAreNew
<1>3. /\ new \in Seq(Identities) /\ IsInjective(new) /\ new # <<>>
      /\ \A k \in DOMAIN new : new[k] \notin identities
      /\ o.failing \in ToSet(new)
  <2>1. /\ DOMAIN new = 1 .. Len(others) + 1 /\ Len(others) \in Nat /\ new \in Seq(Identities)
        /\ new[1] = o.failing
        /\ \A k \in DOMAIN new : k = 1 \/ (new[k] = others[k - 1] /\ k - 1 \in DOMAIN others)
    BY <1>2
  <2>2. IsInjective(new)
    BY <1>2, FirstIsNew
  <2> HIDE DEF new
  <2>3. 1 \in DOMAIN new
    BY <2>1
  <2>4. o.failing \in ToSet(new) /\ new # <<>>
    BY <2>1, <2>3 DEF ToSet
  <2> QED
    BY <1>2, <2>1, <2>2, <2>4
<1>4. /\ told \in Seq(Identities) /\ IsInjective(told) /\ identities = ToSet(told)
      /\ found \in Outcomes /\ failures \subseteq identities
      /\ found = NoOutcome => told = <<>>
      /\ found # NoOutcome => /\ found.kind = "counterexample" /\ found.token = ~found.valued
                              /\ told = <<found.failing>> \o found.others
      /\ identities \subseteq Identities /\ failures \subseteq Identities
  BY DEF EngineInductive, CampaignTypes, CampaignKeepsItsFailures
<1>5. told' = told \o new /\ identities' = identities \cup ToSet(new)
  BY <1>1, <1>2, <1>4
<1>6. /\ told' \in Seq(Identities) /\ IsInjective(told') /\ identities' = ToSet(told')
  <2> HIDE DEF new
  <2> QED
    BY <1>3, <1>4, <1>5, JoinedOnce
<1>7. failures' \subseteq identities' /\ identities' \subseteq Identities
  <2>1. ToSet(new) \subseteq Identities
    <3> HIDE DEF new
    <3> QED
      BY <1>3 DEF ToSet
  <2> QED
    BY <1>3, <1>4, <1>5, <2>1
<1>8. /\ found' \in Outcomes /\ found' # NoOutcome
      /\ found'.kind = "counterexample" /\ found'.token = ~found'.valued
      /\ told' = <<found'.failing>> \o found'.others
  <2>0. NoOutcome.kind = "none"
    BY DEF NoOutcome, OutcomeOf
  <2>1. CASE found = NoOutcome
    <3>1. found' = [o EXCEPT !.others = others] /\ told = <<>>
      BY <1>1, <1>4, <2>1
    <3>2. /\ found' \in Outcomes /\ found'.kind = "counterexample" /\ found'.token = o.token
          /\ found'.valued = o.valued /\ found'.failing = o.failing /\ found'.others = others
      BY <1>2, <3>1 DEF Outcomes
    <3>3. told' = new
      BY <1>3, <1>5, <3>1
    <3> QED
      BY <2>0, <3>2, <3>3
  <2>2. CASE found # NoOutcome
    <3> DEFINE all == found.others \o <<o.failing>> \o others
    <3>1. found' = [found EXCEPT !.others = all]
      BY <1>1, <2>2
    <3>2. found.others \in Seq(Identities) /\ found.failing \in Identities \cup {NoFailure}
      BY <1>4 DEF Outcomes
    <3>3. all \in Seq(Identities)
      BY <1>2, <3>2
    <3> HIDE DEF all
    <3>4. /\ found' \in Outcomes /\ found'.kind = "counterexample" /\ found'.token = found.token
          /\ found'.valued = found.valued /\ found'.failing = found.failing /\ found'.others = all
      BY <1>4, <2>2, <3>1, <3>3 DEF Outcomes
    <3>5. told' = <<found.failing>> \o all
      <4> DEFINE S == Identities \cup {NoFailure}
                 f == <<found.failing>>
                 g == <<o.failing>>
                 h == found.others
      <4>1. /\ h \in Seq(S) /\ f \in Seq(S) /\ g \in Seq(S)
            /\ others \in Seq(S) /\ new \in Seq(S)
        BY <1>2, <3>2
      <4>2. all = (h \o g) \o others /\ new = g \o others
        BY DEF all
      <4>3. told' = (f \o h) \o new
        BY <1>4, <1>5, <2>2
      <4> HIDE DEF S, new, f, g, h
      <4>4. (h \o g) \o others = h \o (g \o others)
        BY <4>1, ConcatAssociative
      <4>5. (f \o h) \o new = f \o (h \o new)
        BY <4>1, ConcatAssociative
      <4>6. told' = f \o all
        BY <4>2, <4>3, <4>4, <4>5
      <4> QED
        BY <4>6 DEF f
    <3> QED
      BY <1>4, <2>0, <2>2, <3>4, <3>5
  <2> QED
    BY <2>1, <2>2
<1>9. GoOn
  BY DEF ConcludeFailure
<1>10. CampaignTypes'
  BY <1>4, <1>6, <1>7, <1>8 DEF CampaignTypes
<1>11. CampaignKeepsItsFailures'
  BY <1>6, <1>7, <1>8 DEF CampaignKeepsItsFailures
<1> QED
  BY <1>9, <1>10, <1>11

LEMMA TakeStep ==
  ASSUME EngineInductive, mode = "campaign", stage = "known", NEW x \in OutsideCases,
         NEW valued \in BOOLEAN, Take(x, valued), stored' \in Seq(Statuses),
         known' \in Seq({"trace", "values", "stored", "token", "fuzz"}),
         UNCHANGED <<mode, body, settings, phases>>
  PROVE  EngineInductive'
<1>1. /\ x \in CaseType /\ x.status \in Statuses
      /\ x.status = "failed" => x.identity \in Identities
  BY CasesAreCases DEF EngineInductive, SharedTypes
<1>2. /\ tally \in Tallies /\ body.draws \in BOOLEAN
      /\ identities \subseteq Identities /\ failures \subseteq identities
      /\ CampaignTypes /\ CampaignKeepsItsFailures
  BY DEF EngineInductive, SharedTypes, CampaignTypes, CampaignKeepsItsFailures
<1>3. tally' = Counted(x)
  BY DEF Take
<1>4. /\ tally' \in Tallies
      /\ tally'.valid = tally.valid + (IF x.status = "passed" THEN 1 ELSE 0)
      /\ tally'.rejected = tally.rejected + (IF x.status = "rejected" THEN 1 ELSE 0)
      /\ tally.valid \in Nat /\ tally.rejected \in Nat
  BY <1>1, <1>2, <1>3, CountsAreTallies DEF Tallies
<1>5. identities # {} => found # NoOutcome
  <2>1. ToSet(<<>>) = {}
    BY DEF ToSet
  <2> QED
    BY <1>2, <2>1 DEF CampaignKeepsItsFailures
<1>6. CASE x.status = "failed"
  <2>1. Fail(x, valued)
    BY <1>6 DEF Take
  <2>2. failures' = failures \cup {x.identity} /\ x.identity \in Identities
    BY <1>1, <1>6, <2>1 DEF Fail
  <2>3. CASE x.identity \in identities
    <3>1. GoOn /\ UNCHANGED <<identities, told, found>>
      BY <2>1, <2>3 DEF Fail
    <3>2. found # NoOutcome
      BY <1>5, <2>3
    <3>3. CampaignTypes' /\ CampaignKeepsItsFailures'
      BY <1>2, <2>2, <2>3, <3>1, <3>2 DEF CampaignTypes, CampaignKeepsItsFailures
    <3> QED
      BY <1>4, <3>1, <3>3, CampaignGoesOn
  <2>4. CASE x.identity \notin identities
    <3> DEFINE e == EndOf(x, tally)
    <3>1. /\ e \in Outcomes /\ e.kind = "counterexample" /\ e.failing = x.identity
          /\ e.cases = tally.valid /\ e.rejected = tally.rejected /\ e.others = <<>> /\ e.token = FALSE
      BY <1>1, <1>2, <1>6, EndsAreOutcomes
    <3> HIDE DEF e
    <3>2. PICK c \in Outcomes :
            /\ c = [e EXCEPT !.valued = valued]
            /\ c.kind = "counterexample" /\ c.failing = x.identity
            /\ c.cases = tally.valid /\ c.rejected = tally.rejected /\ c.others = <<>> /\ c.token = FALSE
      <4> DEFINE c == [e EXCEPT !.valued = valued]
      <4>1. /\ c \in Outcomes /\ c.kind = "counterexample" /\ c.failing = x.identity
            /\ c.cases = tally.valid /\ c.rejected = tally.rejected /\ c.others = <<>> /\ c.token = FALSE
        BY <3>1 DEF Outcomes
      <4> QED
        BY <4>1
    <3>3. PICK o \in Conclusions(c) :
            IF o.kind = "flaky" THEN EndWith(o) /\ UNCHANGED <<identities, told, found>>
                                ELSE ConcludeFailure(o)
      BY <2>1, <2>4, <3>2 DEF Fail, e
    <3>4. /\ o \in Outcomes /\ o.cases = tally.valid /\ o.rejected = tally.rejected
          /\ o.failing = x.identity /\ o.kind \in {"counterexample", "flaky"}
          /\ o.kind = "counterexample" => o.token = ~o.valued
          /\ o.others \in Seq(Identities) /\ IsInjective(o.others)
          /\ \A i \in DOMAIN o.others : o.others[i] # o.failing
      <4>1. c.others = <<>> /\ c.token = FALSE /\ c.failing \in Identities
        BY <2>2, <3>2
      <4>2. o \in Conclusions(c)
        OBVIOUS
      <4>3. /\ o \in Outcomes /\ o.cases = c.cases /\ o.rejected = c.rejected
            /\ o.failing = c.failing
        BY <4>1, <4>2, TallyAssumption, ConclusionsAreOutcomes
      <4>6. o.kind \in {c.kind, "flaky"}
        BY <4>1, <4>2, TallyAssumption, ConclusionsAreOutcomes
      <4>4. o.kind = "counterexample" => o.token = ~o.valued
        BY <4>1, <4>2, TallyAssumption, ConclusionsAreOutcomes
      <4>5. /\ o.others \in Seq(Identities) /\ IsInjective(o.others)
            /\ \A i \in DOMAIN o.others : o.others[i] # o.failing
        BY <4>1, <4>2, TallyAssumption, ConclusionsAreOutcomes
      <4> QED
        BY <3>2, <4>3, <4>4, <4>5, <4>6
    <3>5. CASE o.kind = "flaky"
      <4>1. stage' = "ended" /\ outcome' = [o EXCEPT !.stored = stored']
        BY <3>3, <3>5 DEF EndWith
      <4>2. /\ outcome' \in Outcomes /\ outcome'.kind = "flaky" /\ outcome'.cases = tally'.valid
            /\ outcome'.rejected = tally'.rejected /\ outcome'.stored = stored'
        <5>1. tally'.valid = tally.valid /\ tally'.rejected = tally.rejected
          BY <1>4, <1>6
        <5> QED
          BY <3>4, <3>5, <4>1, <5>1 DEF Outcomes
      <4>3. failures' \subseteq Identities /\ UNCHANGED <<identities, told, found>>
        BY <1>2, <2>2, <3>3, <3>5
      <4> QED
        BY <1>4, <4>1, <4>2, <4>3, CampaignEndsWith
    <3>6. CASE o.kind = "counterexample"
      <4>1. ConcludeFailure(o)
        BY <3>3, <3>6
      <4>2. CampaignTypes' /\ CampaignKeepsItsFailures' /\ GoOn
        BY <1>1, <2>2, <2>4, <3>4, <3>6, <4>1, ConcludedFailureIsKept
      <4> QED
        BY <1>4, <4>2, CampaignGoesOn
    <3> QED
      BY <3>4, <3>5, <3>6
  <2> QED
    BY <2>3, <2>4
<1>7. CASE x.status # "failed"
  <2>1. UNCHANGED <<identities, told, found, failures>>
    BY <1>7 DEF Take
  <2>2. CASE EndsCampaign(x)
    <3> DEFINE e == EndOf(x, tally')
    <3>1. stage' = "ended" /\ outcome' = [e EXCEPT !.stored = stored']
      BY <1>3, <1>7, <2>2 DEF Take, EndWith
    <3>2. x.status = "skipped" /\ found = NoOutcome
      BY <2>2 DEF EndsCampaign
    <3>3. e.kind = "skipped"
      BY <3>2, OutcomesOfKinds, <1>4 DEF EndOf, Kinds
    <3>4. /\ e \in Outcomes /\ e.cases = tally'.valid /\ e.rejected = tally'.rejected
      BY <1>1, <1>4, EndsAreOutcomes
    <3> HIDE DEF e
    <3>5. /\ outcome' \in Outcomes /\ outcome'.kind = "skipped" /\ outcome'.cases = tally'.valid
          /\ outcome'.rejected = tally'.rejected /\ outcome'.stored = stored'
      BY <3>1, <3>3, <3>4 DEF Outcomes
    <3>6. failures' = {}
      BY <1>2, <1>5, <2>1, <3>2
    <3> QED
      BY <1>4, <2>1, <3>1, <3>5, <3>6, CampaignEndsWith
  <2>3. CASE ~EndsCampaign(x)
    <3>1. GoOn
      BY <1>7, <2>3 DEF Take
    <3>2. found = NoOutcome => tally'.valid + tally'.rejected >= 1
      <4> SUFFICES ASSUME found = NoOutcome PROVE tally'.valid + tally'.rejected >= 1
        OBVIOUS
      <4>1. x.status \in {"passed", "rejected"}
        BY <1>1, <1>7, <2>3 DEF EndsCampaign, Statuses
      <4> QED
        BY <1>4, <4>1
    <3>3. CampaignTypes' /\ CampaignKeepsItsFailures'
      BY <1>2, <2>1, <3>1, <3>2 DEF CampaignTypes, CampaignKeepsItsFailures, GoOn
    <3> QED
      BY <1>4, <3>1, <3>3, CampaignGoesOn
  <2> QED
    BY <2>2, <2>3
<1> QED
  BY <1>6, <1>7

LEMMA KnownOfCampaignStep ==
  ASSUME EngineInductive, KnownOfCampaign, UNCHANGED phases
  PROVE  EngineInductive'
<1>1. /\ mode = "campaign" /\ stage = "known" /\ known # <<>> /\ known' = Tail(known)
      /\ UNCHANGED <<mode, body, settings>>
  BY DEF KnownOfCampaign
<1>2. PICK x \in OutsideCases : stored' = StoredWith(x) /\ Take(x, Head(known) = "values")
  BY DEF KnownOfCampaign
<1>3. /\ known \in Seq({"trace", "values", "stored", "token", "fuzz"}) /\ stored \in Seq(Statuses)
      /\ x.status \in Statuses
  BY CasesAreCases DEF EngineInductive, SharedTypes
<1>4. /\ known' \in Seq({"trace", "values", "stored", "token", "fuzz"})
      /\ stored' \in Seq(Statuses)
  BY <1>1, <1>2, <1>3 DEF StoredWith
<1>5. (Head(known) = "values") \in BOOLEAN
  OBVIOUS
<1> QED
  BY <1>1, <1>2, <1>4, <1>5, TakeStep

LEMMA ExploreStep ==
  ASSUME EngineInductive, Explore, UNCHANGED phases
  PROVE  EngineInductive'
<1>1. /\ mode = "campaign" /\ stage = "known" /\ UNCHANGED <<mode, body, settings, known>>
  BY DEF Explore, InLoop
<1>2. PICK x \in OutsideCases : UNCHANGED stored /\ Take(x, FALSE)
  BY DEF Explore
<1>3. /\ known' \in Seq({"trace", "values", "stored", "token", "fuzz"})
      /\ stored' \in Seq(Statuses)
  BY <1>1, <1>2 DEF EngineInductive, SharedTypes
<1> QED
  BY <1>1, <1>2, <1>3, TakeStep

\* The end of a campaign, of which only the outcome is new.
LEMMA CampaignConcludes ==
  ASSUME EngineInductive, mode = "campaign", stage = "known", stage' = "ended",
         UNCHANGED <<mode, body, settings, known, tally, stored, phases, exploration>>,
         outcome' \in Outcomes, OutcomeIsJustified', FailuresAreReported'
  PROVE  EngineInductive'
  BY DEF EngineInductive, SharedTypes, PhaseTypes, CampaignTypes, StagesFollow, KnownOfItsKind,
     ConcludesTheWhole, CampaignKeepsItsFailures, Target, InTree, phases, exploration

LEMMA UnwindCampaignStep ==
  ASSUME EngineInductive, UnwindCampaign, UNCHANGED phases
  PROVE  EngineInductive'
<1>1. /\ mode = "campaign" /\ stage = "known" /\ stage' = "ended" /\ outcome' = Unwound
      /\ UNCHANGED <<mode, body, settings, known, tally, stored, exploration>>
  BY DEF UnwindCampaign
<1>2. "raised" \in Kinds /\ tally \in Tallies
  BY DEF Kinds, EngineInductive, SharedTypes
<1>3. outcome' \in Outcomes /\ outcome'.kind = "raised"
  BY <1>1, <1>2, OutcomesOfKinds DEF Unwound
<1>4. OutcomeIsJustified'
  BY <1>3 DEF OutcomeIsJustified, PassIsComplete, VerdictIsJustified, OutcomeIsComplete, EndsAs, Returned
<1>5. FailuresAreReported'
  BY <1>1, <1>3 DEF FailuresAreReported, ReportIsWhatWasTold, FailureIsNotHidden, EndsAs, Returned,
     EngineInductive, CampaignKeepsItsFailures, exploration
<1> QED
  BY <1>1, <1>3, <1>4, <1>5, CampaignConcludes

\* The outcome of a campaign after its time.
LEMMA ConclusionStep ==
  ASSUME EngineInductive, Conclusion, UNCHANGED phases
  PROVE  EngineInductive'
<1> DEFINE requirements == settings.requirements
           verdicts == Verdicts(tally.count, tally.valid, requirements, TRUE, FALSE)
           without  == WithoutCounterexample(tally)
           r        == ResultOf(Missed(verdicts))
<1>1. /\ mode = "campaign" /\ stage = "known" /\ stage' = "ended"
      /\ outcome' = [r EXCEPT !.stored = stored]
      /\ UNCHANGED <<mode, body, settings, known, tally, stored, exploration>>
  BY DEF Conclusion, InLoop, EndWith
<1>2. /\ tally \in Tallies /\ stored \in Seq(Statuses) /\ found \in Outcomes
      /\ requirements \in Seq([label : Labels, share : Nat])
      /\ CampaignKeepsItsFailures
  BY DEF EngineInductive, SharedTypes, CampaignTypes
<1>3. /\ found = NoOutcome => told = <<>> /\ failures = {}
      /\ found # NoOutcome => /\ found.kind = "counterexample" /\ found.token = ~found.valued
                              /\ told = <<found.failing>> \o found.others
      /\ found = NoOutcome /\ tally.requested => tally.valid + tally.rejected >= 1
      /\ IsInjective(told) /\ failures \subseteq ToSet(told)
  <2>1. ToSet(<<>>) = {}
    BY DEF ToSet
  <2> QED
    BY <1>1, <1>2, <2>1 DEF CampaignKeepsItsFailures
<1>4. /\ Missed(verdicts) # {} => /\ Min(Missed(verdicts)) \in Nat
                                 /\ Missing(requirements[Min(Missed(verdicts))])
      /\ AllMet(verdicts) => \A i \in DOMAIN requirements : Reached(requirements[i])
      /\ Missed(verdicts) = {} => AllMet(verdicts)
  <2> HIDE DEF requirements
  <2>1. verdicts = Verdicts(tally.count, tally.valid, requirements, TRUE, FALSE)
    OBVIOUS
  <2> HIDE DEF verdicts
  <2> QED
    BY <1>2, <2>1, ShortfallsAreTrue
<1>5. CASE found # NoOutcome
  <2>1. r = [found EXCEPT !.cases = tally.valid, !.rejected = tally.rejected]
    BY <1>5 DEF ResultOf
  <2>2. tally.valid \in Nat /\ tally.rejected \in Nat
    BY <1>2 DEF Tallies
  <2> HIDE DEF r
  <2>3. /\ r \in Outcomes /\ r.kind = found.kind /\ r.token = found.token /\ r.valued = found.valued
        /\ r.failing = found.failing /\ r.others = found.others
        /\ r.cases = tally.valid /\ r.rejected = tally.rejected
    BY <1>2, <2>1, <2>2 DEF Outcomes
  <2>4. /\ outcome' \in Outcomes /\ outcome'.kind = r.kind /\ outcome'.token = r.token
        /\ outcome'.valued = r.valued /\ outcome'.failing = r.failing /\ outcome'.others = r.others
        /\ outcome'.cases = tally'.valid /\ outcome'.rejected = tally'.rejected /\ outcome'.stored = stored'
    BY <1>1, <1>2, <2>3 DEF Outcomes
  <2>5. outcome'.kind = "counterexample" /\ outcome'.token = ~outcome'.valued
    BY <1>3, <1>5, <2>3, <2>4
  <2>6. OutcomeIsJustified'
    BY <2>4, <2>5 DEF OutcomeIsJustified, PassIsComplete, VerdictIsJustified, OutcomeIsComplete, EndsAs
  <2>7. Reported' = told'
    BY <1>1, <1>3, <1>5, <2>3, <2>4 DEF Reported, exploration
  <2>8. FailuresAreReported'
    BY <1>1, <1>3, <2>5, <2>7 DEF FailuresAreReported, ReportIsWhatWasTold, FailureIsNotHidden, exploration
  <2> QED
    BY <1>1, <2>4, <2>6, <2>8, CampaignConcludes
<1>6. CASE found = NoOutcome
  <2>1. ASSUME r \in Outcomes, r.kind \in {"passed", "rejected", "vacuous", "coverage-unmet"},
               r.cases = tally.valid, r.rejected = tally.rejected,
               r.kind = "passed" =>
                 Tested /\ \A i \in DOMAIN settings.requirements : Reached(settings.requirements[i]),
               r.kind = "coverage-unmet" => Tested /\ Missing(settings.requirements[r.missed])
        PROVE  EngineInductive'
    <3> HIDE DEF r
    <3>1. /\ outcome' \in Outcomes /\ outcome'.kind = r.kind /\ outcome'.missed = r.missed
          /\ outcome'.cases = tally'.valid /\ outcome'.rejected = tally'.rejected /\ outcome'.stored = stored'
      BY <1>1, <1>2, <2>1 DEF Outcomes
    <3>2. VerdictIsJustified'
      BY <1>1, <2>1, <3>1 DEF VerdictIsJustified, EndsAs, Tested, Reached, Missing, Share
    <3>3. PassIsComplete' /\ OutcomeIsComplete'
      BY <1>1, <2>1, <3>1 DEF PassIsComplete, OutcomeIsComplete, EndsAs
    <3>4. FailuresAreReported'
      BY <1>1, <1>3, <1>6, <2>1, <3>1 DEF FailuresAreReported, ReportIsWhatWasTold, FailureIsNotHidden,
         EndsAs, exploration
    <3> QED
      BY <1>1, <3>1, <3>2, <3>3, <3>4, CampaignConcludes DEF OutcomeIsJustified
  <2>2. without = "none" => Tested
    BY <1>2, <1>3, <1>6, TallyAssumption, WithoutIsNone
  <2>3. CASE without # "none"
    <3>1. r = OutcomeOf(without, tally)
      BY <1>6, <2>3 DEF ResultOf
    <3>2. without \in {"rejected", "vacuous"} /\ without \in Kinds
      BY <2>3, WithoutIsAKind DEF Kinds
    <3> HIDE DEF r, without
    <3>3. /\ r \in Outcomes /\ r.kind = without /\ r.cases = tally.valid /\ r.rejected = tally.rejected
      BY <1>2, <3>1, <3>2, OutcomesOfKinds
    <3> QED
      BY <2>1, <3>2, <3>3
  <2>4. CASE without = "none" /\ Missed(verdicts) # {}
    <3> DEFINE u == OutcomeOf("coverage-unmet", tally)
               m == Min(Missed(verdicts))
    <3>1. r = [u EXCEPT !.missed = m]
      BY <1>6, <2>4 DEF ResultOf
    <3> "coverage-unmet" \in Kinds
      BY DEF Kinds
    <3>2. /\ u \in Outcomes /\ u.kind = "coverage-unmet"
          /\ u.cases = tally.valid /\ u.rejected = tally.rejected
      BY <1>2, OutcomesOfKinds
    <3>3. m \in Nat /\ Missing(settings.requirements[m])
      BY <1>4, <2>4
    <3> HIDE DEF u, m, r
    <3>4. /\ r \in Outcomes /\ r.kind = "coverage-unmet" /\ r.missed = m
          /\ r.cases = tally.valid /\ r.rejected = tally.rejected
      BY <3>1, <3>2, <3>3 DEF Outcomes
    <3> QED
      BY <2>1, <2>2, <2>4, <3>3, <3>4
  <2>5. CASE without = "none" /\ Missed(verdicts) = {}
    <3>1. r = OutcomeOf("passed", tally)
      BY <1>6, <2>5 DEF ResultOf
    <3> "passed" \in Kinds
      BY DEF Kinds
    <3> HIDE DEF r
    <3>2. /\ r \in Outcomes /\ r.kind = "passed" /\ r.cases = tally.valid /\ r.rejected = tally.rejected
      BY <1>2, <3>1, OutcomesOfKinds
    <3> QED
      BY <1>4, <2>1, <2>2, <2>5, <3>2
  <2> QED
    BY <2>3, <2>4, <2>5
<1> QED
  BY <1>5, <1>6

LEMMA PassTimeStep ==
  ASSUME EngineInductive, PassTime, UNCHANGED phases
  PROVE  EngineInductive'
  BY DEF PassTime, EngineInductive, SharedTypes, PhaseTypes, CampaignTypes, StagesFollow, KnownOfItsKind,
     ConcludesTheWhole, CampaignKeepsItsFailures, Target, InTree, phases, common, WantsMore, Exhausted,
     OutcomeIsJustified, PassIsComplete, VerdictIsJustified, OutcomeIsComplete, EndsAs,
     FailuresAreReported, ReportIsWhatWasTold, FailureIsNotHidden, Returned, IsEnded

LEMMA CampaignStep ==
  ASSUME EngineInductive, NextCampaign, UNCHANGED phases
  PROVE  EngineInductive'
  BY KnownOfCampaignStep, ExploreStep, ConclusionStep, PassTimeStep, UnwindCampaignStep DEF NextCampaign

-----------------------------------------------------------------------------
(* The theorems *)

LEMMA StutterStep ==
  ASSUME EngineInductive, UNCHANGED vars
  PROVE  EngineInductive'
<1>1. UNCHANGED <<mode, body, settings, stage, known, tally, stored, outcome, tested, index, edges,
                  check, identities, found, told, failures>>
  BY DEF vars, common, phases, exploration
<1>2. SharedTypes' /\ PhaseTypes' /\ CampaignTypes'
  BY <1>1 DEF EngineInductive, SharedTypes, PhaseTypes, CampaignTypes, Target
<1>3. StagesFollow' /\ KnownOfItsKind' /\ ConcludesTheWhole' /\ CampaignKeepsItsFailures'
  BY <1>1 DEF EngineInductive, StagesFollow, KnownOfItsKind, ConcludesTheWhole,
     CampaignKeepsItsFailures, Target, WantsMore, Exhausted
<1>4. PassIsComplete' /\ OutcomeIsComplete'
  BY <1>1 DEF EngineInductive, OutcomeIsJustified, PassIsComplete, OutcomeIsComplete, EndsAs, IsEnded,
     Returned, Target, Exhausted
<1>5. VerdictIsJustified'
  BY <1>1 DEF EngineInductive, OutcomeIsJustified, VerdictIsJustified, EndsAs, IsEnded, Tested, Share
<1>6. FailuresAreReported'
  BY <1>1 DEF EngineInductive, FailuresAreReported, ReportIsWhatWasTold, FailureIsNotHidden, EndsAs,
     IsEnded, Returned, Reported
<1> QED
  BY <1>2, <1>3, <1>4, <1>5, <1>6 DEF EngineInductive, OutcomeIsJustified

\* The invariant of a run and of a campaign holds for every caller.
THEOREM EngineInvariantHolds == Spec => []EngineInductive
<1>1. Init => EngineInductive
  BY EngineInit
<1>2. EngineInductive /\ [Next]_vars => EngineInductive'
  BY RunnerStep, CampaignStep, StutterStep DEF Next
<1> QED
  BY <1>1, <1>2, PTL DEF Spec

\* Whichever way a run or a campaign takes to its end, its outcome is justified: what
\* passed was searched whole and reached its shares, a missed share is missing, and the
\* counts, the stored runs and the token are those of all of it (runner.py, campaign.py).
THEOREM OutcomesAreJustified == Spec => []OutcomeIsJustified
<1>1. EngineInductive => OutcomeIsJustified
  BY DEF EngineInductive
<1> QED
  BY <1>1, EngineInvariantHolds, PTL

\* Every failure of a campaign is reported, each identity once and in the order in which
\* it was told, and no skip and no count hides a failure (campaign.py, _fail).
THEOREM NoFailureIsLost == Spec => []FailuresAreReported
<1>1. EngineInductive => FailuresAreReported
  BY DEF EngineInductive
<1> QED
  BY <1>1, EngineInvariantHolds, PTL

=============================================================================
