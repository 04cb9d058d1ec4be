------------------------------- MODULE Passes -------------------------------
(***************************************************************************)
(* What the shrinker does between two candidates (shrink.py): it picks a   *)
(* failure, runs rounds of passes on it, and explains the counterexample.  *)
(* How the candidates of a pass run is left to the modules that extend     *)
(* this one.                                                               *)
(*                                                                         *)
(* A case is its rank in shortlex order, and Length gives its number of    *)
(* choices.  A pass is known by how it offers candidates: a sweep offers   *)
(* those of the best case and starts over after each acceptance; a probe   *)
(* offers candidates that depend on the answers to earlier ones; the pass  *)
(* lower-and-delete steps an integer and may then delete later spans.      *)
(***************************************************************************)
EXTENDS Naturals, Sequences

CONSTANTS
  MaxCase,      \* the largest case
  Length,       \* the number of choices of each case
  Identities,   \* the identities of failures
  Budget,       \* the runs that the shrink can spend
  Repeats,      \* the most repeats of a case
  Kinds,        \* how each pass of a round offers candidates, in order
  Candidates,   \* of each sweep, the candidates of each case
  Probes,       \* the candidates that a probe may offer at once
  Deletions,    \* the candidates that may follow a step
  Calls,        \* bound: the times that one probe or step pass offers
  Draws,        \* the draws of the counterexample
  Fillings      \* _EXPLAIN_FILLINGS

Cases  == 0..MaxCase
None   == MaxCase + 1
DeleteAndLower == Len(Kinds) + 1     \* the last pass, a sweep
Sweeps == {p \in 1..Len(Kinds) : Kinds[p] = "sweep"} \cup {DeleteAndLower}

ASSUME PassesAssumption ==
  /\ MaxCase \in Nat /\ Budget \in Nat \ {0} /\ Repeats \in Nat \ {0}
  /\ Length \in [Cases -> Nat]
  /\ \A c, d \in Cases : c < d => Length[c] <= Length[d]
  /\ Kinds \in Seq({"sweep", "probe", "step"})
  /\ Candidates \in [Sweeps -> [Cases -> Seq(Cases)]]
  /\ Probes \subseteq Seq(Cases) /\ Deletions \subseteq Seq(Cases)
  /\ Calls \in Nat /\ Draws \in Nat /\ Fillings \in Nat
  /\ "passed" \notin Identities /\ "not run" \notin Identities

VARIABLES
  failures,   \* the smallest case of each identity, None for one not found
  sizes,      \* _sizes: how each case that ran ended
  runs,       \* the runs spent
  late,       \* the deadline is past
  target,     \* _target
  done,       \* the failures that are shrunk
  pass,       \* the pass of the round
  improved,   \* a pass of the round accepted a candidate
  calls,      \* the times that a probe or step pass offered candidates
  step,       \* the step that deletions may follow, or None
  queue,      \* the candidates or fillings that are left to offer
  same,       \* a filling of the draw failed in the same way
  explained,  \* the explanations of the first draws
  stage       \* where the shrinker is

spent  == <<runs, late>>
found  == <<failures, sizes>>
walk   == <<target, done, pass, improved, calls, step>>
told   == <<same, explained>>

\* The candidates s have the case c.
Has(s, c) == \E k \in DOMAIN s : s[k] = c

Best    == failures[target]
NewBest == failures'[target]

\* How a run ended: the identity of its failure or "passed", which stands for
\* a rejected and a skipped run too, and the case that it recorded.
Ending == [identity : Identities \cup {"passed"}, recorded : Cases]
NotRun == [identity |-> "not run", recorded |-> 0]

-----------------------------------------------------------------------------
(* One run *)

\* _room raises.
Spent == runs >= Budget \/ late

\* The runs of a case with repeats, of which room is left.
Costs(room) == {n \in 1..Repeats : n <= room}

\* _record
Recorded(end) == IF end.recorded < failures[end.identity]
                   THEN [failures EXCEPT ![end.identity] = end.recorded]
                   ELSE failures

\* MUTANT: a run that does not fail leaves no size.
KeepOfAFailure(case, end) ==
  IF end.identity \in Identities
    THEN sizes' = [sizes EXCEPT ![case] = end] /\ failures' = Recorded(end)
    ELSE UNCHANGED <<sizes, failures>>

\* The size and the failure of a run that is taken.
Keep(case, end) ==
  /\ sizes' = [sizes EXCEPT ![case] = end]
  /\ failures' = IF end.identity \in Identities THEN Recorded(end) ELSE failures

\* _fresh, up to the candidates of the batch.
IsNew(case) == case < Best /\ sizes[case] = NotRun

-----------------------------------------------------------------------------
(* Rounds: shrink_all and _shrink *)

Offered(p, case) == IF p \in Sweeps THEN Candidates[p][case] ELSE <<>>

\* A pass begins on the best case.
Begin(p, case) == /\ pass' = p /\ calls' = 0 /\ step' = None
                  /\ queue' = Offered(p, case)

\* After an acceptance a sweep starts over, and another pass goes on.
Accepted == /\ improved' = TRUE /\ step' = None
            /\ queue' = Offered(pass, NewBest)
            /\ UNCHANGED <<target, done, pass, calls>>

Pending == {i \in Identities \ done : failures[i] # None}

Pick ==
  /\ stage = "pick"
  /\ IF Pending = {}
       THEN stage' = "shrunk" /\ UNCHANGED <<walk, queue>>
       ELSE \E i \in Pending :
              /\ \A j \in Pending : failures[i] <= failures[j]
              /\ target' = i
              /\ Begin(1, failures[i])
              /\ improved' = FALSE
              /\ stage' = "pass" /\ UNCHANGED done
  /\ UNCHANGED <<found, spent, told>>

\* MUTANT: a round that accepted a candidate is not followed by another.
NextRoundNever == Begin(DeleteAndLower, Best) /\ improved' = FALSE

\* MUTANT: a new round does not forget that the last one improved.
NextRoundStillImproved == IF improved THEN Begin(1, Best) /\ UNCHANGED improved
                                      ELSE Begin(DeleteAndLower, Best) /\ UNCHANGED improved

\* The passes of a round are over.
NextRound == IF improved THEN Begin(1, Best) /\ improved' = FALSE
                         ELSE Begin(DeleteAndLower, Best) /\ UNCHANGED improved

\* A pass without a candidate left is over; a probe or step pass has looked at
\* every place of the case after finitely many offers.
EndPass ==
  /\ stage = "pass" /\ queue = <<>> /\ step = None
  /\ \/ /\ pass < Len(Kinds)
        /\ Begin(pass + 1, Best) /\ UNCHANGED <<improved, done, stage>>
     \/ /\ pass = Len(Kinds)
        /\ NextRound /\ UNCHANGED <<done, stage>>
     \/ /\ pass = DeleteAndLower /\ improved
        /\ Begin(1, Best) /\ improved' = FALSE /\ UNCHANGED <<done, stage>>
     \/ /\ pass = DeleteAndLower /\ ~improved
        /\ done' = done \cup {target} /\ stage' = "pick"
        /\ UNCHANGED <<pass, improved, calls, step, queue>>
  /\ UNCHANGED <<target, found, spent, told>>

-----------------------------------------------------------------------------
(* Passes that are not sweeps *)

IsIn(kind) == stage = "pass" /\ pass \notin Sweeps /\ Kinds[pass] = kind

Probe ==
  /\ IsIn("probe") /\ queue = <<>> /\ calls < Calls
  /\ queue' \in Probes /\ calls' = calls + 1
  /\ UNCHANGED <<found, spent, told, stage, target, done, pass, improved, step>>

\* _step_and_delete: a step towards a target is smaller and as long.
Step ==
  /\ IsIn("step") /\ queue = <<>> /\ step = None /\ calls < Calls
  /\ \E s \in Cases :
       /\ s < Best /\ Length[s] = Length[Best]
       /\ step' = s /\ queue' = <<s>>
  /\ calls' = calls + 1
  /\ UNCHANGED <<found, spent, told, stage, target, done, pass, improved>>

\* The step was not accepted.  Its deletions follow when its run recorded
\* another number of choices.
AfterStep ==
  /\ IsIn("step") /\ queue = <<>> /\ step # None
  /\ step' = None
  /\ IF Length[sizes[step].recorded] = Length[Best]
       THEN UNCHANGED queue ELSE queue' \in Deletions
  /\ UNCHANGED <<found, spent, told, stage, target, done, pass, improved, calls>>

-----------------------------------------------------------------------------
(* explain *)

Explanation(any, near) == [any |-> any, near |-> near]
Unexplained == Explanation("unknown", FALSE)

Explain(e) == explained' = Append(explained, e) /\ stage' = "explain"

StartExplaining ==
  /\ stage = "shrunk"
  /\ stage' \in {"explain", "ended"}
  /\ UNCHANGED <<found, spent, walk, queue, told>>

\* The next draw, with the fillings of it that decode.
NextDraw ==
  /\ stage = "explain" /\ Len(explained) < Draws
  /\ \/ Explain(Unexplained) /\ UNCHANGED <<queue, same>>
     \/ /\ \E n \in 0..Fillings : queue' = [i \in 1..n |-> 0]
        /\ same' = FALSE /\ stage' = "fillings" /\ UNCHANGED explained
  /\ UNCHANGED <<found, spent, walk>>

\* A filling ran.  One that does not fail in the same way is the last.
Filled(fails) ==
  /\ IF fails THEN same' = TRUE /\ queue' = Tail(queue) /\ UNCHANGED stage
              ELSE queue' = <<>> /\ stage' = "nearest" /\ UNCHANGED same
  /\ UNCHANGED explained

EndDraw ==
  /\ stage = "fillings" /\ queue = <<>>
  /\ Explain(Explanation(IF same THEN "fails" ELSE "unknown", FALSE))
  /\ UNCHANGED <<found, spent, walk, queue, same>>

\* _nearest: an integer draw that is not at its target runs once more.
Nearest ==
  /\ stage = "nearest"
  /\ \/ Explain(Explanation("matters", FALSE)) /\ UNCHANGED runs
     \/ /\ ~Spent
        /\ \E n \in Costs(Budget - runs) : runs' = runs + n
        /\ \E passes \in BOOLEAN : Explain(Explanation("matters", passes))
     \/ Spent /\ Explain(Unexplained) /\ UNCHANGED runs
     \/ ~Spent /\ stage' = "raised" /\ UNCHANGED <<runs, explained>>
  /\ UNCHANGED <<found, late, walk, queue, same>>

EndExplaining ==
  /\ stage = "explain" /\ Len(explained) = Draws
  /\ stage' = "ended"
  /\ UNCHANGED <<found, spent, walk, queue, told>>

-----------------------------------------------------------------------------
(* What may happen at any time, and the end of the budget or of the time *)

Expire == /\ ~late /\ late' = TRUE
          /\ UNCHANGED <<found, runs, walk, queue, told, stage>>

\* Exhausted ends the shrink, or the explanation of one draw.
Exhaust ==
  /\ queue' = <<>>
  /\ IF stage = "pass" THEN stage' = "shrunk" /\ UNCHANGED told
                       ELSE Explain(Unexplained) /\ UNCHANGED same
  /\ late' \in {late, TRUE}
  /\ UNCHANGED <<found, runs, walk>>

\* An error of the body that is not a signal of the case unwinds the shrink.
Raise ==
  /\ stage' = "raised" /\ queue' = <<>> /\ late' \in {late, TRUE}
  /\ UNCHANGED <<found, runs, walk, told>>

InitPasses ==
  /\ \E i \in Identities, c \in Cases :
       /\ target = i
       /\ failures = [j \in Identities |-> IF j = i THEN c ELSE None]
       /\ sizes = [d \in Cases |-> IF d = c THEN [identity |-> i, recorded |-> c]
                                            ELSE NotRun]
  /\ runs = 0 /\ late = FALSE
  /\ done = {} /\ pass = 1 /\ improved = FALSE /\ calls = 0 /\ step = None
  /\ queue = <<>> /\ same = FALSE /\ explained = <<>> /\ stage = "pick"

Between == \/ Pick \/ EndPass \/ Probe \/ Step \/ AfterStep
           \/ StartExplaining \/ NextDraw \/ EndDraw \/ Nearest \/ EndExplaining
=============================================================================
