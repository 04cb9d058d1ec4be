----------------------------- MODULE OneWorker -----------------------------
(***************************************************************************)
(* The generated cases of a run on one worker: _Phases of runner.py over   *)
(* the Serial executor, which runs each case when the runner calls for it  *)
(* and lets it walk the case tree as it runs.  A call is therefore one     *)
(* step, and entered is the sequence of the cases in the case tree.  What  *)
(* the cases do (pass, are rejected, exhaust the domain, end the run) is   *)
(* not modelled: each condition on it is a choice.                         *)
(***************************************************************************)
EXTENDS Positions

VARIABLES stage,     \* where the runner is between two calls
          check,     \* the check of the coverage that the run runs to
          index,     \* _index: the random cases so far
          edges,     \* _edges: the edge cases so far
          entered    \* the cases that walked the case tree, in order

phases == <<stage, check, index, edges>>
vars   == <<phases, entered>>

Stage == {"simplest", "random", "prefix", "edge", "left", "ended"}

Init == /\ stage = "simplest"
        /\ check = 1
        /\ index = 0
        /\ edges = 0
        /\ entered = <<>>

Enter(case) == entered' = Append(entered, case)

Simplest == /\ stage = "simplest"
            /\ Enter(SimplestCase)
            /\ stage' = "random"
            /\ UNCHANGED <<check, index, edges>>

\* A random case.  Its prefix case is tried while few cases are valid.
Random == /\ stage = "random"
          /\ index < Limits[check]
          /\ Enter(RandomCase(index))
          /\ index' = index + 1
          /\ stage' \in {"prefix", "edge"}
          /\ UNCHANGED <<check, edges>>

Prefix == /\ stage = "prefix"
          /\ Enter(PrefixCase(index - 1))
          /\ stage' = "edge"
          /\ UNCHANGED <<check, index, edges>>

\* The next edge case, after a random case or among those left over.
Edge == /\ stage \in {"edge", "left"}
        /\ edges < Boundaries
        /\ Enter(EdgeCase(edges))
        /\ edges' = edges + 1
        /\ stage' = IF stage = "edge" THEN "random" ELSE "left"
        /\ UNCHANGED <<check, index>>

NoEdge == /\ stage = "edge"
          /\ edges = Boundaries
          /\ stage' = "random"
          /\ UNCHANGED <<check, index, edges, entered>>

\* Enough cases are valid, or the limit is reached: the edge cases left run.
Leave == /\ stage = "random"
         /\ stage' = "left"
         /\ UNCHANGED <<check, index, edges, entered>>

\* The check leaves a requirement undecided, and the run goes to the next.
NextCheck == /\ stage = "left"
             /\ edges = Boundaries
             /\ check < Len(Limits)
             /\ check' = check + 1
             /\ stage' = "random"
             /\ UNCHANGED <<index, edges, entered>>

\* A case ends the run, the domain is exhausted, a check decides, or an error
\* or an interrupt of the caller unwinds it.
End == /\ stage # "ended"
       /\ stage' = "ended"
       /\ UNCHANGED <<check, index, edges, entered>>

Next == \/ Simplest \/ Random \/ Prefix
        \/ Edge \/ NoEdge
        \/ Leave \/ NextCheck
        \/ End

Spec == Init /\ [][Next]_vars
=============================================================================
