---------------------------- MODULE OneCandidate ----------------------------
(***************************************************************************)
(* The shrinker with one worker: one candidate or filling runs at a time,  *)
(* and its run counts before the next is looked at.                        *)
(***************************************************************************)
EXTENDS Passes, SequencesExt

vars == <<found, spent, walk, queue, told, stage>>

\* A candidate that is not smaller than the best case, that ran, or that is in
\* the queue twice will not run: it makes no difference when it is dropped.
Skip ==
  /\ stage = "pass"
  /\ \E k \in DOMAIN queue :
       /\ ~IsNew(queue[k]) \/ \E j \in 1..(k - 1) : queue[j] = queue[k]
       /\ queue' = RemoveAt(queue, k)
  /\ UNCHANGED <<found, spent, walk, told, stage>>

\* A run on a candidate or a filling begins.
MayRun == /\ queue # <<>>
          /\ \/ stage = "pass" /\ IsNew(Head(queue))
             \/ stage = "fillings"

Try ==
  /\ MayRun /\ stage = "pass" /\ ~Spent
  /\ \E n \in Costs(Budget - runs) : runs' = runs + n
  /\ \E end \in Ending : Keep(Head(queue), end)
  /\ IF NewBest < Best
       THEN Accepted
       ELSE queue' = Tail(queue) /\ UNCHANGED walk
  /\ UNCHANGED <<late, told, stage>>

Fill ==
  /\ MayRun /\ stage = "fillings" /\ ~Spent
  /\ \E n \in Costs(Budget - runs) : runs' = runs + n
  /\ \E fails \in BOOLEAN : Filled(fails)
  /\ UNCHANGED <<late, found, walk>>

NoRoom == MayRun /\ Spent /\ Exhaust

Unwind == MayRun /\ ~Spent /\ Raise

Init == InitPasses

Next == Between \/ Expire \/ Skip \/ Try \/ Fill \/ NoRoom \/ Unwind

Spec == Init /\ [][Next]_vars
=============================================================================
