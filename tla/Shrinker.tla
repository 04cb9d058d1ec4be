------------------------------ MODULE Shrinker ------------------------------
(***************************************************************************)
(* The shrinker on several workers (shrink.py): the candidates of a pass   *)
(* run in batches, and their runs are taken in order.                      *)
(***************************************************************************)
EXTENDS Passes

CONSTANT Workers

ASSUME WorkersAssumption == Workers \in Nat \ {0}

VARIABLES
  batch,    \* the candidates or fillings of the batch whose runs are not taken
  room,     \* of run_each, the runs that are left to the batch
  flying    \* the batch ran

flight == <<batch, room, flying>>
vars   == <<found, spent, walk, queue, told, stage, flight>>

\* MUTANT: a candidate that the batch has joins it again.
FreshOfRuns(case) == IsNew(case)

\* _fresh
Fresh(case) == IsNew(case) /\ ~Has(batch, case)

\* lower-and-delete considers one candidate at a time.
Together == IF IsIn("step") THEN 1 ELSE Workers

\* _first and _relevance fill the batch.
Offer ==
  /\ ~flying /\ queue # <<>> /\ Len(batch) < Together
  /\ \/ stage = "pass"
        /\ batch' = IF Fresh(Head(queue)) THEN Append(batch, Head(queue)) ELSE batch
     \/ stage = "fillings" /\ batch' = Append(batch, Head(queue))
  /\ queue' = Tail(queue)
  /\ UNCHANGED <<found, spent, walk, told, stage, room, flying>>

\* The batch is full, or nothing is left to add.
Ready == ~flying /\ batch # <<>> /\ (Len(batch) = Together \/ queue = <<>>)

\* run_each: the batch runs at once.
Fly ==
  /\ Ready /\ ~Spent
  /\ room' = Budget - runs /\ flying' = TRUE
  /\ UNCHANGED <<found, spent, walk, queue, told, stage, batch>>

NoRoom ==
  /\ Ready /\ Spent
  /\ Exhaust /\ batch' = <<>> /\ UNCHANGED <<room, flying>>

\* MUTANT: each case of a batch has the room of the batch.
PayFromTheBatch == /\ \E n \in Costs(Budget) : runs' = runs + n /\ room' = room - 1
                   /\ UNCHANGED late

\* The run of the first case of the batch is taken with its repeats.
Pay == /\ \E n \in Costs(room) : runs' = runs + n /\ room' = room - n
       /\ UNCHANGED late

\* MUTANT: the runs of the batch that are not taken are in the memo.
KeepBatch(end) ==
  /\ failures' = IF end.identity \in Identities THEN Recorded(end) ELSE failures
  /\ sizes' = [c \in Cases |-> IF c = Head(batch) THEN end
                             ELSE IF Has(batch, c) THEN [identity |-> target, recorded |-> c]
                             ELSE sizes[c]]

\* The run of the first candidate, kept.
KeepFirst(end) == Keep(Head(batch), end)

\* _settle
Take ==
  /\ flying /\ stage = "pass" /\ batch # <<>> /\ room > 0
  /\ Pay
  /\ \E end \in Ending : KeepFirst(end)
  /\ IF NewBest < Best
       THEN Accepted /\ batch' = <<>>
       ELSE batch' = Tail(batch) /\ UNCHANGED <<walk, queue>>
  /\ UNCHANGED <<told, stage, flying>>

\* _relevance.  A filling that does not fail in the same way drops the others.
TakeFilling ==
  /\ flying /\ stage = "fillings" /\ batch # <<>> /\ room > 0
  /\ Pay
  /\ \/ batch' = Tail(batch) /\ same' = TRUE /\ UNCHANGED <<queue, stage>>
     \/ batch' = <<>> /\ queue' = <<>> /\ stage' = "nearest" /\ UNCHANGED same
  /\ UNCHANGED <<explained, found, walk, flying>>

\* The runs of the batch that are taken spent its room.
Cut ==
  /\ flying /\ batch # <<>> /\ room = 0
  /\ Exhaust /\ batch' = <<>> /\ flying' = FALSE /\ UNCHANGED room

Land ==
  /\ flying /\ batch = <<>>
  /\ flying' = FALSE
  /\ UNCHANGED <<found, spent, walk, queue, told, stage, batch, room>>

\* An error of any candidate of the batch that runs, or of a repeat.
Unwind ==
  /\ \/ Ready /\ ~Spent
     \/ flying /\ batch # <<>> /\ room > 0
  /\ Raise /\ batch' = <<>> /\ flying' = FALSE /\ UNCHANGED room

Idle == ~flying /\ batch = <<>> /\ Between /\ UNCHANGED flight

Late == Expire /\ UNCHANGED flight

Init == InitPasses /\ batch = <<>> /\ room = 0 /\ flying = FALSE

Work == \/ Idle \/ Offer \/ Fly \/ NoRoom
        \/ Take \/ TakeFilling \/ Cut \/ Land \/ Unwind

Next == Work \/ Late

Spec     == Init /\ [][Next]_vars
FairSpec == Spec /\ WF_vars(Work)

-----------------------------------------------------------------------------

TypeOK ==
  /\ failures \in [Identities -> Cases \cup {None}]
  /\ sizes \in [Cases -> Ending \cup {NotRun}]
  /\ runs \in 0..Budget /\ late \in BOOLEAN
  /\ target \in Identities /\ failures[target] \in Cases
  /\ done \subseteq Identities
  /\ pass \in 1..DeleteAndLower /\ improved \in BOOLEAN
  /\ calls \in 0..Calls /\ step \in Cases \cup {None}
  /\ queue \in Seq(Cases) /\ batch \in Seq(Cases)
  /\ room \in Nat /\ flying \in BOOLEAN
  /\ same \in BOOLEAN
  /\ stage \in {"pick", "pass", "shrunk", "explain", "fillings", "nearest",
                "ended", "raised"}

\* The best case of each identity is the smallest that a run of the memo
\* recorded for it.  A candidate that a batch ran but that was not taken is not
\* in the memo, so that a later pass can run it (run_each, _settle, _record).
BestIsTheLeast ==
  \A i \in Identities :
    /\ failures[i] = None
         \/ \E c \in Cases : sizes[c] = [identity |-> i, recorded |-> failures[i]]
    /\ \A c \in Cases : sizes[c].identity = i => failures[i] <= sizes[c].recorded

\* The runs of a batch stay in the room that it began with, whatever repeats
\* its cases have: the shrink of every failure and the explanation never spend
\* more than the budget (run_each).
BudgetHolds == runs <= Budget /\ (flying => room = Budget - runs)

\* No run makes the best case of a failure larger (_record).
BestOnlyShrinks == [][\A i \in Identities : failures'[i] <= failures[i]]_vars

\* A failure is done only when no sweep has a candidate that is smaller than
\* its best case and that did not run (_shrink, _sweep).
NothingSmallerIsLeft ==
  stage = "pick" /\ target \in done =>
    \A p \in Sweeps, c \in Cases : Has(Candidates[p][Best], c) => ~IsNew(c)

\* A step that was not accepted has an entry in the sizes (_step_and_delete).
StepHasSize ==
  ~flying /\ batch = <<>> /\ stage = "pass" /\ queue = <<>> /\ step # None
    => sizes[step] # NotRun

\* A sweep misses no candidate: it ends with none left that is smaller and new, and
\* lower-and-delete has the size of every step that it builds on (_sweep,
\* _step_and_delete).
SweepsMissNothing == NothingSmallerIsLeft /\ StepHasSize

\* The run on several workers takes the runs that one worker makes, in their
\* order, until the same end (_run_all, run_each, _settle, _relevance).
OneWorker == INSTANCE OneCandidate WITH
               queue <- batch \o queue,
               late  <- late /\ ~flying

SameAsOneWorker == OneWorker!Spec

\* The shrink and the explanation end (_shrink, _sweep, run_each).
ShrinkEnds == <>(stage \in {"ended", "raised"})
=============================================================================
