------------------------------- MODULE Ahead -------------------------------
(***************************************************************************)
(* A run on more than one worker: _Phases of runner.py over the Ahead      *)
(* executor.  The workers fly the random and edge cases ahead of the       *)
(* runner and outside the case tree.  A call of the runner waits until the *)
(* case has ended and enters it into the tree then.                        *)
(*                                                                         *)
(* The threads share the fields of Ahead under one condition.  A step is   *)
(* what a thread does between two waits while it holds the lock; a worker  *)
(* in the wait set of the condition is asleep until it is notified.        *)
(***************************************************************************)
EXTENDS Positions, Integers, FiniteSets

CONSTANT Workers     \* the threads of the pool

ASSUME WorkersAssumption == /\ IsFiniteSet(Workers)
                            /\ Workers # {}

VARIABLES
  stage, check, index, edges,   \* _Phases: see OneWorker
  entered,    \* the cases that the runner entered into the case tree
  awaited,    \* the flight that the runner waits for, or NoFlight
  table,      \* the positions that are keys of _flights
  next,       \* _next: the position that no worker has claimed yet
  taken,      \* _taken: one past the furthest position that was called for
  replays,    \* _replays
  worker,     \* what each thread of the pool does
  flying,     \* the flight that each thread runs, or NoFlight
  done,       \* the flights whose event is set
  cancelled,  \* the flights whose case was told to end at its next choice
  cut         \* the flights that a cancellation ended early

phases == <<stage, check, index, edges>>
shared == <<table, next, taken, replays>>
ending == <<done, cancelled, cut>>
vars   == <<phases, entered, awaited, shared, worker, flying, ending>>

-----------------------------------------------------------------------------
(* Flights *)

AheadFlight(p)  == [order |-> "ahead", position |-> p]
ReplayFlight(c) == [order |-> "replay", case |-> c]
NoFlight        == [order |-> "none"]

AheadFlights == [order : {"ahead"}, position : Nat]
Flight       == AheadFlights \cup [order : {"replay"}, case : Case]

CaseOf(f) == IF f.order = "ahead" THEN CaseAt(f.position) ELSE f.case

\* _flight_at: the flight of a position is made once, and it is a new one
\* after the runner has taken it.
FlightAt(p) ==
  /\ table' = table \cup {p}
  /\ IF p \in table
       THEN UNCHANGED ending
       ELSE /\ done' = done \ {AheadFlight(p)}
            /\ cancelled' = cancelled \ {AheadFlight(p)}
            /\ cut' = cut \ {AheadFlight(p)}

\* MUTANT: the flight stays in the table after it was taken.
TableWithoutKeeps(f) == table

\* The del of _take.
TableWithout(f) ==
  IF f.order = "ahead" THEN table \ {f.position} ELSE table

\* The flights that close cancels: all that the runner did not take.
ToCancel == {AheadFlight(p) : p \in table}

-----------------------------------------------------------------------------
(* The condition *)

Asleep == {w \in Workers : worker[w] = "asleep"}

\* MUTANT: replay leaves its notify out.
NotifyNobody == UNCHANGED worker

\* Any waiter may be the one that is woken.
NotifyOne ==
  IF Asleep = {} THEN UNCHANGED worker
                 ELSE \E w \in Asleep : worker' = [worker EXCEPT ![w] = "ready"]

\* MUTANT: close and _take wake one waiter where notify_all wakes them all.
NotifyAllWakesOne == NotifyOne

NotifyAll ==
  worker' = [w \in Workers |-> IF worker[w] = "asleep" THEN "ready" ELSE worker[w]]

-----------------------------------------------------------------------------
(* The runner *)

Closed == stage \in {"closing", "closed"}
Idle   == awaited = NoFlight

\* replay: the flight goes to the queue, and one worker is woken.
CallReplay(f) ==
  /\ replays' = Append(replays, f)
  /\ awaited' = f
  /\ NotifyOne
  /\ UNCHANGED <<phases, entered, table, next, taken, flying, ending>>

\* _take, up to the wait for the case.
CallTake(p) ==
  /\ FlightAt(p)
  /\ taken' = Larger(taken, p + 1)
  /\ awaited' = AheadFlight(p)
  /\ NotifyAll
  /\ UNCHANGED <<phases, entered, next, replays, flying>>

CallSimplest == Idle /\ stage = "simplest" /\ CallReplay(ReplayFlight(SimplestCase))
CallPrefix   == Idle /\ stage = "prefix" /\ CallReplay(ReplayFlight(PrefixCase(index - 1)))
CallRandom   == Idle /\ stage = "random" /\ index < Limits[check]
                     /\ CallTake(RandomPosition(index))

CallEdge     == Idle /\ stage \in {"edge", "left"} /\ edges < Boundaries
                     /\ CallTake(EdgePosition(edges))

\* The rest of replay and of _take: the flight has ended, a taken one leaves
\* the table, and its case walks the tree.  The runner then goes on.
Return ==
  /\ ~Idle
  /\ awaited \in done
  /\ awaited' = NoFlight
  /\ entered' = Append(entered, CaseOf(awaited))
  /\ table' = TableWithout(awaited)
  /\ \/ stage = "simplest" /\ stage' = "random" /\ UNCHANGED <<index, edges>>
     \/ stage = "random" /\ stage' \in {"prefix", "edge"}
                         /\ index' = index + 1 /\ UNCHANGED edges
     \/ stage = "prefix" /\ stage' = "edge" /\ UNCHANGED <<index, edges>>
     \/ stage = "edge" /\ stage' = "random" /\ edges' = edges + 1 /\ UNCHANGED index
     \/ stage = "left" /\ stage' = "left" /\ edges' = edges + 1 /\ UNCHANGED index
  /\ UNCHANGED <<check, next, taken, replays, worker, flying, ending>>

Goto(to) == /\ Idle
            /\ stage' = to
            /\ UNCHANGED <<index, edges, entered, awaited, shared, flying, ending>>

NoEdge    == /\ stage = "edge" /\ edges = Boundaries
             /\ Goto("random") /\ UNCHANGED <<check, worker>>
Leave     == stage = "random" /\ Goto("left") /\ UNCHANGED <<check, worker>>
NextCheck == /\ stage = "left" /\ edges = Boundaries /\ check < Len(Limits)
             /\ Goto("random")
             /\ check' = check + 1
             /\ UNCHANGED worker

\* The outcome of a case or of a check ends the run.
End == /\ stage \notin {"ended", "closing", "closed"}
       /\ Goto("ended")
       /\ UNCHANGED <<check, worker>>

\* The error of a body that is no signal of its case reaches the runner, whose
\* call took the flight out of the table and enters nothing.
Raise == /\ ~Idle
         /\ awaited \in done
         /\ awaited' = NoFlight
         /\ stage' = "ended"
         /\ table' = TableWithout(awaited)
         /\ UNCHANGED <<check, index, edges, entered, next, taken, replays, worker,
                        flying, ending>>

\* An exception of the caller's thread (an interrupt) unwinds the wait.
Interrupt == /\ ~Idle
             /\ awaited' = NoFlight
             /\ stage' = "ended"
             /\ UNCHANGED <<check, index, edges, entered, shared, worker, flying, ending>>

\* close: every case that the runner did not take is told to end.
Close == /\ stage = "ended"
         /\ stage' = "closing"
         /\ cancelled' = cancelled \cup ToCancel
         /\ NotifyAll
         /\ UNCHANGED <<check, index, edges, entered, awaited, shared, flying, done, cut>>

\* The pool is shut down when every thread of it has ended.
Shutdown == /\ stage = "closing"
            /\ \A w \in Workers : worker[w] = "ended"
            /\ stage' = "closed"
            /\ UNCHANGED <<check, index, edges, entered, awaited, shared, worker,
                           flying, ending>>

-----------------------------------------------------------------------------
(* The workers: _claim, and the run of the flight that it returns *)

Become(w, state) == worker' = [worker EXCEPT ![w] = state]

Fly(w, f) == Become(w, "flying") /\ flying' = [flying EXCEPT ![w] = f]

ClaimReplay(w) ==
  /\ worker[w] = "ready" /\ ~Closed
  /\ replays # <<>>
  /\ replays' = Tail(replays)
  /\ Fly(w, Head(replays))
  /\ UNCHANGED <<phases, entered, awaited, table, next, taken, ending>>

\* MUTANT: the worker does not move _next on.
ClaimAheadAgain(w) ==
  /\ worker[w] = "ready" /\ ~Closed
  /\ replays = <<>>
  /\ next < taken + Cardinality(Workers)
  /\ FlightAt(next)
  /\ Fly(w, AheadFlight(next))
  /\ UNCHANGED <<phases, entered, awaited, next, taken, replays>>

ClaimAhead(w) ==
  /\ worker[w] = "ready" /\ ~Closed
  /\ replays = <<>>
  /\ next < taken + Cardinality(Workers)
  /\ FlightAt(next)
  /\ next' = next + 1
  /\ Fly(w, AheadFlight(next))
  /\ UNCHANGED <<phases, entered, awaited, taken, replays>>

Wait(w) ==
  /\ worker[w] = "ready" /\ ~Closed
  /\ replays = <<>>
  /\ next >= taken + Cardinality(Workers)
  /\ Become(w, "asleep")
  /\ UNCHANGED <<phases, entered, awaited, shared, flying, ending>>

Quit(w) ==
  /\ worker[w] = "ready" /\ Closed
  /\ Become(w, "ended")
  /\ UNCHANGED <<phases, entered, awaited, shared, flying, ending>>

\* The body ends, or it ends early at a choice after its cancellation.
EndCase(w) ==
  /\ worker[w] = "flying"
  /\ Become(w, "ready")
  /\ flying' = [flying EXCEPT ![w] = NoFlight]
  /\ done' = done \cup {flying[w]}
  /\ cut' \in {cut, cut \cup ({flying[w]} \cap cancelled)}
  /\ UNCHANGED <<phases, entered, awaited, shared, cancelled>>

-----------------------------------------------------------------------------
Init == /\ stage = "simplest"
        /\ check = 1
        /\ index = 0
        /\ edges = 0
        /\ entered = <<>>
        /\ awaited = NoFlight
        /\ table = {}
        /\ next = 0
        /\ taken = 0
        /\ replays = <<>>
        /\ worker = [w \in Workers |-> "ready"]
        /\ flying = [w \in Workers |-> NoFlight]
        /\ done = {}
        /\ cancelled = {}
        /\ cut = {}

Call == CallSimplest \/ CallPrefix \/ CallRandom \/ CallEdge
Step == NoEdge \/ Leave \/ NextCheck

Runner    == Call \/ Return \/ Step \/ End \/ Close \/ Shutdown
Worker(w) == ClaimReplay(w) \/ ClaimAhead(w) \/ Wait(w) \/ Quit(w) \/ EndCase(w)

\* The run has returned, and the executor is not used again.
Stopped == stage = "closed" /\ UNCHANGED vars

Next == Runner \/ Raise \/ Interrupt \/ (\E w \in Workers : Worker(w)) \/ Stopped

\* The runner goes on when it can, every thread of the pool is scheduled, and
\* the body of every case ends.  Nothing forces an interrupt.
Fairness == WF_vars(Runner) /\ \A w \in Workers : WF_vars(Worker(w))

Spec     == Init /\ [][Next]_vars
FairSpec == Spec /\ Fairness

-----------------------------------------------------------------------------
(* Properties *)

\* The values that the variables hold.
TypeOK ==
  /\ stage \in {"simplest", "random", "prefix", "edge", "left",
                "ended", "closing", "closed"}
  /\ check \in 1 .. Len(Limits)
  /\ index \in Nat
  /\ edges \in 0 .. Boundaries
  /\ entered \in Seq(Case)
  /\ awaited \in Flight \cup {NoFlight}
  /\ table \subseteq Nat
  /\ next \in Nat
  /\ taken \in Nat
  /\ replays \in Seq(Flight)
  /\ worker \in [Workers -> {"ready", "flying", "asleep", "ended"}]
  /\ flying \in [Workers -> Flight \cup {NoFlight}]
  /\ done \subseteq Flight
  /\ cancelled \subseteq Flight
  /\ cut \subseteq Flight

Flies(f) == \E w \in Workers : flying[w] = f

\* The body of a case runs once: no flight is on two workers, and none flies
\* again after its event was set (_claim hands out each flight once).
RunsOnce ==
  \A w \in Workers : flying[w] # NoFlight =>
    /\ flying[w] \notin done
    /\ \A v \in Workers \ {w} : flying[v] # flying[w]

\* No wakeup is lost: while a replayed case is queued some worker is up, while
\* a position may be claimed every worker is up, and so they are after close.
\* replay wakes one worker only, and a worker of _take's notify_all may find
\* that another worker was faster.
NoLostWakeup ==
  /\ replays # <<>> => Asleep # Workers
  /\ next < taken + Cardinality(Workers) \/ Closed => Asleep = {}

\* A call of the runner waits for a flight that some worker has, had or will
\* claim, and that close has not cancelled.
CallIsServed ==
  ~Idle => /\ awaited \notin cancelled \cup cut
           /\ \/ awaited \in done
              \/ Flies(awaited)
              \/ awaited \in {replays[i] : i \in DOMAIN replays}
              \/ awaited.order = "ahead" /\ next <= awaited.position
                                        /\ awaited.position < taken

\* The flights that _flights holds are bounded however long the run is: the
\* lookahead, the case that the runner calls for, and the random cases that the
\* left-over edge cases overtook.
TableBounded == Cardinality(table) <= Cardinality(Workers) + Boundaries + 1

\* After close a worker that still flies a case ahead flies a cancelled one,
\* so that close waits for no body longer than to its next choice.
CloseReachesEveryFlight ==
  Closed => \A w \in Workers : flying[w] \in AheadFlights => flying[w] \in cancelled

-----------------------------------------------------------------------------
(* The inductive invariant *)

Live == stage \notin {"ended", "closing", "closed"}

\* A worker flies a flight exactly while it is out of the lock.
FliesWhileFlying == \A w \in Workers : worker[w] = "flying" <=> flying[w] # NoFlight

\* The flight that the runner waits for is the one that its stage calls for.
AwaitsItsCase ==
  /\ ~Idle =>
       \/ stage = "simplest" /\ awaited = ReplayFlight(SimplestCase)
       \/ stage = "prefix" /\ awaited = ReplayFlight(PrefixCase(index - 1))
       \/ /\ stage = "random" /\ index < Limits[check]
          /\ awaited = AheadFlight(RandomPosition(index))
       \/ /\ stage \in {"edge", "left"} /\ edges < Boundaries
          /\ awaited = AheadFlight(EdgePosition(edges))
  /\ stage = "prefix" => index > 0

\* At most the awaited flight is queued, and it has not started.
QueueOfOne ==
  replays # <<>> =>
    /\ Len(replays) = 1
    /\ replays[1].order = "replay"
    /\ replays[1] \notin done /\ ~Flies(replays[1])
    /\ Live => replays[1] = awaited

\* A replayed case that was queued is one that the runner called for before.
Called(c) ==
  \/ c = SimplestCase /\ (stage # "simplest" \/ ~Idle)
  \/ /\ c.kind = "prefix"
     /\ \/ c.number + 1 < index
        \/ c.number + 1 = index /\ (stage # "prefix" \/ ~Idle)

Started == done \cup {flying[w] : w \in Workers}
Known   == Started \cup {replays[i] : i \in DOMAIN replays}

ReplaysWereCalled == \A f \in Known : f.order = "replay" => Called(f.case)

\* The positions below _next were claimed: each is in the table and flies or
\* has ended, or the runner has taken it.
Taken(p) == \/ \E i \in 0 .. index - 1 : p = RandomPosition(i)
            \/ \E n \in 0 .. edges - 1 : p = EdgePosition(n)

ClaimedBelowNext ==
  /\ \A f \in Started : f.order = "ahead" => f.position < next
  /\ \A w \in Workers : flying[w].order = "ahead" => flying[w].position \in table
  /\ Live => \A p \in 0 .. next - 1 : IF p \in table THEN AheadFlight(p) \in Started
                                                    ELSE Taken(p)

\* Nothing is cancelled before close, and close comes after the last call.
CancelledAtClose == /\ ~Closed => cancelled = {} /\ cut = {}
                    /\ ~Live => Idle

Inductive ==
  /\ TypeOK
  /\ FliesWhileFlying
  /\ AwaitsItsCase
  /\ QueueOfOne
  /\ ReplaysWereCalled
  /\ ClaimedBelowNext
  /\ CancelledAtClose
  /\ RunsOnce
  /\ NoLostWakeup
  /\ CallIsServed
  /\ CloseReachesEveryFlight

-----------------------------------------------------------------------------
(* What the run implements, and that it ends *)

\* The runner sees the cases of a run on one worker, in their order, whatever
\* the workers do: the run implements OneWorker.
Serial == INSTANCE OneWorker
            WITH stage <- IF Closed THEN "ended" ELSE stage

SameCasesAsOneWorker == Serial!Spec

\* Every run ends: each call is answered, and close gets every worker back.
RunEnds == <>(stage = "closed")
=============================================================================
