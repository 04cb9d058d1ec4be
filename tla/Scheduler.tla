------------------------------ MODULE Scheduler ------------------------------
(***************************************************************************)
(* The task scheduler of a concurrent section: an event loop whose         *)
(* releases of tasks are choices of a case (_stateful/scheduler.py).       *)
(*                                                                         *)
(* One thread runs everything, so a step is what happens between two       *)
(* points at which control changes hands.  control says who has it: the    *)
(* test between two runs, the loop at one of its points, the task of the   *)
(* release, or the finally blocks of a task that a failed run closes.  The *)
(* test, a task and a finally block use the loop through the same          *)
(* operations.  Futures are those of asyncio.                              *)
(***************************************************************************)
EXTENDS Integers, Sequences, FiniteSets, Functions, SequencesExt

CONSTANTS
  Tasks,          \* the tasks that can be spawned
  Futures,        \* the futures of the loop
  Depth,          \* the depth of PCT, and 0 for the uniform strategy
  Priorities,     \* the priorities that a case chooses under PCT
  Counts,         \* the counts of releases that a case chooses for change points
  Delays,         \* the delays of the timers of a task and of the test
  LateDelays,     \* the delays of the timers that a callback schedules
  Finally,        \* what finally blocks may do: "acts" on the loop, "raises"
  Outlive,        \* TRUE: a future may be done after the run that waited for it
  Budget,         \* bound: the operations on the loop
  Releases,       \* bound: a task yields or waits in this many releases of a run
  Runs            \* bound: the runs of the scheduler

\* No task, or no future, where there may be one.
Nobody == "nobody"

ASSUME SchedulerAssumption ==
  /\ Depth \in Nat /\ Budget \in Nat /\ Releases \in Nat /\ Runs \in Nat
  /\ Priorities \subseteq Nat /\ Counts \subseteq Nat
  /\ Delays \subseteq Int /\ LateDelays \subseteq Int
  /\ Finally \subseteq {"acts", "raises"} /\ Outlive \in BOOLEAN
  /\ Nobody \notin Tasks

VARIABLES
  control,    \* who has control
  current,    \* the task that has it, for control "task" and "finally"
  task,       \* the state, priority and level of each task
  tasks,      \* _tasks
  ready,      \* _ready
  callbacks,  \* _callbacks
  batch,      \* the callbacks that the pass has left to call
  timers,     \* _timers, whose heap pops them in their order
  future,     \* each future with the tasks that wait for it
  now,        \* _now
  lowest,     \* _lowest
  points,     \* the change points of the run
  release,    \* the releases of the run so far
  closing,    \* the tasks that _drop has left to look at
  error,      \* what ended the last run, or none
  spent,      \* the operations so far; it orders the timers
  runs        \* the runs so far

lists == <<tasks, ready, callbacks, timers>>
clock == <<now, lowest, points, release, runs>>
vars  == <<control, current, task, lists, batch, future, clock, closing, error, spent>>

-----------------------------------------------------------------------------
\* What the user may schedule: a call that makes a future done, one that raises,
\* and one that schedules a timer for that.
UserCalls == [do : {"set"}, of : Futures, delay : {0}]
             \cup {[do |-> "raise", of |-> Nobody, delay |-> 0]}
             \cup [do : {"later"}, of : Futures, delay : LateDelays]

\* An entry of _callbacks or _timers.  from is who scheduled it.
Entry(call, when, from) ==
  [call |-> call, when |-> when, order |-> spent, from |-> from, cancelled |-> FALSE]

NoTime  == -100
Soon(call, from) == Entry(call, NoTime, from)
Wake(t) == [do |-> "wake", of |-> t, delay |-> 0]

\* The done callbacks of a future, which asyncio schedules in their order.
Wakes(f, from) == [i \in DOMAIN future[f].waiters |-> Soon(Wake(future[f].waiters[i]), from)]

Done(f) == [future EXCEPT ![f] = [done |-> TRUE, waiters |-> <<>>]]

IsOpen(t)    == task[t].state \in {"new", "suspended"}
Open(t)      == task[t].state = "suspended"
Uncancelled  == {e \in timers : ~e.cancelled}

\* MUTANT: a timer is due only once its time has passed.
DueOnceItsTimeHasPassed(entry) == entry.when < now

IsDue(entry) == entry.when <= now

\* MUTANT: timers of one time are called from the last scheduled on.
EarlierLastScheduledFirst(a, b) == a.when < b.when \/ (a.when = b.when /\ a.order > b.order)

Earlier(a, b) == a.when < b.when \/ (a.when = b.when /\ a.order < b.order)

-----------------------------------------------------------------------------
(* The operations of whoever uses the loop *)

User == control \in {"test", "task"} \/ (control = "finally" /\ "acts" \in Finally)

Operates == /\ User /\ spent < Budget /\ spent' = spent + 1
            /\ UNCHANGED <<control, current, batch, clock, closing, error>>

Spawn(t, p) ==
  /\ Operates
  /\ task[t].state = "unspawned"
  /\ task' = [task EXCEPT ![t] = [state |-> "new", priority |-> p, level |-> 0]]
  /\ tasks' = Append(tasks, t)
  /\ ready' = Append(ready, t)
  /\ UNCHANGED <<callbacks, timers, future>>

SetResult(f) ==
  /\ Operates
  /\ ~future[f].done
  /\ future' = Done(f)
  /\ callbacks' = callbacks \o Wakes(f, control)
  /\ UNCHANGED <<task, tasks, ready, timers>>

CallSoon(call) ==
  /\ Operates
  /\ callbacks' = Append(callbacks, Soon(call, control))
  /\ UNCHANGED <<task, tasks, ready, timers, future>>

CallAt(delay, call) ==
  /\ Operates
  /\ timers' = timers \cup {Entry(call, now + delay, control)}
  /\ UNCHANGED <<task, tasks, ready, callbacks, future>>

\* The handle of a timer or a callback that its caller holds.
CancelTimer(e) ==
  /\ Operates
  /\ ~e.cancelled
  /\ timers' = (timers \ {e}) \cup {[e EXCEPT !.cancelled = TRUE]}
  /\ UNCHANGED <<task, tasks, ready, callbacks, future>>

CancelCallback(i) ==
  /\ Operates
  /\ ~callbacks[i].cancelled /\ callbacks[i].call.do # "wake"
  /\ callbacks' = [callbacks EXCEPT ![i].cancelled = TRUE]
  /\ UNCHANGED <<task, tasks, ready, timers, future>>

Operation ==
  \/ \E t \in Tasks, p \in Priorities : Spawn(t, p)
  \/ \E f \in Futures : SetResult(f)
  \/ \E c \in UserCalls : CallSoon(c)
  \/ \E d \in Delays, c \in UserCalls : CallAt(d, c)
  \/ \E e \in timers : CancelTimer(e)
  \/ \E i \in DOMAIN callbacks : CancelCallback(i)

-----------------------------------------------------------------------------
(* run and _settle *)

\* The run begins with its change points.
Run(ps) ==
  /\ control = "test" /\ runs < Runs
  /\ control' = "loop"
  /\ points' = ps /\ release' = 0 /\ runs' = runs + 1
  /\ error' = "none"
  /\ UNCHANGED <<current, task, lists, batch, future, now, lowest, closing, spent>>

Return ==
  /\ control = "loop" /\ tasks = <<>>
  /\ control' = "test"
  /\ UNCHANGED <<current, task, lists, batch, future, clock, closing, error, spent>>

\* The entries of a set in the order of their times.
Ordered(due) == {q \in [1 .. Cardinality(due) -> due] :
                   \A j \in DOMAIN q : \A i \in 1 .. j - 1 : Earlier(q[i], q[j])}

\* A pass of _settle queues the timers that are due, and calls what is queued now.
Pass ==
  /\ \/ control = "loop" /\ tasks # <<>>
     \/ control = "settle"
  /\ LET due == {e \in timers : IsDue(e)}
     IN  /\ \E q \in Ordered(due) : callbacks' = callbacks \o q
         /\ timers' = timers \ due
  /\ batch' = Len(callbacks')
  /\ control' = "calls"
  /\ UNCHANGED <<current, task, tasks, ready, future, clock, closing, error, spent>>

\* The next entry of the pass, and what is left once it is called or skipped.
Takes(entry) == /\ control = "calls" /\ batch > 0
                /\ entry = Head(callbacks)
                /\ batch' = batch - 1
                /\ UNCHANGED <<current, task, tasks, clock, closing>>

Skip == \E entry \in ToSet(callbacks) :
  /\ Takes(entry)
  /\ \/ entry.cancelled
     \/ entry.call.do = "set" /\ future[entry.call.of].done
  /\ callbacks' = Tail(callbacks)
  /\ UNCHANGED <<control, ready, timers, future, error, spent>>

CallWake == \E entry \in ToSet(callbacks) :
  /\ Takes(entry) /\ entry.call.do = "wake"
  /\ callbacks' = Tail(callbacks)
  /\ ready' = Append(ready, entry.call.of)
  /\ UNCHANGED <<control, timers, future, error, spent>>

CallSet == \E entry \in ToSet(callbacks) :
  /\ Takes(entry) /\ ~entry.cancelled /\ entry.call.do = "set"
  /\ ~future[entry.call.of].done
  /\ future' = Done(entry.call.of)
  /\ callbacks' = Tail(callbacks) \o Wakes(entry.call.of, control)
  /\ UNCHANGED <<control, ready, timers, error, spent>>

CallLater == \E entry \in ToSet(callbacks) :
  /\ Takes(entry) /\ ~entry.cancelled /\ entry.call.do = "later"
  /\ callbacks' = Tail(callbacks)
  /\ timers' = timers \cup {Entry([do |-> "set", of |-> entry.call.of, delay |-> 0],
                                  now + entry.call.delay, control)}
  /\ spent' = spent + 1
  /\ UNCHANGED <<control, ready, future, error>>

CallRaises == \E entry \in ToSet(callbacks) :
  /\ Takes(entry) /\ ~entry.cancelled /\ entry.call.do = "raise"
  /\ callbacks' = Tail(callbacks)
  /\ error' = "raised" /\ control' = "drop"
  /\ UNCHANGED <<ready, timers, future, spent>>

Calls == Skip \/ CallWake \/ CallSet \/ CallLater \/ CallRaises

\* MUTANT: the loop releases as soon as a task is ready.
SettledOnceReady ==
  /\ control = "calls" /\ ready # <<>>
  /\ control' = "release"
  /\ UNCHANGED <<current, task, lists, batch, future, clock, closing, error, spent>>

Settled ==
  /\ control = "calls" /\ batch = 0 /\ ready # <<>>
  /\ control' = "release"
  /\ UNCHANGED <<current, task, lists, batch, future, clock, closing, error, spent>>

Again ==
  /\ control = "calls" /\ batch = 0 /\ ready = <<>> /\ callbacks # <<>>
  /\ control' = "settle"
  /\ UNCHANGED <<current, task, lists, batch, future, clock, closing, error, spent>>

\* MUTANT: what the callbacks of the pass scheduled is not waited for.
IdleAfterThePass == control = "calls" /\ batch = 0 /\ ready = <<>>

\* Nothing is left to do at this time.
Idle == control = "calls" /\ batch = 0 /\ ready = <<>> /\ callbacks = <<>>

\* MUTANT: the clock also stops at a timer that its caller cancelled.
AdvanceToAnyTimer ==
  /\ Idle
  /\ \E e \in timers :
       /\ \A d \in timers \ {e} : Earlier(e, d)
       /\ now' = e.when
       /\ UNCHANGED timers
  /\ control' = "settle"
  /\ UNCHANGED <<current, task, tasks, ready, callbacks, batch, future, lowest, points,
                 release, runs, closing, error, spent>>

\* _advance.  Cancelled timers before the next timer are popped on the way.
Advance ==
  /\ Idle
  /\ \E e \in Uncancelled :
       /\ \A d \in Uncancelled \ {e} : Earlier(e, d)
       /\ now' = e.when
       /\ timers' = timers \ {d \in timers : d.cancelled /\ Earlier(d, e)}
  /\ control' = "settle"
  /\ UNCHANGED <<current, task, tasks, ready, callbacks, batch, future, lowest, points,
                 release, runs, closing, error, spent>>

Deadlock ==
  /\ Idle /\ Uncancelled = {}
  /\ timers' = {}
  /\ error' = "deadlock" /\ control' = "drop"
  /\ UNCHANGED <<current, task, tasks, ready, callbacks, batch, future, clock, closing, spent>>

-----------------------------------------------------------------------------
(* A release, and the task that runs *)

\* Under PCT the first of the highest tasks, and any task otherwise (_next).
Below(t, u) == \/ task[t].level < task[u].level
               \/ task[t].level = task[u].level /\ task[t].priority < task[u].priority

Releasable(i) ==
  Depth > 0 => /\ \A j \in DOMAIN ready : ~Below(ready[i], ready[j])
               /\ \A j \in 1 .. i - 1 : Below(ready[j], ready[i])

\* MUTANT: every change point lowers its task to the same level.
LoweredToOneLevel(n) == IF n = 0 THEN 0 ELSE -1

\* The level below every level before, once for each change point at the release.
Lowered(n) == lowest - n

Release(i) ==
  LET t == ready[i]
      n == Cardinality({k \in DOMAIN points : points[k] = release})
  IN  /\ control = "release" /\ Releasable(i)
      /\ lowest' = Lowered(n)
      /\ task' = [task EXCEPT ![t].level = IF n > 0 THEN Lowered(n) ELSE @,
                              ![t].state = IF @ = "new" THEN "suspended" ELSE @]
      /\ ready' = RemoveAt(ready, i)
      /\ current' = t
      /\ release' = release + 1
      /\ control' = IF IsOpen(t) THEN "task" ELSE "drop"
      /\ error' = IF IsOpen(t) THEN error ELSE "reused"
      /\ UNCHANGED <<tasks, callbacks, timers, batch, future, now, points, runs, closing, spent>>

\* A choice of the case ends the case: it overran its cap, repeats or diverges.
ChoiceStops ==
  /\ control = "release" /\ Depth = 0
  /\ error' = "stopped" /\ control' = "drop"
  /\ UNCHANGED <<current, task, lists, batch, future, clock, closing, spent>>

Yield ==
  /\ control = "task" /\ release < Releases
  /\ ready' = Append(ready, current)
  /\ control' = "loop" /\ current' = Nobody
  /\ UNCHANGED <<task, tasks, callbacks, timers, batch, future, clock, closing, error, spent>>

\* MUTANT: a task waits for a future that is done already.
AwaitEvenIfDone(f) ==
  /\ control = "task" /\ release < Releases
  /\ future' = [future EXCEPT ![f].waiters = Append(@, current)]
  /\ control' = "loop" /\ current' = Nobody
  /\ UNCHANGED <<task, lists, batch, clock, closing, error, spent>>

\* The await of a future that is not done.
Await(f) ==
  /\ control = "task" /\ release < Releases
  /\ ~future[f].done
  /\ future' = [future EXCEPT ![f].waiters = Append(@, current)]
  /\ control' = "loop" /\ current' = Nobody
  /\ UNCHANGED <<task, lists, batch, clock, closing, error, spent>>

\* The coroutine returned or ended with CancelledError.
End ==
  /\ control = "task"
  /\ task' = [task EXCEPT ![current].state = "ended"]
  /\ \E i \in DOMAIN tasks : tasks[i] = current /\ tasks' = RemoveAt(tasks, i)
  /\ control' = "loop" /\ current' = Nobody
  /\ UNCHANGED <<ready, callbacks, timers, batch, future, clock, closing, error, spent>>

Raise ==
  /\ control = "task"
  /\ task' = [task EXCEPT ![current].state = "ended"]
  /\ error' = "raised" /\ control' = "drop" /\ current' = Nobody
  /\ UNCHANGED <<lists, batch, future, clock, closing, spent>>

\* The task yielded what is no future of this loop.
Misuse ==
  /\ control = "task"
  /\ error' = "misused" /\ control' = "drop" /\ current' = Nobody
  /\ UNCHANGED <<task, lists, batch, future, clock, closing, spent>>

-----------------------------------------------------------------------------
(* _drop *)

\* MUTANT: only the coroutines of the ready tasks are closed.
ToCloseIfReady == ready

\* The tasks whose coroutines are closed, in the order of their spawns.
ToClose == tasks

Drop ==
  /\ control = "drop"
  /\ closing' = ToClose
  /\ task' = [t \in Tasks |-> IF task[t].state = "new" /\ t \in ToSet(tasks)
                                THEN [task[t] EXCEPT !.state = "closed"] ELSE task[t]]
  /\ tasks' = <<>> /\ ready' = <<>> /\ callbacks' = <<>> /\ timers' = {}
  /\ batch' = 0 /\ control' = "close" /\ current' = Nobody
  /\ UNCHANGED <<future, clock, error, spent>>

\* The GeneratorExit in a coroutine runs its finally blocks.  Nothing runs in one that
\* did not start or has ended.
Close ==
  /\ control = "close" /\ closing # <<>>
  /\ closing' = Tail(closing)
  /\ IF Open(Head(closing)) THEN current' = Head(closing) /\ control' = "finally"
                            ELSE UNCHANGED <<current, control>>
  /\ UNCHANGED <<task, lists, batch, future, clock, error, spent>>

Closed ==
  /\ control = "finally"
  /\ task' = [task EXCEPT ![current].state = "closed"]
  /\ control' = "close" /\ current' = Nobody
  /\ UNCHANGED <<lists, batch, future, clock, closing, error, spent>>

\* What the test can still do with the futures of a run that was dropped.
Abandon == future' = IF Outlive THEN future
                     ELSE [f \in Futures |-> IF future[f].waiters = <<>> THEN future[f]
                                             ELSE [done |-> TRUE, waiters |-> <<>>]]

FinallyRaises ==
  /\ control = "finally" /\ "raises" \in Finally
  /\ task' = [task EXCEPT ![current].state = "closed"]
  /\ error' = "finally" /\ closing' = <<>>
  /\ control' = "test" /\ current' = Nobody
  /\ Abandon
  /\ UNCHANGED <<lists, batch, clock, spent>>

Dropped ==
  /\ control = "close" /\ closing = <<>>
  /\ control' = "test"
  /\ Abandon
  /\ UNCHANGED <<current, task, lists, batch, clock, closing, error, spent>>

-----------------------------------------------------------------------------
Init ==
  /\ control = "test" /\ current = Nobody
  /\ task = [t \in Tasks |-> [state |-> "unspawned", priority |-> 0, level |-> 0]]
  /\ tasks = <<>> /\ ready = <<>> /\ callbacks = <<>> /\ timers = {}
  /\ batch = 0 /\ closing = <<>> /\ points = <<>>
  /\ future = [f \in Futures |-> [done |-> FALSE, waiters |-> <<>>]]
  /\ now = 0 /\ lowest = 0 /\ release = 0 /\ spent = 0 /\ runs = 0
  /\ error = "none"

\* What goes on inside a run.
Step ==
  \/ Return \/ Pass \/ Calls \/ Settled \/ Again \/ Advance \/ Deadlock
  \/ \E i \in DOMAIN ready : Release(i)
  \/ ChoiceStops
  \/ Yield \/ End \/ Raise \/ Misuse
  \/ \E f \in Futures : Await(f)
  \/ Drop \/ Close \/ Closed \/ FinallyRaises \/ Dropped

ChangePoints == UNION {[1 .. n -> Counts] : n \in 0 .. (IF Depth > 0 THEN Depth - 1 ELSE 0)}

Next == Step \/ Operation \/ \E ps \in ChangePoints : Run(ps)

\* A run goes on while its thread does.
Spec == Init /\ [][Next]_vars /\ WF_vars(Step)

-----------------------------------------------------------------------------
(* Properties *)

Entries == [call : {Wake(t) : t \in Tasks} \cup UserCalls, when : Int, order : Nat,
            from : {"test", "task", "calls", "finally"}, cancelled : BOOLEAN]

\* The variables have their types.
TypeOK ==
  /\ control \in {"test", "loop", "settle", "calls", "release", "task", "drop", "close", "finally"}
  /\ current \in Tasks \cup {Nobody}
  /\ task \in [Tasks -> [state : {"unspawned", "new", "suspended", "ended", "closed"},
                         priority : Nat, level : Int]]
  /\ tasks \in Seq(Tasks) /\ ready \in Seq(Tasks) /\ closing \in Seq(Tasks)
  /\ callbacks \in Seq(Entries) /\ batch \in 0 .. Len(callbacks)
  /\ timers \subseteq Entries
  /\ future \in [Futures -> [done : BOOLEAN, waiters : Seq(Tasks)]]
  /\ now \in Int /\ lowest \in Int /\ release \in Nat /\ spent \in Nat
  /\ points \in Seq(Nat)

Places(t) ==
  {<<"ready", i>> : i \in {j \in DOMAIN ready : ready[j] = t}}
  \cup {<<"woken", i>> : i \in {j \in DOMAIN callbacks : callbacks[j].call = Wake(t)}}
  \cup UNION {{<<"waits", f, i>> : i \in {j \in DOMAIN future[f].waiters :
                                            future[f].waiters[j] = t}} :
               f \in {g \in Futures : ~future[g].done}}

InRun == control \in {"loop", "settle", "calls", "release", "task"}

\* A task that has not ended is in one place while a run goes on: ready, about to
\* be woken, or waiting for a future.  No wake is lost and none comes twice, and
\* no task is anywhere that has ended.
EveryTaskIsInOnePlace ==
  InRun => \A t \in Tasks :
             Cardinality(Places(t)) = IF t \in ToSet(tasks) /\ t # current THEN 1 ELSE 0

\* The loop gives up only when no task could go on: each waits for a future
\* that nothing scheduled will make done.
DeadlockIsReal ==
  error' = "deadlock" /\ error # "deadlock" =>
    \A t \in ToSet(tasks) :
      \E f \in Futures : ~future[f].done /\ t \in ToSet(future[f].waiters)

\* Every call that a task or the test scheduled is made before the next release,
\* and what is due by then was scheduled by one of these calls.
CalledBeforeTheRelease ==
  control = "release" =>
    /\ \A i \in DOMAIN callbacks : callbacks[i].from = "calls"
    /\ \A e \in timers : IsDue(e) => e.from = "calls"

\* The calls of timers are queued in the order of their times, and of two of one
\* time the one scheduled first is first; and none is queued before its time.
TimersAreInOrder ==
  \A j \in DOMAIN callbacks :
    callbacks[j].when # NoTime =>
      /\ callbacks[j].when <= now
      /\ \A i \in 1 .. j - 1 :
           callbacks[i].when # NoTime =>
             ~ (callbacks[j].order < callbacks[i].order /\ callbacks[j].when <= callbacks[i].when)

\* The clock moves only when nothing is left to do, only on, and only to a timer
\* that somebody still wants; it passes no other.
ClockWaits ==
  now' # now =>
    /\ ready = <<>> /\ callbacks = <<>> /\ now' > now
    /\ \E e \in Uncancelled : e.when = now'
    /\ \A e \in Uncancelled : e.when >= now'

\* A pass without a ready task ends in one of two ways, and the loop tells them apart
\* with cancelled timers still in its heap: nothing will ever wake a task, or the
\* clock moves to what wakes one (scheduler.py, _settle and _advance).
IdleLoopsAreToldApart == [][DeadlockIsReal /\ ClockWaits]_vars

\* The task of a change point falls below every other task, also those that an
\* earlier change point lowered and those that are spawned later.
LoweredBelowEveryTask ==
  [][ \A t \in Tasks : task'[t].level # task[t].level =>
        \A u \in Tasks \ {t} : task'[t].level < task'[u].level ]_vars

\* No coroutine stays open after the run that it was a task of.
NoCoroutineIsLeftOpen ==
  control = "test" => \A t \in Tasks : Open(t) => t \in ToSet(tasks)

\* Nothing that the loop keeps is lost, doubled or early: each task has its one place,
\* every call is made before the release, timers call in their order, and no coroutine
\* outlives its run.  The loop holds these in five lists, which a callback, a release
\* and a drop change in the middle of a pass (scheduler.py, _settle to _drop).
NothingIsLostOrEarly ==
  /\ EveryTaskIsInOnePlace
  /\ CalledBeforeTheRelease
  /\ TimersAreInOrder
  /\ NoCoroutineIsLeftOpen

\* A run that failed leaves the scheduler without a task, a callback or a timer.
NothingIsLeftAfterADrop ==
  [][ control # "test" /\ control' = "test" /\ error' # "none" =>
        tasks' = <<>> /\ ready' = <<>> /\ callbacks' = <<>> /\ timers' = {} ]_vars

\* Every run ends.
RunEnds == (control # "test") ~> (control = "test")
=============================================================================
