------------------------------- MODULE Waiting -------------------------------
(***************************************************************************)
(* The assertions that retry, the check for leaks, and the clock that a    *)
(* test advances (_matcher/waiting.py, clock.py).                          *)
(*                                                                         *)
(* One call runs on a clock.  On the platform's clock the time passes in   *)
(* each step of the call; on a controlled clock the call moves it, and     *)
(* another thread may, which also wakes the threads that sleep on it.      *)
(***************************************************************************)
EXTENDS Naturals, FiniteSets, FiniteSetsExt

CONSTANTS MaxTime,     \* the bound of the time
          Timeouts, Pauses,   \* the timeouts and the intervals of the calls
          Advances, Naps,     \* how far a thread moves the clock, and how long one sleeps
          Sleepers,    \* the threads that sleep on the clock
          Works,       \* the threads and the tasks of the process
          Grace        \* LEAK_GRACE

ASSUME WaitAssumption ==
  /\ MaxTime \in Nat /\ Grace \in Nat
  /\ Timeouts \subseteq Nat /\ Pauses \subseteq Nat /\ Advances \subseteq Nat /\ Naps \subseteq Nat

VARIABLES given,        \* [assertion, controlled, timeout, interval, before]
          now,
          stage,       \* what the call does next
          deadline, attempts,
          pause,       \* the wait before the next attempt
          left,        \* how long the wait that was computed is
          trial,       \* how the last attempt ended and when
          judged,
          asleep,      \* for each sleeper: until when, and whether it waits
          alive        \* the works that run

waitVars == <<given, now, stage, deadline, attempts, pause, left, trial, judged, asleep, alive>>

MinWait == 1           \* _MIN_WAIT, the unit of the time
AtLeast(a, b) == IF a < b THEN b ELSE a
AtMost(a, b)  == IF a < b THEN a ELSE b
Cap == AtLeast(given.timeout \div 4, MinWait)

WaitInit ==
  /\ given \in [assertion : {"eventually", "eventually-true", "no-task-leaks"},
               controlled : BOOLEAN, timeout : Timeouts, interval : Pauses, before : SUBSET Works]
  /\ given.assertion = "no-task-leaks" => given.timeout = 0 /\ given.interval = 0 /\ ~given.controlled
  /\ given.assertion # "no-task-leaks" => given.before = {}
  /\ given.assertion = "eventually-true" => given.interval = 0
  /\ now = 0 /\ stage = "start" /\ deadline = 0 /\ attempts = 0 /\ pause = 0 /\ left = 0
  /\ trial = [met |-> FALSE, at |-> 0] /\ judged = "none"
  /\ asleep = [s \in Sleepers |-> [until |-> 0, waits |-> FALSE]]
  /\ alive = given.before

\* How far the time may go while the call makes a step.
Later == {t \in now .. MaxTime : given.controlled => t = now}

\* Controlled.advance: nothing for a duration of 0; it wakes every sleeper.
Advance(by) ==
  /\ now' = now + by
  /\ asleep' = IF by = 0 THEN asleep
               ELSE [s \in Sleepers |-> [asleep[s] EXCEPT !.waits = FALSE]]

\* Another thread advances the clock, and a thread sleeps on it: Controlled.sleep.
AdvanceByOther ==
  /\ given.controlled /\ \E by \in Advances : now + by <= MaxTime /\ Advance(by)
  /\ UNCHANGED <<given, stage, deadline, attempts, pause, left, trial, judged, alive>>

Sleep(s) ==
  /\ given.controlled /\ asleep[s].until = 0
  /\ \E duration \in Naps :
       asleep' = [asleep EXCEPT ![s] = [until |-> now + duration, waits |-> duration > 0]]
  /\ UNCHANGED <<given, now, stage, deadline, attempts, pause, left, trial, judged, alive>>

\* A sleeper that was woken waits again while its time has not come.
Recheck(s) ==
  /\ ~asleep[s].waits /\ now < asleep[s].until
  /\ asleep' = [asleep EXCEPT ![s].waits = TRUE]
  /\ UNCHANGED <<given, now, stage, deadline, attempts, pause, left, trial, judged, alive>>

\* The call reads the clock and sets its deadline.
BeginWait ==
  /\ stage = "start" /\ given.assertion # "no-task-leaks" /\ now + given.timeout < MaxTime
  /\ deadline' = now + given.timeout
  /\ pause' = IF given.assertion = "eventually" THEN AtLeast(given.interval, MinWait) ELSE MinWait
  /\ stage' = "attempt"
  /\ UNCHANGED <<given, now, attempts, left, trial, judged, asleep, alive>>

\* The body runs on a seat of its own, or the predicate does.
Attempt ==
  /\ stage = "attempt"
  /\ attempts' = attempts + 1
  /\ \E t \in Later, met \in BOOLEAN :
       /\ now' = t /\ trial' = [met |-> met, at |-> t]
  /\ stage' = "judge"
  /\ UNCHANGED <<given, deadline, pause, left, judged, asleep, alive>>

\* A fault of the body, or of the loop that it runs on, ends the call at any attempt.
Refuse ==
  /\ stage = "attempt"
  /\ attempts' = attempts + 1 /\ now' \in Later /\ judged' = "fault" /\ stage' = "done"
  /\ UNCHANGED <<given, deadline, pause, left, trial, asleep, alive>>

\* MUTANT: an attempt that ends after the deadline passes too.
PassesLate == trial.met

\* The attempt passes unless the clock is after the deadline, which is read after it.
Passes == trial.met /\ ~(now > deadline)

\* The verdict, or the wait that is left: _wait_within up to its wait.
JudgeAttempt ==
  /\ stage = "judge"
  /\ \E t \in Later :
       /\ now' = t
       /\ IF Passes
          THEN judged' = "pass" /\ stage' = "done" /\ UNCHANGED left
          ELSE IF t < deadline
          THEN stage' = "wait" /\ left' = AtMost(pause, deadline - t) /\ UNCHANGED judged
          ELSE judged' = "fail" /\ stage' = "done" /\ UNCHANGED left
  /\ UNCHANGED <<given, deadline, attempts, pause, trial, asleep, alive>>

\* wait, and the rest of _wait_within: the call gives up when the clock passed the
\* deadline.  A predicate waits twice as long the next time, up to the cap.
Wait ==
  /\ stage = "wait"
  /\ IF given.controlled THEN Advance(left)
     ELSE now' \in {t \in Later : t >= now + left} /\ UNCHANGED asleep
  /\ IF now' > deadline
     THEN stage' = "done" /\ judged' = "fail" /\ UNCHANGED pause
     ELSE /\ stage' = "attempt" /\ UNCHANGED judged
          /\ pause' = IF given.assertion = "eventually" THEN pause ELSE AtMost(2 * pause, Cap)
  /\ UNCHANGED <<given, deadline, attempts, left, trial, alive>>

\* The scope of no_task_leaks ends: the first scan, and those until the grace is over.
Check ==
  /\ given.assertion = "no-task-leaks" /\ stage = "start"
  /\ deadline' = now + Grace /\ stage' = "scan"
  /\ UNCHANGED <<given, now, attempts, pause, left, trial, judged, asleep, alive>>

\* _running() - before: whether a work runs that did not run before the scope.
Scan ==
  /\ stage = "scan"
  /\ trial' = [met |-> alive \subseteq given.before, at |-> now]
  /\ stage' = "weigh"
  /\ UNCHANGED <<given, now, deadline, attempts, pause, left, judged, asleep, alive>>

\* MUTANT: the check gives up at its first scan.
GivesUpAtOnce(t) == ~trial.met

\* The scan found a work, and the clock that is read after it is past the grace.
GivesUp(t) == ~trial.met /\ t >= deadline

\* The check judges what the scan found, or sleeps until the next one.
Weigh ==
  /\ stage = "weigh"
  /\ \E t \in Later :
       /\ now' = t
       /\ stage' = IF trial.met \/ GivesUp(t) THEN "done" ELSE "scan"
       /\ judged' = IF trial.met THEN "pass" ELSE IF GivesUp(t) THEN "fail" ELSE judged
  /\ UNCHANGED <<given, deadline, attempts, pause, left, trial, asleep, alive>>

\* A thread or a task of the process starts or ends, also in the grace.
StartWork == /\ given.assertion = "no-task-leaks" /\ stage # "done"
             /\ \E w \in Works \ alive : alive' = alive \cup {w}
             /\ UNCHANGED <<given, now, stage, deadline, attempts, pause, left, trial, judged, asleep>>
EndWork   == /\ \E w \in alive : alive' = alive \ {w}
             /\ UNCHANGED <<given, now, stage, deadline, attempts, pause, left, trial, judged, asleep>>

WaitNext ==
  \/ AdvanceByOther \/ BeginWait \/ Attempt \/ Refuse \/ JudgeAttempt \/ Wait
  \/ Check \/ Scan \/ Weigh \/ StartWork \/ EndWork
  \/ \E s \in Sleepers : Sleep(s) \/ Recheck(s)

WaitSpec == WaitInit /\ [][WaitNext]_waitVars

-----------------------------------------------------------------------------
(* Properties *)

Retries == given.assertion # "no-task-leaks"

\* A retrying call passes on an attempt that ended in time, and gives up only once the
\* deadline has come: a wait never ends its time early and never skips it.
VerdictIsInTime ==
  /\ judged = "pass" => trial.met /\ (Retries => trial.at <= deadline /\ attempts >= 1)
  /\ judged = "fail" => now >= deadline
  /\ judged = "fail" /\ Retries => attempts >= 1 /\ (trial.met => now > deadline)
  /\ stage = "wait" => left >= 1 /\ (given.controlled \/ now + left <= deadline)

\* A scope passes when its last scan found no work that did not run before it; it fails
\* when that scan found one.  With VerdictIsInTime, it fails only once the grace is over.
LeaksAreReal ==
  ~Retries => /\ judged = "fail" => ~trial.met
              /\ judged = "pass" => trial.met

\* A thread that sleeps past its time has been woken.
SleepersWake == \A s \in Sleepers : asleep[s].waits => now < asleep[s].until

\* Calls that wait judge in time.
WaitsEndInTime == VerdictIsInTime /\ LeaksAreReal /\ SleepersWake
=============================================================================
