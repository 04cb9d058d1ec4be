-------------------------------- MODULE Pool ---------------------------------
(***************************************************************************)
(* The threads of a check that a history is linearizable                   *)
(* (_history/linearizable.py).  With more than one worker the searches of  *)
(* the partitions run on a pool, in their order, while the check waits for *)
(* their endings in the same order; it stops those that it does not need   *)
(* and waits for them.  With one worker the check runs each search itself  *)
(* when it asks for its ending.                                            *)
(*                                                                         *)
(* A search is what it comes to and the readings of the clock that it      *)
(* makes before it: Search has its steps.                                  *)
(***************************************************************************)
EXTENDS Integers, FiniteSets, Sequences

CONSTANTS Checks,     \* the searches of a check, one per partition
          MaxWorkers

Decisive == {"violated", "raised"}
UndecidedEndings == {"steps", "memo", "time"}

Searching == [ending : {"passed", "steps", "memo"} \cup Decisive, reads : Nat]

ASSUME ChecksAreSearches == Checks \subseteq Seq(Searching)

VARIABLES
  searches, workers, timed,
  futures,       \* where each search is, what it read and what it came to
  submitted,
  phase,         \* where the thread of the check is
  given,         \* the endings that the check has
  firstUndecided,
  report,
  stopped,       \* the event of the deadline
  isLate         \* whether the time of the check has passed

poolVars == <<searches, workers, timed, futures, submitted, phase, given, firstUndecided,
              report, stopped, isLate>>

\* _endings runs the searches of one worker, and that of one partition, in the check.
RunsInTheCheck == workers = 1 \/ Len(searches) < 2

Threads == IF workers < Len(searches) THEN workers ELSE Len(searches)

NoReport == [outcome |-> "none", partition |-> 0]

Waiting == [is |-> "idle", reads |-> 0, ending |-> "none"]

Becomes(f, is) == [is |-> is, reads |-> f.reads, ending |-> f.ending]
EndsWith(f, ending) == [is |-> "ended", reads |-> f.reads, ending |-> ending]

PoolInit ==
  /\ searches \in Checks /\ workers \in 1 .. MaxWorkers /\ timed \in BOOLEAN
  /\ futures = [i \in DOMAIN searches |-> Waiting]
  /\ submitted = 0
  /\ phase = IF RunsInTheCheck THEN "loop" ELSE "submit"
  /\ given = <<>> /\ firstUndecided = 0 /\ report = NoReport
  /\ stopped = FALSE /\ isLate = FALSE

Running == {i \in DOMAIN futures : futures[i].is = "running"}
Queued  == {i \in DOMAIN futures : futures[i].is = "queued"}

\* The partition whose ending the check asks for.
Asked == Len(given) + 1

-----------------------------------------------------------------------------
(* The searches *)

Submit ==
  /\ phase = "submit"
  /\ submitted' = submitted + 1
  /\ futures' = [futures EXCEPT ![submitted + 1] = Becomes(futures[submitted + 1], "queued")]
  /\ phase' = IF submitted' = Len(searches) THEN "loop" ELSE "submit"
  /\ UNCHANGED <<searches, workers, timed, given, firstUndecided, report, stopped, isLate>>

\* A thread takes the first search of the queue; the check runs the one that it asks for.
Begin(i) ==
  /\ \/ i \in Queued /\ (\A j \in Queued : i <= j) /\ Cardinality(Running) < Threads
     \/ RunsInTheCheck /\ phase = "loop" /\ i = Asked /\ futures[i].is = "idle"
  /\ futures' = [futures EXCEPT ![i] = Becomes(futures[i], "running")]
  /\ UNCHANGED <<searches, workers, timed, submitted, phase, given, firstUndecided, report,
                 stopped, isLate>>

\* Deadline.passed
Passed == stopped \/ isLate

\* A search reads the clock before its next steps, and ends with them or with the time.
Advance(i) ==
  /\ i \in Running
  /\ futures' =
       [futures EXCEPT ![i] =
          IF futures[i].reads = searches[i].reads THEN EndsWith(futures[i], searches[i].ending)
          ELSE IF Passed THEN EndsWith(futures[i], "time")
          ELSE [is |-> "running", reads |-> futures[i].reads + 1, ending |-> futures[i].ending]]
  /\ UNCHANGED <<searches, workers, timed, submitted, phase, given, firstUndecided, report,
                 stopped, isLate>>

TimePasses ==
  /\ timed /\ ~isLate /\ isLate' = TRUE
  /\ UNCHANGED <<searches, workers, timed, futures, submitted, phase, given, firstUndecided,
                 report, stopped>>

-----------------------------------------------------------------------------
(* The check *)

\* MUTANT: the check takes an ending that is there instead of the next one.
TakesAnyEnding ==
  CHOOSE i \in Asked .. Len(searches) :
    futures[i].is = "ended" \/ \A j \in Asked .. Len(searches) : futures[j].is # "ended"

Takes == Asked

\* The loop has the ending of the partition that it asks for.
Take ==
  LET i == Takes
      ending == futures[i].ending
  IN /\ phase = "loop" /\ Asked <= Len(searches) /\ futures[i].is = "ended"
     /\ given' = Append(given, ending)
     /\ IF ending \in Decisive
        THEN /\ report' = [outcome |-> ending, partition |-> i]
             /\ phase' = "leave"
             /\ UNCHANGED firstUndecided
        ELSE /\ firstUndecided' = IF ending \in UndecidedEndings /\ firstUndecided = 0 THEN i
                                  ELSE firstUndecided
             /\ UNCHANGED <<report, phase>>
     /\ UNCHANGED <<searches, workers, timed, futures, submitted, stopped, isLate>>

Conclude ==
  /\ phase = "loop" /\ Asked > Len(searches)
  /\ report' = [outcome |-> IF firstUndecided = 0 THEN "passed" ELSE "undecided",
                partition |-> firstUndecided]
  /\ phase' = "leave"
  /\ UNCHANGED <<searches, workers, timed, futures, submitted, given, firstUndecided, stopped,
                 isLate>>

\* The user interrupts the check: a search in its thread unwinds with it.
Interrupt ==
  /\ phase = "loop"
  /\ report' = [outcome |-> "interrupted", partition |-> 0]
  /\ futures' = IF RunsInTheCheck
                THEN [i \in DOMAIN futures |-> IF i \in Running THEN Becomes(futures[i], "cancelled")
                                               ELSE futures[i]]
                ELSE futures
  /\ phase' = "leave"
  /\ UNCHANGED <<searches, workers, timed, submitted, given, firstUndecided, stopped, isLate>>

\* MUTANT: the check returns and leaves the searches to end by themselves.
LeaveAtOnce ==
  /\ phase = "leave"
  /\ stopped' = TRUE
  /\ phase' = "returned"
  /\ UNCHANGED <<searches, workers, timed, futures, submitted, given, firstUndecided, report,
                 isLate>>

\* The finally block of check stops the deadline, and only then the pool.
Leave ==
  /\ phase = "leave"
  /\ stopped' = TRUE
  /\ phase' = IF RunsInTheCheck THEN "returned" ELSE "cancel"
  /\ UNCHANGED <<searches, workers, timed, futures, submitted, given, firstUndecided, report,
                 isLate>>

\* shutdown cancels the searches of the queue and waits for the others.
Cancel ==
  /\ phase = "cancel"
  /\ futures' = [i \in DOMAIN futures |-> IF i \in Queued THEN Becomes(futures[i], "cancelled")
                                          ELSE futures[i]]
  /\ phase' = "join"
  /\ UNCHANGED <<searches, workers, timed, submitted, given, firstUndecided, report, stopped,
                 isLate>>

Join ==
  /\ phase = "join" /\ Running = {}
  /\ phase' = "returned"
  /\ UNCHANGED <<searches, workers, timed, futures, submitted, given, firstUndecided, report,
                 stopped, isLate>>

PoolNext ==
  \/ Submit \/ TimePasses \/ Take \/ Conclude \/ Interrupt \/ Leave \/ Cancel \/ Join
  \/ \E i \in DOMAIN futures : Begin(i) \/ Advance(i)

-----------------------------------------------------------------------------
(* What the threads may not change *)

\* What the check of one worker reports of searches with these endings.
IsReportOf(r, endings) ==
  \/ /\ r.partition \in DOMAIN endings
     /\ r.outcome = endings[r.partition] /\ r.outcome \in Decisive
     /\ \A i \in DOMAIN endings : i < r.partition => endings[i] \notin Decisive
  \/ /\ r.outcome = "undecided" /\ r.partition \in DOMAIN endings
     /\ endings[r.partition] \in UndecidedEndings
     /\ \A i \in DOMAIN endings : endings[i] \notin Decisive
     /\ \A i \in DOMAIN endings : i < r.partition => endings[i] = "passed"
  \/ /\ r = [outcome |-> "passed", partition |-> 0]
     /\ \A i \in DOMAIN endings : endings[i] = "passed"

\* Endings that one worker may have of the searches: a late check may have the time in
\* the place of an ending.
IsOfTheSearches(endings) ==
  /\ DOMAIN endings = DOMAIN searches
  /\ \A i \in DOMAIN searches : endings[i] = searches[i].ending \/ (isLate /\ endings[i] = "time")

Outcomes == {"passed", "steps", "memo", "time"} \cup Decisive

\* A check that was not late reports what one worker reports, in whatever order its
\* searches end, and no ending of a search that it stopped itself reaches its report.
ReportIsOfOneWorker ==
  report.outcome \notin {"none", "interrupted"} =>
    \E endings \in [DOMAIN searches -> Outcomes] :
      IsOfTheSearches(endings) /\ IsReportOf(report, endings)

\* When the check returns, also by an exception of the spec or of the user, no search
\* of it runs or may still start.
NoSearchOutlivesItsCheck ==
  phase = "returned" => \A i \in DOMAIN futures : futures[i].is \notin {"running", "queued"}

\* A check on several workers is one on one worker to its caller (linearizable.py).
PoolKeepsItsWord == ReportIsOfOneWorker /\ NoSearchOutlivesItsCheck

-----------------------------------------------------------------------------
(* Why they do not *)

PoolTypeOK ==
  /\ searches \in Seq(Searching)
  /\ timed \in BOOLEAN /\ isLate \in BOOLEAN /\ stopped \in BOOLEAN
  /\ futures \in [DOMAIN searches -> [is : {"idle", "queued", "running", "ended", "cancelled"},
                                     reads : Nat, ending : {"none"} \cup Outcomes]]
  /\ submitted \in 0 .. Len(searches)
  /\ phase \in {"submit", "loop", "leave", "cancel", "join", "returned"}
  /\ given \in Seq(Outcomes) /\ Len(given) <= Len(searches)
  /\ firstUndecided \in 0 .. Len(given)
  /\ report \in [outcome : {"none", "interrupted", "passed", "undecided"} \cup Decisive,
                partition : 0 .. Len(searches)]

\* The time ends a search only when the check is late or stopped.
EndingsAreTrue ==
  \A i \in DOMAIN futures : futures[i].is = "ended" =>
    \/ futures[i].ending = searches[i].ending
    \/ (isLate \/ stopped) /\ futures[i].ending = "time"

\* The check has endings that it did not cause.
GivenAreTrue ==
  /\ phase \in {"submit", "loop", "leave"} => ~stopped
  /\ \A k \in DOMAIN given : given[k] = searches[k].ending \/ (isLate /\ given[k] = "time")

\* What the loop knows before it has a report.
LoopIsUndecided ==
  phase \in {"submit", "loop"} =>
    /\ report = NoReport
    /\ \A k \in DOMAIN given : given[k] \notin Decisive
    /\ firstUndecided = 0 => \A k \in DOMAIN given : given[k] = "passed"
    /\ firstUndecided # 0 =>
          /\ given[firstUndecided] \in UndecidedEndings
          /\ \A k \in DOMAIN given : k < firstUndecided => given[k] = "passed"

\* Where searches may run or wait.
PhasesHoldTheSearches ==
  /\ phase = "submit" => ~RunsInTheCheck /\ submitted < Len(searches)
  /\ phase \in {"cancel", "join"} => ~RunsInTheCheck
  /\ phase \in {"join", "returned"} => \A i \in DOMAIN futures : futures[i].is # "queued"
  /\ phase = "returned" => \A i \in DOMAIN futures : futures[i].is # "running"
  /\ RunsInTheCheck =>
       \A i \in DOMAIN futures :
         /\ futures[i].is # "queued"
         /\ futures[i].is = "running" => phase = "loop" /\ i = Asked

PoolInductive ==
  PoolTypeOK /\ EndingsAreTrue /\ GivenAreTrue /\ LoopIsUndecided /\ PhasesHoldTheSearches
    /\ ReportIsOfOneWorker

PoolSpec == PoolInit /\ [][PoolNext]_poolVars
=============================================================================
