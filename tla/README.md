# Formal models of dokimi-assert

TLA+ models of `dokimi-assert`, checked with TLC and, for most of what has
threads, callbacks or a store, proved with TLAPS. Paths below are relative to `src/dokimi_assert/`.
`PROJECT.json` has the lines of code of every definition, the runs, the mutants
that each property detects, and the hazards.

Run everything in this directory:

    tlc -workers 2 -config MCAhead.cfg MCAhead.tla    # one run
    tlapm AheadProofs.tla                             # the proofs of a module


## 1. The system

The library has assertions, property tests (`prop`), stateful tests
(`stateful`) and checks of recorded histories (`history`). One engine,
`_prop/engine`, runs the cases of the second and the third.

| Component | Code | State it keeps | Operations | Talks to |
|---|---|---|---|---|
| Runner | `_prop/engine/runner.py`, `coverage.py` | tally, phase, indices of random and edge cases, check | known cases, simplest, random, prefix and edge cases, check of coverage, conclusion | executor, shrinker, observer |
| Executors | `executor.py` | table of flights, `_next`, `_taken`, queue of replays, one condition | `random`, `edge`, `replay`, `close`; the loop of a worker | runner's thread and a pool of threads |
| Case tree | `tree.py`, `execution.py` | trie of the choices of all cases, exhausted and full marks | walk a case while it runs, or after it | executors |
| Campaign | `campaign.py` | tally, pool, labels, fingerprints, best scores, identities, first failure | known cases, next case, conclude a failure, result | shrinker, property call |
| Shrinker | `shrink.py` | best case per identity, memo, budget, time | passes, batches on workers, explanation | the body |
| Cases, choices, draws | `case.py`, `choice.py`, `draw.py`, `source.py`, `order.py`, `edge.py`, `float.py`, `bridge.py` | the choices, requests, spans of one case | request, span, rewind, step, reject, stop | body and generators |
| Generators, shapes, inverses | `generator.py`, `collection.py`, `pattern.py`, `value.py`, `shape.py`, `inverse.py` | counts and budgets of a case | draw, read a shape file, invert | case |
| Property call and store | `_prop/property.py`, `directory.py`, `stored.py`, `fuzz.py` | files of a property, claims, wrapper, notes | claim, load, run, save, report | runner, campaign, seat |
| Task scheduler | `_stateful/scheduler.py` | tasks, ready list, callbacks, timers, clock, change points | run, spawn, release, settle, advance, drop | machine steps, asyncio futures |
| Machine steps | `_stateful/steps.py`, `_prop/engine/traces.py` | place of the case, states of clients, plan of a section | setup, steps, concurrent section, drain, settle, replay | scheduler, case, search |
| History recording | `_history/history.py`, `event.py` | log, open call and process of each client | invoke, ok, fail, unknown, events | clients on threads |
| Clients, timed logs | `_history/concurrently.py`, `interval.py` | published endings, time | start threads, wait, collect; sort a log | history |
| Linearizability check | `_history/linearizable.py`, `partition.py`, `search.py` | calls, partitions, doubly linked entries, stack, memo, budget, pool of threads | partition, search, collect verdicts, stop | spec of the caller |
| Isolation check | `_history/transaction.py`, `derivation.py`, `cycle.py`, `isolation.py` | dependencies of transactions | derive, find a cycle, report | history |
| Seats, verdicts, cleanups, plugin | `seat.py`, `_matcher`, `pytest_plugin.py` | failures and cleanups of a seat, collectors of a test | call, register, drain, close, flush | test runner |
| Call records | `_record` | numbers, parents, runs | begin, end, take a run | seats |
| Clock, waiting | `clock.py`, `_matcher/waiting.py` | instant, sleepers | advance, sleep, retry | seats |
| Files, golden files | `files.py`, `_files`, `golden.py` | the disk | create, overwrite, unchanged, compare, update | seats |
| Value assertions, patterns, forms, typed generators, specs, benchmarks, conformance | the other packages | none | pure decisions, formatting, measuring | seats |

### What is hard about it

- **Threads.** The runner waits for cases that workers fly ahead; one condition
  serves three kinds of wait, and an exception of the runner's thread can arrive
  in any wait. `History` is called by threads; `Concurrently` races its time. The
  check of a history stops searches that still run. Threads of a body outlive it:
  they call `run` of a wrapper that returned, end calls whose run was taken, and
  register cleanups while a drain runs others.
- **The same answer by two ways.** A case is walked while it runs (one worker)
  or afterwards (several); a batch of shrink candidates is run at once or one by
  one; a case is decoded, replayed, restated from its values and inverted; a
  stateful case follows a trace. Each pair must agree.
- **Ordering.** A campaign meets an identity as a failure, as another failure of
  a shrink, or as both; a report must have it once. A skip ends a campaign only
  before its first failure. A search reports the first of several verdicts that
  arrive in any order. The version order of a key is derived from reads.
- **An event loop of its own.** The scheduler has callbacks, timers and a clock
  that must keep the promises of asyncio while the case chooses each release;
  finally blocks act on the loop while it is being dropped.
- **Crashes and partial failures.** A property saves a failure in two steps, in a
  directory that processes share; either may fail. A write of a tree is many calls of the
  operating system. Any of them may fail, and the write then stops where it is (`_apply`
  undoes nothing): what it has done stays, and what is not of its tree must be as it was.
- **Limits.** Full trees, budgets of steps and of recursive shapes, memos, times,
  caps on choices, rejections and discards, checks of coverage that divide by the
  number of valid cases.
- **Stale handles.** A `Call` can be completed twice, or after its client made
  another call.

### What makes each component correct

| Component | Properties | State |
|---|---|---|
| Runner, campaign | A pass tested something and finished its search; a shortfall is real; the outcome has the counts, the stored runs and the failures of the whole run; it ends | checked, safety proved |
| Executors | Same cases in the same order as one worker; each runs once; no lost wakeup; bounded table; `close` ends | checked, safety proved |
| Case tree | Both walks agree; exhausted means every input was tested; a deterministic body never diverges; records are kept | checked and proved |
| Shrinker | The best case of each identity is the least that ran and never grows; the budget holds; nothing smaller is left untried; a batch takes the runs of one worker; it ends | checked, safety proved |
| Cases, generators, shapes | The record of a case replays it; choices fit their requests and spans nest; recursive shapes end; values restate and run backwards | checked |
| Integer choices | Ranks follow the shortlex keys and are inverted; every draw is admitted and every value is drawn | proved |
| Property store | No call passes over a failure that was written and is not mended, or over a file without its end; every failure that a call reports has a file or a note; no call rewrites an entry | checked and proved |
| Wrapper of a case | It runs once at most, inside its wrapper, and its ending is the one that the property sees | checked and proved |
| Scheduler | A task is in one place; calls before releases; timers in order; the clock waits; a deadlock is one; runs end | checked, safety proved |
| Machine steps | A trace replays its case; the place and the spans are restored on every exit | checked |
| History | The dictionaries agree with the log; processes are sequential; the log is a recording | checked and proved |
| Clients of a history | Every ending is published or reported once, and the history is a recording | checked and proved |
| Timed logs | The history has the calls of the log in the order of the clock | checked and proved |
| Linearizability | The verdict is that of the definition; the frontier is the deepest; limits are exact; each step brings the search nearer to its end | checked; its list, stack and limits, and the verdict on each partition, proved |
| Its pool | The report is that of one worker; no search outlives its check | checked and proved |
| Isolation | No false alarm; every anomaly comes with its proof; with a known order of versions the verdict is exact | checked |
| Seats, cleanups | Cleanups run once, the last first; a test that passes had no failure | checked and proved |
| Records | Numbers have no gap and no twin; a record names its true parent; every ended call is written once | checked and proved |
| Waiting, clock | A verdict is in time; a leak ran at the last scan, after the grace; sleepers wake | checked and proved |
| Files, golden files | A write, wherever it stops, leaves what is not of its tree as it was; one that ends without a fault leaves each entry of its tree with its content and mode, so that the comparison passes; a golden passes after an update that ended. Nothing is undone after a failure | checked |


## 2. The modules

    Positions ── OneWorker                 abstract run on one worker
        └─────── Ahead ── AheadProofs      threads; implements OneWorker
    Runner ── Engine ── EngineProofs       a run, and a campaign beside it
    Passes ─┬─ OneCandidate                abstract shrink on one worker
            └─ Shrinker ── ShrinkerProofs  batches; implements OneCandidate
    Scheduler ── SchedulerProofs
    Choices ─┬─ ShrinkerProofs
             └─ Cases ── Generators ── Shapes ── Inverse ── Values ─┐
    CaseTree ─┬─ CaseTreeProofs            both walks side by side  │
              └─────────────────────────────────────────────────────┴─ MCValues
    Recording                              abstract: what a log promises
        └─ History ─┬─ Clients             implements Recording
                    └─ Intervals           a log played into a history
    Search ── Linearizable
    Clients  Intervals  Pool  Linearizable ─┬─ HistoryProofs
                                            └─ MCHistories, with Steps
    Isolation ── MCIsolation               and the workloads of MCHistories
    Property  Seats  Waiting ─┬─ CallsProofs
                              └─ MCCalls, with Records, Files
    Records ── RecordsProofs

`MC*` modules give the constants of the runs. `MCValues`, `MCHistories` and
`MCCalls` compose modules that share no thread: the variable `use` chooses at the
start which of them runs, so that one run checks them all. They extend the
modules whose properties they check under their own name, and `MCHistories`
instantiates `Steps` and `Isolation`; it takes the workloads of transactions from `MCIsolation`. A definition whose
comment starts with `MUTANT` is a wrong form of the definition that follows it,
and is used by nothing: it stands for a plausible bug, and a property that covers
the definition fails when it takes its place.

### Positions, OneWorker, Ahead

`Ahead` is the executor on several workers with the `_Phases` of the runner that
call it. The threads share fields under one condition, so an action is what a
thread does between two waits with the lock: `CallReplay` and `CallTake` are
`replay` and `_take` up to the wait, `Return` the rest of both with the case
entered into the tree; `ClaimReplay`, `ClaimAhead`, `Wait`, `Quit` are the
branches of `_claim` and `_work`, and `EndCase` is the end of a flight. `notify`
wakes any one sleeper, `notify_all` all. `Interrupt` is an exception of the
runner's thread in a wait, `Raise` an error of a flight that `result` raises;
both lead to `Close` and `Shutdown`. Flights are named by their position, and a
position gets a fresh flight after the runner took it, as in `_flight_at`.

`OneWorker` is the same run without threads: `_Phases` over `Serial`. `Ahead`
implements it with the stages of the close mapped to `"ended"`. Loops that end at
a number of valid cases are nondeterministic ends here (`Leave`, `NoEdge`): what
is checked is which case comes next, and `Runner` has the numbers. `Positions` has the
two functions between a case and its position among random and edge cases, with
the theorems that they are inverse.

### Runner, Engine

`Runner` begins with the test of a required share (`verdict`, `shortfall_of`): the
Wilson bounds are compared without the root, in integers (the comment there says
how far this is exact). What a run and a campaign share follows: the counts, the
known cases, the outcome record and `conclude`. Then come the phases of a run:
`KnownCase`, `AfterKnown`, `Simplest`, `Random`, `Prefix`, `Edge`, `NoEdge`,
`Leave` up to a check, `Check` for one round of `_checks`, `Conclude` for the end
of `run`, `run_stored`, `_replay_only` and `conclude_case`, and `Unwind` for any
exception. `Engine` adds `_Exploration` and its loop, and runs either.

What is abstract: a case is how it ended, its labels and its identity. The tree
is a number of tested inputs. A shrink keeps the identity it started from and
finds any others in any order, or the confirmation fails and the outcome is
flaky. A body requests an input in every case or in none. What a mutation of the
pool chooses is left out, since a mutated case may end in every way.

### Passes, OneCandidate, Shrinker

A case is its rank in shortlex order, with `Length` for its number of choices;
what a pass looks at inside a case is the constant `Candidates`. The passes of
`shrink.py` differ in how they ask: a *sweep* offers the candidates of the best
case and starts over after each acceptance, a *probe* (bisections) offers
candidates that depend on earlier answers, and a *step* lowers one choice and
then may delete spans.

`Passes` is what both shrinkers share: `Pick` and `EndPass` are `shrink_all`,
`_shrink` and the rounds, with `NextRound` and the last pass `delete_and_lower`;
`Probe`, `Step`, `AfterStep` are the passes that are no sweeps; `NextDraw`,
`EndDraw`, `Nearest`, `EndExplaining` are `explain`; `Keep` and `Recorded` are
`_settle` and `_record`; `Exhaust` is `Exhausted` where it is caught; `Expire` is
the deadline. `Shrinker` runs the candidates: `Offer` is `_first` as it fills a
batch, `Fly` is `run_each`, `Take` and `TakeFilling` take the ending of one run with
its repeats, `Cut` is a room that is spent in the middle of a batch, `Land` its
end, `NoRoom` a budget or a time that is over before a batch, and `Unwind` an error
of the body. `OneCandidate` runs one candidate at a time (`Try`, `Fill`), and may drop
candidates that will not run (`Skip`). `Shrinker` implements it: its batch is the
head of the queue of one worker, and a deadline that passes while a batch flies
is a deadline that passes when it lands.

### Scheduler

One thread, so `control` says who has it: the test, the loop at one of its
points, the task that was released, or a finally block while a failed run
closes its coroutines (`control` is `"finally"`, and `closing` has the tasks that
`_drop` has left to look at). `Run`, `Pass`, `CallWake`, `CallSet`, `CallLater`,
`CallRaises`, `Skip`, `Settled`, `Again`, `Advance`, `Deadlock`, `Release`,
`ChoiceStops`, `Drop`, `Close`, `Closed`, `Dropped` are `run`, `_settle`,
`_advance`, `_release` and `_drop`. `Spawn`, `SetResult`, `CallSoon`, `CallAt`,
`CancelTimer`, `CancelCallback` are what users do with the loop. Futures are those
of asyncio (external). `timers` is a set, since a heap pops them in their order whatever its
layout. PCT has priorities, and levels that change points lower.

### Choices, Cases, Generators, Shapes, Inverse, Values

These are functions of the code, and are functions here. `Choices` has the bounds
of the three kinds of choices with their ranks, keys, coercions, draws and edge
cases. `Cases` has the record of a case (`Choose`, `Open`, `Close`, `Rewind`,
`RecordAt`) and the providers of its values: a stream of random words, recorded
choices, the bytes of a fuzzer, an edge case, given values. `Generators` decodes:
one operator per class of generator and per generator of a shape, each from a case
to a case, a value and how it ended; `Collect` is the loop of the collections
with its discards. `Shapes` reads a shape file: `Accepts` are its refusals, `Finite`
the fixed point that refuses recursive shapes without a value, `Exits` where a
value whose budget is used leaves, and `Build` the generator. `Inverse` is
`inverse.py`: `Emit` goes from a value back to the steps of its choices; `Match`
is the search of a pattern for a text with its stack.

`Values` is the life of one case and has the actions: `Execute` draws the values of
a body from a provider, `Replay` runs the record again, `Restate` gives its values
as an example, and `RunBackwards` inverts each of them and decodes the result.

What is small here: random words are below 3, a byte is below 4, widths are a few bits, characters
are numbers, a float is a fixed-point number with two fractional bits and two
infinities, a day has two seconds, and a zone has one transition. Functions of a
caller (filters, maps, binds) are constants. The code keeps a stack of budgets per shape
file and thread, and a case here has one.

### CaseTree

One action, `RunCase`: a case with any walk and ending is executed on both trees,
once as `Serial` does (`Executed`: the walker runs with the case and stops it)
and once as `Ahead` does (`Entered`: the case has ended and is walked). `Walk`,
`Descend`, `Settle` and `EndWalk` are the walker; `Limit` is its node limit, with the
`full` mark. A case may run again (`later`): a body on one worker runs once more
in a few situations, and `later` is how that run ended. `flaky` chooses at the
start whether the body is a function of its values; `asked` remembers what
such a body did.

### Recording, History, Clients, Intervals

`Recording` is the log that the checks read, and what `event.py` promises about
it, with no state but the log: an invocation takes the process of its client or
the next number, a completion ends an open call, a process ends with an unknown
one. `History` is the code: it decides from the dictionaries `open` and
`process` and from the counter, and it refuses a call or a completion as the
code does. A `Call` handle of any age may be completed at any time. The lock
makes each operation one step.

`Clients` is `concurrently` over a `History`: `Start`, `Arrive`, `DriverArrives`
and `Release` are the barrier, `Record` the body of a client, `EndBody` and
`Publish` the two steps of its end, `Pass` the time, and `WakesAtTheFirst`,
`Wakes` and `Return` the driver, which returns what is published or raises the
error of the lowest client. `Intervals` is `from_intervals`: `Refuse` the first
entry that breaks a rule, `Sort` the moments, `Play` one of them.

### Search, Linearizable, Pool

`Search` begins with the calls of the log and the union-find of `partitions_of`,
path halving included. Then it searches one partition: the doubly linked entries
with `Lift` and `Unlift`, the stack, the states, the memo of configurations, the
frontier and the three limits; its steps are `Reject`, `Revisit`, `Linearize`,
`Stop`, `Backtrack`, `Violate`, `PassSearch`. `Linearizable` is `check` on one worker:
`StartSearch` of a partition, `Collect` its ending, `ConcludeCheck`; an undecided check reports
the steps up to its first undecided partition. The reference is a
definition (`IsLinearizable`) over all orders of all calls.

`Pool` is `check` on several workers, with each search reduced to what it comes to
and to the number of times that it reads the clock before. `Submit` hands the
searches to the pool in their order, `Begin` and `Advance` are its threads,
`Take` waits for the endings in the order of the partitions and stops at a
decisive one, `Leave`, `Cancel` and `Join` are the end of the `with` block: what
has not begun is cancelled, and the check sets the stop of the deadline, so that
the rest end at their next reading, and waits for them. `Interrupt` is an exception
of the thread that waits.

### Isolation

The module begins with the three files below the assertion, one operator per function:
the transactions of a history with their refusals (`transaction.py`), the searches
of a graph (`cycle.py`: the components of Tarjan, the shortest way, the
shortening of a walk), and the analysis (`derivation.py`: version orders, edges,
and the first instance of each of eleven anomalies). An analysis keeps the reads,
the version order of each key and the edges, as the object of the code does. Then come the steps
of the assertion, `Fault`, `Derive`, `Look`, `Report`, and the reference: a
serial order, and for snapshot isolation an order of starts and commits, searched
over all of them.

### Steps

`Steps` runs the six parts of a stateful case: `Setup`, one step at a time, the
concurrent section with its `Plan`, its threads (`RunPlanned`) and their replay
(`EndSection`), the drain, `Settle`, and a failure anywhere. Every call of the
code of a user is a step that may raise. The provider is random, or follows a
trace of steps and draws (`traces.py`) that may be wrong. A machine is a counter
with three actions; the state of the spec is the number, and effects commute.

### Property, Records, Seats, Waiting, Files

`Property`: processes run one test over one directory. `BeginCall` claims the contract, and
`List` and `Load` read the directory. `Conclude` is a counterexample of a run, an input or
a campaign, whose failures go to the store one after the other; `FailAsFound` the stored case of a
fuzz test or the case of a token, which is reported and never written; `FailUnwritten`
a failure without a case to write; `Skip`, `Pass` and `Fault` are the other ends. `Create` and
`WriteEntry` are the two steps of a save: a name that is taken ends it quietly,
and the system may refuse the file, or fail the write or the close and leave the file
without its end; both are noted, and the call goes on with the next failure. `Note`
adds the notes of the load, `Report` is the verdict. A process may die at any step (`Crash`);
`StartTest` starts the next one over what is left, in an environment of its own
(`Environments`: what fails, the generators, whether it is of a mutation run). `Meddle` is another tool that puts a
file of its own into the directory, or a person who removes a damaged file. That the person does
so while no call of a property is under way is an assumption: nothing in the code sees to it.

The second part of `Property` is `_Run` and `_wrapped`: `CallRun` is a call of `run` with the lock,
`EndCase` the end of the case, `WrapperEnds`, `Close` and `Judge` the rest.

`Records`: the entries of calls in the sets of seats. `StartRun` and `EndRun` are
a run of a body; the set moves to the slot of the call that ran it in the steps
`Swap`, `FindHome`, `MoveToRun`, `MoveHome`, `MoveNumber`, `MoveRecord`, which `EndSlot`,
`ReadHome` and `WriteRecord` of late threads race. A call that a late thread makes after
`Swap` is in a list that nobody takes (`missed`). `Told` sets a flag in one step, where
`_observe` reads and sets it in two: that a late thread and the taker both call the
observer is below the model, and no property is about it.

`Seats`: a main thread with the seat of a test and a body with a seat of its own,
and another thread that uses both. `CallOnMain` and `CallOnOther` are the one place
where a call becomes a record, a failure, a skip or a fault: the call goes on (`Goes`),
ends the body (`EndsBody`) or raises where it is (`RaisesInFn`, `RaisesInBody`,
`RaisesInTest`); `Register` puts a
cleanup on a seat; `Drained`, `NextFn`, `EndFn`, `CloseBody`, `EndDrain` are the
drain; `Flush` and `Teardown` the end of a test.

`Waiting`: an assertion that retries (`BeginWait`, `Attempt`, `JudgeAttempt`, `Wait`), whose
body may end any attempt with a fault (`Refuse`); one that looks for leaks, which scans and then
reads the clock (`Scan`, `Weigh`) while works start and end, also in the grace (`StartWork`,
`EndWork`); and the clock that another
thread advances while threads sleep on it (`Advance`, `Sleep`, `Recheck`).

`Files`: a call is a plan of calls of the operating system, of which each may fail;
`RunOp`, `StopOp`, `CleanUp`, `EndCall` carry it out. `Creating`, `Overwriting` and
`Updating` build the plans, `Refuses` are the refusals before it, `ReadTree` and
`Differing` the comparison, `Change` the code under test in an `unchanged` block.
The second half has golden trees and golden files of text and of JSON objects
(`MatchTree`, `MatchFile`, `MatchField`). A path is a tuple of names, and a file system may fold
two names into one. The permission bits are those of the owner.


## 3. The runs

Each property below has a mutant of the code that TLC finds with it.

| Run | Instance | Shows |
|---|---|---|
| `ahead` | 2 workers, 2 edge cases, 3 then 1 random cases | `RunsOnce`, `NoLostWakeup`, `TableBounded`, the refinement `SameCasesAsOneWorker`, `RunEnds` |
| `scheduler` | 2 tasks, 1 future, 4 operations, 3 releases, 2 runs, uniform | `NothingIsLostOrEarly` (one place per task, calls before releases, timers in order, no coroutine left open), `IdleLoopsAreToldApart` (the deadlock and the clock) |
| `scheduler_ends` | 2 tasks, 3 operations, 2 releases, 2 runs, PCT of depth 3, finally blocks | `RunEnds`, `LoweredBelowEveryTask` |
| `engine` | checks at 1, 2, 4 cases; bodies of 1, 1, 3, 99 inputs; campaigns of 3 cases | `OutcomeIsJustified` (a pass is complete, a verdict justified, the counts whole), `FailuresAreReported`, `RunEnds` |
| `shrinker` | 4 cases of up to 2 choices, 2 identities, 2 workers, 5 runs, up to 2 repeats, 4 passes, 1 draw with 2 fillings | `BestIsTheLeast`, `BudgetHolds`, `SweepsMissNothing`, the refinement `SameAsOneWorker`, `ShrinkEnds` |
| `values` | every class of generator and every shape, up to 14 choices; trees of up to 4 nodes | `RecordIsACase`, `ShapesEnd`, `ValuesRunBackwards`; `SameRun`, `TreeTellsTheTruth`, `TreeOnlyLearns` |
| `histories` | 2 clients, 6 events; logs of 3 entries; a machine of 3 actions and 14 traces; linearizability of 3 and 4 calls; pools of up to 3 partitions on 2 workers; 15 workloads of transactions | `Inductive`, `IsARecording` (refinement), `OutcomesTellTheTruth`, `IntervalsKeepTheirOrder`, `StepsKeepTheirWord`, `SearchIsInStep`, `ReportIsRight`, `SearchMovesOn`, `PoolKeepsItsWord`, `VerdictIsProved`, no deadlock |
| `calls` | 2 processes, 1 contract, 1 case, 4 environments, 2 calls; 2 threads beside a wrapper; 3 entries in 2 runs; 2 cleanups; time to 10; trees of up to 2 paths in up to 4 calls | `StoreIsKept`, `CaseRunsInItsWrapper`, `RecordsAreWhole`, `SeatsKeepTheirWord`, `WaitsEndInTime`, `WritesKeepTheirWord`, `GoldenSettles` |
| `case_tree_late_skip` (violated) | flaky bodies whose later run skips | `SameOutcome`, finding 1 |
| `scheduler_finally_acts` (violated) | finally blocks act on the loop | `NothingIsLeftAfterADrop`, finding 2 |
| `isolation_reversed` (violated) | the workloads of `histories` | `PassMeansSerializable`, finding 3 |
| `inverse_refuses` (violated) | a recursive whose base and extension overlap | `OnlyForeignValuesAreRefused`, finding 4 |

**Why the bounds are enough.**

- `ahead`: with two workers one can sleep while the other works, which every
  hazard of the condition needs; the fourth random case lies past the last edge
  case, where the two position functions change; the second check makes the
  runner come back to random cases after the edge cases left. The proofs remove
  the bounds.
- `scheduler`: two tasks can wait for each other and for a timer; three
  releases let both yield; four operations are enough for two timers of one
  time with a callback and a cancellation. The second run starts from what the
  first one left.
- `engine`: shares of 5 and 95 percent are met, refuted and left open at checks 1, 2
  and 4; three inputs are exhausted before the last check; three identities
  let a campaign conclude one as another failure of a shrink, as its own, and
  as both; two stored cases in a row let the first pass and the second end
  the run.
- `shrinker`: two candidates make a batch whose first run may accept, so that
  the second is dropped and must stay able to run; the sweep offers a case twice and
  the best case itself; two identities let the shrink of one find the other; five
  runs with repeats spend the budget in the middle of a batch, on the first or on
  the second candidate. `Calls` bounds how often one probe or step pass asks, which
  the code bounds by the places of the case. The proofs remove these bounds.
- `values`: three random words reach every branch of a coin, a nested draw and a
  rejection; longer streams, recorded choices of a wrong kind, short bytes and
  both edges of every bound are there too. `MaxChoices` of 14 is overrun by an
  endless body only. Documents refer to themselves through every shape that can,
  and each refusal of a finite value has one. In the tree two requests give a
  parent and children that settle it; a value that is never drawn stands for a
  request of many values; four nodes make the tree full in the middle of a case.
- `histories`: six events have an unknown completion, a new process after it, and
  a stale call completed when its client has another; two clients let one
  publish before and one after the time. Three entries of a log touch, overlap
  and nest at equal times. A search with three calls has every order of invocations and
  completions, one call that fails, is unknown or open, keys that chain partitions, a nondeterministic operation,
  an operation that raises, and the budget, the memo and the time tight in turn.
  Three partitions let a decisive ending stop one search that runs and one that
  waits. The workloads have the shapes of the textbook anomalies with every result
  of every read, in every order of the values.
- `calls`: two processes can hold the same file, and one may die, or its write fail, between its
  two steps while the other lists; a process calls twice, so that a claim can be
  refused and a save be read by the next run; its case fails with old or with new
  generators, is mended, or fails in a mutation run. Two threads race a close. Three
  entries nest a call in a run of a call. Two cleanups on two seats
  race a drain of each. `MaxTime` is several periods of a retry. Two paths make a
  parent with a child, a link, and two names of one entry; four calls are a write, a
  change, a comparison and an update.

Deadlock is checked for `ahead` (a closed run stutters by an explicit step) and
for `histories` (where a check that has not ended must go on), and is off for the
others, which stop at their end or bound.

**Fairness.**

- `ahead`: weak fairness of the runner's own steps and of each worker. Threads
  that can go on do. An interrupt and an error of a body are under none, and a
  case ends because a body returns, which the library expects of it.
- `scheduler_ends`: weak fairness of `Step`, the thread inside `run`. Runs
  themselves and operations are under none.
- `engine`: weak fairness of the runner's thread, and of time: `time.monotonic`
  goes on. A campaign's cases after the known ones are bounded by `MaxExplored`.
- `shrinker`: weak fairness of `Work`, the runner's thread with the batch that
  it waits for. A body returns. The deadline is under none: the shrink ends with
  or without it.

The search for a linearization needs none: `SearchMovesOn` says that every step
changes the verdict or moves a measure on that has an end, and a search that has
not ended always has a step.


## 4. The proofs

`PROJECT.json` lists the theorems that TLAPS checks for every value of the
constants.

**Executors (`AheadProofs`)**, for any finite nonempty set of workers, any number of edge cases and any
increasing sequence of checks (the assumptions of `Positions` and `Ahead`):
`TypeCorrect`, `InvariantHolds`, `CasesRunOnce`, `WakeupsAreNotLost`,
`CallsAreServed`, `CloseCancels`, `TheTableIsBounded`, `ImplementsOneWorker`, and
`RandomCaseIsAtItsPosition`, `EdgeCaseIsAtItsPosition`.

`RunsOnce` alone is not inductive: that a claimed position is not claimed again
needs to know that every position below `_next` is flying, done or taken
(`ClaimedBelowNext`), that a queued replay has not started (`QueueOfOne`) and that
no replay is queued twice (`ReplaysWereCalled`). `CallIsServed` needs what the
runner waits for in each stage (`AwaitsItsCase`). `NoLostWakeup` holds on its
own: `replay` notifies one of the sleepers, and `_take` all. `Inductive` is their conjunction. The proof
has one lemma per action, and under it one step per conjunct. The refinement
follows from it: `Return` enters the awaited flight, `AwaitsItsCase` says that it
is the case of the stage, and the position theorems say which case that is.

`TableBounded` counts flights, and follows from where they can be (`Window`). Workers
claim the positions up to `_next`, which is at most one lookahead above `_taken`. Outside
of these lie the random cases that edge cases overtook, of which there are no more than
edge cases since the edge cases keep up with the others (`EdgesKeepUp`), and at most the
one flight that the runner calls for (`OneOther`). Each part is a set of positions of
known size.

**Engine (`EngineProofs`)**, for any callers, bodies, settings, checks and number of
cases (`TallyAssumption`, `RunnerAssumption`, `CampaignAssumption`; they give types, and
say that a body has finitely many places where it can fail): `EngineInvariantHolds`,
`OutcomesAreJustified`, `NoFailureIsLost`. An outcome is right only when the counts, the
stage and what a campaign was told agree before it is made. `StagesFollow` says which
mode can be in which stage and what lies behind it: the simplest case has run when
random cases do, and the loop of cases is left only when it wants no more, which is why
a pass was searched whole. `KnownOfItsKind` has the known cases of a replay,
`ConcludesTheWhole` what the conclusion receives, `CampaignKeepsItsFailures` that the
list told is the first failure and the others, each once. `EngineInductive` is their
conjunction with the two properties.

**History (`HistoryProofs`)**, for any set of clients and any length:
`HistoryInvariantHolds`, `HistoryTypeCorrect`, `HistoryProcessesAreSequential`,
`HistoryIsARecording`. `Inductive` says that `open` and `process` agree with the
log (`OpenAgrees`, `ProcessAgrees`), that the log is sound, and that nothing
follows an open call on its process. From the agreement, what the code tests is what
the log says, so that each step of `History` is a step of `Recording` or leaves
the log as it is.

**Clients (`HistoryProofs`)**, for any finite set of clients (`ClientsAssumption`)
and any calls that their bodies make: `ClientsInvariantHolds`,
`ClientsOutcomesAreTrue`, `ClientsRecordAHistory`. `ClientsInductive` is the
invariant of the history with `FieldsAgree`: what a thread published is how its body
ended, the driver has returned or raised only what was published, and a body runs
only after the release. A step of `Clients` is a step of `History` or leaves it
alone, so that the lemmas of the history carry over.

**Timed logs (`HistoryProofs`)**, for any entries, clients and times
(`LogsAssumption`: an entry has a client and times that are integers):
`LogInvariantHolds`, `LogsArePlayedInOrder`. `PlayedInOrder` says that the moments
behind come before those ahead, `CallsAreInvocations` and `EndsAreCompletions` that each
event of the history is the moment that it was played for, `OrderSoFar` that what was
played has the order of the clock. That no moment is refused needs that the entries of a
client do not overlap, which is what `Refuse` let through, with the order of the two
moments of an instant.

**Shrinker (`ShrinkerProofs`)**, for any number of workers, any candidates of any
passes, any budget and any repeats (`PassesAssumption`, `WorkersAssumption`; the one
assumption about cases is that a smaller case has no more choices, which is the
first part of shortlex order): `TypeCorrect`, `BestIsTheLeastCase`,
`BudgetIsNeverExceeded`, `DoneMeansNothingSmaller`, `EveryStepHasASize`,
`SweepsAreComplete`, `NoBestCaseGrows`, `ImplementsOneWorker`.

`NothingSmallerIsLeft` is about the end of a failure, and is not inductive. What
makes it true is `SweepsAreOffered`: since the round began without an acceptance,
every candidate of each sweep that is behind ran or is not smaller, and each one of
this sweep did so too, or is in the batch or the queue. An acceptance sets
`improved`, and with it the next round starts over. `StepHasSize` needs
`StepRuns`: a step that is waiting is in the queue, in the batch, or has a
size. It needs in turn that a step is never refused by `_fresh` unless it has a
size, and that nothing is accepted while it waits. `BatchIsNew` says that the
candidates of a batch did not run and are not in it twice, so that what is taken
from it does not replace the size of an earlier run; on that `BestIsTheLeast` rests.
`IInv` is their conjunction.

`ImplementsOneWorker` follows the candidates through `batch \o queue`: one that
joins the batch keeps its place (a stutter), one that `_fresh` refuses is dropped at
its place (`Skip`), and the first of the batch is what one worker would run
(`FirstMayRun`, from `BatchIsNew` and `BatchHasAStage`). `BudgetHolds` gives it the
same room, so that `Cut` happens exactly where one worker has none. `IdleIsTheSame`
says that between two batches both do the same.

**Pool (`HistoryProofs`)**, for any checks, any lengths of their searches and any number
of workers: `PoolInvariantHolds`, `WorkersReportAsOne`. `PoolInductive` says that an
ending is that of its search or the time (`EndingsAreTrue`), that the check took the
endings in the order of the partitions (`GivenAreTrue`), that none of those that it
passed over was decisive (`LoopIsUndecided`), and which futures each phase can have
(`PhasesHoldTheSearches`).

**Scheduler (`SchedulerProofs`)**, for any tasks, futures, delays, strategies, and
number of operations, releases and runs (`SchedulerAssumption`). `Kept` has the types
and what each list is for: tasks that were spawned, timers that call what their caller may
schedule, levels at or above the lowest, waiters of futures that are not done only
(`SchedulerIsKept`). `ChangePointsLower` follows from the levels. `CallsAreInOrder`
needs in addition `BatchComesFirst`: what a pass has left to call comes before what was
scheduled since, and the latter has no timers, so that a timer is never called
before an earlier one. These three have no hypotheses, so that they also hold when the
finally blocks of a failed run act on the loop.

`NothingGoesAmiss` needs where each task is. `Has` and `Once` say that a sequence has an
element and has it once; a task that is open and does not run is in exactly one of the
ready list, the callbacks, and the waiters of one future (`OnePlace`), and while a run is
dropped what is open is among the tasks to close (`DropFindsTheOpen`). Two
hypotheses are those of the observations in section 5: `Finally = {}`, since
finally blocks that act on the loop leave a task behind (finding 2) and one that raises
ends the loop of `_drop`, and `Outlive = FALSE`, since a future that outlives a dropped
run wakes a closed task. `IdleLoopsKnowWhy` needs them as well, and that
no callback schedules a timer for a time that has passed (`LateDelays \subseteq Nat`),
which moves the clock back; `TimersAreAhead` says that then no timer is left behind.

**Property store (`CallsProofs`)**, for any processes, contracts, cases and environments
(`EnvironmentsAssumption` gives their fields), whichever creation or
write fails, wherever a process dies and whatever damaged file a person removes between the calls:
`StoreInvariantHolds`, `FailuresAreNeverLost`. A failure that was written returns because a
whole file does not change (`ListedStay`), because a call that looked at the directory has each of
its files in what it loaded (`LoadedWhole`), and because a call that passes passed over none
(`PassesHonestly`). A failure that is reported has its file, is noted or is still to
write (`ReportedIsKept`); that no call rewrites an entry needs that a file between its
creation and its text is partial and has one writer (`WritesThePartial`, `OneWriter`). A file
that a write left partial has no writer any more, so that the name stays taken and every later
load of it is a fault. How many failures a call has and in which order it writes
them is not bounded.

**Waiting (`CallsProofs`)**, for any timeouts, intervals, advances and naps that are
naturals (`WaitAssumption`), any threads and works: `WaitInvariantHolds`,
`WaitsAreInTime`. `WaitInductive` adds to the property that a step has a call of
its kind (`StagesAreOwn`), that what is judged was tried before now (`TriedBefore`) and
that a wait has a length (`WaitsHaveALength`): on a controlled clock a wait of 0 would
judge the same instant for ever.

**Seats (`CallsProofs`)**, for any number of calls and cleanups, with no assumptions:
`SeatsInvariantHolds`, `SeatsDoTheirWork`. The stack of a seat is in the order of
registration (`StacksRise`), a cleanup waits, runs or ran (`FnsHaveAPlace`), and of those
that a seat had when it began the later ones run before (`LaterRunFirst`); what a thread
registers during a drain is exempt from the order, and what it registers after it is late
(`SeatsInTurn`). A failure that a report owes is kept, raised, or on its way from the
body until the result is there (`SeenIsTold`); that the result takes the failures of both
seats needs that each seat keeps them in the order of the calls (`FailuresRise`).

**Wrapper (`CallsProofs`)**, for any threads and any number of their calls:
`WrapperInvariantHolds`, `CaseRunsOnceInItsWrapper`. `FlagsAgree` ties the counter
and the two flags to what the threads did; `JudgedLast` says that the property goes
on only after the close and the end of a case that started.

**Records (`RecordsProofs`)**, for any number of calls and runs, whether or not threads
outlive the runs of their bodies; the only assumption is that a test has one of the
three states of its calls (`RecordsAssumption`): `RecordsInvariantHolds`,
`RecordsAreWritten`. A call moves from run to run until it comes to the test, and late
threads read its home and its number between the steps of a move. The invariant
`RecordsInductive` therefore speaks of the way of a call: `Way` is the least set of
homes that has the run in which the call began and, with a run that gave up its calls,
the home of that run. `RunsFollow` says that a run belongs to a call that is open until
the run is taken, and that its home is on the way of that call; `EntriesFollow` that a
call is on its way and has its parent from its first move on; `ListsHold` that a call
that was not cut is in the list of its home, and the call that moves under the lock is the first
of its list. `NumbersCount` has no twin and no gap. A parent never falls behind its
calls (`ParentsGoAhead`): its home is on their way, and where both are in one list it
comes first, so that it takes its number before them. `LinesTell` ties a line
to its call, and a call that ended at the test to a line. That a call has one line only holds
without late threads, and needs that all that a run made is over before it ends and
that a cut takes the calls within a call along (`InTheirRuns`, `OneLineEach`).
The property asks for the record of a call when every run around it was taken
(`Arrived`); the call is then at the test, since a run that was taken is empty and a way ends
where nothing moves on.

**Case tree (`CaseTreeProofs`)**, for any body, any finite bounds of its requests, any
number of requests of a case and any node limit (`TreeAssumption`, which also
names the endings that a run may have): `TreeIsInductive`, `TreesAreTries`,
`RunsAreTheSame`, `RunsDifferOnlyAtAnEnd`, `TheTreeTellsTheTruth`, `TheTreeOnlyLearns`.
A step walks a path of any length, so that the heart of the proof is about one step of
`RunCase`: `Walked` and the way up of `EndWalk` are functions over 0 .. n, whose values
exist by `RecursionHasASolution`, and what holds after each request (`WalkGoes`) or at
each node on the way up (`Rises`) follows from request to request. `Counts` is what
`Settle` keeps: a node counts as exhausted exactly when it ended or each value that its
request allows leads to an exhausted node. The code compares two numbers there, and
`SettledMeansAllBelow` says that they are equal exactly then, since a child is one of
these values. That nothing is left to test follows from a shortest or a longest node that
does not count. For a body that is a function of its values, the tree has nothing else than
what the body did (`Tells`) and, until it is full, all of it (`TellsAll`); then a case is
a repeat exactly when its values were tested, and no case diverges. While the run goes on,
`tree = other`: the two walks differ only where a later run skips, and such a case ends the
run. `RunsAreTheSame` has the hypothesis `"skipped" \notin FlakyLaters`, which is finding 1
of section 5; `RunsDifferOnlyAtAnEnd` is what remains without it.

**Search (`HistoryProofs`)**, for any histories, any limits and any spec whose calls leave
a sequence of states from each state (`SearchAssumption`: an event completes an earlier
one, limits and costs are naturals): `SearchInvariantHolds`, `SearchStaysInStep`,
`SearchIsSoundAndComplete`, `CheckReportsTheFirst`. `SearchInductive` has four parts
beside the types. *The list*: it is exact for the calls that are not linearized
(`Linked`), and a call that was lifted still knows the neighbours that it had when it was
lifted (`Lifted`), so that restoring the calls in the reverse order of lifting them makes
the list exact again. *The stack* (`IsStack`): each call could come next after those
below it, and the states kept with it are those that the calls below leave. *The memo*
(`IsMemo`): a configuration, which is the set of linearized calls with the states that
they leave, was explored without success or is on the way to where the search is.
*The scan* (`Scans`): what each candidate before it leads to is in the memo.

That the search passes only what has a linearization follows from the stack: with no
open call left it is one. The other direction is about the memo, which skips a
configuration by its calls and its states, whatever the order that led there. When a
search is violated, its stack is empty and the scan has met a completion, hence no
configuration of the memo is on the way: each one is `Explored`, which says that it does not
have all known calls and that every call that can come next leads to rejection or into
the memo again. The initial one is explored too. A linearization would go from the initial
configuration through explored ones only, by induction over its length, and end in one that has
all known calls. `KnowsItsPartitions` carries the verdicts from partition to partition, and
the report follows.

**Integers (`ShrinkerProofs`)**, for all bounds: `RankIsInverted` (the rank of a value
leads back to it), `RanksFollowTheKeys` (a lower rank is a lower key, so that the
shrinker can count in ranks), `IntegerDrawsAreAdmitted` and `EveryIntegerIsDrawn`
(a draw returns what its bounds admit, and any of it).

**Only model-checked.** Liveness (`RunEnds`, `ShrinkEnds`) is out of the prover's reach.
What a recursive definition computes for every input needs an induction over data, which
it does not have either. This leaves with TLC

- `Cases`, `Generators`, `Shapes`, `Inverse` (a case is decoded by recursion over its
  generator);
- of `Search`, what the partitions say about the whole history: the union-find of
  `partitions_of`, that the orders of its groups make one of all calls, and that the
  frontier is the deepest (`ReportIsRight`, of which `CheckReportsTheFirst` proves the
  part about the partitions), and the lexicographic order of its steps (`SearchMovesOn`);
- `Isolation` (the components and ways of a graph) and `VerdictIsProved`;
- `Steps` (`StepsKeepTheirWord` replays a whole trace).

`Files` is in reach and not proved yet: `WritesKeepTheirWord` and `GoldenSettles` over
plans of calls and trees of paths.


## 5. What the runs found

Each is a run that TLC ends with a counterexample; `PROJECT.json` quotes the lines.

1. `case_tree_late_skip`: a flaky body whose second run skips is a divergence on
   one worker and a skip on several, where the settings promise one outcome.
2. `scheduler_finally_acts`: `_drop` clears the lists before it closes the
   coroutines, so that a finally block leaves a callback or a task behind for
   the next run.
3. `isolation_reversed`: a read of two appends of one transaction in the wrong order
   passes `is_serializable`. No serial order explains it; the edge between
   the two starts and ends at one call, and is dropped. `VerdictIsProved` in `histories` is
   about the histories whose reads keep that order, so that only this run is about it.
4. `inverse_refuses`: the inverse of a recursive whose base and extension overlap
   refuses values that the recursive drew. It takes the first branch that accepts a
   value, which charges more leaves than the draw did.

Observations without a run of their own:

- *Executors.* `executor.py` says that `close` cancels every case that the runner did
  not take. A replayed case that an interrupt leaves behind is in no table, and
  `close` waits for its body. A flaky body that raises an error other than the
  signals of the engine raises it from `_Flight.result` on several workers before the
  walk, where one worker may report a repeat or a divergence first.
- *Scheduler.* `_settle` looks for due timers before it calls the callbacks of a
  pass, so that a timer that a callback schedules with a negative delay moves the
  clock back. `LateDelays` therefore has no negative delay. A finally block that
  raises ends the loop of `_drop`: the coroutines after it stay open, and its error
  replaces that of the run; `NoCoroutineIsLeftOpen` is checked with `Finally = {}`.
  A future that outlives a failed run wakes a closed task in a later run, which
  fails with "cannot reuse already awaited coroutine" (`Outlive`).
- *Shrinker.* `_run_all` raises the error of any candidate of a batch, also of one
  behind a candidate that would have been accepted and that one worker would never
  run. The refinement holds because one worker may raise at any candidate too. When the
  budget ends in `_nearest`, `explain` reports the draw as unexplained, although a
  filling that passed has shown that its value matters. A failure that is done can
  get a smaller case while another one is shrunk, and is not shrunk again from there.
- *Clients.* A body that ended before the time may not be published when the
  driver wakes, and is then reported as still running. `OutcomesTellTheTruth` allows it.
- *Pool.* An interrupt while the searches are submitted, before the `try` of the
  check, leaves the pool to end by itself. `Interrupt` is in the loop only.
- *Isolation.* Snapshot isolation passes a lost update that no read observes, as its
  documentation of "the dependencies its reads reveal" allows. With registers the check
  is sound but not complete: the order of two writes is known only from a read.
- *Values.* An enum whose only finite variant is cyclic through a container that may be
  empty, and a list of fixed length 0 of itself, are refused as shapes without a
  finite value. The leaves and the cost of a try that a filter rewinds stay counted.
  The record of a case that overran lacks the choice that overran it.
- *Property.* A crash between `open("x")` and the write, or a write that fails, leaves a file
  without its end, which every later load reports as a fault until a person removes it: no
  later save replaces it, since the name is taken. A campaign that ends with a fault does not
  tell the notes of the failures that it could not write. A process that
  lists while another one writes can report that file as damaged. An input of a fuzzer does not
  rewrite a damaged file.
- *Seats.* A skip at the end of a test hides the failures of `expect` and of cleanups;
  the first collector that raises at the flush hides those behind it; a cleanup that a
  thread registers after the last look of the drain does not run on the seat of a
  test.
- *Waiting.* `no_task_leaks` says that it reports what started in the scope; a thread that starts
  during the grace, after the scope, is reported too (`StartWork`).
- *Records.* A thread that outlives its run may write the record of a call twice or
  with parent 0, when its end falls between two steps of the move. `late` says so, and
  the strict half of `EndedCallsAreWritten` is for `~late`.
- *Golden files.* Two processes that update fields of one JSON file lose one of
  the fields. A crash between the truncation and the write leaves an empty golden. A
  scrubber that is not idempotent never settles: `Scrub` is idempotent here. `GoldenSettles` is of
  one process and of updates that ended, and promises nothing of these three.


## 6. What is not modelled, and why

- **Pure functions without state**: literals, relations and comparisons, ready-made
  forms, the parser and the matcher of portable patterns, the types of typed
  generators, the specs that ship with the history checks. Their laws are those of
  functions over large domains, and tests with random values reach them better.
- **Codecs**: tokens, the text of store files, the JSON of details. The verdict on a
  file and the bytes of a fuzzer are modelled; the formats are not.
- **Measuring and driving**: benchmarks depend on the platform's clock and on
  allocation; the conformance driver is test code that ships with the package;
  documents and tools have no state.
- **Inside modelled components**: the distribution of random draws, the names and
  sentences of reports, the choices that a mutation of a campaign makes, in a run or
  a campaign what a shrink finds, which candidates a pass of the shrinker makes
  from a case, the platforms on which a file has no mode bits, a thread that cannot
  be started.


## 7. What is left

- Theorems that the models are ready for: what a write leaves and the settling of a golden file in
  `Files`, the frontier of a violated search, and the choices of floats and sequences.
- The passes of the shrinker over the choices of `Cases`, which would give `Passes` its
  candidates, and the mutations of a campaign beside them.
- A composition of `Steps` with `Scheduler`, so that a step of a task is a
  release.
- The portable patterns: the matcher against a definition of what a pattern
  means.
