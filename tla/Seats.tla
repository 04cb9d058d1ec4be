-------------------------------- MODULE Seats --------------------------------
(***************************************************************************)
(* The seats of a test, the verdicts that they receive, their cleanups and *)
(* the end of the test (seat.py, _matcher/verdict.py, seat.py, body.py,    *)
(* cleanup.py, fault.py, pytest_plugin.py).                                *)
(*                                                                         *)
(* The main thread runs the test, one body of an assertion in it, and the  *)
(* hook of the plugin; an other thread uses the seats at any time.  The    *)
(* message of a failure is the number of its call.                         *)
(***************************************************************************)
EXTENDS Naturals, Sequences, SequencesExt, FiniteSets

CONSTANTS MaxSeatCalls, MaxFns      \* bounds of the calls, and of the cleanups

VARIABLES switch,      \* whether the switch of recording has a defined value
          phase,       \* where the main thread is
          fns,         \* the cleanups that each seat keeps, the last one last
          running,     \* the cleanup that the main thread runs, or 0
          closed,      \* whether the cleanups of the body are closed
          kept,        \* the failures that each seat keeps, in order
          fatal,       \* the first failure of the aborting surface of the recorder, or 0
          inner,       \* how the body ended: "none", "error"
          ending,      \* how the test ended: "none", "returned", "raised", "skipped"
          result,      \* what pytest reports, and the failures that flush raised
          count,       \* the calls so far
          other,       \* whether the other thread runs
          made, ran,   \* the cleanups that were registered, and those that ran, in order
          seen         \* the failing calls of the main thread that a report owes

seatVars == <<switch, phase, fns, running, closed, kept, fatal, inner, ending, result,
              count, other, made, ran, seen>>

SeatIds == {"first", "second", "standard", "recorder", "body"}
Collectors == {"first", "second"}
Class(s) == IF s \in Collectors THEN "collector" ELSE s
Verdicts == {"pass", "fail", "fault", "skip"}
CallModes == {"fatal", "soft"}

\* What fail, record, report_fault and skip of a seat do: raise, keep the failure, keep
\* it as the fatal one, end the body, or nothing.
Fails(s)   == IF s = "recorder" THEN "fatal" ELSE IF s = "body" THEN "end" ELSE "raise"
Records(s) == IF s = "standard" THEN "raise" ELSE "keep"
TakesFaults(s) == s \in {"recorder", "body"}
TakesSkips(s)  == Class(s) \in {"collector", "standard"}

\* Running.failed, faulted, passed and skipped_run, with the check of the switch first.
End(s) == IF TakesFaults(s) THEN Fails(s) ELSE "raise"
EffectOf(s, mode, verdict) ==
  IF ~switch \/ verdict = "fault" THEN End(s)
  ELSE IF verdict = "fail" THEN (IF mode = "soft" THEN Records(s) ELSE Fails(s))
  ELSE IF verdict = "skip" /\ TakesSkips(s) THEN "skip"
  ELSE "none"

SeatsInit ==
  /\ switch \in BOOLEAN
  /\ phase = "test" /\ running = 0 /\ closed = FALSE /\ fatal = 0
  /\ fns = [s \in SeatIds |-> <<>>] /\ kept = [s \in SeatIds |-> <<>>]
  /\ inner = "none" /\ ending = "none" /\ result = [verdict |-> "none", failures |-> <<>>]
  /\ count = 0 /\ other = TRUE /\ made = <<>> /\ ran = <<>> /\ seen = {}

InTest == phase = "test" \/ phase = "body"
InFn   == running # 0
Usable(s) == s = "body" => phase \in {"body", "finish"}

\* Recorder.fail, Recorder.record, Collector.record and Body.record; the fail of a body
\* records too.  A raise keeps nothing.
Keep(s, effect) ==
  /\ kept' = IF effect \in {"keep", "end"} THEN [kept EXCEPT ![s] = Append(@, count')] ELSE kept
  /\ fatal' = IF effect = "fatal" /\ fatal = 0 THEN count' ELSE fatal

\* A function of the cleanups of a collector that raises is a failure of the collector
\* (_released), one of a body its error (finish).
FnRaises ==
  IF phase = "finish"
  THEN /\ inner' = "error" /\ UNCHANGED kept
  ELSE /\ kept' = [kept EXCEPT ![made[running].seat] = Append(@, count')]
       /\ UNCHANGED inner

\* The failures that the result of the test owes a reader.
Owes(s) == phase # "recorder" /\ (Class(s) = "collector" \/ s = "standard")

\* What the effect of a call does to the main thread.
Goes(s, effect) ==
  /\ effect \in {"none", "keep", "fatal"} /\ Keep(s, effect)
  /\ UNCHANGED <<phase, running, inner, ending, ran>>

\* Ended, which run_on and finish suppress.
EndsBody(s, effect) ==
  /\ effect = "end" /\ Keep(s, effect)
  /\ phase' = "finish" /\ running' = 0
  /\ ran' = IF InFn THEN Append(ran, running) ELSE ran
  /\ UNCHANGED <<inner, ending>>

RaisesInFn(effect) ==
  /\ effect \in {"raise", "skip"} /\ InFn
  /\ FnRaises /\ running' = 0 /\ ran' = Append(ran, running)
  /\ UNCHANGED <<phase, ending, fatal>>

RaisesInBody(effect) ==
  /\ effect \in {"raise", "skip"} /\ ~InFn /\ phase = "body"
  /\ phase' = "finish" /\ inner' = IF effect = "skip" THEN "skip" ELSE "error"
  /\ UNCHANGED <<running, ending, kept, fatal, ran>>

RaisesInTest(effect) ==
  /\ effect \in {"raise", "skip"} /\ ~InFn /\ phase = "test"
  /\ phase' = "first" /\ ending' = IF effect = "skip" THEN "skipped" ELSE "raised"
  /\ UNCHANGED <<running, inner, kept, fatal, ran>>

\* The main thread makes a call of an assertion on a seat.
CallOnMain(s, mode, verdict) ==
  /\ count < MaxSeatCalls /\ (InTest \/ InFn) /\ Usable(s)
  /\ count' = count + 1
  /\ LET effect == EffectOf(s, mode, verdict)
     IN  /\ seen' = IF effect \in {"raise", "keep"} /\ Owes(s) THEN seen \cup {count'} ELSE seen
         /\ \/ Goes(s, effect) \/ EndsBody(s, effect)
            \/ RaisesInFn(effect) \/ RaisesInBody(effect) \/ RaisesInTest(effect)
  /\ UNCHANGED <<switch, fns, closed, result, other, made>>

\* The other thread makes a call; an exception ends the thread and nothing else.
CallOnOther(s, mode, verdict) ==
  /\ count < MaxSeatCalls /\ other /\ Usable(s) /\ phase # "done"
  /\ count' = count + 1
  /\ LET effect == EffectOf(s, mode, verdict)
     IN  Keep(s, effect) /\ other' = (effect \in {"none", "keep", "fatal"})
  /\ UNCHANGED <<switch, phase, fns, running, closed, inner, ending, result, made, ran, seen>>

\* The stages at which the cleanups of a seat run, and whether they still do.
Stage(s) == IF s = "body" THEN "finish" ELSE s
Order == <<"test", "first", "second", "flush", "recorder", "done">>
At(p) == CHOOSE i \in DOMAIN Order : Order[i] = p
IsOver(s) == IF s = "body" THEN closed
           ELSE ~InTest /\ phase # "finish" /\ At(phase) > At(s)
HasBegun(s) == IsOver(s) \/ phase = Stage(s)

\* Cleanups.add and Body.cleanup: once the cleanups of a body are closed, its caller
\* runs the function at once.
Register(s) ==
  /\ Len(made) < MaxFns /\ s # "standard" /\ phase # "done"
  /\ (InTest \/ InFn \/ other) /\ (Usable(s) \/ (s = "body" /\ closed))
  /\ LET fn == Len(made) + 1
     IN  /\ made' = Append(made, [seat |-> s, over |-> IsOver(s), begun |-> HasBegun(s)])
         /\ IF s = "body" /\ closed
            THEN ran' = Append(ran, fn) /\ UNCHANGED fns
            ELSE fns' = [fns EXCEPT ![s] = Append(@, fn)] /\ UNCHANGED ran
  /\ UNCHANGED <<switch, phase, running, closed, kept, fatal, inner, ending, result, count,
                 other, seen>>

\* An assertion runs a body on a seat of its own, once in the test.
EnterBody ==
  /\ phase = "test" /\ ~closed
  /\ phase' = "body"
  /\ UNCHANGED <<switch, fns, running, closed, kept, fatal, inner, ending, result, count,
                 other, made, ran, seen>>

\* The body, or the test, returns or raises.
LeaveBody ==
  /\ phase = "body"
  /\ phase' = "finish" /\ inner' \in {"none", "error"}
  /\ UNCHANGED <<switch, fns, running, closed, kept, fatal, ending, result, count, other,
                 made, ran, seen>>

LeaveTest ==
  /\ phase = "test"
  /\ phase' = "first" /\ ending' \in {"returned", "raised"}
  /\ UNCHANGED <<switch, fns, running, closed, kept, fatal, inner, result, count, other,
                 made, ran, seen>>

\* MUTANT: the first registered function runs first.
TakeFirst(stack) == [fn |-> Head(stack), rest |-> Tail(stack)]

\* fns.pop()
Take(stack) == [fn |-> Last(stack), rest |-> Front(stack)]

Draining == phase \in {"finish", "first", "second", "recorder"}
Drained  == IF phase = "finish" THEN "body" ELSE phase

\* Cleanups._drain: the next function, and its end.
NextFn ==
  /\ Draining /\ ~InFn /\ fns[Drained] # <<>>
  /\ LET taken == Take(fns[Drained])
     IN  running' = taken.fn /\ fns' = [fns EXCEPT ![Drained] = taken.rest]
  /\ UNCHANGED <<switch, phase, closed, kept, fatal, inner, ending, result, count, other,
                 made, ran, seen>>

EndFn ==
  /\ InFn
  /\ running' = 0 /\ ran' = Append(ran, running)
  /\ \/ UNCHANGED <<kept, inner, count, seen>>
     \/ /\ count < MaxSeatCalls /\ count' = count + 1 /\ FnRaises
        /\ seen' = IF Owes(made[running].seat) THEN seen \cup {count'} ELSE seen
  /\ UNCHANGED <<switch, phase, fns, closed, fatal, ending, result, other, made>>

\* The cleanups of the body end.  The assertion then raises the error of the body, or
\* reports on the first collector that the body failed.
CloseBody ==
  /\ phase = "finish" /\ ~InFn /\ fns["body"] = <<>>
  /\ closed' = TRUE
  /\ LET failed == kept["body"] # <<>>
     IN  /\ \/ /\ inner # "none"
               /\ phase' = "first" /\ ending' = IF inner = "skip" THEN "skipped" ELSE "raised"
               /\ UNCHANGED <<kept, count, seen>>
            \/ /\ inner = "none" /\ ~failed /\ switch
               /\ phase' = "test" /\ UNCHANGED <<kept, count, seen, ending>>
            \/ /\ inner = "none" /\ (failed \/ ~switch)
               /\ count' = count + 1 /\ seen' = seen \cup {count'}
               /\ \/ /\ switch /\ phase' = "test"
                     /\ kept' = [kept EXCEPT !["first"] = Append(@, count')]
                     /\ UNCHANGED ending
                  \/ phase' = "first" /\ ending' = "raised" /\ UNCHANGED kept
  /\ UNCHANGED <<switch, fns, running, fatal, inner, result, other, made, ran>>

\* The hook goes on to the next collector, and then raises what they keep: the flush of
\* a collector gives the result and forgets what it raised.  An exception of the test
\* passes through the hook.
EndDrain ==
  /\ phase \in {"first", "second"} /\ ~InFn /\ fns[phase] = <<>>
  /\ phase' = Order[At(phase) + 1]
  /\ UNCHANGED <<switch, fns, running, closed, kept, fatal, inner, ending, result, count,
                 other, made, ran, seen>>

Flush ==
  /\ phase = "flush"
  /\ phase' = "recorder"
  /\ LET c == IF kept["first"] # <<>> THEN "first" ELSE "second"
     IN  IF ending # "returned"
         THEN /\ result' = [verdict |-> IF ending = "raised" THEN "failed" ELSE "skipped",
                            failures |-> <<>>]
              /\ UNCHANGED kept
         ELSE IF kept[c] = <<>>
         THEN result' = [verdict |-> "passed", failures |-> <<>>] /\ UNCHANGED kept
         ELSE result' = [verdict |-> "failed", failures |-> kept[c]] /\ kept' = [kept EXCEPT ![c] = <<>>]
  /\ UNCHANGED <<switch, fns, running, closed, fatal, inner, ending, count, other, made,
                 ran, seen>>

\* The fixture recorder runs the cleanups of its recorder after the test.
Teardown ==
  /\ phase = "recorder" /\ ~InFn /\ fns["recorder"] = <<>>
  /\ phase' = "done"
  /\ UNCHANGED <<switch, fns, running, closed, kept, fatal, inner, ending, result, count,
                 other, made, ran, seen>>

SeatsNext ==
  \/ \E s \in SeatIds, m \in CallModes, v \in Verdicts : CallOnMain(s, m, v) \/ CallOnOther(s, m, v)
  \/ \E s \in SeatIds : Register(s)
  \/ EnterBody \/ LeaveBody \/ LeaveTest \/ NextFn \/ EndFn \/ CloseBody
  \/ EndDrain \/ Flush \/ Teardown

SeatsSpec == SeatsInit /\ [][SeatsNext]_seatVars

-----------------------------------------------------------------------------
(* Properties *)

Times(f) == Cardinality({i \in DOMAIN ran : ran[i] = f})
RanBefore(f, g) == \E i, j \in DOMAIN ran : ran[i] = f /\ ran[j] = g /\ i < j

\* A cleanup runs at most once.  Once the test is done, each one ran that was registered
\* before its seat looked for the last time, and on a body each one; those that a seat
\* had when it began to run them ran the last first.
CleanupsRun ==
  /\ \A f \in DOMAIN made : Times(f) <= 1
  /\ phase = "done" =>
       \A f \in DOMAIN made : ~made[f].over \/ made[f].seat = "body" => Times(f) = 1
  /\ \A f, g \in DOMAIN made :
       f < g /\ made[f].seat = made[g].seat /\ ~made[g].begun /\ Times(f) = 1 => RanBefore(g, f)

\* A test passes only when no call of it, of its body and of its cleanups failed, and a
\* failure that it reports was seen or raised; a flush reports all failures in their order.
TestTellsFailures ==
  /\ result.verdict = "passed" => seen = {}
  /\ result.verdict = "failed" => ending = "raised" \/ result.failures # <<>>
  /\ result.failures # <<>> => \A i \in 2 .. Len(result.failures) :
                                 result.failures[i - 1] < result.failures[i]

\* Cleanups run once, and a test that passes had no failure.
SeatsKeepTheirWord == CleanupsRun /\ TestTellsFailures
=============================================================================
