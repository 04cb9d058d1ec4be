------------------------------- MODULE Records -------------------------------
(***************************************************************************)
(* The call records of a test (_record/calls.py).                          *)
(*                                                                         *)
(* A call is an entry among the calls of its seat.  The calls of a test    *)
(* or a recorder number it and write its record; the calls of a run of a   *)
(* body keep it until the slot of the call that ran the body takes the     *)
(* run.  Threads share the seats: a step here is what a thread does with   *)
(* a lock, or between two reads without one.  `late' says whether threads  *)
(* of a body may outlive its run.  `told' is the flag observed of an       *)
(* entry, which is read and set without a lock: two threads that outlive   *)
(* their run may both call the observer, and the calls are not counted.    *)
(***************************************************************************)
EXTENDS Naturals, Sequences, SequencesExt, FiniteSets

CONSTANTS MaxEntries, MaxRuns,     \* bounds of the calls and of the runs
          Modes                    \* the seats of tests: [state, observed, late]

ASSUME RecordsAssumption ==
  Modes \subseteq [state : {"off", "keeping", "writing"}, observed : BOOLEAN, late : BOOLEAN]

VARIABLES state,       \* what the calls of the test do: "off", "keeping" or "writing"
          observed,    \* whether the seat of the test has observe_call
          late,        \* whether threads outlive the runs of their bodies
          next,        \* the last number of the calls of the test
          entries,     \* the calls in the order in which they began
          runs,        \* the runs of bodies
          lines,       \* the records that the test or the recorder has
          lock         \* the run whose taker holds the lock of the test, or 0

recordVars == <<state, observed, late, next, entries, runs, lines, lock>>

Test == 0              \* the calls of the test; a run has the calls of its number
Loose == -1            \* the observing calls of a seat whose calls nobody records

IsRecorded == state # "off"

\* Whether the list of the calls of a run is the one that Slot.take takes.
Gathers(r) == runs[r].stage \in {"body", "ended"}

\* _Entry; `in' is the run that made the call, `stage' how far its thread is, and
\* `missed' marks a call that reached a run after the run was taken or was cut.
NewEntry(h, ended) ==
  [call |-> ended, parent |-> 0, run |-> 0, steps |-> IF h = Test THEN 0 ELSE runs[h].steps,
   seq |-> IF h = Test /\ IsRecorded THEN next + 1 ELSE 0,
   home |-> IF h = Test /\ ~IsRecorded THEN Loose ELSE h,
   told |-> IF h = Test /\ observed /\ ended THEN 1 ELSE 0,
   in |-> h, stage |-> IF ended THEN "ended" ELSE "open",
   missed |-> h # Test /\ ~Gathers(h)]

\* Calls.emit: a recorder keeps one record of a number, the sink takes each.
Emit(all, e) ==
  LET line == [seq |-> all[e].seq, entry |-> e, run |-> all[e].run,
               parent |-> IF all[e].parent = 0 THEN 0 ELSE all[all[e].parent].seq]
  IN  IF state = "keeping" /\ \E i \in DOMAIN lines : lines[i].seq = line.seq
      THEN lines ELSE Append(lines, line)

RecordsInit ==
  /\ \E m \in Modes : state = m.state /\ observed = m.observed /\ late = m.late
  /\ next = 0 /\ entries = <<>> /\ runs = <<>> /\ lines = <<>> /\ lock = 0

\* A run whose thread may still make a call; the calls of a test are always open.
Seats == {Test} \cup {r \in DOMAIN runs : runs[r].stage = "body" \/ late}

\* Calls.add of a new entry on the calls of a test or of a run.
Add(h, ended) ==
  /\ Len(entries) < MaxEntries
  /\ h = Test => lock = 0
  /\ entries' = Append(entries, NewEntry(h, ended))
  /\ IF h = Test
     THEN /\ next' = next + (IF IsRecorded THEN 1 ELSE 0)
          /\ lines' = IF ended /\ IsRecorded THEN Emit(entries', Len(entries')) ELSE lines
          /\ UNCHANGED runs
     ELSE /\ runs' = IF Gathers(h) THEN [runs EXCEPT ![h].list = Append(@, Len(entries'))] ELSE runs
          /\ UNCHANGED <<next, lines>>
  /\ UNCHANGED <<state, observed, late, lock>>

\* A call without a body, and Slot.begin.
Call  == \E h \in Seats : Add(h, TRUE)
Begin == \E h \in Seats : Add(h, FALSE)

\* The body of a slot runs on new calls (run).
StartRun(s) ==
  /\ entries[s].stage = "open" /\ Len(runs) < MaxRuns
  /\ runs' = Append(runs, [slot |-> s, list |-> <<>>, steps |-> 0, stage |-> "body",
                           number |-> 0, home |-> Test])
  /\ UNCHANGED <<state, observed, late, next, entries, lines, lock>>

\* The case of the run makes a step of its walk.
Walk(r) ==
  /\ runs[r].stage = "body" /\ runs[r].steps = 0
  /\ runs' = [runs EXCEPT ![r].steps = 1]
  /\ UNCHANGED <<state, observed, late, next, entries, lines, lock>>

Within(r) == {e \in DOMAIN entries : entries[e].in = r}
OpenIn(r) == {e \in Within(r) : entries[e].stage \notin {"ended", "gone"}}

\* cut: the property drops the calls that the case made once its walk stopped.
Kept(list, steps) ==
  LET part[n \in 0 .. Len(list)] ==
        IF n = 0 THEN <<>>
        ELSE IF entries[list[n]].steps < steps THEN Append(part[n - 1], list[n]) ELSE part[n - 1]
  IN  part[Len(list)]

\* The body ends, and the property may have stopped its case at a step.
EndRun(r) ==
  /\ runs[r].stage = "body"
  /\ late \/ OpenIn(r) = {}
  /\ \E stopped \in 1 .. 2 :
       LET list == Kept(runs[r].list, stopped)
       IN  /\ runs' = [runs EXCEPT ![r].stage = "ended", ![r].list = list]
           /\ entries' = [e \in DOMAIN entries |->
                [entries[e] EXCEPT !.missed = @ \/ e \in Range(runs[r].list) \ Range(list)]]
  /\ UNCHANGED <<state, observed, late, next, lines, lock>>

\* Slot.take: the run gives up the list of its calls, with its lock.  A slot takes its
\* runs one after the other.
Swap(r) ==
  /\ runs[r].stage = "ended"
  /\ \A q \in DOMAIN runs : runs[q].slot = runs[r].slot => runs[q].stage \notin {"emptied", "swapped"}
  /\ runs' = [runs EXCEPT ![r].stage = "emptied"]
  /\ UNCHANGED <<state, observed, late, next, entries, lines, lock>>

\* The run gets its number, and the home of the slot is read, both without a lock.
FindHome(r) ==
  /\ runs[r].stage = "emptied"
  /\ runs' = [runs EXCEPT ![r].stage = "swapped", ![r].home = entries[runs[r].slot].home,
       ![r].number = 1 + Cardinality({q \in DOMAIN runs :
                           runs[q].slot = runs[r].slot /\ runs[q].number > 0})]
  /\ UNCHANGED <<state, observed, late, next, entries, lines, lock>>

\* The parent of a call that has none, and the home of the next call of the loop.
Moved(e, r) ==
  [entries[e] EXCEPT !.parent = IF @ = 0 THEN runs[r].slot ELSE @,
                     !.run = IF entries[e].parent = 0 THEN runs[r].number ELSE @,
                     !.home = runs[r].home]

\* _observe: the observer of the slot takes each call that has ended once.
Told(entry) == IF observed /\ entry.call /\ entry.told = 0
               THEN [entry EXCEPT !.told = 1] ELSE entry

\* The next call moves to the calls of a run or to those of nobody.
MoveToRun(r) ==
  /\ runs[r].stage = "swapped" /\ runs[r].list # <<>> /\ runs[r].home # Test
  /\ LET e == Head(runs[r].list)  h == runs[r].home
     IN  IF h = Loose
         THEN /\ entries' = [entries EXCEPT ![e] = Told(Moved(e, r))]
              /\ runs' = [runs EXCEPT ![r].list = Tail(@)]
         ELSE /\ entries' = [entries EXCEPT ![e] =
                   [Moved(e, r) EXCEPT !.steps = runs[h].steps, !.missed = @ \/ ~Gathers(h)]]
              /\ runs' = [runs EXCEPT ![r].list = Tail(@),
                                      ![h].list = IF Gathers(h) THEN Append(@, e) ELSE @]
  /\ UNCHANGED <<state, observed, late, next, lines, lock>>

\* The next call moves to the calls of the test, under their lock: its home, its number
\* and its record are three writes that a thread without the lock can read between.
MoveHome(r) ==
  /\ runs[r].stage = "swapped" /\ runs[r].list # <<>> /\ runs[r].home = Test /\ lock = 0
  /\ entries' = [entries EXCEPT ![Head(runs[r].list)] = Moved(Head(runs[r].list), r)]
  /\ lock' = r
  /\ UNCHANGED <<state, observed, late, next, runs, lines>>

MoveNumber(r) ==
  /\ lock = r /\ entries[Head(runs[r].list)].seq = 0
  /\ next' = next + 1
  /\ entries' = [entries EXCEPT ![Head(runs[r].list)].seq = next + 1]
  /\ UNCHANGED <<state, observed, late, runs, lines, lock>>

MoveRecord(r) ==
  /\ lock = r /\ entries[Head(runs[r].list)].seq # 0
  /\ LET e == Head(runs[r].list)
     IN  /\ lines' = IF entries[e].call THEN Emit(entries, e) ELSE lines
         /\ entries' = [entries EXCEPT ![e] = Told(@)]
  /\ runs' = [runs EXCEPT ![r].list = Tail(@)]
  /\ lock' = 0
  /\ UNCHANGED <<state, observed, late, next>>

\* The loop of Slot.take ends.
Taken(r) ==
  /\ runs[r].stage = "swapped" /\ runs[r].list = <<>> /\ lock # r
  /\ runs' = [runs EXCEPT ![r].stage = "taken"]
  /\ UNCHANGED <<state, observed, late, next, entries, lines, lock>>

\* Slot.write: the call ends, and then its home and its number are read without a lock.
EndSlot(s) ==
  /\ entries[s].stage = "open"
  /\ \A r \in DOMAIN runs : runs[r].slot = s => runs[r].stage = "taken"
  /\ entries' = [entries EXCEPT ![s].call = TRUE, ![s].stage = "called"]
  /\ UNCHANGED <<state, observed, late, next, runs, lines, lock>>

ReadHome(s) ==
  /\ entries[s].stage = "called"
  /\ entries' = [entries EXCEPT ![s].stage = IF entries[s].home = Test THEN "to_test" ELSE "to_run"]
  /\ UNCHANGED <<state, observed, late, next, runs, lines, lock>>

\* MUTANT: the call writes its record whether or not it has a number.
WriteAnyway(s) ==
  /\ entries[s].stage \in {"to_test", "to_run"}
  /\ lock = 0
  /\ lines' = IF IsRecorded THEN Emit(entries, s) ELSE lines
  /\ entries' = [entries EXCEPT ![s] = [Told(@) EXCEPT !.stage = "ended"]]
  /\ UNCHANGED <<state, observed, late, next, runs, lock>>

\* A run that has no sink keeps the line where nobody reads it.
WriteRecord(s) ==
  /\ entries[s].stage \in {"to_test", "to_run"}
  /\ LET writes == entries[s].stage = "to_test" /\ entries[s].seq # 0
     IN  /\ writes => lock = 0
         /\ lines' = IF writes THEN Emit(entries, s) ELSE lines
  /\ entries' = [entries EXCEPT ![s].stage = "ended",
       ![s].told = IF entries[s].home \in {Test, Loose} THEN Told(entries[s]).told ELSE @]
  /\ UNCHANGED <<state, observed, late, next, runs, lock>>

\* An exception passes through the call, which has no record.
Abandon(s) ==
  /\ entries[s].stage = "open"
  /\ \A r \in DOMAIN runs : runs[r].slot = s => runs[r].stage = "taken"
  /\ entries' = [entries EXCEPT ![s].stage = "gone"]
  /\ UNCHANGED <<state, observed, late, next, runs, lines, lock>>

RecordsNext ==
  \/ Call \/ Begin
  \/ \E s \in DOMAIN entries : StartRun(s) \/ EndSlot(s) \/ ReadHome(s) \/ WriteRecord(s) \/ Abandon(s)
  \/ \E r \in DOMAIN runs :
       Walk(r) \/ EndRun(r) \/ Swap(r) \/ FindHome(r) \/ MoveToRun(r) \/ MoveHome(r)
       \/ MoveNumber(r) \/ MoveRecord(r) \/ Taken(r)

RecordsSpec == RecordsInit /\ [][RecordsNext]_recordVars

-----------------------------------------------------------------------------
(* Properties *)

Numbered == {e \in DOMAIN entries : entries[e].seq # 0}
LinesOf(e) == {i \in DOMAIN lines : lines[i].entry = e}

\* Two calls never share a number, no number is left out, and a record has the number
\* of its call, a parent that took its number before, and the run that made the call.
\* (A late thread may add to a call that was cut, which then is a parent without one.)
NumbersAreTrue ==
  /\ {entries[e].seq : e \in Numbered} = 1 .. next
  /\ Cardinality(Numbered) = next
  /\ \A i \in DOMAIN lines :
       LET e == entries[lines[i].entry]
       IN  /\ lines[i].seq = e.seq
           /\ IF e.in = Test THEN lines[i].parent = 0
              ELSE IF late /\ entries[runs[e.in].slot].missed THEN TRUE
              ELSE /\ lines[i].parent \in 1 .. e.seq - 1
                   /\ lines[i].parent = entries[runs[e.in].slot].seq
                   /\ lines[i].run = runs[e.in].number

\* Every run that keeps the call on its way to the test has been taken.
Arrived[e \in DOMAIN entries] ==
  entries[e].in = Test
  \/ (runs[entries[e].in].stage = "taken" /\ Arrived[runs[entries[e].in].slot])
Due == {e \in DOMAIN entries : entries[e].stage = "ended" /\ Arrived[e]
                               /\ ~entries[e].missed}

\* A call that ended has its record and its observation once all runs around it were
\* taken; a call that was cut has none, and no thread that ends late loses a record.
EndedCallsAreWritten ==
  /\ \A e \in Due : /\ IsRecorded => LinesOf(e) # {}
                    /\ observed => entries[e].told = 1
  /\ ~late => \A e \in DOMAIN entries :
                /\ Cardinality(LinesOf(e)) <= 1
                /\ entries[e].missed => LinesOf(e) = {} /\ entries[e].told = 0

\* Every call that ended has one true record.
RecordsAreWhole == NumbersAreTrue /\ EndedCallsAreWritten
=============================================================================
