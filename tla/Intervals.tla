------------------------------ MODULE Intervals ------------------------------
(***************************************************************************)
(* The history of a log of timed calls (_history/interval.py).             *)
(*                                                                         *)
(* from_intervals refuses the first entry that breaks a rule, and then     *)
(* makes the calls of the history in the order of the moments.  An entry   *)
(* has a client, a start, and an end and a kind unless it is pending.      *)
(***************************************************************************)
EXTENDS History, FiniteSetsExt, SequencesExt

CONSTANTS Pending,     \* the end and the kind of an entry without a completion
          Logs         \* the logs that a caller passes

ASSUME LogsAssumption ==
  /\ Pending \notin Int
  /\ Logs \subseteq Seq([client : Clients, start : Int, end : Int \cup {Pending},
                         kind : STRING \cup {Pending}])

VARIABLES log,         \* the entries
          moments,     \* the moments that are left
          calls,       \* the call of the history of each entry, or NoCall
          refused      \* the entry that breaks a rule, or 0

logVars == <<log, moments, calls, refused>>

\* _overlap
Overlap(a, b) == /\ a.end = Pending \/ b.start <= a.end
                 /\ b.end = Pending \/ a.start <= b.end

\* _refusal: the rules of an entry against the earlier ones of its client.
Refuses(i) ==
  LET e == log[i]
  IN  \/ e.kind # Pending /\ e.kind \notin Recording!Endings
      \/ (e.kind = Pending) # (e.end = Pending)
      \/ e.end # Pending /\ e.end < e.start
      \/ \E j \in 1 .. i - 1 : log[j].client = e.client /\ Overlap(log[j], e)

Broken == {i \in DOMAIN log : Refuses(i)}

\* MUTANT: at one time a completion comes before an invocation.
EndsComeFirst(m, n) ==
  \/ m.time < n.time
  \/ m.time = n.time /\ m.phase > n.phase
  \/ m.time = n.time /\ m.phase = n.phase /\ m.entry < n.entry

\* The order of the moments: by time, then the invocations, then by entry.
Before(m, n) ==
  \/ m.time < n.time
  \/ m.time = n.time /\ m.phase < n.phase
  \/ m.time = n.time /\ m.phase = n.phase /\ m.entry < n.entry

Moments(entries) ==
  {[time |-> entries[i].start, phase |-> 0, entry |-> i] : i \in DOMAIN entries}
  \cup {[time |-> entries[i].end, phase |-> 1, entry |-> i] :
          i \in {j \in DOMAIN entries : entries[j].end # Pending}}

LogInit ==
  /\ log \in Logs /\ moments = {} /\ refused = 0
  /\ calls = [i \in DOMAIN log |-> NoCall]

Refuse ==
  /\ refused = 0 /\ events = <<>> /\ moments = {}
  /\ Broken # {}
  /\ refused' = Min(Broken)
  /\ UNCHANGED <<log, moments, calls>> /\ UNCHANGED vars

Sort ==
  /\ refused = 0 /\ events = <<>> /\ moments = {}
  /\ Broken = {}
  /\ moments' = Moments(log)
  /\ UNCHANGED <<log, calls, refused>> /\ UNCHANGED vars

\* The order in which moments.sort() leaves them is the order in which they are played.
ComesFirst(m) == m \in moments /\ \A n \in moments \ {m} : Before(m, n)

\* A moment is a call of the history, which raises if the history refuses it.
Play ==
  \E m \in moments :
    /\ ComesFirst(m)
    /\ \/ /\ m.phase = 0
          /\ Invoke(log[m.entry].client)
          /\ calls' = [calls EXCEPT ![m.entry] = Len(events) + 1]
       \/ /\ m.phase = 1
          /\ Complete(calls[m.entry], log[m.entry].kind)
          /\ UNCHANGED calls
    /\ moments' = moments \ {m}
    /\ UNCHANGED <<log, refused>>

LogNext == Refuse \/ Sort \/ Play

LogSpec == Init /\ LogInit /\ [][LogNext]_<<vars, logVars>>

-----------------------------------------------------------------------------
(* Properties *)

PlaceOf(i, kinds) == {p \in DOMAIN events : events[p].call = calls[i] /\ events[p].kind \in kinds}

\* The history refuses no call of a log that from_intervals accepts, not even of a
\* client that goes on after an unknown outcome.
LogIsPlayed ==
  \A m \in moments :
    ComesFirst(m) =>
      IF m.phase = 0 THEN open[log[m.entry].client] = NoCall
      ELSE calls[m.entry] # NoCall /\ open[log[m.entry].client] = calls[m.entry]

\* A completion precedes an invocation in the history exactly when the one interval
\* ends before the other starts: two calls that share an instant stay concurrent.
OrderOfTheClock ==
  \A i, j \in DOMAIN log :
    calls[i] # NoCall /\ calls[j] # NoCall /\ moments = {} /\ log[i].end # Pending =>
      ((\E p \in PlaceOf(i, Recording!Endings) : p < calls[j]) <=> log[i].end < log[j].start)

IntervalsKeepTheirOrder == LogIsPlayed /\ OrderOfTheClock
=============================================================================
