------------------------------- MODULE History -------------------------------
(***************************************************************************)
(* The recording of a history (_history/history.py).                       *)
(*                                                                         *)
(* invoke and the completions of a Call run under one lock, so each is a   *)
(* step.  Clients call from any thread, and a test may keep a Call and     *)
(* complete it again, or complete it after its client went on.  Beside the *)
(* log of events the history keeps what invoke and _complete decide from:  *)
(* the open call and the process of each client, and a count.              *)
(*                                                                         *)
(* An operation, its arguments and its keys are left out; a call that is   *)
(* refused raises and records nothing.                                     *)
(***************************************************************************)
EXTENDS Integers, Sequences

CONSTANTS
  Clients,
  MaxEvents     \* bound: the events of a history

ASSUME HistoryAssumption == MaxEvents \in Nat

VARIABLES
  events,       \* the events in recording order
  open,         \* the index of the open call of each client, or NoCall
  process,      \* the process of each client, or NoProcess
  processes     \* the number of processes so far

vars == <<events, open, process, processes>>

Recording == INSTANCE Recording

NoCall    == 0
NoProcess == -1

ProcessFor(c) == IF process[c] = NoProcess THEN processes ELSE process[c]

\* invoke, for a client without an open call.
Invoke(c) ==
  /\ Len(events) < MaxEvents
  /\ open[c] = NoCall
  /\ processes' = IF process[c] = NoProcess THEN processes + 1 ELSE processes
  /\ process' = [process EXCEPT ![c] = ProcessFor(c)]
  /\ events' = Append(events, Recording!Invocation(Len(events) + 1, c, ProcessFor(c)))
  /\ open' = [open EXCEPT ![c] = Len(events) + 1]

\* MUTANT: a completion is refused only when its client has no call open.
CompleteSomeCall(i, kind) ==
  /\ Len(events) < MaxEvents
  /\ Recording!Invokes(i)
  /\ LET c == events[i].client
     IN  /\ open[c] # NoCall
         /\ open' = [open EXCEPT ![c] = NoCall]
         /\ process' = [process EXCEPT ![c] = IF kind = "unknown" THEN NoProcess ELSE @]
  /\ events' = Append(events, Recording!Completion(kind, events[i]))
  /\ UNCHANGED processes

\* MUTANT: the client keeps the process of a call that ended as unknown.
CompleteOnTheSameProcess(i, kind) ==
  /\ Len(events) < MaxEvents
  /\ Recording!Invokes(i)
  /\ LET c == events[i].client
     IN  /\ open[c] = i
         /\ open' = [open EXCEPT ![c] = NoCall]
         /\ UNCHANGED process
  /\ events' = Append(events, Recording!Completion(kind, events[i]))
  /\ UNCHANGED processes

\* _complete, for the open call of its client.  i is the call of the Call.
Complete(i, kind) ==
  /\ Len(events) < MaxEvents
  /\ Recording!Invokes(i)
  /\ LET c == events[i].client
     IN  /\ open[c] = i
         /\ open' = [open EXCEPT ![c] = NoCall]
         /\ process' = [process EXCEPT ![c] = IF kind = "unknown" THEN NoProcess ELSE @]
  /\ events' = Append(events, Recording!Completion(kind, events[i]))
  /\ UNCHANGED processes

Init ==
  /\ events = <<>>
  /\ open = [c \in Clients |-> NoCall]
  /\ process = [c \in Clients |-> NoProcess]
  /\ processes = 0

Next == \/ \E c \in Clients : Invoke(c)
        \/ \E i \in DOMAIN events, kind \in Recording!Endings : Complete(i, kind)

Spec == Init /\ [][Next]_vars

-----------------------------------------------------------------------------
(* Properties *)

\* The variables have their types, and every process has made a call.
TypeOK ==
  /\ events \in Seq(Recording!Event)
  /\ open \in [Clients -> Nat]
  /\ process \in [Clients -> Nat \cup {NoProcess}]
  /\ processes \in 0 .. Len(events)
  /\ \A c \in Clients : process[c] < processes

\* The next event of a process after an event: the completion of an invocation, or
\* an invocation after a completion that is not unknown.  So a process has at most
\* one open call, and ends with an unknown one.
ProcessesAreSequential ==
  \A i, j \in DOMAIN events :
    /\ i < j /\ events[i].process = events[j].process
    /\ \A k \in DOMAIN events : i < k /\ k < j => events[k].process # events[i].process
    => /\ Recording!Invokes(i) <=> ~Recording!Invokes(j)
       /\ Recording!Invokes(i) => events[j].call = i
       /\ events[i].kind # "unknown"

\* The dictionaries agree with the log that they summarize.
OpenAgrees ==
  /\ \A c \in Clients : open[c] # NoCall =>
       /\ Recording!OpenCall(open[c])
       /\ events[open[c]].client = c
       /\ events[open[c]].process = process[c]
  /\ \A i \in DOMAIN events : Recording!OpenCall(i) => open[events[i].client] = i

ProcessAgrees ==
  /\ \A c \in Clients : process[c] # NoProcess => Recording!Uses(c, process[c])
  /\ \A i \in DOMAIN events :
       Recording!Lives(events[i].process) => process[events[i].client] = events[i].process
  /\ Recording!IsNext(processes)

\* The invocation i precedes its completion j, on the same process.
Precedes(i, j) ==
  /\ i \in 1 .. j - 1 /\ Recording!Invokes(i)
  /\ events[i].client = events[j].client
  /\ events[i].process = events[j].process

\* Every completion has its invocation, and no two clients share a process.
LogIsSound ==
  /\ \A j \in DOMAIN events :
       IF Recording!Invokes(j) THEN events[j].call = j ELSE Precedes(events[j].call, j)
  /\ \A i, j \in DOMAIN events :
       events[i].process = events[j].process => events[i].client = events[j].client

\* Nothing follows an open call on its process.
OpenCallsAreLast ==
  \A i, j \in DOMAIN events :
    Recording!OpenCall(i) /\ i < j => events[i].process # events[j].process

\* What the code decides from is what the log says, whatever stale calls complete
\* (the inductive invariant of the proofs).
Inductive ==
  /\ TypeOK /\ OpenAgrees /\ ProcessAgrees
  /\ LogIsSound /\ OpenCallsAreLast /\ ProcessesAreSequential

\* The log is a recording: whatever clients and stale calls do, each event is one
\* that the log alone allows.
IsARecording == Recording!Spec
=============================================================================
