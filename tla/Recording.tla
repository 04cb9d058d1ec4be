------------------------------ MODULE Recording ------------------------------
(***************************************************************************)
(* What the recording of a history promises to the checks that read it.    *)
(*                                                                         *)
(* The log of events is the whole state.  A client makes its calls on a    *)
(* process, and every process is sequential: it has at most one open call, *)
(* and it ends with a call whose outcome is unknown.  The processes are    *)
(* numbered from 0 in the order of their first invocations.                *)
(***************************************************************************)
EXTENDS Naturals, Sequences

CONSTANT Clients

VARIABLE events   \* the events in recording order

Endings == {"ok", "fail", "unknown"}

\* The index of an event is its position.  The call of a completion is the
\* index of the invocation.
Event == [kind : {"invoke"} \cup Endings, call : Nat, client : Clients, process : Nat]

Invocation(index, client, process) ==
  [kind |-> "invoke", call |-> index, client |-> client, process |-> process]

Completion(kind, invocation) ==
  [kind |-> kind, call |-> invocation.call, client |-> invocation.client,
   process |-> invocation.process]

Invokes(i)   == events[i].kind = "invoke"
Completed(i) == \E j \in DOMAIN events : events[j].kind # "invoke" /\ events[j].call = i
OpenCall(i)  == i \in DOMAIN events /\ Invokes(i) /\ ~Completed(i)

\* The process p has made a call, and none of its calls ended as unknown.
Lives(p) == /\ \E i \in DOMAIN events : events[i].process = p
            /\ \A i \in DOMAIN events : events[i].process = p => events[i].kind # "unknown"

Uses(c, p) == Lives(p) /\ \E i \in DOMAIN events : events[i].process = p /\ events[i].client = c

\* A number that no process has, and the next one.
IsNext(p) == /\ \A i \in DOMAIN events : events[i].process < p
             /\ \A q \in 0 .. p - 1 : \E i \in DOMAIN events : events[i].process = q

Init == events = <<>>

Invoke(c, p) ==
  /\ \A i \in DOMAIN events : OpenCall(i) => events[i].client # c
  /\ \/ Uses(c, p)
     \/ IsNext(p) /\ \A i \in DOMAIN events : ~Uses(c, events[i].process)
  /\ events' = Append(events, Invocation(Len(events) + 1, c, p))

Complete(i, kind) ==
  /\ OpenCall(i)
  /\ events' = Append(events, Completion(kind, events[i]))

\* There are no more processes than events.
Next == \/ \E c \in Clients, p \in 0 .. Len(events) : Invoke(c, p)
        \/ \E i \in DOMAIN events, kind \in Endings : Complete(i, kind)

Spec == Init /\ [][Next]_events
=============================================================================
