------------------------------- MODULE Clients -------------------------------
(***************************************************************************)
(* concurrently (_history/concurrently.py): the driver that runs one body  *)
(* for each client at the same time, over the history in which the bodies  *)
(* record their calls.                                                     *)
(*                                                                         *)
(* The barrier, the condition and each call of the history are one step.   *)
(* A body ends at any time, also with a call open, and a thread that the   *)
(* driver no longer waits for runs on.                                     *)
(***************************************************************************)
EXTENDS History, FiniteSets, FiniteSetsExt

CONSTANT MaxCalls     \* bound: the calls of a body

ASSUME ClientsAssumption == Clients \subseteq Nat /\ IsFiniteSet(Clients) /\ MaxCalls \in Nat

VARIABLES
  thread,       \* where the thread of each client is
  ending,       \* how its body ended: "value", "error", or "no"
  outcomes,     \* the outcome of each client: whether its body finished
  raised,       \* the clients whose body raised before the time passed
  running,      \* the bodies that the driver waits for
  waiting,      \* the driver still waits
  driver,       \* where the driver is
  passed,       \* the time has passed
  stated        \* what concurrently returned or raised

clientVars == <<thread, ending, outcomes, raised, running, waiting, driver, passed, stated>>

\* What the driver has not returned, and the two ways in which it ends.
Nothing == [raises |-> FALSE, client |-> 0, finished |-> {}]
Returned(finished) == [Nothing EXCEPT !.finished = finished]
Raised(client) == [Nothing EXCEPT !.raises = TRUE, !.client = client]

DriverInit ==
  /\ thread = [c \in Clients |-> "none"] /\ ending = [c \in Clients |-> "no"]
  /\ outcomes = [c \in Clients |-> FALSE] /\ raised = {}
  /\ running = Cardinality(Clients) /\ waiting = TRUE
  /\ driver = "starting" /\ passed = FALSE /\ stated = Nothing

\* The driver starts the threads in the order of the clients.
Start ==
  /\ driver = "starting"
  /\ \E c \in Clients :
       /\ thread[c] = "none" /\ \A d \in Clients : thread[d] = "none" => c <= d
       /\ thread' = [thread EXCEPT ![c] = "started"]
  /\ UNCHANGED <<ending, outcomes, raised, running, waiting, driver, passed, stated>>

\* A thread, and the driver after the last start, waits at the barrier.
Arrive(c) ==
  /\ thread[c] = "started"
  /\ thread' = [thread EXCEPT ![c] = "ready"]
  /\ UNCHANGED <<ending, outcomes, raised, running, waiting, driver, passed, stated>>

DriverArrives ==
  /\ driver = "starting" /\ \A c \in Clients : thread[c] # "none"
  /\ driver' = "ready"
  /\ UNCHANGED <<thread, ending, outcomes, raised, running, waiting, passed, stated>>

Release ==
  /\ driver = "ready" /\ \A c \in Clients : thread[c] = "ready"
  /\ thread' = [c \in Clients |-> "body"] /\ driver' = "waiting"
  /\ UNCHANGED <<ending, outcomes, raised, running, waiting, passed, stated>>

\* A body records a call, and completes its open call or another one it kept.
Calls(c) == Cardinality({i \in DOMAIN events : events[i].client = c /\ events[i].kind = "invoke"})
Record(c) ==
  /\ thread[c] = "body"
  /\ \/ Calls(c) < MaxCalls /\ Invoke(c)
     \/ \E i \in DOMAIN events, kind \in Recording!Endings :
          events[i].client = c /\ Complete(i, kind)
  /\ UNCHANGED clientVars

EndBody(c, how) ==
  /\ thread[c] = "body"
  /\ thread' = [thread EXCEPT ![c] = "ended"] /\ ending' = [ending EXCEPT ![c] = how]
  /\ UNCHANGED <<outcomes, raised, running, waiting, driver, passed, stated>>

\* The thread records how its body ended, unless the driver no longer waits.
Publish(c) ==
  /\ thread[c] = "ended"
  /\ thread' = [thread EXCEPT ![c] = IF waiting THEN "published" ELSE "lost"]
  /\ IF waiting
       THEN /\ outcomes' = [outcomes EXCEPT ![c] = ending[c] = "value"]
            /\ raised' = IF ending[c] = "error" THEN raised \cup {c} ELSE raised
            /\ running' = running - 1
       ELSE UNCHANGED <<outcomes, raised, running>>
  /\ UNCHANGED <<ending, waiting, driver, passed, stated>>

Pass ==
  /\ driver = "waiting" /\ ~passed
  /\ passed' = TRUE
  /\ UNCHANGED <<thread, ending, outcomes, raised, running, waiting, driver, stated>>

\* MUTANT: the driver wakes when a body has ended, whichever it is.
WakesAtTheFirst == running < Cardinality(Clients) \/ passed

\* wait_for: every body has ended, or the time has passed.
Wakes == running = 0 \/ passed

\* The driver takes its result under the lock with which it stops to wait.
Return ==
  /\ driver = "waiting" /\ Wakes
  /\ waiting' = FALSE /\ driver' = "returned"
  /\ stated' = IF raised # {} THEN Raised(Min(raised))
               ELSE Returned({c \in Clients : outcomes[c]})
  /\ UNCHANGED <<thread, ending, outcomes, raised, running, passed>>

DriverNext ==
  \/ (Start \/ DriverArrives \/ Release \/ Pass \/ Return) /\ UNCHANGED vars
  \/ \E c \in Clients : (Arrive(c) \/ Publish(c)) /\ UNCHANGED vars
  \/ \E c \in Clients, how \in {"value", "error"} : EndBody(c, how) /\ UNCHANGED vars
  \/ \E c \in Clients : Record(c)

-----------------------------------------------------------------------------
(* Properties *)

Published(how) == {c \in Clients : thread[c] = "published" /\ ending[c] = how}

\* What concurrently returns is what its threads did up to one instant: an error
\* that was published is raised, and the lowest one; without an error the finished
\* clients are those whose body returned; and a client is not finished only when
\* the time has passed.  A thread that ends later changes nothing.
OutcomesTellTheTruth ==
  driver = "returned" =>
    /\ stated = IF Published("error") # {} THEN Raised(Min(Published("error")))
                ELSE Returned(Published("value"))
    /\ ~passed => \A c \in Clients : thread[c] = "published"

-----------------------------------------------------------------------------
(* Why they do *)

ClientsTypeOK ==
  /\ thread \in [Clients -> {"none", "started", "ready", "body", "ended", "published", "lost"}]
  /\ ending \in [Clients -> {"no", "value", "error"}]
  /\ outcomes \in [Clients -> BOOLEAN] /\ raised \subseteq Clients /\ running \in Nat
  /\ waiting \in BOOLEAN /\ passed \in BOOLEAN
  /\ driver \in {"starting", "ready", "waiting", "returned"}

\* The fields that the threads share agree with the endings that were published.
FieldsAgree ==
  /\ \A c \in Clients : outcomes[c] <=> c \in Published("value")
  /\ raised = Published("error")
  /\ running = Cardinality({c \in Clients : thread[c] # "published"})
  /\ waiting <=> driver # "returned"

ClientsInductive == ClientsTypeOK /\ FieldsAgree /\ OutcomesTellTheTruth

ClientsSpec == Init /\ DriverInit /\ [][DriverNext]_<<vars, clientVars>>
=============================================================================
