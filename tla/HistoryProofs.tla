---------------------------- MODULE HistoryProofs ----------------------------
(***************************************************************************)
(* Proofs about what records and checks a history: History, the clients of *)
(* concurrently, the timed logs, the pool of searches, and the search for  *)
(* a linearization.                                                        *)
(***************************************************************************)
EXTENDS Clients, Intervals, Pool, Linearizable, FiniteSetTheorems, SequenceTheorems,
        WellFoundedInduction, TLAPS

-----------------------------------------------------------------------------
(***************************************************************************)
(* History, for any clients and any number of events.                      *)
(***************************************************************************)

(***************************************************************************)
(* The log and its open calls after an event.                              *)
(***************************************************************************)
LEMMA AppendFacts ==
  ASSUME TypeOK, NEW e \in Recording!Event, events' = Append(events, e)
  PROVE  /\ events' \in Seq(Recording!Event)
         /\ Len(events) \in Nat /\ Len(events') = Len(events) + 1
         /\ DOMAIN events = 1 .. Len(events)
         /\ DOMAIN events' = 1 .. Len(events) + 1
         /\ \A i \in 1 .. Len(events) : events'[i] = events[i] /\ events[i] \in Recording!Event
         /\ events'[Len(events) + 1] = e
  BY DEF TypeOK

LEMMA OpenCallsAfter ==
  ASSUME TypeOK, NEW e \in Recording!Event, events' = Append(events, e)
  PROVE  \A i \in 1 .. Len(events) :
           Recording!OpenCall(i)' <=>
             Recording!OpenCall(i) /\ ~ (e.kind # "invoke" /\ e.call = i)
  <1> DEFINE n == Len(events)
  <1>1. /\ n \in Nat /\ DOMAIN events = 1 .. n /\ DOMAIN events' = 1 .. n + 1
        /\ \A i \in 1 .. n : events'[i] = events[i]
        /\ events'[n + 1] = e
    BY AppendFacts
  <1> SUFFICES ASSUME NEW i \in 1 .. n
               PROVE  Recording!OpenCall(i)' <=>
                        Recording!OpenCall(i) /\ ~ (e.kind # "invoke" /\ e.call = i)
    OBVIOUS
  <1>2. Recording!Completed(i)' <=> Recording!Completed(i) \/ (e.kind # "invoke" /\ e.call = i)
    BY <1>1 DEF Recording!Completed
  <1>3. i \in DOMAIN events /\ i \in DOMAIN events' /\ (Recording!Invokes(i)' <=> Recording!Invokes(i))
    BY <1>1 DEF Recording!Invokes
  <1> QED
    BY <1>2, <1>3 DEF Recording!OpenCall

LEMMA InitInductive == Init => Inductive
  <1> SUFFICES ASSUME Init PROVE Inductive
    OBVIOUS
  <1>1. TypeOK
    BY DEF Init, TypeOK, NoCall, NoProcess
  <1>2. DOMAIN events = {}
    BY DEF Init
  <1>3. OpenAgrees /\ ProcessAgrees
    BY <1>2 DEF Init, OpenAgrees, ProcessAgrees, Recording!IsNext, NoCall, NoProcess
  <1>4. LogIsSound /\ OpenCallsAreLast /\ ProcessesAreSequential
    BY <1>2 DEF LogIsSound, OpenCallsAreLast, ProcessesAreSequential
  <1> QED
    BY <1>1, <1>3, <1>4 DEF Inductive

-----------------------------------------------------------------------------
(***************************************************************************)
(* An invocation: on the process of the client, or on a new one.           *)
(***************************************************************************)
LEMMA InvokePreserves ==
  ASSUME Inductive, NEW c \in Clients, Invoke(c)
  PROVE  Inductive'
  <1> USE DEF Inductive
  \* Named as constants, so that a prime leaves them alone.
  <1>n. PICK n \in Nat : n = Len(events)
    BY DEF TypeOK
  <1>p. PICK p \in Nat : p = ProcessFor(c)
    BY DEF TypeOK, ProcessFor, NoProcess
  <1>e. PICK e \in Recording!Event : e = Recording!Invocation(n + 1, c, p)
    <2>1. Recording!Invocation(n + 1, c, p) \in Recording!Event
      BY DEF Recording!Event, Recording!Invocation
    <2> QED
      BY <2>1
  <1>1. TypeOK /\ n = Len(events)
    BY <1>n
  <1>3. e.kind = "invoke" /\ e.call = n + 1 /\ e.client = c /\ e.process = p
    BY <1>e DEF Recording!Invocation
  <1>4. /\ events' = Append(events, e)
        /\ open[c] = NoCall
        /\ open' = [open EXCEPT ![c] = n + 1]
        /\ process' = [process EXCEPT ![c] = p]
        /\ processes' = IF process[c] = NoProcess THEN processes + 1 ELSE processes
    BY <1>n, <1>p, <1>e DEF Invoke
  <1>5. /\ events' \in Seq(Recording!Event) /\ Len(events') = n + 1
        /\ DOMAIN events = 1 .. n /\ DOMAIN events' = 1 .. n + 1
        /\ \A i \in 1 .. n : events'[i] = events[i] /\ events[i] \in Recording!Event
        /\ events'[n + 1] = e
    BY <1>1, <1>4, AppendFacts
  <1>6. \A i \in 1 .. n : Recording!OpenCall(i)' <=> Recording!OpenCall(i)
    BY <1>1, <1>3, <1>4, OpenCallsAfter
  <1>7. \A i \in 1 .. n : Recording!Invokes(i)' <=> Recording!Invokes(i)
    BY <1>5 DEF Recording!Invokes
  <1>8. Recording!Invokes(n + 1)'
    BY <1>3, <1>5 DEF Recording!Invokes
  <1>9. Recording!OpenCall(n + 1)'
    <2>1. ASSUME NEW j \in DOMAIN events', events'[j].kind # "invoke", events'[j].call = n + 1
          PROVE  FALSE
      <3>1. j \in 1 .. n
        BY <2>1, <1>1, <1>3, <1>5
      <3>2. events[j].call \in 1 .. j - 1
        BY <3>1, <2>1, <1>5 DEF LogIsSound, Precedes, Recording!Invokes
      <3> QED
        BY <3>1, <3>2, <2>1, <1>1, <1>5
    <2> QED
      BY <2>1, <1>1, <1>5, <1>8 DEF Recording!OpenCall, Recording!Completed
  \* The process of the client goes on, or nothing was on it before.
  <1>10. \/ process[c] # NoProcess /\ p = process[c] /\ Recording!Uses(c, p)
         \/ process[c] = NoProcess /\ p = processes /\ \A i \in 1 .. n : events[i].process < p
    BY <1>p, <1>5 DEF ProcessFor, ProcessAgrees, Recording!IsNext
  <1>11. \A i \in 1 .. n : events[i].process = p => events[i].client = c
    <2>1. CASE Recording!Uses(c, p)
      BY <2>1, <1>5 DEF LogIsSound, Recording!Uses
    <2>2. CASE \A i \in 1 .. n : events[i].process < p
      BY <2>2, <1>5 DEF Recording!Event
    <2> QED
      BY <1>10, <2>1, <2>2
  <1>12. TypeOK'
    <2>1. open' \in [Clients -> Nat] /\ process' \in [Clients -> Nat \cup {NoProcess}]
      BY <1>1, <1>4 DEF TypeOK
    <2>2. processes' \in 0 .. n + 1 /\ \A d \in Clients : process'[d] < processes'
      BY <1>p, <1>1, <1>4 DEF TypeOK, ProcessFor, NoProcess
    <2> QED
      BY <2>1, <2>2, <1>5 DEF TypeOK
  <1>13. OpenAgrees'
    <2>1. ASSUME NEW d \in Clients, (open[d] # NoCall)'
          PROVE  (/\ Recording!OpenCall(open[d])
                  /\ events[open[d]].client = d
                  /\ events[open[d]].process = process[d])'
      <3>1. CASE d = c
        <4>1. open'[d] = n + 1 /\ process'[d] = p
          BY <3>1, <1>1, <1>4 DEF TypeOK
        <4> QED
          BY <4>1, <3>1, <1>3, <1>5, <1>9 DEF Recording!OpenCall, Recording!Invokes, Recording!Completed
      <3>2. CASE d # c
        <4>1. open'[d] = open[d] /\ process'[d] = process[d]
          BY <3>2, <1>1, <1>4 DEF TypeOK
        <4>2. Recording!OpenCall(open[d]) /\ events[open[d]].client = d
              /\ events[open[d]].process = process[d]
          BY <4>1, <2>1 DEF OpenAgrees
        <4>3. open[d] \in 1 .. n
          BY <4>2, <1>5 DEF Recording!OpenCall
        <4> QED
          BY <4>1, <4>2, <4>3, <1>5, <1>6
      <3> QED
        BY <3>1, <3>2
    <2>2. ASSUME NEW i \in DOMAIN events', Recording!OpenCall(i)'
          PROVE  open'[events'[i].client] = i
      <3>1. CASE i = n + 1
        BY <3>1, <1>1, <1>3, <1>4, <1>5 DEF TypeOK
      <3>2. CASE i \in 1 .. n
        <4>1. open[events[i].client] = i /\ events[i].client \in Clients
          BY <3>2, <2>2, <1>5, <1>6 DEF OpenAgrees, Recording!Event
        <4>2. i # NoCall
          BY <3>2 DEF NoCall
        <4> QED
          BY <4>1, <4>2, <3>2, <1>1, <1>4, <1>5 DEF TypeOK
      <3> QED
        BY <3>1, <3>2, <1>1, <1>5
    <2> QED
      BY <2>1, <2>2 DEF OpenAgrees
  <1>14. \A q \in Nat : q # p => (Recording!Lives(q)' <=> Recording!Lives(q))
    BY <1>1, <1>3, <1>5 DEF Recording!Lives
  <1>15. Recording!Lives(p)'
    <2>1. ASSUME NEW i \in 1 .. n, events[i].process = p PROVE events[i].kind # "unknown"
      <3>1. CASE Recording!Uses(c, p)
        BY <2>1, <3>1, <1>5 DEF Recording!Uses, Recording!Lives
      <3>2. CASE \A j \in 1 .. n : events[j].process < p
        BY <2>1, <3>2
      <3> QED
        BY <3>1, <3>2, <1>10
    <2> QED
      BY <2>1, <1>1, <1>3, <1>5 DEF Recording!Lives
  <1>16. ProcessAgrees'
    <2>1. ASSUME NEW d \in Clients, (process[d] # NoProcess)'
          PROVE  Recording!Uses(d, process[d])'
      <3>1. CASE d = c
        <4>1. process'[d] = p
          BY <3>1, <1>1, <1>4 DEF TypeOK
        <4> QED
          BY <4>1, <3>1, <1>1, <1>3, <1>5, <1>15 DEF Recording!Uses
      <3>2. CASE d # c
        <4>1. process'[d] = process[d] /\ process[d] \in Nat
          BY <3>2, <2>1, <1>1, <1>4 DEF TypeOK
        <4>2. Recording!Uses(d, process[d])
          BY <4>1, <2>1 DEF ProcessAgrees
        <4>3. process[d] # p
          BY <4>2, <3>2, <1>5, <1>11 DEF Recording!Uses
        <4>4. Recording!Lives(process[d])'
          BY <4>1, <4>2, <4>3, <1>14 DEF Recording!Uses
        <4>5. \E i \in 1 .. n : events[i].process = process[d] /\ events[i].client = d
          BY <4>2, <1>5 DEF Recording!Uses
        <4>6. \E i \in DOMAIN events' : events'[i].process = process[d] /\ events'[i].client = d
          BY <4>5, <1>1, <1>5
        <4> QED
          BY <4>1, <4>4, <4>6 DEF Recording!Uses
      <3> QED
        BY <3>1, <3>2
    <2>2. ASSUME NEW i \in DOMAIN events', Recording!Lives(events[i].process)'
          PROVE  (process[events[i].client] = events[i].process)'
      <3>1. CASE i = n + 1
        BY <3>1, <1>1, <1>3, <1>4, <1>5 DEF TypeOK
      <3>2. CASE i \in 1 .. n
        <4>1. events'[i] = events[i] /\ events[i].process \in Nat /\ events[i].client \in Clients
          BY <3>2, <1>5 DEF Recording!Event
        <4>2. CASE events[i].process = p
          BY <4>1, <4>2, <3>2, <1>1, <1>4, <1>11 DEF TypeOK
        <4>3. CASE events[i].process # p
          <5>1. process[events[i].client] = events[i].process
            BY <4>1, <4>3, <3>2, <2>2, <1>5, <1>14 DEF ProcessAgrees
          <5>2. events[i].client # c
            BY <5>1, <4>1, <4>3, <1>10 DEF NoProcess
          <5> QED
            BY <5>1, <5>2, <4>1, <1>1, <1>4 DEF TypeOK
        <4> QED
          BY <4>2, <4>3
      <3> QED
        BY <3>1, <3>2, <1>1, <1>5
    <2>3. Recording!IsNext(processes)'
      <3>1. Recording!IsNext(processes) /\ processes \in Nat
        BY <1>1 DEF ProcessAgrees, TypeOK
      <3>2. ASSUME NEW i \in DOMAIN events' PROVE events'[i].process < processes'
        <4>1. p < processes'
          BY <1>p, <1>1, <1>4 DEF TypeOK, ProcessFor, NoProcess
        <4>2. processes' \in Nat /\ processes <= processes'
          BY <3>1, <1>4
        <4>3. CASE i = n + 1
          BY <4>1, <4>3, <1>3, <1>5
        <4>4. CASE i \in 1 .. n
          BY <4>2, <4>4, <3>1, <1>5 DEF Recording!IsNext, Recording!Event
        <4> QED
          BY <4>3, <4>4, <1>1, <1>5
      <3>3. ASSUME NEW q \in 0 .. processes' - 1
            PROVE  \E i \in DOMAIN events' : events'[i].process = q
        <4>1. CASE q \in 0 .. processes - 1
          <5>1. PICK i \in 1 .. n : events[i].process = q
            BY <4>1, <3>1, <1>5 DEF Recording!IsNext
          <5> QED
            BY <5>1, <1>1, <1>5
        <4>2. CASE q = p
          BY <4>2, <1>1, <1>3, <1>5
        <4>3. q \in 0 .. processes - 1 \/ q = p
          BY <3>1, <1>4, <1>10
        <4> QED
          BY <4>1, <4>2, <4>3
      <3> QED
        BY <3>2, <3>3 DEF Recording!IsNext
    <2> QED
      BY <2>1, <2>2, <2>3 DEF ProcessAgrees
  <1>17. LogIsSound'
    <2>1. ASSUME NEW j \in DOMAIN events'
          PROVE  (IF Recording!Invokes(j) THEN events[j].call = j ELSE Precedes(events[j].call, j))'
      <3>1. CASE j = n + 1
        BY <3>1, <1>3, <1>5, <1>8
      <3>2. CASE j \in 1 .. n
        <4>1. IF Recording!Invokes(j) THEN events[j].call = j ELSE Precedes(events[j].call, j)
          BY <3>2, <1>5 DEF LogIsSound
        <4>2. \A i \in 1 .. j - 1 : Precedes(i, j) => Precedes(i, j)'
          BY <3>2, <1>5, <1>7 DEF Precedes
        <4>3. Precedes(events[j].call, j) => events[j].call \in 1 .. j - 1
          BY DEF Precedes
        <4> QED
          BY <4>1, <4>2, <4>3, <3>2, <1>5, <1>7
      <3> QED
        BY <3>1, <3>2, <1>1, <1>5
    <2>2. ASSUME NEW i \in DOMAIN events', NEW j \in DOMAIN events',
                 events'[i].process = events'[j].process
          PROVE  events'[i].client = events'[j].client
      <3>1. \A k \in 1 .. n + 1 : events'[k].process = p => events'[k].client = c
        BY <1>1, <1>3, <1>5, <1>11
      <3>2. CASE i \in 1 .. n /\ j \in 1 .. n
        BY <3>2, <2>2, <1>5 DEF LogIsSound
      <3>3. CASE i = n + 1 \/ j = n + 1
        BY <3>1, <3>3, <2>2, <1>3, <1>5
      <3> QED
        BY <3>2, <3>3, <1>1, <1>5
    <2> QED
      BY <2>1, <2>2 DEF LogIsSound
  \* The client had no call open, so no open call was on its process.
  <1>18. ASSUME NEW i \in 1 .. n, Recording!OpenCall(i) PROVE events[i].process # p
    <2>1. open[events[i].client] = i /\ i # NoCall
      BY <1>18, <1>1, <1>5 DEF OpenAgrees, NoCall
    <2> QED
      BY <2>1, <1>4, <1>11
  <1>19. OpenCallsAreLast'
    <2> SUFFICES ASSUME NEW i \in DOMAIN events', NEW j \in DOMAIN events',
                        Recording!OpenCall(i)', i < j
                 PROVE  events'[i].process # events'[j].process
      BY DEF OpenCallsAreLast
    <2>1. i \in 1 .. n
      BY <1>1, <1>5
    <2>2. Recording!OpenCall(i) /\ events'[i] = events[i]
      BY <2>1, <1>5, <1>6
    <2>3. CASE j \in 1 .. n
      BY <2>1, <2>2, <2>3, <1>5 DEF OpenCallsAreLast
    <2>4. CASE j = n + 1
      BY <2>1, <2>2, <2>4, <1>3, <1>5, <1>18
    <2> QED
      BY <2>3, <2>4, <1>1, <1>5
  <1>20. ProcessesAreSequential'
    <2> SUFFICES ASSUME NEW i \in DOMAIN events', NEW j \in DOMAIN events', i < j,
                        events'[i].process = events'[j].process,
                        \A k \in DOMAIN events' :
                           i < k /\ k < j => events'[k].process # events'[i].process
                 PROVE  /\ Recording!Invokes(i)' <=> ~Recording!Invokes(j)'
                        /\ Recording!Invokes(i)' => events'[j].call = i
                        /\ events'[i].kind # "unknown"
      BY DEF ProcessesAreSequential
    <2>1. i \in 1 .. n /\ events'[i] = events[i]
      BY <1>1, <1>5
    <2>2. CASE j \in 1 .. n
      <3>1. \A k \in DOMAIN events : i < k /\ k < j => events[k].process # events[i].process
        BY <2>1, <2>2, <1>1, <1>5
      <3> QED
        BY <3>1, <2>1, <2>2, <1>5, <1>7 DEF ProcessesAreSequential
    <2>3. CASE j = n + 1
      <3>1. events[i].process = p
        BY <2>1, <2>3, <1>3, <1>5
      <3>2. events[i].kind # "unknown"
        BY <3>1, <2>1, <1>5, <1>15 DEF Recording!Lives
      <3>3. ~Recording!Invokes(i)
        <4> SUFFICES ASSUME Recording!Invokes(i) PROVE FALSE
          OBVIOUS
        <4>1. Recording!Completed(i)
          BY <3>1, <2>1, <1>5, <1>18 DEF Recording!OpenCall
        <4>2. PICK k \in DOMAIN events : events[k].kind # "invoke" /\ events[k].call = i
          BY <4>1 DEF Recording!Completed
        <4>3. i < k /\ events[i].process = events[k].process
          BY <4>2, <2>1, <1>1, <1>5 DEF LogIsSound, Precedes, Recording!Invokes
        <4>4. k \in 1 .. n /\ k < j
          BY <2>3, <1>1, <1>5
        <4> QED
          BY <4>3, <4>4, <2>1, <1>1, <1>5
      <3> QED
        BY <3>2, <3>3, <2>1, <2>3, <1>5, <1>7, <1>8
    <2> QED
      BY <2>2, <2>3, <1>1, <1>5
  <1> QED
    BY <1>12, <1>13, <1>16, <1>17, <1>19, <1>20

-----------------------------------------------------------------------------
(***************************************************************************)
(* A completion: of the open call of its client, which is the last event   *)
(* of its process.                                                         *)
(***************************************************************************)
LEMMA CompletePreserves ==
  ASSUME Inductive, NEW i \in DOMAIN events, NEW kind \in Recording!Endings, Complete(i, kind)
  PROVE  Inductive'
  <1> USE DEF Inductive
  <1>n. PICK n \in Nat : n = Len(events)
    BY DEF TypeOK
  <1>0. i \in 1 .. n /\ events[i] \in Recording!Event
    BY <1>n DEF TypeOK
  <1>c. PICK c \in Clients : c = events[i].client
    BY <1>0 DEF Recording!Event
  <1>p. PICK p \in Nat : p = events[i].process
    BY <1>0 DEF Recording!Event
  <1>e. PICK e \in Recording!Event : e = Recording!Completion(kind, events[i])
    <2>1. Recording!Completion(kind, events[i]) \in Recording!Event
      BY <1>0 DEF Recording!Event, Recording!Completion
    <2> QED
      BY <2>1
  <1>1. TypeOK /\ n = Len(events)
    BY <1>n
  <1>2. /\ open[c] = i /\ process[c] = p /\ Recording!OpenCall(i) /\ events[i].call = i
    <2>1. open[c] = i /\ Recording!Invokes(i)
      BY <1>c DEF Complete
    <2>2. i # NoCall
      BY <1>0 DEF NoCall
    <2>3. Recording!OpenCall(i) /\ process[c] = events[i].process
      BY <2>1, <2>2 DEF OpenAgrees
    <2>4. events[i].call = i
      BY <2>1 DEF LogIsSound
    <2> QED
      BY <2>1, <2>3, <2>4, <1>p
  <1>3. e.kind = kind /\ e.kind # "invoke" /\ e.call = i /\ e.client = c /\ e.process = p
    BY <1>e, <1>c, <1>p, <1>2 DEF Recording!Completion, Recording!Endings
  <1>4. /\ events' = Append(events, e)
        /\ open' = [open EXCEPT ![c] = NoCall]
        /\ process' = [process EXCEPT ![c] = IF kind = "unknown" THEN NoProcess ELSE p]
        /\ processes' = processes
    BY <1>e, <1>c, <1>2 DEF Complete
  <1>5. /\ events' \in Seq(Recording!Event) /\ Len(events') = n + 1
        /\ DOMAIN events = 1 .. n /\ DOMAIN events' = 1 .. n + 1
        /\ \A j \in 1 .. n : events'[j] = events[j] /\ events[j] \in Recording!Event
        /\ events'[n + 1] = e
    BY <1>1, <1>4, AppendFacts
  <1>6. \A j \in 1 .. n : Recording!OpenCall(j)' <=> Recording!OpenCall(j) /\ j # i
    BY <1>1, <1>3, <1>4, OpenCallsAfter
  <1>7. \A j \in 1 .. n : Recording!Invokes(j)' <=> Recording!Invokes(j)
    BY <1>5 DEF Recording!Invokes
  <1>8. ~Recording!Invokes(n + 1)'
    BY <1>3, <1>5, <1>1 DEF Recording!Invokes
  <1>9. TypeOK'
    <2>1. open' \in [Clients -> Nat] /\ process' \in [Clients -> Nat \cup {NoProcess}]
      BY <1>1, <1>4 DEF TypeOK, NoCall
    <2>2. processes' \in 0 .. n + 1 /\ \A d \in Clients : process'[d] < processes'
      <3>1. \A d \in Clients : process'[d] = process[d] \/ process'[d] = NoProcess
        BY <1>1, <1>2, <1>4 DEF TypeOK
      <3> QED
        BY <3>1, <1>1, <1>4 DEF TypeOK, NoProcess
    <2> QED
      BY <2>1, <2>2, <1>5 DEF TypeOK
  <1>10. \A j \in 1 .. n : events[j].process = p => events[j].client = c
    BY <1>c, <1>p, <1>0, <1>5 DEF LogIsSound
  <1>11. OpenAgrees'
    <2>1. ASSUME NEW d \in Clients, (open[d] # NoCall)'
          PROVE  (/\ Recording!OpenCall(open[d])
                  /\ events[open[d]].client = d
                  /\ events[open[d]].process = process[d])'
      <3>1. d # c /\ open'[d] = open[d] /\ process'[d] = process[d]
        BY <2>1, <1>1, <1>4 DEF TypeOK
      <3>2. Recording!OpenCall(open[d]) /\ events[open[d]].client = d
            /\ events[open[d]].process = process[d]
        BY <3>1, <2>1 DEF OpenAgrees
      <3>3. open[d] \in 1 .. n /\ open[d] # i
        BY <3>1, <3>2, <1>c, <1>5 DEF Recording!OpenCall
      <3> QED
        BY <3>1, <3>2, <3>3, <1>5, <1>6
    <2>2. ASSUME NEW j \in DOMAIN events', Recording!OpenCall(j)'
          PROVE  open'[events'[j].client] = j
      <3>1. j \in 1 .. n
        BY <2>2, <1>5, <1>8 DEF Recording!OpenCall
      <3>2. Recording!OpenCall(j) /\ j # i /\ events'[j] = events[j] /\ events[j].client \in Clients
        BY <3>1, <2>2, <1>5, <1>6 DEF Recording!Event
      <3>3. open[events[j].client] = j
        BY <3>1, <3>2, <1>5 DEF OpenAgrees
      <3>4. events[j].client # c
        BY <3>2, <3>3, <1>2
      <3> QED
        BY <3>2, <3>3, <3>4, <1>1, <1>4 DEF TypeOK
    <2> QED
      BY <2>1, <2>2 DEF OpenAgrees
  \* What the completion changes of the life of the processes.
  <1>12. \A q \in Nat : q # p => (Recording!Lives(q)' <=> Recording!Lives(q))
    BY <1>1, <1>3, <1>5 DEF Recording!Lives
  <1>13. Recording!Lives(p)' <=> kind # "unknown"
    <2>1. Recording!Lives(p)
      BY <1>2, <1>c, <1>p DEF ProcessAgrees, Recording!Uses, NoProcess
    <2> QED
      BY <2>1, <1>1, <1>3, <1>5 DEF Recording!Lives
  <1>14. ProcessAgrees'
    <2>1. ASSUME NEW d \in Clients, (process[d] # NoProcess)'
          PROVE  Recording!Uses(d, process[d])'
      <3>1. process'[d] = process[d] /\ process[d] \in Nat /\ (d = c => kind # "unknown" /\ process[d] = p)
        BY <2>1, <1>1, <1>2, <1>4 DEF TypeOK
      <3>2. Recording!Uses(d, process[d])
        BY <3>1, <2>1 DEF ProcessAgrees
      <3>3. d # c => process[d] # p
        BY <3>2, <1>5, <1>10 DEF Recording!Uses
      <3>4. PICK q \in Nat : q = process[d]
        BY <3>1
      <3>5. Recording!Lives(q)'
        BY <3>1, <3>2, <3>3, <3>4, <1>12, <1>13 DEF Recording!Uses
      <3>6. \E j \in 1 .. n : events[j].process = q /\ events[j].client = d
        BY <3>2, <3>4, <1>5 DEF Recording!Uses
      <3>7. \E j \in DOMAIN events' : events'[j].process = q /\ events'[j].client = d
        BY <3>6, <1>5
      <3> QED
        BY <3>1, <3>4, <3>5, <3>7 DEF Recording!Uses
    <2>2. ASSUME NEW j \in DOMAIN events', Recording!Lives(events[j].process)'
          PROVE  (process[events[j].client] = events[j].process)'
      <3>1. PICK q \in Nat : q = events'[j].process
        BY <1>5 DEF Recording!Event
      <3>2. CASE q = p
        <4>1. kind # "unknown"
          <5>1. Recording!Lives(p)'
            BY <2>2, <3>1, <3>2
          <5> QED
            BY <5>1, <1>13
        <4>2. events'[j].client = c
          <5>1. CASE j = n + 1
            BY <5>1, <1>3, <1>5
          <5>2. CASE j \in 1 .. n
            BY <5>2, <3>1, <3>2, <1>5, <1>10
          <5> QED
            BY <5>1, <5>2, <1>5
        <4> QED
          BY <4>1, <4>2, <3>1, <3>2, <1>1, <1>4 DEF TypeOK
      <3>3. CASE q # p
        <4>0. j \in 1 .. n /\ events'[j] = events[j]
          BY <3>1, <3>3, <1>3, <1>5
        <4>1. j \in 1 .. n /\ events'[j] = events[j] /\ events[j].client \in Clients
          BY <4>0, <1>5 DEF Recording!Event
        <4>2. Recording!Lives(q)
          <5>1. Recording!Lives(q)'
            BY <2>2, <3>1
          <5> QED
            BY <5>1, <3>3, <1>12
        <4>3. process[events[j].client] = q
          BY <4>1, <4>2, <3>1, <1>5 DEF ProcessAgrees
        <4>4. events[j].client # c
          BY <4>3, <3>3, <1>2
        <4> QED
          BY <4>1, <4>3, <4>4, <3>1, <1>1, <1>4 DEF TypeOK
      <3> QED
        BY <3>2, <3>3
    <2>3. Recording!IsNext(processes)'
      <3>1. Recording!IsNext(processes) /\ processes \in Nat
        BY <1>1 DEF ProcessAgrees, TypeOK
      <3>2. \A j \in DOMAIN events' : \E k \in 1 .. n : events'[j].process = events[k].process
        BY <1>0, <1>p, <1>3, <1>5
      <3>3. \A j \in 1 .. n : \E k \in DOMAIN events' : events'[k].process = events[j].process
        BY <1>5
      <3>4. \A j \in DOMAIN events' : events'[j].process < processes
        <4>1. \A k \in 1 .. n : events[k].process < processes
          BY <3>1, <1>5 DEF Recording!IsNext
        <4> QED
          BY <4>1, <3>2
      <3>5. ASSUME NEW q \in 0 .. processes - 1 PROVE \E j \in DOMAIN events' : events'[j].process = q
        <4>1. PICK k \in 1 .. n : events[k].process = q
          BY <3>1, <1>5 DEF Recording!IsNext
        <4> QED
          BY <4>1, <3>3
      <3> QED
        BY <3>4, <3>5, <1>4 DEF Recording!IsNext
    <2> QED
      BY <2>1, <2>2, <2>3 DEF ProcessAgrees
  <1>15. LogIsSound'
    <2>1. ASSUME NEW j \in DOMAIN events'
          PROVE  (IF Recording!Invokes(j) THEN events[j].call = j ELSE Precedes(events[j].call, j))'
      <3>1. CASE j = n + 1
        <4>1. Precedes(i, j)'
          BY <3>1, <1>0, <1>c, <1>p, <1>2, <1>3, <1>5, <1>7 DEF Precedes, Recording!OpenCall
        <4> QED
          BY <3>1, <4>1, <1>3, <1>5, <1>8
      <3>2. CASE j \in 1 .. n
        <4>1. IF Recording!Invokes(j) THEN events[j].call = j ELSE Precedes(events[j].call, j)
          BY <3>2, <1>5 DEF LogIsSound
        <4>2. \A k \in 1 .. j - 1 : Precedes(k, j) => Precedes(k, j)'
          BY <3>2, <1>5, <1>7 DEF Precedes
        <4>3. Precedes(events[j].call, j) => events[j].call \in 1 .. j - 1
          BY DEF Precedes
        <4> QED
          BY <4>1, <4>2, <4>3, <3>2, <1>5, <1>7
      <3> QED
        BY <3>1, <3>2, <1>5
    <2>2. ASSUME NEW j \in DOMAIN events', NEW k \in DOMAIN events',
                 events'[j].process = events'[k].process
          PROVE  events'[j].client = events'[k].client
      <3>1. \A m \in 1 .. n + 1 : events'[m].process = p => events'[m].client = c
        BY <1>3, <1>5, <1>10
      <3>2. CASE j \in 1 .. n /\ k \in 1 .. n
        BY <3>2, <2>2, <1>5 DEF LogIsSound
      <3>3. CASE j = n + 1 \/ k = n + 1
        BY <3>1, <3>3, <2>2, <1>3, <1>5
      <3> QED
        BY <3>2, <3>3, <1>5
    <2> QED
      BY <2>1, <2>2 DEF LogIsSound
  \* No other open call is on this process, and nothing follows this one.
  <1>16. ASSUME NEW j \in 1 .. n, Recording!OpenCall(j), j # i PROVE events[j].process # p
    <2>1. open[events[j].client] = j
      BY <1>16, <1>5 DEF OpenAgrees
    <2> QED
      BY <2>1, <1>16, <1>2, <1>10
  <1>17. \A j \in 1 .. n : i < j => events[j].process # p
    BY <1>p, <1>2, <1>5 DEF OpenCallsAreLast
  <1>18. OpenCallsAreLast'
    <2> SUFFICES ASSUME NEW j \in DOMAIN events', NEW k \in DOMAIN events',
                        Recording!OpenCall(j)', j < k
                 PROVE  events'[j].process # events'[k].process
      BY DEF OpenCallsAreLast
    <2>1. j \in 1 .. n
      BY <1>5
    <2>2. Recording!OpenCall(j) /\ j # i /\ events'[j] = events[j]
      BY <2>1, <1>5, <1>6
    <2>3. CASE k \in 1 .. n
      BY <2>1, <2>2, <2>3, <1>5 DEF OpenCallsAreLast
    <2>4. CASE k = n + 1
      BY <2>1, <2>2, <2>4, <1>3, <1>5, <1>16
    <2> QED
      BY <2>3, <2>4, <1>5
  <1>19. ProcessesAreSequential'
    <2> SUFFICES ASSUME NEW j \in DOMAIN events', NEW k \in DOMAIN events', j < k,
                        events'[j].process = events'[k].process,
                        \A m \in DOMAIN events' :
                           j < m /\ m < k => events'[m].process # events'[j].process
                 PROVE  /\ Recording!Invokes(j)' <=> ~Recording!Invokes(k)'
                        /\ Recording!Invokes(j)' => events'[k].call = j
                        /\ events'[j].kind # "unknown"
      BY DEF ProcessesAreSequential
    <2>1. j \in 1 .. n /\ events'[j] = events[j]
      BY <1>5
    <2>2. CASE k \in 1 .. n
      <3>1. \A m \in DOMAIN events : j < m /\ m < k => events[m].process # events[j].process
        BY <2>1, <2>2, <1>5
      <3> QED
        BY <3>1, <2>1, <2>2, <1>5, <1>7 DEF ProcessesAreSequential
    <2>3. CASE k = n + 1
      <3>1. events[j].process = p
        BY <2>1, <2>3, <1>3, <1>5
      <3>2. ~(j < i)
        BY <3>1, <2>3, <1>0, <1>p, <1>5
      <3>3. j = i
        BY <3>1, <3>2, <2>1, <1>0, <1>17
      <3>4. Recording!Invokes(i) /\ events[i].kind = "invoke"
        BY <1>2 DEF Recording!OpenCall, Recording!Invokes
      <3> QED
        BY <3>3, <3>4, <2>1, <2>3, <1>3, <1>5, <1>7, <1>8
    <2> QED
      BY <2>2, <2>3, <1>5
  <1> QED
    BY <1>9, <1>11, <1>14, <1>15, <1>18, <1>19

-----------------------------------------------------------------------------
(***************************************************************************)
(* The theorems.                                                           *)
(***************************************************************************)

\* The dictionaries from which invoke and _complete decide always agree with the log:
\* this is what lets them answer without reading it.
THEOREM HistoryInvariantHolds == Spec => []Inductive
  <1>1. Init => Inductive
    BY InitInductive
  <1>2. Inductive /\ [Next]_vars => Inductive'
    <2> SUFFICES ASSUME Inductive, [Next]_vars PROVE Inductive'
      OBVIOUS
    <2>1. ASSUME NEW c \in Clients, Invoke(c) PROVE Inductive'
      BY <2>1, InvokePreserves
    <2>2. ASSUME NEW i \in DOMAIN events, NEW kind \in Recording!Endings, Complete(i, kind)
          PROVE  Inductive'
      BY <2>2, CompletePreserves
    <2>3. CASE UNCHANGED vars
      BY <2>3 DEF vars, Inductive, TypeOK, OpenAgrees, ProcessAgrees, LogIsSound, Precedes,
                  OpenCallsAreLast, ProcessesAreSequential,
                  Recording!OpenCall, Recording!Invokes, Recording!Completed, Recording!Lives,
                  Recording!Uses, Recording!IsNext
    <2> QED
      BY <2>1, <2>2, <2>3 DEF Next
  <1> QED
    BY <1>1, <1>2, PTL DEF Spec

\* The variables keep their types.
THEOREM HistoryTypeCorrect == Spec => []TypeOK
  <1>1. Inductive => TypeOK
    BY DEF Inductive
  <1> QED
    BY <1>1, HistoryInvariantHolds, PTL

\* A process makes one call at a time and ends with an unknown one, whatever threads
\* invoke and complete, in whatever order.
THEOREM HistoryProcessesAreSequential == Spec => []ProcessesAreSequential
  <1>1. Inductive => ProcessesAreSequential
    BY DEF Inductive
  <1> QED
    BY <1>1, HistoryInvariantHolds, PTL

\* What an invocation records, the log alone allows.
LEMMA InvokeRecords ==
  ASSUME Inductive, NEW c \in Clients, Invoke(c)
  PROVE  Recording!Next
  <1> USE DEF Inductive
  <1>p. PICK p \in Nat : p = ProcessFor(c)
    BY DEF TypeOK, ProcessFor, NoProcess
  <1>1. TypeOK /\ DOMAIN events = 1 .. Len(events) /\ Len(events) \in Nat
    BY DEF TypeOK
  <1>2. \A i \in DOMAIN events : Recording!OpenCall(i) => events[i].client # c
    <2> SUFFICES ASSUME NEW i \in DOMAIN events, Recording!OpenCall(i), events[i].client = c
                 PROVE  FALSE
      OBVIOUS
    <2>1. open[c] = i /\ open[c] = NoCall
      BY DEF OpenAgrees, Invoke
    <2> QED
      BY <2>1, <1>1 DEF NoCall
  <1>3. \/ Recording!Uses(c, p)
        \/ Recording!IsNext(p) /\ \A i \in DOMAIN events : ~Recording!Uses(c, events[i].process)
    <2>1. CASE process[c] # NoProcess
      BY <2>1, <1>p DEF ProcessFor, ProcessAgrees
    <2>2. CASE process[c] = NoProcess
      <3>1. Recording!IsNext(p)
        BY <2>2, <1>p DEF ProcessFor, ProcessAgrees
      <3>2. ASSUME NEW i \in DOMAIN events, Recording!Uses(c, events[i].process) PROVE FALSE
        <4>1. PICK j \in DOMAIN events :
                events[j].process = events[i].process /\ events[j].client = c
          BY <3>2 DEF Recording!Uses
        <4>2. process[c] = events[j].process
          BY <3>2, <4>1 DEF ProcessAgrees, Recording!Uses
        <4>3. events[j].process \in Nat
          <5>1. events[j] \in Recording!Event
            BY <1>1 DEF TypeOK
          <5> QED
            BY <5>1 DEF Recording!Event
        <4> QED
          BY <4>2, <4>3, <2>2 DEF NoProcess
      <3> QED
        BY <3>1, <3>2
    <2> QED
      BY <2>1, <2>2
  <1>4. p \in 0 .. Len(events)
    BY <1>p, <1>1 DEF TypeOK, ProcessFor, NoProcess
  <1>5. Recording!Invoke(c, p)
    BY <1>p, <1>2, <1>3 DEF Invoke, Recording!Invoke
  <1> QED
    BY <1>4, <1>5 DEF Recording!Next

\* What a completion records, the log alone allows.
LEMMA CompleteRecords ==
  ASSUME Inductive, NEW i \in DOMAIN events, NEW kind \in Recording!Endings, Complete(i, kind)
  PROVE  Recording!Next
  <1> USE DEF Inductive
  <1>0. events[i] \in Recording!Event /\ i # NoCall
    BY DEF TypeOK, NoCall
  <1>1. events[i].client \in Clients /\ i # NoCall
    BY <1>0 DEF Recording!Event
  <1>2. Recording!OpenCall(i)
    BY <1>1 DEF OpenAgrees, Complete
  <1>3. Recording!Complete(i, kind)
    BY <1>2 DEF Complete, Recording!Complete
  <1> QED
    BY <1>3 DEF Recording!Next

\* The recorder with its dictionaries, its counter and its refusals implements the log
\* that the checks of a history read.
THEOREM HistoryIsARecording == Spec => IsARecording
  <1>1. Init => Recording!Init
    BY DEF Init, Recording!Init
  <1>2. Inductive /\ [Next]_vars => [Recording!Next]_events
    <2> SUFFICES ASSUME Inductive, [Next]_vars PROVE [Recording!Next]_events
      OBVIOUS
    <2>1. ASSUME NEW c \in Clients, Invoke(c) PROVE Recording!Next
      BY <2>1, InvokeRecords
    <2>2. ASSUME NEW i \in DOMAIN events, NEW kind \in Recording!Endings, Complete(i, kind)
          PROVE  Recording!Next
      BY <2>2, CompleteRecords
    <2>3. CASE UNCHANGED vars
      BY <2>3 DEF vars
    <2> QED
      BY <2>1, <2>2, <2>3 DEF Next
  <1>3. Spec => Recording!Spec
    BY <1>1, <1>2, HistoryInvariantHolds, PTL DEF Spec, Recording!Spec
  <1> QED
    BY <1>3 DEF IsARecording

-----------------------------------------------------------------------------
(***************************************************************************)
(* concurrently (Clients), for any finite set of clients and any number of *)
(* their calls.                                                            *)
(***************************************************************************)

Unpublished == {c \in Clients : thread[c] # "published"}

\* The invariant holds before the driver starts its threads.
LEMMA DriverBegins == DriverInit => ClientsInductive
<1> SUFFICES ASSUME DriverInit
             PROVE  ClientsInductive
  OBVIOUS
<1>1. running \in Nat
  BY ClientsAssumption, FS_CardinalityType DEF DriverInit
<1>2. ClientsTypeOK
  BY <1>1 DEF DriverInit, ClientsTypeOK
<1>3. \A c \in Clients : thread[c] = "none" /\ ~outcomes[c]
  BY DEF DriverInit
<1>4. Unpublished = Clients
  BY <1>3 DEF Unpublished
<1>5. FieldsAgree
  BY <1>3, <1>4 DEF DriverInit, FieldsAgree, Published, Unpublished
<1>6. OutcomesTellTheTruth
  BY DEF DriverInit, OutcomesTellTheTruth
<1> QED
  BY <1>2, <1>5, <1>6 DEF ClientsInductive

\* A step that publishes nothing, and does not return, keeps what the fields say.
LEMMA NothingIsPublished ==
  ASSUME ClientsInductive, ClientsTypeOK',
         \A c \in Clients : thread'[c] = "published" <=> thread[c] = "published",
         \A c \in Clients : thread[c] = "published" => ending'[c] = ending[c],
         UNCHANGED <<outcomes, raised, running, waiting, stated>>,
         driver' = "returned" <=> driver = "returned",
         driver = "returned" => passed' = passed
  PROVE  ClientsInductive'
<1>1. \A how \in {"value", "error"} : Published(how)' = Published(how)
  BY DEF Published
<1>2. Unpublished' = Unpublished
  BY DEF Unpublished
<1>3. FieldsAgree'
  BY <1>1, <1>2 DEF ClientsInductive, FieldsAgree, Unpublished
<1>4. OutcomesTellTheTruth'
  BY <1>1 DEF ClientsInductive, OutcomesTellTheTruth
<1> QED
  BY <1>3, <1>4 DEF ClientsInductive

\* The driver wakes, and returns what was published.
LEMMA ReturnIsTrue ==
  ASSUME ClientsInductive, Return
  PROVE  ClientsInductive'
<1>1. ClientsTypeOK'
  BY DEF ClientsInductive, ClientsTypeOK, Return
<1>2. Published("value")' = Published("value") /\ Published("error")' = Published("error")
  BY DEF Return, Published
<1>3. FieldsAgree'
  BY <1>2 DEF ClientsInductive, FieldsAgree, Return
<1>4. {c \in Clients : outcomes[c]} = Published("value")
  BY DEF ClientsInductive, FieldsAgree, Published
<1>5. ASSUME ~passed
      PROVE  \A c \in Clients : thread[c] = "published"
  <2>1. Cardinality(Unpublished) = 0
    BY <1>5 DEF Return, Wakes, ClientsInductive, FieldsAgree, Unpublished
  <2>2. IsFiniteSet(Unpublished)
    BY ClientsAssumption, FS_Subset DEF Unpublished
  <2>3. Unpublished = {}
    BY <2>1, <2>2, FS_EmptySet
  <2> QED
    BY <2>3 DEF Unpublished
<1>6. OutcomesTellTheTruth'
  BY <1>2, <1>4, <1>5 DEF ClientsInductive, FieldsAgree, OutcomesTellTheTruth, Return
<1> QED
  BY <1>1, <1>3, <1>6 DEF ClientsInductive

\* A thread publishes how its body ended, or finds that the driver has returned.
LEMMA PublishIsCounted ==
  ASSUME ClientsInductive, NEW c \in Clients, Publish(c)
  PROVE  ClientsInductive'
<1>1. CASE ~waiting
  <2>1. ClientsTypeOK'
    BY <1>1 DEF ClientsInductive, ClientsTypeOK, Publish
  <2> QED
    BY <1>1, <2>1, NothingIsPublished DEF ClientsInductive, ClientsTypeOK, Publish
<1>2. CASE waiting
  <2>1. /\ thread' = [thread EXCEPT ![c] = "published"] /\ thread[c] = "ended"
        /\ outcomes' = [outcomes EXCEPT ![c] = ending[c] = "value"]
        /\ raised' = IF ending[c] = "error" THEN raised \cup {c} ELSE raised
        /\ running' = running - 1
        /\ UNCHANGED <<ending, waiting, driver, passed, stated>>
    BY <1>2 DEF Publish
  <2>2. IsFiniteSet(Unpublished) /\ c \in Unpublished
    BY <2>1, ClientsAssumption, FS_Subset DEF Unpublished
  <2>3. Unpublished' = Unpublished \ {c}
    BY <2>1 DEF Unpublished, ClientsInductive, ClientsTypeOK
  <2>4. running' = Cardinality(Unpublished') /\ running' \in Nat
    <3>1. Cardinality(Unpublished \ {c}) = Cardinality(Unpublished) - 1
      BY <2>2, FS_RemoveElement
    <3>2. IsFiniteSet(Unpublished \ {c})
      BY <2>2, FS_RemoveElement
    <3>3. Cardinality(Unpublished \ {c}) \in Nat
      BY <3>2, FS_CardinalityType
    <3> QED
      BY <2>1, <2>3, <3>1, <3>3 DEF ClientsInductive, FieldsAgree, Unpublished
  <2>5. ClientsTypeOK'
    BY <2>1, <2>4 DEF ClientsInductive, ClientsTypeOK
  <2>6. /\ Published("value")' = IF ending[c] = "value" THEN Published("value") \cup {c}
                                 ELSE Published("value")
        /\ Published("error")' = IF ending[c] = "error" THEN Published("error") \cup {c}
                                 ELSE Published("error")
    BY <2>1 DEF Published, ClientsInductive, ClientsTypeOK
  <2>7. FieldsAgree'
    <3>1. \A d \in Clients : outcomes'[d] <=> d \in Published("value")'
      BY <2>1, <2>6 DEF ClientsInductive, ClientsTypeOK, FieldsAgree, Published
    <3>2. raised' = Published("error")'
      BY <2>1, <2>6 DEF ClientsInductive, FieldsAgree
    <3> QED
      BY <2>1, <2>4, <3>1, <3>2 DEF ClientsInductive, FieldsAgree, Unpublished
  <2>8. OutcomesTellTheTruth'
    BY <1>2, <2>1 DEF ClientsInductive, FieldsAgree, OutcomesTellTheTruth
  <2> QED
    BY <2>5, <2>7, <2>8 DEF ClientsInductive
<1> QED
  BY <1>1, <1>2

\* Each step of a thread, of the driver and of the time keeps the invariant.
LEMMA DriverGoesOn ==
  ASSUME ClientsInductive, [DriverNext]_<<vars, clientVars>>
  PROVE  ClientsInductive'
<1> USE DEF ClientsInductive, ClientsTypeOK
<1>1. CASE Start
  <2>1. PICK c \in Clients : thread[c] = "none" /\ thread' = [thread EXCEPT ![c] = "started"]
    BY <1>1 DEF Start
  <2>2. ClientsTypeOK'
    BY <1>1, <2>1 DEF Start
  <2> QED
    BY <1>1, <2>1, <2>2, NothingIsPublished DEF Start
<1>2. ASSUME NEW c \in Clients, Arrive(c)
      PROVE  ClientsInductive'
  <2>1. ClientsTypeOK'
    BY <1>2 DEF Arrive
  <2> QED
    BY <1>2, <2>1, NothingIsPublished DEF Arrive
<1>3. CASE DriverArrives
  <2>1. ClientsTypeOK'
    BY <1>3 DEF DriverArrives
  <2> QED
    BY <1>3, <2>1, NothingIsPublished DEF DriverArrives
<1>4. CASE Release
  <2>1. ClientsTypeOK'
    BY <1>4 DEF Release
  <2> QED
    BY <1>4, <2>1, NothingIsPublished DEF Release
<1>5. CASE Pass
  <2>1. ClientsTypeOK'
    BY <1>5 DEF Pass
  <2> QED
    BY <1>5, <2>1, NothingIsPublished DEF Pass
<1>6. CASE Return
  BY <1>6, ReturnIsTrue
<1>7. ASSUME NEW c \in Clients, Publish(c)
      PROVE  ClientsInductive'
  BY <1>7, PublishIsCounted
<1>8. ASSUME NEW c \in Clients, NEW how \in {"value", "error"}, EndBody(c, how)
      PROVE  ClientsInductive'
  <2>1. ClientsTypeOK'
    BY <1>8 DEF EndBody
  <2> QED
    BY <1>8, <2>1, NothingIsPublished DEF EndBody
<1>9. ASSUME UNCHANGED clientVars
      PROVE  ClientsInductive'
  <2>1. ClientsTypeOK'
    BY <1>9 DEF clientVars
  <2> QED
    BY <1>9, <2>1, NothingIsPublished DEF clientVars
<1> QED
  BY <1>1, <1>2, <1>3, <1>4, <1>5, <1>6, <1>7, <1>8, <1>9 DEF DriverNext, Record

\* The fields that the threads and the driver share agree in every state.
THEOREM ClientsInvariantHolds == ClientsSpec => []ClientsInductive
<1>1. DriverInit => ClientsInductive
  BY DriverBegins
<1>2. ClientsInductive /\ [DriverNext]_<<vars, clientVars>> => ClientsInductive'
  BY DriverGoesOn
<1> QED
  BY <1>1, <1>2, PTL DEF ClientsSpec

\* What concurrently returns is what its threads published up to one instant, for any
\* clients: the lowest error, or else the clients whose bodies returned.
THEOREM ClientsOutcomesAreTrue == ClientsSpec => []OutcomesTellTheTruth
<1>1. ClientsInductive => OutcomesTellTheTruth
  BY DEF ClientsInductive
<1> QED
  BY <1>1, ClientsInvariantHolds, PTL

\* The bodies of concurrently, also those that outlive it, record a history: every step
\* of them is a step of the recording or leaves the log as it is.
THEOREM ClientsRecordAHistory == ClientsSpec => Spec /\ IsARecording
<1>1. [DriverNext]_<<vars, clientVars>> => [Next]_vars
  BY DEF DriverNext, Record, Next, vars
<1>2. ClientsSpec => Spec
  BY <1>1, PTL DEF ClientsSpec, Spec
<1> QED
  BY <1>2, HistoryIsARecording

-----------------------------------------------------------------------------
(***************************************************************************)
(* A timed log (Intervals), for any logs of any length.                    *)
(***************************************************************************)

StartOf(i) == [time |-> log[i].start, phase |-> 0, entry |-> i]
EndOf(i)   == [time |-> log[i].end, phase |-> 1, entry |-> i]
Ends(i)    == log[i].end # Pending

LogTypes ==
  /\ log \in Logs
  /\ calls \in [DOMAIN log -> Nat]
  /\ moments \subseteq Moments(log)

\* Every moment that was played comes before those that are left.
PlayedInOrder == \A m \in Moments(log) \ moments, n \in moments : Before(m, n)

\* The call of an entry is its invocation, once its start was played, and no other
\* invocation is in the history.
CallsAreInvocations ==
  /\ \A i \in DOMAIN log : calls[i] # NoCall <=> StartOf(i) \notin moments
  /\ \A i \in DOMAIN log : calls[i] # NoCall =>
       /\ calls[i] \in DOMAIN events /\ Recording!Invokes(calls[i])
       /\ events[calls[i]].client = log[i].client
  /\ \A i, j \in DOMAIN log : calls[i] = calls[j] /\ calls[i] # NoCall => i = j
  /\ \A p \in DOMAIN events : Recording!Invokes(p) => \E i \in DOMAIN log : calls[i] = p

\* A call is completed once the end of its entry was played.
EndsAreCompletions ==
  \A i \in DOMAIN log :
    calls[i] # NoCall => (Recording!Completed(calls[i]) <=> Ends(i) /\ EndOf(i) \notin moments)

\* The completions and invocations so far are in the order of the clock.
OrderSoFar ==
  \A i, j \in DOMAIN log :
    calls[i] # NoCall /\ calls[j] # NoCall /\ Ends(i) =>
      ((\E p \in PlaceOf(i, Recording!Endings) : p < calls[j]) <=> log[i].end < log[j].start)

Playing == moments # {} \/ events # <<>>

\* While it plays, what is left and what is in the history are the two parts of the log.
LogInductive ==
  /\ Inductive /\ LogTypes
  /\ ~Playing => \A i \in DOMAIN log : calls[i] = NoCall
  /\ Playing => /\ Broken = {}
                /\ PlayedInOrder /\ CallsAreInvocations /\ EndsAreCompletions /\ OrderSoFar

\* What from_intervals accepts: entries whose kind and end go together, and that do not
\* overlap another of their client.
LEMMA AcceptedEntries ==
  ASSUME LogTypes, Broken = {}
  PROVE  /\ Len(log) \in Nat /\ DOMAIN log = 1 .. Len(log)
         /\ \A i \in DOMAIN log :
              /\ log[i].client \in Clients /\ log[i].start \in Int
              /\ Ends(i) => /\ log[i].end \in Int /\ log[i].start <= log[i].end
                            /\ log[i].kind \in Recording!Endings
         /\ \A i, j \in DOMAIN log :
              i # j /\ log[i].client = log[j].client => ~Overlap(log[i], log[j])
<1> DEFINE E == [client : Clients, start : Int, end : Int \cup {Pending},
                 kind : STRING \cup {Pending}]
<1>1. log \in Seq(E)
  BY LogsAssumption DEF LogTypes
<1>2. /\ Len(log) \in Nat /\ DOMAIN log = 1 .. Len(log)
      /\ \A i \in DOMAIN log : log[i] \in E
  <2> HIDE DEF E
  <2> QED
    BY <1>1
<1>3. \A i \in DOMAIN log : ~Refuses(i)
  BY DEF Broken
<1>4. ASSUME NEW i \in DOMAIN log
      PROVE  /\ log[i].client \in Clients /\ log[i].start \in Int
             /\ Ends(i) => /\ log[i].end \in Int /\ log[i].start <= log[i].end
                           /\ log[i].kind \in Recording!Endings
  <2>1. /\ log[i].client \in Clients /\ log[i].start \in Int
        /\ log[i].end \in Int \cup {Pending}
    BY <1>2
  <2>2. /\ log[i].kind # Pending => log[i].kind \in Recording!Endings
        /\ log[i].kind = Pending <=> log[i].end = Pending
        /\ ~(log[i].end # Pending /\ log[i].end < log[i].start)
    BY <1>3 DEF Refuses
  <2> QED
    BY <2>1, <2>2 DEF Ends
<1>5. ASSUME NEW i \in DOMAIN log, NEW j \in DOMAIN log, i # j, log[i].client = log[j].client,
             Overlap(log[i], log[j])
      PROVE  FALSE
  <2>1. Overlap(log[j], log[i])
    BY <1>5 DEF Overlap
  <2>2. CASE i < j
    BY <2>2, <1>2, <1>3, <1>5 DEF Refuses
  <2>3. CASE j < i
    BY <2>1, <2>3, <1>2, <1>3, <1>5 DEF Refuses
  <2> QED
    BY <2>2, <2>3, <1>2, <1>5
<1> QED
  BY <1>2, <1>4, <1>5

\* A moment is the start or the end of its entry.
LEMMA MomentFacts ==
  ASSUME LogTypes, Broken = {}
  PROVE  /\ \A i \in DOMAIN log : StartOf(i) \in Moments(log)
         /\ \A i \in DOMAIN log : Ends(i) => EndOf(i) \in Moments(log)
         /\ \A m \in Moments(log) :
              /\ m.entry \in DOMAIN log /\ m.entry \in Nat /\ m.time \in Int
              /\ \/ m = StartOf(m.entry) /\ m.phase = 0
                 \/ m = EndOf(m.entry) /\ Ends(m.entry) /\ m.phase = 1
<1>1. /\ DOMAIN log \subseteq Nat
      /\ \A i \in DOMAIN log : log[i].start \in Int /\ (Ends(i) => log[i].end \in Int)
  BY AcceptedEntries
<1>2. \A i \in DOMAIN log : StartOf(i) \in Moments(log)
  BY DEF Moments, StartOf
<1>3. \A i \in DOMAIN log : Ends(i) => EndOf(i) \in Moments(log)
  BY DEF Moments, EndOf, Ends
<1>4. ASSUME NEW m \in Moments(log)
      PROVE  /\ m.entry \in DOMAIN log /\ m.entry \in Nat /\ m.time \in Int
             /\ \/ m = StartOf(m.entry) /\ m.phase = 0
                \/ m = EndOf(m.entry) /\ Ends(m.entry) /\ m.phase = 1
  <2>1. CASE \E i \in DOMAIN log : m = [time |-> log[i].start, phase |-> 0, entry |-> i]
    BY <2>1, <1>1 DEF StartOf
  <2>2. CASE \E i \in {j \in DOMAIN log : log[j].end # Pending} :
               m = [time |-> log[i].end, phase |-> 1, entry |-> i]
    BY <2>2, <1>1 DEF EndOf, Ends
  <2> QED
    BY <2>1, <2>2 DEF Moments
<1> QED
  BY <1>2, <1>3, <1>4

\* The order of two moments is that of their times; at one time an invocation comes first.
LEMMA OrderOfMoments ==
  ASSUME LogTypes, Broken = {}, NEW i \in DOMAIN log, NEW j \in DOMAIN log
  PROVE  /\ Before(StartOf(i), StartOf(j)) => log[i].start <= log[j].start
         /\ Ends(j) => (Before(StartOf(i), EndOf(j)) <=> log[i].start <= log[j].end)
         /\ Ends(i) => (Before(EndOf(i), StartOf(j)) <=> log[i].end < log[j].start)
         /\ StartOf(i) # EndOf(j)
         /\ StartOf(i) = StartOf(j) => i = j
         /\ EndOf(i) = EndOf(j) => i = j
<1>1. /\ log[i].start \in Int /\ log[j].start \in Int
      /\ Ends(i) => log[i].end \in Int
      /\ Ends(j) => log[j].end \in Int
  BY AcceptedEntries
<1>2. /\ StartOf(i).time = log[i].start /\ StartOf(i).phase = 0 /\ StartOf(i).entry = i
      /\ StartOf(j).time = log[j].start /\ StartOf(j).phase = 0 /\ StartOf(j).entry = j
      /\ EndOf(i).time = log[i].end /\ EndOf(i).phase = 1 /\ EndOf(i).entry = i
      /\ EndOf(j).time = log[j].end /\ EndOf(j).phase = 1 /\ EndOf(j).entry = j
  BY DEF StartOf, EndOf
<1> HIDE DEF StartOf, EndOf
<1>3. Before(StartOf(i), StartOf(j)) => log[i].start <= log[j].start
  BY <1>1, <1>2 DEF Before
<1>4. Ends(j) => (Before(StartOf(i), EndOf(j)) <=> log[i].start <= log[j].end)
  BY <1>1, <1>2 DEF Before
<1>5. Ends(i) => (Before(EndOf(i), StartOf(j)) <=> log[i].end < log[j].start)
  BY <1>1, <1>2 DEF Before
<1>6. StartOf(i) # EndOf(j) /\ (StartOf(i) = StartOf(j) => i = j) /\ (EndOf(i) = EndOf(j) => i = j)
  BY <1>2
<1> QED
  BY <1>3, <1>4, <1>5, <1>6

\* The end of an entry is played after its start.
LEMMA EndsFollowStarts ==
  ASSUME LogTypes, Broken = {}, PlayedInOrder,
         NEW i \in DOMAIN log, Ends(i), StartOf(i) \in moments
  PROVE  EndOf(i) \in moments
<1>1. EndOf(i) \in Moments(log)
  BY MomentFacts
<1>2. ~Before(EndOf(i), StartOf(i))
  <2>1. Before(EndOf(i), StartOf(i)) <=> log[i].end < log[i].start
    BY OrderOfMoments
  <2>2. log[i].end \in Int /\ log[i].start \in Int /\ log[i].start <= log[i].end
    BY AcceptedEntries
  <2> QED
    BY <2>1, <2>2
<1> QED
  BY <1>1, <1>2 DEF PlayedInOrder

\* The history accepts the call of the first moment.
LEMMA TheFirstIsAccepted ==
  ASSUME LogInductive, NEW m \in moments, ComesFirst(m)
  PROVE  IF m.phase = 0 THEN open[log[m.entry].client] = NoCall
         ELSE calls[m.entry] # NoCall /\ open[log[m.entry].client] = calls[m.entry]
<1>1. /\ Inductive /\ LogTypes /\ Broken = {}
      /\ PlayedInOrder /\ CallsAreInvocations /\ EndsAreCompletions /\ OrderSoFar
  BY DEF LogInductive, Playing
<1>i. PICK i \in DOMAIN log : i = m.entry
  BY <1>1, MomentFacts DEF LogTypes
<1>c. PICK c \in Clients : c = log[i].client
  BY <1>1, AcceptedEntries
<1>2. /\ \A j \in DOMAIN log : StartOf(j) \in Moments(log)
      /\ \A j \in DOMAIN log : Ends(j) => EndOf(j) \in Moments(log)
      /\ \/ m = StartOf(i) /\ m.phase = 0
         \/ m = EndOf(i) /\ Ends(i) /\ m.phase = 1
  BY <1>1, <1>i, MomentFacts DEF LogTypes
<1>3. \A n \in moments : n = m \/ Before(m, n)
  BY DEF ComesFirst
<1>4. \A j \in DOMAIN log : /\ log[j].start \in Int /\ (Ends(j) => log[j].end \in Int)
                            /\ (Ends(j) => log[j].start <= log[j].end)
  BY <1>1, AcceptedEntries
<1>5. CASE m = StartOf(i) /\ m.phase = 0
  <2> SUFFICES ASSUME open[c] # NoCall PROVE FALSE
    BY <1>5, <1>i, <1>c
  <2>1. Recording!OpenCall(open[c]) /\ events[open[c]].client = c
    BY <1>1 DEF Inductive, OpenAgrees
  <2>2. PICK j \in DOMAIN log : calls[j] = open[c]
    BY <2>1, <1>1 DEF CallsAreInvocations, Recording!OpenCall
  <2>3. log[j].client = c /\ StartOf(j) \notin moments
    BY <2>1, <2>2, <1>1 DEF CallsAreInvocations
  <2>4. ~Recording!Completed(calls[j])
    BY <2>1, <2>2 DEF Recording!OpenCall
  <2>5. Ends(j) => EndOf(j) \in moments
    BY <2>2, <2>4, <1>1 DEF EndsAreCompletions
  <2>6. j # i
    BY <2>3, <1>5
  <2>7. log[j].start <= log[i].start
    <3>1. Before(StartOf(j), StartOf(i))
      BY <2>3, <1>1, <1>2, <1>5 DEF PlayedInOrder
    <3> QED
      BY <3>1, <1>1, OrderOfMoments
  <2>8. Ends(j) => log[i].start <= log[j].end
    <3>1. StartOf(i) # EndOf(j) /\ (Ends(j) => (Before(StartOf(i), EndOf(j)) <=> log[i].start <= log[j].end))
      BY <1>1, OrderOfMoments
    <3> QED
      BY <3>1, <2>5, <1>3, <1>5
  <2>9. Ends(i) => log[j].start <= log[i].end
    BY <2>7, <1>4
  <2>10. Overlap(log[i], log[j])
    BY <2>8, <2>9 DEF Overlap, Ends
  <2> QED
    BY <2>3, <2>6, <2>10, <1>1, <1>c, AcceptedEntries
<1>6. CASE m = EndOf(i) /\ Ends(i) /\ m.phase = 1
  <2>1. StartOf(i) \notin moments
    <3>1. /\ StartOf(i) # EndOf(i)
          /\ Before(EndOf(i), StartOf(i)) <=> log[i].end < log[i].start
      BY <1>1, <1>6, OrderOfMoments
    <3>2. ~Before(EndOf(i), StartOf(i))
      BY <3>1, <1>4, <1>6
    <3> QED
      BY <3>1, <3>2, <1>3, <1>6
  <2>2. calls[i] # NoCall
    BY <2>1, <1>1 DEF CallsAreInvocations
  <2>3. ~Recording!Completed(calls[i])
    BY <2>2, <1>1, <1>6 DEF EndsAreCompletions
  <2>4. Recording!OpenCall(calls[i]) /\ events[calls[i]].client = c
    BY <2>2, <2>3, <1>1, <1>c DEF CallsAreInvocations, Recording!OpenCall
  <2>5. open[c] = calls[i]
    BY <2>4, <1>1 DEF Inductive, OpenAgrees, Recording!OpenCall
  <2> QED
    BY <2>2, <2>5, <1>6, <1>i, <1>c
<1> QED
  BY <1>2, <1>5, <1>6

\* The start of an entry is played.
LEMMA PlayStart ==
  ASSUME LogInductive, Inductive',
         NEW m \in moments, ComesFirst(m), m.phase = 0,
         Invoke(log[m.entry].client),
         calls' = [calls EXCEPT ![m.entry] = Len(events) + 1],
         moments' = moments \ {m}, UNCHANGED log
  PROVE  LogInductive'
<1>1. /\ Inductive /\ LogTypes /\ Broken = {} /\ Broken' = {}
      /\ PlayedInOrder /\ CallsAreInvocations /\ EndsAreCompletions /\ OrderSoFar
  BY DEF LogInductive, Playing, Broken, Refuses
<1>n. PICK n \in Nat : n = Len(events)
  BY <1>1 DEF Inductive, TypeOK
<1>i. PICK i \in DOMAIN log : i = m.entry /\ m = StartOf(i)
  BY <1>1, MomentFacts DEF LogTypes
<1>c. PICK c \in Clients : c = log[i].client
  BY <1>1, AcceptedEntries
<1>p. PICK p \in Nat : p = ProcessFor(c)
  BY <1>1, <1>c DEF Inductive, TypeOK, ProcessFor, NoProcess
<1>e. PICK e \in Recording!Event : e = Recording!Invocation(n + 1, c, p)
  <2>1. Recording!Invocation(n + 1, c, p) \in Recording!Event
    BY DEF Recording!Event, Recording!Invocation
  <2> QED
    BY <2>1
<1>2. /\ events' = Append(events, e) /\ calls' = [calls EXCEPT ![i] = n + 1]
      /\ e.kind = "invoke" /\ e.client = c
  BY <1>n, <1>i, <1>c, <1>p, <1>e DEF Invoke, Recording!Invocation
<1>3. /\ DOMAIN events = 1 .. n /\ DOMAIN events' = 1 .. n + 1
      /\ \A q \in 1 .. n : events'[q] = events[q] /\ events[q] \in Recording!Event
      /\ events'[n + 1] = e
  BY <1>1, <1>2, <1>n, AppendFacts DEF Inductive
<1>4. LogTypes'
  <2>1. Moments(log)' = Moments(log)
    OBVIOUS
  <2>2. calls' \in [DOMAIN log -> Nat]
    <3>1. calls \in [DOMAIN log -> Nat] /\ n + 1 \in Nat
      BY <1>1 DEF LogTypes
    <3> QED
      BY ONLY <3>1, <1>2
  <2> QED
    BY <2>1, <2>2, <1>1 DEF LogTypes
<1>5. /\ calls[i] = NoCall /\ calls'[i] = n + 1 /\ n + 1 # NoCall
      /\ \A j \in DOMAIN log : j # i => calls'[j] = calls[j]
      /\ \A j \in DOMAIN log : calls[j] \in Nat
      /\ \A j \in DOMAIN log : calls[j] # NoCall => calls[j] \in 1 .. n
  <2>1. calls[i] = NoCall
    BY <1>1, <1>i DEF CallsAreInvocations
  <2> QED
    BY <2>1, <1>1, <1>2, <1>3 DEF LogTypes, CallsAreInvocations, NoCall
<1>6. /\ \A j \in DOMAIN log : StartOf(j)' = StartOf(j) /\ EndOf(j)' = EndOf(j)
                               /\ (Ends(j)' <=> Ends(j))
      /\ Moments(log)' = Moments(log)
  BY DEF StartOf, EndOf, Ends
<1>7. /\ \A j \in DOMAIN log : StartOf(j) \in moments' <=> StartOf(j) \in moments /\ j # i
      /\ \A j \in DOMAIN log : EndOf(j) \in moments' <=> EndOf(j) \in moments
  BY <1>1, <1>i, OrderOfMoments
<1>8. PlayedInOrder'
  BY <1>1, <1>6 DEF PlayedInOrder, ComesFirst
<1>9. CallsAreInvocations'
  <2>1. \A q \in 1 .. n + 1 : Recording!Invokes(q)' <=> IF q = n + 1 THEN TRUE ELSE Recording!Invokes(q)
    BY <1>2, <1>3 DEF Recording!Invokes
  <2>2. ASSUME NEW j \in DOMAIN log
        PROVE  calls'[j] # NoCall <=> StartOf(j) \notin moments'
    BY <1>1, <1>5, <1>7 DEF CallsAreInvocations
  <2>3. ASSUME NEW j \in DOMAIN log, calls'[j] # NoCall
        PROVE  /\ calls'[j] \in 1 .. n + 1 /\ Recording!Invokes(calls[j])'
               /\ events'[calls'[j]].client = log[j].client
    <3>1. CASE j = i
      BY <3>1, <2>1, <1>2, <1>3, <1>5, <1>c
    <3>2. CASE j # i
      <4>1. /\ calls'[j] = calls[j] /\ calls[j] \in 1 .. n /\ Recording!Invokes(calls[j])
            /\ events[calls[j]].client = log[j].client
        BY <3>2, <2>3, <1>1, <1>5 DEF CallsAreInvocations
      <4> QED
        BY <4>1, <1>3 DEF Recording!Invokes
    <3> QED
      BY <3>1, <3>2
  <2>4. ASSUME NEW j \in DOMAIN log, NEW k \in DOMAIN log, calls'[j] = calls'[k], calls'[j] # NoCall
        PROVE  j = k
    BY <2>4, <1>1, <1>5 DEF CallsAreInvocations
  <2>5. ASSUME NEW q \in 1 .. n + 1, Recording!Invokes(q)'
        PROVE  \E j \in DOMAIN log : calls'[j] = q
    <3>1. CASE q = n + 1
      BY <3>1, <1>5
    <3>2. CASE q \in 1 .. n
      <4>1. PICK j \in DOMAIN log : calls[j] = q
        BY <3>2, <2>1, <2>5, <1>1, <1>3 DEF CallsAreInvocations
      <4> QED
        BY <4>1, <3>2, <1>5 DEF NoCall
    <3> QED
      BY <3>1, <3>2
  <2> QED
    BY <2>2, <2>3, <2>4, <2>5, <1>3, <1>6 DEF CallsAreInvocations
\* No call has the invocation as its completion.
<1>10. \A q \in 1 .. n : Recording!Completed(q)' <=> Recording!Completed(q)
  BY <1>2, <1>3 DEF Recording!Completed
<1>11. ~Recording!Completed(n + 1)'
  <2> SUFFICES ASSUME NEW q \in 1 .. n + 1, events'[q].kind # "invoke", events'[q].call = n + 1
               PROVE  FALSE
    BY <1>3 DEF Recording!Completed
  <2>1. events'[q].call \in 1 .. q - 1
    BY <1>3 DEF Inductive, LogIsSound, Precedes, Recording!Invokes
  <2> QED
    BY <2>1
<1>12. EndsAreCompletions'
  <2> SUFFICES ASSUME NEW j \in DOMAIN log, calls'[j] # NoCall
               PROVE  Recording!Completed(calls[j])' <=> Ends(j) /\ EndOf(j) \notin moments'
    BY <1>6 DEF EndsAreCompletions
  <2>1. CASE j = i
    <3>1. ~Recording!Completed(calls[j])'
      BY <2>1, <1>5, <1>11
    <3>2. Ends(j) => EndOf(j) \in moments
      BY <2>1, <1>1, <1>i, EndsFollowStarts
    <3> QED
      BY <3>1, <3>2, <1>7
  <2>2. CASE j # i
    <3>1. calls'[j] = calls[j] /\ calls[j] # NoCall /\ calls[j] \in 1 .. n
      BY <2>2, <1>5
    <3>2. Recording!Completed(calls[j])' <=> Recording!Completed(calls[j])
      BY <3>1, <1>10
    <3> QED
      BY <3>1, <3>2, <1>1, <1>7 DEF EndsAreCompletions
  <2> QED
    BY <2>1, <2>2
\* The places of the completions, before the event and after it.
<1>13. ASSUME NEW j \in DOMAIN log, calls[j] # NoCall
       PROVE  PlaceOf(j, Recording!Endings)' = PlaceOf(j, Recording!Endings)
  BY <1>2, <1>3, <1>5, <1>13 DEF PlaceOf, Recording!Endings
<1>14. ASSUME NEW j \in DOMAIN log, calls[j] # NoCall, Ends(j)
       PROVE  PlaceOf(j, Recording!Endings) # {} <=> log[j].end < log[i].start
  <2>1. PlaceOf(j, Recording!Endings) # {} <=> Recording!Completed(calls[j])
    BY <1>3, <1>1 DEF PlaceOf, Recording!Completed, Recording!Endings, Recording!Event
  <2>2. EndOf(j) \notin moments => log[j].end < log[i].start
    <3>1. EndOf(j) \in Moments(log)
      BY <1>1, <1>14, MomentFacts
    <3>2. Before(EndOf(j), StartOf(i)) <=> log[j].end < log[i].start
      BY <1>1, <1>14, OrderOfMoments
    <3> QED
      BY <3>1, <3>2, <1>1, <1>i DEF PlayedInOrder
  <2>3. EndOf(j) \in moments => ~(log[j].end < log[i].start)
    <3>1. /\ StartOf(i) # EndOf(j)
          /\ Before(StartOf(i), EndOf(j)) <=> log[i].start <= log[j].end
      BY <1>1, <1>14, OrderOfMoments
    <3>2. log[i].start \in Int /\ log[j].end \in Int
      BY <1>1, <1>14, AcceptedEntries
    <3> QED
      BY <3>1, <3>2, <1>i DEF ComesFirst
  <2> QED
    BY <2>1, <2>2, <2>3, <1>1, <1>14 DEF EndsAreCompletions
<1>15. OrderSoFar'
  <2> SUFFICES ASSUME NEW j \in DOMAIN log, NEW k \in DOMAIN log,
                      calls'[j] # NoCall, calls'[k] # NoCall, Ends(j)
               PROVE  (\E q \in PlaceOf(j, Recording!Endings)' : q < calls'[k])
                        <=> log[j].end < log[k].start
    BY <1>6 DEF OrderSoFar
  <2>1. CASE j # i /\ k # i
    <3>1. calls'[j] = calls[j] /\ calls[j] # NoCall /\ calls'[k] = calls[k] /\ calls[k] # NoCall
      BY <2>1, <1>5
    <3> QED
      BY <3>1, <1>1, <1>13 DEF OrderSoFar
  <2>2. CASE j # i /\ k = i
    <3>1. calls[j] # NoCall /\ calls'[k] = n + 1
      BY <2>2, <1>5
    <3>2. PlaceOf(j, Recording!Endings) \subseteq 1 .. n
      BY <1>3 DEF PlaceOf
    <3>3. (\E q \in PlaceOf(j, Recording!Endings) : q < n + 1) <=> PlaceOf(j, Recording!Endings) # {}
      BY <3>2
    <3> QED
      BY <3>1, <3>3, <2>2, <1>13, <1>14
  <2>3. CASE j = i
    <3>1. PlaceOf(j, Recording!Endings)' = {}
      BY <2>3, <1>3, <1>5, <1>11 DEF PlaceOf, Recording!Completed, Recording!Endings
    <3>2. ~(log[i].end < log[k].start)
      <4>1. log[i].start \in Int /\ log[i].end \in Int /\ log[k].start \in Int
            /\ log[i].start <= log[i].end
        BY <2>3, <1>1, AcceptedEntries
      <4>2. CASE k = i
        BY <4>1, <4>2
      <4>3. CASE k # i
        <5>1. StartOf(k) \notin moments
          BY <4>3, <1>1, <1>5 DEF CallsAreInvocations
        <5>2. StartOf(k) \in Moments(log)
          BY <1>1, MomentFacts
        <5>3. Before(StartOf(k), StartOf(i))
          BY <5>1, <5>2, <1>1, <1>i DEF PlayedInOrder
        <5>4. log[k].start <= log[i].start
          BY <5>3, <1>1, OrderOfMoments
        <5> QED
          BY <4>1, <5>4
      <4> QED
        BY <4>2, <4>3
    <3> QED
      BY <3>1, <3>2, <2>3
  <2> QED
    BY <2>1, <2>2, <2>3
<1>16. Playing'
  BY <1>3 DEF Playing
<1> QED
  BY <1>1, <1>4, <1>8, <1>9, <1>12, <1>15, <1>16 DEF LogInductive

\* The end of an entry is played.
LEMMA PlayEnd ==
  ASSUME LogInductive, Inductive',
         NEW m \in moments, ComesFirst(m), m.phase = 1,
         Complete(calls[m.entry], log[m.entry].kind), UNCHANGED calls,
         moments' = moments \ {m}, UNCHANGED log
  PROVE  LogInductive'
<1>1. /\ Inductive /\ LogTypes /\ Broken = {} /\ Broken' = {}
      /\ PlayedInOrder /\ CallsAreInvocations /\ EndsAreCompletions /\ OrderSoFar
  BY DEF LogInductive, Playing, Broken, Refuses
<1>n. PICK n \in Nat : n = Len(events)
  BY <1>1 DEF Inductive, TypeOK
<1>i. PICK i \in DOMAIN log : i = m.entry /\ m = EndOf(i) /\ Ends(i)
  BY <1>1, MomentFacts DEF LogTypes
<1>k. PICK kind \in Recording!Endings : kind = log[i].kind
  BY <1>1, <1>i, AcceptedEntries
<1>0. calls[i] # NoCall
  BY <1>i, TheFirstIsAccepted
<1>q. PICK q \in 1 .. n : q = calls[i] /\ Recording!Invokes(q)
  BY <1>0, <1>1, <1>n DEF CallsAreInvocations, Inductive, TypeOK
<1>e. PICK e \in Recording!Event : e = Recording!Completion(kind, events[q])
  <2>1. Recording!Completion(kind, events[q]) \in Recording!Event
    <3>1. events[q] \in Recording!Event
      BY <1>1, <1>n DEF Inductive, TypeOK
    <3> QED
      BY <3>1 DEF Recording!Event, Recording!Completion
  <2> QED
    BY <2>1
<1>2. events' = Append(events, e) /\ calls' = calls /\ e.kind \in Recording!Endings
      /\ e.kind # "invoke" /\ e.call = q
  <2>1. events[q].call = q
    BY <1>q, <1>1, <1>n DEF Inductive, LogIsSound, TypeOK
  <2> QED
    BY <2>1, <1>i, <1>k, <1>q, <1>e DEF Complete, Recording!Completion, Recording!Endings
<1>3. /\ DOMAIN events = 1 .. n /\ DOMAIN events' = 1 .. n + 1
      /\ \A p \in 1 .. n : events'[p] = events[p] /\ events[p] \in Recording!Event
      /\ events'[n + 1] = e
  BY <1>1, <1>2, <1>n, AppendFacts DEF Inductive
<1>4. LogTypes'
  <2>1. Moments(log)' = Moments(log)
    OBVIOUS
  <2> QED
    BY <2>1, <1>1, <1>2 DEF LogTypes
<1>5. \A j \in DOMAIN log : /\ calls[j] \in Nat
                            /\ calls[j] # NoCall => calls[j] \in 1 .. n
                            /\ calls[j] = q => j = i
  BY <1>0, <1>1, <1>q, <1>3 DEF LogTypes, CallsAreInvocations
<1>6. /\ \A j \in DOMAIN log : StartOf(j)' = StartOf(j) /\ EndOf(j)' = EndOf(j)
                               /\ (Ends(j)' <=> Ends(j))
      /\ Moments(log)' = Moments(log)
  BY DEF StartOf, EndOf, Ends
<1>7. /\ \A j \in DOMAIN log : StartOf(j) \in moments' <=> StartOf(j) \in moments
      /\ \A j \in DOMAIN log : EndOf(j) \in moments' <=> EndOf(j) \in moments /\ j # i
  BY <1>1, <1>i, OrderOfMoments
<1>8. PlayedInOrder'
  BY <1>1, <1>6 DEF PlayedInOrder, ComesFirst
<1>9. CallsAreInvocations'
  <2>1. \A p \in 1 .. n + 1 : Recording!Invokes(p)' <=> p # n + 1 /\ Recording!Invokes(p)
    BY <1>2, <1>3 DEF Recording!Invokes
  <2>2. ASSUME NEW j \in DOMAIN log
        PROVE  calls[j] # NoCall <=> StartOf(j) \notin moments'
    BY <1>1, <1>7 DEF CallsAreInvocations
  <2>3. ASSUME NEW j \in DOMAIN log, calls[j] # NoCall
        PROVE  /\ calls[j] \in 1 .. n + 1 /\ Recording!Invokes(calls[j])'
               /\ events'[calls[j]].client = log[j].client
    <3>1. /\ calls[j] \in 1 .. n /\ Recording!Invokes(calls[j])
          /\ events[calls[j]].client = log[j].client
      BY <2>3, <1>1, <1>5 DEF CallsAreInvocations
    <3> QED
      BY <3>1, <1>2, <1>3 DEF Recording!Invokes
  <2>4. ASSUME NEW p \in 1 .. n + 1, Recording!Invokes(p)'
        PROVE  \E j \in DOMAIN log : calls[j] = p
    BY <2>1, <2>4, <1>1, <1>3 DEF CallsAreInvocations
  <2>5. \A j, k \in DOMAIN log : calls[j] = calls[k] /\ calls[j] # NoCall => j = k
    BY <1>1 DEF CallsAreInvocations
  <2> QED
    BY <2>2, <2>3, <2>4, <2>5, <1>2, <1>3, <1>6 DEF CallsAreInvocations
<1>10. \A p \in 1 .. n : Recording!Completed(p)' <=> Recording!Completed(p) \/ p = q
  BY <1>2, <1>3 DEF Recording!Completed
<1>11. EndsAreCompletions'
  <2> SUFFICES ASSUME NEW j \in DOMAIN log, calls[j] # NoCall
               PROVE  Recording!Completed(calls[j])' <=> Ends(j) /\ EndOf(j) \notin moments'
    BY <1>2, <1>6 DEF EndsAreCompletions
  <2>1. Recording!Completed(calls[j])' <=> Recording!Completed(calls[j]) \/ j = i
    BY <1>2, <1>5, <1>10, <1>q
  <2> QED
    BY <2>1, <1>1, <1>7, <1>i DEF EndsAreCompletions
\* The completion comes after every call.
<1>12. OrderSoFar'
  <2> SUFFICES ASSUME NEW j \in DOMAIN log, NEW k \in DOMAIN log,
                      calls[j] # NoCall, calls[k] # NoCall, Ends(j)
               PROVE  (\E p \in PlaceOf(j, Recording!Endings)' : p < calls[k])
                        <=> log[j].end < log[k].start
    BY <1>2, <1>6 DEF OrderSoFar
  <2>1. calls[k] \in 1 .. n
    BY <1>5
  <2>2. \A p \in 1 .. n : p \in PlaceOf(j, Recording!Endings)'
                            <=> p \in PlaceOf(j, Recording!Endings)
    BY <1>2, <1>3 DEF PlaceOf
  <2>3. /\ PlaceOf(j, Recording!Endings) \subseteq 1 .. n
        /\ PlaceOf(j, Recording!Endings)' \subseteq 1 .. n + 1
    BY <1>3 DEF PlaceOf
  <2>4. (\E p \in PlaceOf(j, Recording!Endings)' : p < calls[k])
          <=> (\E p \in PlaceOf(j, Recording!Endings) : p < calls[k])
    BY <2>1, <2>2, <2>3
  <2> QED
    BY <2>4, <1>1 DEF OrderSoFar
<1>13. Playing'
  BY <1>3 DEF Playing
<1> QED
  BY <1>1, <1>4, <1>8, <1>9, <1>11, <1>12, <1>13 DEF LogInductive

LEMMA LogBegins == Init /\ LogInit => LogInductive
<1> SUFFICES ASSUME Init, LogInit PROVE LogInductive
  OBVIOUS
<1>1. Inductive
  BY InitInductive
<1>2. LogTypes
  BY DEF LogInit, LogTypes, NoCall
<1>3. ~Playing
  BY DEF Init, LogInit, Playing
<1>4. \A i \in DOMAIN log : calls[i] = NoCall
  BY DEF LogInit
<1> QED
  BY <1>1, <1>2, <1>3, <1>4 DEF LogInductive

\* A step that leaves the history alone.
LEMMA LogRests ==
  ASSUME LogInductive, UNCHANGED vars
  PROVE  Inductive'
<1> QED
  BY DEF LogInductive, vars, Inductive, TypeOK, OpenAgrees, ProcessAgrees, LogIsSound, Precedes,
         OpenCallsAreLast, ProcessesAreSequential,
         Recording!OpenCall, Recording!Invokes, Recording!Completed, Recording!Lives,
         Recording!Uses, Recording!IsNext

LEMMA SortBegins == ASSUME LogInductive, Sort PROVE LogInductive'
<1>1. /\ events = <<>> /\ events' = <<>> /\ moments = {} /\ moments' = Moments(log)
      /\ log' = log /\ calls' = calls /\ Broken = {} /\ Broken' = {}
  BY DEF Sort, vars, Broken, Refuses
<1>2. Inductive' /\ LogTypes
  BY LogRests DEF Sort, LogInductive
<1>3. \A i \in DOMAIN log : calls[i] = NoCall
  BY <1>1 DEF LogInductive, Playing
<1>4. Moments(log)' = Moments(log)
  BY <1>1
<1>5. LogTypes'
  BY <1>1, <1>2, <1>4 DEF LogTypes
<1>6. \A i \in DOMAIN log : calls'[i] = NoCall
  BY <1>1, <1>3
<1>7. PlayedInOrder'
  BY <1>1, <1>4 DEF PlayedInOrder
<1>8. CallsAreInvocations'
  <2>1. \A i \in DOMAIN log : StartOf(i) \in Moments(log)
    BY <1>1, <1>2, MomentFacts
  <2>2. \A i \in DOMAIN log : StartOf(i)' = StartOf(i)
    BY <1>1 DEF StartOf
  <2>3. DOMAIN events' = {}
    BY <1>1
  <2> QED
    BY <2>1, <2>2, <2>3, <1>1, <1>6 DEF CallsAreInvocations
<1>9. EndsAreCompletions' /\ OrderSoFar'
  BY <1>1, <1>6 DEF EndsAreCompletions, OrderSoFar
<1> QED
  BY <1>1, <1>2, <1>5, <1>6, <1>7, <1>8, <1>9 DEF LogInductive

LEMMA LogGoesOn == LogInductive /\ [LogNext]_<<vars, logVars>> => LogInductive'
<1> SUFFICES ASSUME LogInductive, [LogNext]_<<vars, logVars>> PROVE LogInductive'
  OBVIOUS
<1>1. CASE Sort
  BY <1>1, SortBegins
<1>2. CASE UNCHANGED <<vars, log, moments, calls>>
  <2>1. Inductive'
    BY <1>2, LogRests
  <2> QED
    BY <2>1, <1>2 DEF LogInductive, LogTypes, Playing, Broken, Refuses, PlayedInOrder,
                      CallsAreInvocations, EndsAreCompletions, OrderSoFar, PlaceOf,
                      StartOf, EndOf, Ends, vars, Recording!Invokes, Recording!Completed
<1>3. CASE Play
  <2>1. PICK m \in moments :
          /\ ComesFirst(m)
          /\ \/ /\ m.phase = 0
                /\ Invoke(log[m.entry].client)
                /\ calls' = [calls EXCEPT ![m.entry] = Len(events) + 1]
             \/ /\ m.phase = 1
                /\ Complete(calls[m.entry], log[m.entry].kind)
                /\ UNCHANGED calls
          /\ moments' = moments \ {m}
          /\ UNCHANGED <<log, refused>>
    BY <1>3 DEF Play
  <2>2. Inductive /\ LogTypes /\ Broken = {} /\ CallsAreInvocations
    BY DEF LogInductive, Playing
  <2>3. m.entry \in DOMAIN log
    BY <2>2, MomentFacts DEF LogTypes
  <2>4. CASE m.phase = 0 /\ Invoke(log[m.entry].client)
             /\ calls' = [calls EXCEPT ![m.entry] = Len(events) + 1]
    <3>1. log[m.entry].client \in Clients
      BY <2>2, <2>3, AcceptedEntries
    <3>2. Inductive'
      BY <3>1, <2>2, <2>4, InvokePreserves
    <3> QED
      BY <3>2, <2>1, <2>4, PlayStart
  <2>5. CASE m.phase = 1 /\ Complete(calls[m.entry], log[m.entry].kind) /\ UNCHANGED calls
    <3>1. log[m.entry].kind \in Recording!Endings
      <4>1. Ends(m.entry)
        BY <2>2, <2>5, MomentFacts DEF LogTypes
      <4> QED
        BY <4>1, <2>2, <2>3, AcceptedEntries
    <3>2. calls[m.entry] \in DOMAIN events
      <4>1. calls[m.entry] # NoCall
        BY <2>1, <2>5, TheFirstIsAccepted
      <4> QED
        BY <4>1, <2>2, <2>3 DEF CallsAreInvocations
    <3>3. Inductive'
      BY <3>1, <3>2, <2>2, <2>5, CompletePreserves
    <3> QED
      BY <3>3, <2>1, <2>5, PlayEnd
  <2> QED
    BY <2>1, <2>4, <2>5
<1> QED
  BY <1>1, <1>2, <1>3 DEF LogNext, Refuse, logVars

\* What is left of the log and the history agree after every moment.
THEOREM LogInvariantHolds == LogSpec => []LogInductive
<1>1. Init /\ LogInit => LogInductive
  BY LogBegins
<1>2. LogInductive /\ [LogNext]_<<vars, logVars>> => LogInductive'
  BY LogGoesOn
<1> QED
  BY <1>1, <1>2, PTL DEF LogSpec

\* The history of any log that from_intervals accepts has the calls of the log in the
\* order of the clock, and refuses none of them.
THEOREM LogsArePlayedInOrder == LogSpec => []IntervalsKeepTheirOrder
<1>1. LogInductive => IntervalsKeepTheirOrder
  <2> SUFFICES ASSUME LogInductive PROVE IntervalsKeepTheirOrder
    OBVIOUS
  <2>1. LogIsPlayed
    BY TheFirstIsAccepted DEF LogIsPlayed
  <2>2. OrderOfTheClock
    BY DEF OrderOfTheClock, LogInductive, OrderSoFar, Ends
  <2> QED
    BY <2>1, <2>2 DEF IntervalsKeepTheirOrder
<1> QED
  BY <1>1, LogInvariantHolds, PTL

-----------------------------------------------------------------------------
(***************************************************************************)
(* Pool, for any searches and any number of workers.                       *)
(***************************************************************************)

LEMMA PoolInitInductive == PoolInit => PoolInductive
  <1> SUFFICES ASSUME PoolInit PROVE PoolInductive
    OBVIOUS
  <1>1. searches \in Seq(Searching) /\ Len(searches) \in Nat
    BY ChecksAreSearches DEF PoolInit
  <1>2. \A i \in DOMAIN searches : futures[i] = Waiting
    BY DEF PoolInit
  <1>3. PoolTypeOK
    <2>1. futures \in [DOMAIN searches -> [is : {"idle", "queued", "running", "ended", "cancelled"},
                                         reads : Nat, ending : {"none"} \cup Outcomes]]
      BY DEF PoolInit, Waiting
    <2>2. report \in [outcome : {"none", "interrupted", "passed", "undecided"} \cup Decisive,
                     partition : 0 .. Len(searches)]
      BY <1>1 DEF PoolInit, NoReport
    <2>3. given \in Seq(Outcomes) /\ Len(given) = 0
      BY DEF PoolInit
    <2>4. /\ timed \in BOOLEAN /\ isLate \in BOOLEAN /\ stopped \in BOOLEAN
          /\ phase \in {"submit", "loop"} /\ submitted = 0 /\ firstUndecided = 0
      BY DEF PoolInit
    <2> QED
      BY <1>1, <2>1, <2>2, <2>3, <2>4 DEF PoolTypeOK
  <1>4. EndingsAreTrue /\ GivenAreTrue /\ LoopIsUndecided
    BY <1>2 DEF PoolInit, EndingsAreTrue, GivenAreTrue, LoopIsUndecided, Waiting
  <1>5. PhasesHoldTheSearches
    BY <1>1, <1>2 DEF PoolInit, PhasesHoldTheSearches, RunsInTheCheck, Waiting
  <1>6. ReportIsOfOneWorker
    BY DEF PoolInit, ReportIsOfOneWorker, NoReport
  <1> QED
    BY <1>3, <1>4, <1>5, <1>6 DEF PoolInductive

(***************************************************************************)
(* What one worker reports does not change once a check has its report.    *)
(***************************************************************************)
LEMMA ReportStays ==
  ASSUME ReportIsOfOneWorker, searches' = searches, report' = report, isLate => isLate'
  PROVE  ReportIsOfOneWorker'
  BY DEF ReportIsOfOneWorker, IsOfTheSearches

LEMMA SearchFacts ==
  ASSUME PoolTypeOK, NEW k \in DOMAIN searches
  PROVE  searches[k] \in Searching /\ searches[k].ending \in Outcomes
  <1>1. searches[k] \in Searching
    BY DEF PoolTypeOK
  <1> QED
    BY <1>1 DEF Searching, Outcomes

-----------------------------------------------------------------------------
(***************************************************************************)
(* The searches and the clock.                                             *)
(***************************************************************************)
LEMMA SubmitPreserves == ASSUME PoolInductive, Submit PROVE PoolInductive'
  <1> USE DEF PoolInductive, Submit, Becomes
  <1>1. ReportIsOfOneWorker'
    BY ReportStays
  <1>2. submitted + 1 \in DOMAIN searches /\ ~RunsInTheCheck
    <2>1. searches \in Seq(Searching) /\ submitted \in 0 .. Len(searches)
      BY DEF PoolTypeOK
    <2>2. submitted < Len(searches) /\ ~RunsInTheCheck
      BY DEF PhasesHoldTheSearches
    <2> QED
      BY <2>1, <2>2
  <1>3. /\ DOMAIN futures = DOMAIN searches /\ DOMAIN futures' = DOMAIN futures
        /\ \A i \in DOMAIN futures :
             futures'[i] = IF i = submitted + 1 THEN Becomes(futures[i], "queued") ELSE futures[i]
    BY <1>2 DEF PoolTypeOK
  <1>4. PoolTypeOK'
    BY <1>2, <1>3 DEF PoolTypeOK
  <1>5. EndingsAreTrue'
    BY <1>3 DEF EndingsAreTrue, PoolTypeOK
  <1>6. GivenAreTrue' /\ LoopIsUndecided'
    BY DEF GivenAreTrue, LoopIsUndecided
  <1>7. PhasesHoldTheSearches'
    <2>1. ~RunsInTheCheck' /\ phase' \in {"submit", "loop"}
      BY <1>2 DEF RunsInTheCheck
    <2>2. submitted' \in 0 .. Len(searches) /\ searches' = searches
      BY <1>4 DEF PoolTypeOK
    <2>3. phase' = "submit" => submitted' < Len(searches')
      BY <2>2
    <2> QED
      BY <2>1, <2>3 DEF PhasesHoldTheSearches
  <1> QED
    BY <1>1, <1>4, <1>5, <1>6, <1>7

LEMMA BeginPreserves ==
  ASSUME PoolInductive, NEW i \in DOMAIN futures, Begin(i) PROVE PoolInductive'
  <1> USE DEF PoolInductive, Begin, Becomes
  <1>1. ReportIsOfOneWorker'
    BY ReportStays
  <1>2. /\ DOMAIN futures = DOMAIN searches /\ DOMAIN futures' = DOMAIN futures
        /\ \A j \in DOMAIN futures :
             futures'[j] = IF j = i THEN Becomes(futures[j], "running") ELSE futures[j]
    BY DEF PoolTypeOK
  <1>3. PoolTypeOK'
    BY <1>2 DEF PoolTypeOK
  <1>4. EndingsAreTrue'
    BY <1>2 DEF EndingsAreTrue, PoolTypeOK
  <1>5. GivenAreTrue' /\ LoopIsUndecided'
    BY DEF GivenAreTrue, LoopIsUndecided
  <1>6. \A j \in DOMAIN futures :
          futures'[j].is = IF j = i THEN "running" ELSE futures[j].is
    BY <1>2 DEF PoolTypeOK
  <1>7. \/ futures[i].is = "queued"
        \/ RunsInTheCheck /\ phase = "loop" /\ i = Asked
    BY DEF Queued
  <1>8. PhasesHoldTheSearches'
    BY <1>2, <1>6, <1>7 DEF PhasesHoldTheSearches, RunsInTheCheck, Asked
  <1> QED
    BY <1>1, <1>3, <1>4, <1>5, <1>8

LEMMA AdvancePreserves ==
  ASSUME PoolInductive, NEW i \in DOMAIN futures, Advance(i) PROVE PoolInductive'
  <1> USE DEF PoolInductive, Advance
  <1> DEFINE next == IF futures[i].reads = searches[i].reads THEN EndsWith(futures[i], searches[i].ending)
                     ELSE IF Passed THEN EndsWith(futures[i], "time")
                     ELSE [is |-> "running", reads |-> futures[i].reads + 1, ending |-> futures[i].ending]
  <1>1. ReportIsOfOneWorker'
    BY ReportStays
  <1>2. /\ DOMAIN futures = DOMAIN searches /\ DOMAIN futures' = DOMAIN futures
        /\ \A j \in DOMAIN futures : futures'[j] = IF j = i THEN next ELSE futures[j]
    BY DEF PoolTypeOK
  <1>3. futures[i].is = "running"
    BY DEF Running
  <1>4. /\ searches[i].ending \in Outcomes /\ "time" \in Outcomes
        /\ futures[i] \in [is : {"idle", "queued", "running", "ended", "cancelled"},
                           reads : Nat, ending : {"none"} \cup Outcomes]
    BY SearchFacts DEF PoolTypeOK, Outcomes
  <1>5. /\ next \in [is : {"idle", "queued", "running", "ended", "cancelled"},
                     reads : Nat, ending : {"none"} \cup Outcomes]
        /\ next.is \in {"running", "ended"}
        /\ next.is = "ended" => next.ending = searches[i].ending \/ (Passed /\ next.ending = "time")
    <2>1. CASE futures[i].reads = searches[i].reads
      BY <1>4, <2>1 DEF EndsWith
    <2>2. CASE futures[i].reads # searches[i].reads /\ Passed
      BY <1>4, <2>2 DEF EndsWith
    <2>3. CASE futures[i].reads # searches[i].reads /\ ~Passed
      BY <1>4, <2>3
    <2> QED
      BY <2>1, <2>2, <2>3
  <1>6. PoolTypeOK'
    BY <1>2, <1>5 DEF PoolTypeOK
  <1>7. EndingsAreTrue'
    BY <1>2, <1>5 DEF EndingsAreTrue, Passed
  <1>8. GivenAreTrue' /\ LoopIsUndecided'
    BY DEF GivenAreTrue, LoopIsUndecided
  <1>9. \A j \in DOMAIN futures :
          futures'[j].is = futures[j].is \/ (j = i /\ futures'[j].is = "ended")
    BY <1>2, <1>3, <1>5
  <1>10. PhasesHoldTheSearches'
    BY <1>2, <1>9 DEF PhasesHoldTheSearches, RunsInTheCheck, Asked
  <1> QED
    BY <1>1, <1>6, <1>7, <1>8, <1>10

LEMMA TimePassesPreserves == ASSUME PoolInductive, TimePasses PROVE PoolInductive'
  <1> USE DEF PoolInductive, TimePasses
  <1>1. ReportIsOfOneWorker'
    BY ReportStays
  <1>2. PoolTypeOK' /\ PhasesHoldTheSearches'
    BY DEF PoolTypeOK, PhasesHoldTheSearches, RunsInTheCheck, Asked
  <1>3. EndingsAreTrue' /\ GivenAreTrue' /\ LoopIsUndecided'
    BY DEF EndingsAreTrue, GivenAreTrue, LoopIsUndecided
  <1> QED
    BY <1>1, <1>2, <1>3

-----------------------------------------------------------------------------
(***************************************************************************)
(* The loop of the check.                                                  *)
(***************************************************************************)
LEMMA TakePreserves == ASSUME PoolInductive, Take PROVE PoolInductive'
  <1> DEFINE n == Len(given)
             answer == futures[Asked].ending
  <1> USE DEF PoolInductive
  <1>1. /\ n \in Nat /\ Asked = n + 1 /\ Asked \in DOMAIN searches
        /\ DOMAIN futures = DOMAIN searches /\ Len(searches) \in Nat
        /\ futures[Asked].is = "ended" /\ phase = "loop" /\ ~stopped
    BY DEF Take, Takes, Asked, PoolTypeOK, GivenAreTrue
  <1>2. answer = searches[Asked].ending \/ (isLate /\ answer = "time")
    BY <1>1 DEF EndingsAreTrue
  <1>3. answer \in Outcomes
    <2>1. searches[Asked].ending \in Outcomes
      BY <1>1, SearchFacts
    <2> QED
      BY <1>2, <2>1 DEF Outcomes
  <1>4. /\ given' \in Seq(Outcomes) /\ Len(given') = n + 1 /\ given'[n + 1] = answer
        /\ DOMAIN given = 1 .. n /\ DOMAIN given' = 1 .. n + 1
        /\ \A k \in 1 .. n : given'[k] = given[k]
    BY <1>1, <1>3 DEF Take, Takes, PoolTypeOK
  <1>5. UNCHANGED <<searches, workers, timed, futures, submitted, stopped, isLate>>
    BY DEF Take
  <1>6. EndingsAreTrue'
    BY <1>5 DEF EndingsAreTrue
  <1>7. \A k \in DOMAIN given' : given'[k] = searches[k].ending \/ (isLate /\ given'[k] = "time")
    BY <1>1, <1>2, <1>4 DEF GivenAreTrue
  <1>8. GivenAreTrue'
    BY <1>1, <1>5, <1>7 DEF GivenAreTrue
  <1>9. CASE answer \in Decisive
    <2>1. report' = [outcome |-> answer, partition |-> n + 1] /\ phase' = "leave"
          /\ firstUndecided' = firstUndecided
      BY <1>1, <1>9 DEF Take, Takes
    <2>2. PoolTypeOK'
      BY <1>1, <1>4, <1>5, <1>9, <2>1 DEF PoolTypeOK
    <2>3. LoopIsUndecided'
      BY <2>1 DEF LoopIsUndecided
    <2>4. PhasesHoldTheSearches'
      BY <1>1, <1>5, <2>1 DEF PhasesHoldTheSearches, RunsInTheCheck
    <2>5. ReportIsOfOneWorker'
      <3> DEFINE es == [k \in DOMAIN searches |-> IF k <= n + 1 THEN given'[k] ELSE searches[k].ending]
      <3>1. es \in [DOMAIN searches -> Outcomes]
        <4>1. \A k \in DOMAIN searches : searches[k].ending \in Outcomes
          BY SearchFacts
        <4>2. \A k \in DOMAIN searches : k <= n + 1 => given'[k] \in Outcomes
          BY <1>1, <1>4 DEF PoolTypeOK
        <4> QED
          BY <4>1, <4>2
      <3>2. \A k \in DOMAIN searches : es[k] = searches[k].ending \/ (isLate /\ es[k] = "time")
        BY <1>1, <1>4, <1>7 DEF PoolTypeOK
      <3>3. \A k \in DOMAIN es : k < n + 1 => es[k] \notin Decisive
        BY <1>1, <1>4 DEF LoopIsUndecided, PoolTypeOK
      <3>4. IsReportOf(report', es)
        BY <1>1, <1>4, <1>9, <2>1, <3>3 DEF IsReportOf
      <3> QED
        BY <1>5, <3>1, <3>2, <3>4 DEF ReportIsOfOneWorker, IsOfTheSearches
    <2> QED
      BY <1>6, <1>8, <2>2, <2>3, <2>4, <2>5
  <1>10. CASE answer \notin Decisive
    <2>1. /\ report' = report /\ phase' = "loop"
          /\ firstUndecided' = IF answer \in UndecidedEndings /\ firstUndecided = 0 THEN n + 1
                               ELSE firstUndecided
      BY <1>1, <1>10 DEF Take, Takes
    <2>2. PoolTypeOK'
      BY <1>1, <1>4, <1>5, <2>1 DEF PoolTypeOK
    <2>3. answer = "passed" \/ answer \in UndecidedEndings
      BY <1>3, <1>10 DEF Outcomes, UndecidedEndings
    <2>4. LoopIsUndecided'
      <3>1. /\ report = NoReport /\ \A k \in 1 .. n : given[k] \notin Decisive
            /\ firstUndecided = 0 => \A k \in 1 .. n : given[k] = "passed"
            /\ firstUndecided # 0 =>
                 /\ given[firstUndecided] \in UndecidedEndings
                 /\ \A k \in 1 .. n : k < firstUndecided => given[k] = "passed"
            /\ firstUndecided \in 0 .. n
        BY <1>1, <1>4 DEF LoopIsUndecided, PoolTypeOK
      <3>2. \A k \in 1 .. n + 1 : given'[k] = IF k = n + 1 THEN answer ELSE given[k]
        BY <1>1, <1>4
      <3>3. \A k \in 1 .. n + 1 : given'[k] \notin Decisive
        BY <1>1, <1>10, <3>1, <3>2
      <3>4. CASE firstUndecided' = 0
        <4>1. firstUndecided = 0 /\ answer = "passed"
          BY <1>1, <2>1, <2>3, <3>4
        <4> QED
          BY <1>1, <1>4, <2>1, <3>1, <3>2, <3>3, <3>4, <4>1 DEF LoopIsUndecided, NoReport
      <3>5. CASE firstUndecided' # 0
        <4>1. /\ given'[firstUndecided'] \in UndecidedEndings
              /\ \A k \in 1 .. n + 1 : k < firstUndecided' => given'[k] = "passed"
          <5>1. CASE firstUndecided = 0
            BY <1>1, <2>1, <3>1, <3>2, <3>5, <5>1
          <5>2. CASE firstUndecided # 0
            BY <1>1, <2>1, <3>1, <3>2, <5>2
          <5> QED
            BY <5>1, <5>2
        <4> QED
          BY <1>4, <2>1, <3>1, <3>3, <3>5, <4>1 DEF LoopIsUndecided, NoReport
      <3> QED
        BY <3>4, <3>5
    <2>5. \A i \in DOMAIN futures : i = Asked => futures[i].is # "running"
      BY <1>1
    <2>6. PhasesHoldTheSearches'
      BY <1>1, <1>5, <2>1, <2>5 DEF PhasesHoldTheSearches, RunsInTheCheck
    <2>7. ReportIsOfOneWorker'
      BY <1>1, <2>1 DEF ReportIsOfOneWorker, LoopIsUndecided, NoReport
    <2> QED
      BY <1>6, <1>8, <2>2, <2>4, <2>6, <2>7
  <1> QED
    BY <1>9, <1>10

LEMMA ConcludePreserves == ASSUME PoolInductive, Conclude PROVE PoolInductive'
  <1> USE DEF PoolInductive, Conclude
  <1>1. /\ Len(given) = Len(searches) /\ DOMAIN given = DOMAIN searches
        /\ Len(searches) \in Nat /\ DOMAIN searches = 1 .. Len(searches)
        /\ firstUndecided \in 0 .. Len(given)
    BY DEF PoolTypeOK, Asked
  <1>2. PoolTypeOK'
    BY <1>1 DEF PoolTypeOK
  <1>3. EndingsAreTrue' /\ GivenAreTrue' /\ LoopIsUndecided'
    BY DEF EndingsAreTrue, GivenAreTrue, LoopIsUndecided
  <1>4. PhasesHoldTheSearches'
    BY <1>1 DEF PhasesHoldTheSearches, RunsInTheCheck, Asked, PoolTypeOK
  <1>5. ReportIsOfOneWorker'
    <2>1. given \in [DOMAIN searches -> Outcomes]
      BY <1>1 DEF PoolTypeOK
    <2>2. IsOfTheSearches(given)'
      BY <1>1 DEF IsOfTheSearches, GivenAreTrue
    <2>3. IsReportOf(report', given)
      BY <1>1 DEF IsReportOf, LoopIsUndecided
    <2> QED
      BY <2>1, <2>2, <2>3 DEF ReportIsOfOneWorker
  <1> QED
    BY <1>2, <1>3, <1>4, <1>5

LEMMA InterruptPreserves == ASSUME PoolInductive, Interrupt PROVE PoolInductive'
  <1> USE DEF PoolInductive, Interrupt, Becomes
  <1>1. /\ DOMAIN futures' = DOMAIN futures /\ DOMAIN futures = DOMAIN searches
        /\ \A i \in DOMAIN futures :
             futures'[i] = IF RunsInTheCheck /\ i \in Running THEN Becomes(futures[i], "cancelled")
                           ELSE futures[i]
    BY DEF PoolTypeOK
  <1>2. PoolTypeOK'
    BY <1>1 DEF PoolTypeOK
  <1>3. EndingsAreTrue' /\ GivenAreTrue' /\ LoopIsUndecided'
    BY <1>1 DEF EndingsAreTrue, GivenAreTrue, LoopIsUndecided, PoolTypeOK
  <1>4. PhasesHoldTheSearches'
    BY <1>1 DEF PhasesHoldTheSearches, RunsInTheCheck, PoolTypeOK, Running
  <1>5. ReportIsOfOneWorker'
    BY DEF ReportIsOfOneWorker
  <1> QED
    BY <1>2, <1>3, <1>4, <1>5

-----------------------------------------------------------------------------
(***************************************************************************)
(* The finally block of the check.                                         *)
(***************************************************************************)
LEMMA LeavePreserves == ASSUME PoolInductive, Leave PROVE PoolInductive'
  <1> USE DEF PoolInductive, Leave
  <1>1. ReportIsOfOneWorker'
    BY ReportStays
  <1>2. PoolTypeOK' /\ EndingsAreTrue' /\ GivenAreTrue' /\ LoopIsUndecided'
    BY DEF PoolTypeOK, EndingsAreTrue, GivenAreTrue, LoopIsUndecided
  <1>3. PhasesHoldTheSearches'
    BY DEF PhasesHoldTheSearches, RunsInTheCheck
  <1> QED
    BY <1>1, <1>2, <1>3

LEMMA CancelPreserves == ASSUME PoolInductive, Cancel PROVE PoolInductive'
  <1> USE DEF PoolInductive, Cancel, Becomes
  <1>1. ReportIsOfOneWorker'
    BY ReportStays
  <1>2. /\ DOMAIN futures' = DOMAIN futures /\ DOMAIN futures = DOMAIN searches
        /\ \A i \in DOMAIN futures :
             futures'[i] = IF i \in Queued THEN Becomes(futures[i], "cancelled") ELSE futures[i]
    BY DEF PoolTypeOK
  <1>3. PoolTypeOK'
    BY <1>2 DEF PoolTypeOK
  <1>4. EndingsAreTrue' /\ GivenAreTrue' /\ LoopIsUndecided'
    BY <1>2 DEF EndingsAreTrue, GivenAreTrue, LoopIsUndecided, PoolTypeOK
  <1>5. PhasesHoldTheSearches'
    BY <1>2 DEF PhasesHoldTheSearches, RunsInTheCheck, PoolTypeOK, Queued
  <1> QED
    BY <1>1, <1>3, <1>4, <1>5

LEMMA JoinPreserves == ASSUME PoolInductive, Join PROVE PoolInductive'
  <1> USE DEF PoolInductive, Join
  <1>1. ReportIsOfOneWorker'
    BY ReportStays
  <1>2. PoolTypeOK' /\ EndingsAreTrue' /\ GivenAreTrue' /\ LoopIsUndecided'
    BY DEF PoolTypeOK, EndingsAreTrue, GivenAreTrue, LoopIsUndecided
  <1>3. PhasesHoldTheSearches'
    BY DEF PhasesHoldTheSearches, RunsInTheCheck, Running
  <1> QED
    BY <1>1, <1>2, <1>3

-----------------------------------------------------------------------------
LEMMA NextPreserves == ASSUME PoolInductive, [PoolNext]_poolVars PROVE PoolInductive'
  <1>1. CASE UNCHANGED poolVars
    <2> USE <1>1 DEF poolVars, PoolInductive
    <2>1. ReportIsOfOneWorker'
      BY ReportStays
    <2>2. PoolTypeOK' /\ EndingsAreTrue'
      BY DEF PoolTypeOK, EndingsAreTrue
    <2>3. GivenAreTrue' /\ LoopIsUndecided'
      BY DEF GivenAreTrue, LoopIsUndecided
    <2>4. PhasesHoldTheSearches'
      BY DEF PhasesHoldTheSearches, RunsInTheCheck, Asked
    <2> QED
      BY <2>1, <2>2, <2>3, <2>4
  <1>2. CASE PoolNext
    BY <1>2, SubmitPreserves, BeginPreserves, AdvancePreserves, TimePassesPreserves, TakePreserves,
       ConcludePreserves, InterruptPreserves, LeavePreserves, CancelPreserves, JoinPreserves
    DEF PoolNext
  <1> QED
    BY <1>1, <1>2

\* Every state of a check agrees with the endings that its searches have: what the check
\* knows, where its searches may run, and whose time has passed.
THEOREM PoolInvariantHolds == PoolSpec => []PoolInductive
  <1>1. PoolInit => PoolInductive
    BY PoolInitInductive
  <1>2. PoolInductive /\ [PoolNext]_poolVars => PoolInductive'
    BY NextPreserves
  <1> QED
    BY <1>1, <1>2, PTL DEF PoolSpec

\* A check on any number of workers reports what one worker reports, and no search of it
\* is left when it returns (_endings and check of linearizable.py).
THEOREM WorkersReportAsOne == PoolSpec => []PoolKeepsItsWord
  <1>1. PoolInductive => PoolKeepsItsWord
    BY DEF PoolInductive, PoolKeepsItsWord, PhasesHoldTheSearches, NoSearchOutlivesItsCheck
  <1> QED
    BY <1>1, PoolInvariantHolds, PTL

-----------------------------------------------------------------------------
(***************************************************************************)
(* The check of linearizability (Search, Linearizable): for any histories, *)
(* any spec whose calls leave sequences of states, and any limits.         *)
(***************************************************************************)

(***************************************************************************)
(* The inductive invariant.                                                *)
(***************************************************************************)

CallsOfInputs == UNION {ToSet(CallsOf(input.events)) : input \in Inputs}

\* The calls of a partition: their events are all different, in the order of their
\* invocations, and a call completes behind its invocation.
ArePart(cs) ==
  /\ cs \in Seq(CallsOfInputs)
  /\ \A n \in DOMAIN cs :
       /\ cs[n].call \in Nat /\ cs[n].completion \in Nat /\ cs[n].known \in BOOLEAN
       /\ cs[n].known => cs[n].call < cs[n].completion
  /\ \A m, n \in DOMAIN cs :
       /\ m # n => cs[m].call # cs[n].call
       /\ m # n /\ cs[m].known /\ cs[n].known => cs[m].completion # cs[n].completion
       /\ cs[n].known => cs[m].call # cs[n].completion

\* The entry of the invocation or of the completion of the call at a position.
EntryAt(es, n, invokes) ==
  CHOOSE e \in DOMAIN es : es[e].position = n /\ es[e].invokes = invokes

EventAt(cs, e) == IF e.invokes THEN cs[e.position].call ELSE cs[e.position].completion

\* The entries of a partition, each call with its own, in event order.
AreEntries(es, cs) ==
  /\ es \in Seq([event : Nat, position : DOMAIN cs, invokes : BOOLEAN])
  /\ \A e, f \in DOMAIN es : e < f => es[e].event < es[f].event
  /\ \A e \in DOMAIN es :
       /\ es[e].event = EventAt(cs, es[e])
       /\ es[e].invokes \/ cs[es[e].position].known
       /\ e = EntryAt(es, es[e].position, es[e].invokes)
  /\ \A n \in DOMAIN cs, invokes \in BOOLEAN :
       invokes \/ cs[n].known =>
         /\ EntryAt(es, n, invokes) \in DOMAIN es
         /\ es[EntryAt(es, n, invokes)].position = n
         /\ es[EntryAt(es, n, invokes)].invokes = invokes

HeldIn(es, done) == {e \in DOMAIN es : es[e].position \notin done}

\* q is the next place behind p in a list of the entries of H, and p the one before q.
Follows(q, p, H, m) == q \in H \cup {m + 1} /\ p < q /\ \A h \in H : p < h => q <= h
Leads(p, q, H) == p \in {0} \cup H /\ p < q /\ \A h \in H : h < q => h <= p

Links(m) == [next : [0 .. m + 1 -> 0 .. m + 1], prev : [0 .. m + 1 -> 0 .. m + 1]]

Linked(l, H, m) ==
  /\ \A p \in {0} \cup H : Follows(l.next[p], p, H, m)
  /\ \A q \in H \cup {m + 1} : Leads(l.prev[q], q, H)

\* What a place knows of its neighbours.  An entry that is out of the list keeps it.
Between(l, e, H, m) == Follows(l.next[e], e, H, m) /\ Leads(l.prev[e], e, H)

\* A call that was lifted from the list of the calls that are not done.
Lifted(l, cs, es, done, n) ==
  /\ Between(l, EntryAt(es, n, TRUE), HeldIn(es, done), Len(es))
  /\ cs[n].known => Between(l, EntryAt(es, n, FALSE),
                            HeldIn(es, done) \ {EntryAt(es, n, TRUE)}, Len(es))

\* The calls and the states before the k-th linearized call, or now.
Below(stk, k) == {stk[j].position : j \in {j \in DOMAIN stk : j < k}}
StatesAt(stk, now, k) == IF k \in DOMAIN stk THEN ToSet(stk[k].states) ELSE ToSet(now)
ConfAt(stk, now, k) == <<Below(stk, k), StatesAt(stk, now, k)>>

IsStack(stk, now, cs) ==
  /\ stk \in Seq([position : DOMAIN cs, states : Seq(States)]) /\ now \in Seq(States)
  /\ StatesAt(stk, now, 1) = {Initial}
  /\ \A k \in 1 .. Len(stk) + 1 : StatesAt(stk, now, k) # {}
  /\ \A k \in DOMAIN stk :
       /\ Minimal(cs, Below(stk, k), stk[k].position)
       /\ StatesAt(stk, now, k + 1) = Leaves(StatesAt(stk, now, k), cs[stk[k].position])

\* The configuration that a call leads to.
Then(cs, c, n) == <<c[1] \cup {n}, Leaves(c[2], cs[n])>>

\* The memo has what every candidate before an entry leads to, or every candidate.
TriedBefore(cs, es, visited, c, e) ==
  \A n \in DOMAIN cs :
    Minimal(cs, c[1], n) /\ Leaves(c[2], cs[n]) # {} /\ EntryAt(es, n, TRUE) < e
      => Then(cs, c, n) \in visited
Explored(cs, visited, c) ==
  /\ ~ (Known(cs) \subseteq c[1])
  /\ \A n \in DOMAIN cs :
       Minimal(cs, c[1], n) /\ Leaves(c[2], cs[n]) # {} => Then(cs, c, n) \in visited

\* A configuration of the memo is behind the search or on its way.
IsMemo(visited, stk, now, cs, es) ==
  /\ IsFiniteSet(visited)
  /\ \A c \in visited :
       Explored(cs, visited, c) \/ \E k \in 2 .. Len(stk) + 1 : c = ConfAt(stk, now, k)
  /\ \A k \in DOMAIN stk :
       /\ TriedBefore(cs, es, visited, ConfAt(stk, now, k), EntryAt(es, stk[k].position, TRUE))
       /\ ConfAt(stk, now, k + 1) \in visited

\* The scan is at an entry of the list behind candidates that were tried.
Scans(e, visited, stk, now, cs, es) ==
  /\ e \in HeldIn(es, Below(stk, Len(stk) + 1))
  /\ \A f \in HeldIn(es, Below(stk, Len(stk) + 1)) : f < e => es[f].invokes
  /\ TriedBefore(cs, es, visited, ConfAt(stk, now, Len(stk) + 1), e)

WithinLimits ==
  /\ spent.steps \in Nat /\ spent.clockAt \in Nat /\ spent.steps <= limits.budget
  /\ Cardinality(memo) * Len(partCalls) <= limits.memo
  /\ outcome = "steps" => \E s \in ToSet(states) : spent.steps + Cost(s) > limits.budget
  /\ outcome = "memo" => ~ HasRoom
  /\ outcome = "time" => late

\* What the search keeps of a partition: its list, its stack, its memo, and how many known
\* calls are not linearized.
Keeps(cs, es, l, stk, now, V, left) ==
  /\ ArePart(cs) /\ AreEntries(es, cs)
  /\ IsStack(stk, now, cs)
  /\ l \in Links(Len(es)) /\ Linked(l, HeldIn(es, Below(stk, Len(stk) + 1)), Len(es))
  /\ \A k \in DOMAIN stk : Lifted(l, cs, es, Below(stk, k), stk[k].position)
  /\ left = Cardinality(Known(cs) \ Below(stk, Len(stk) + 1))
  /\ IsMemo(V, stk, now, cs, es)

\* The search of a partition.
Searches ==
  /\ Keeps(partCalls, entries, list, stack, states, memo, openCalls)
  /\ outcome = "searching" /\ openCalls > 0 => Scans(entry, memo, stack, states, partCalls, entries)
  /\ WithinLimits
  /\ outcome = "passed" => IsLinearizable(partCalls)
  /\ outcome = "violated" => ~ IsLinearizable(partCalls)

\* What a check knows of the partitions that it searched.
KnowsItsPartitions ==
  /\ endings \in Seq(Ended)
  /\ \A i \in DOMAIN endings : /\ endings[i] = "passed" => IsLinearizable(partitions[i])
                               /\ endings[i] = "violated" => ~ IsLinearizable(partitions[i])
  /\ detail = NoDetail =>
       /\ Len(endings) <= Len(partitions)
       /\ undecided.partition = 0 \/ (undecided.partition \in DOMAIN endings /\ endings[undecided.partition] \in Undecided)
       /\ \A i \in DOMAIN endings :
            /\ endings[i] \in {"passed"} \cup Undecided
            /\ undecided.partition = 0 \/ i < undecided.partition => endings[i] \notin Undecided

\* Every partition of a check that passes is linearizable.
PassesAll == detail.outcome = "passed" => \A i \in DOMAIN partitions : IsLinearizable(partitions[i])

HasLimits ==
  /\ limits.budget \in Nat /\ limits.memo \in Nat /\ limits.timed \in BOOLEAN
  /\ late \in BOOLEAN /\ (late => limits.timed)

SearchInductive ==
  /\ HasLimits
  /\ partitions \in Seq(Seq(CallsOfInputs)) /\ \A i \in DOMAIN partitions : ArePart(partitions[i])
  /\ KnowsItsPartitions /\ ReportIsOfTheFirst /\ PassesAll
  /\ outcome \in Ended \cup {"idle", "searching"}
  /\ outcome # "idle" => Searches
  /\ outcome # "idle" /\ detail = NoDetail => at \in DOMAIN partitions /\ partCalls = partitions[at]

-----------------------------------------------------------------------------
LEMMA SmallerIsRelatedNat ==
  ASSUME NEW x \in Nat, NEW y \in Nat, y < x
  PROVE  <<y, x>> \in OpToRel(<, Nat)
  <1>1. <<y, x>> \in Nat \X Nat /\ <<y, x>>[1] < <<y, x>>[2]
    OBVIOUS
  <1> QED
    BY ONLY <1>1, Zenon DEF OpToRel

LEMMA SetsHaveALeast ==
  ASSUME NEW S \in SUBSET Nat, S # {}
  PROVE  \E x \in S : \A y \in S : x <= y
  <1>1. \A x \in S, y \in S : y < x => <<y, x>> \in OpToRel(<, Nat)
    BY SmallerIsRelatedNat
  <1>2. \E x \in S : \A y \in S : ~ (<<y, x>> \in OpToRel(<, Nat))
    BY NatLessThanWellFounded, WFMin
  <1>3. \E x \in S : \A y \in S : ~ (y < x)
    BY <1>1, <1>2, Zenon
  <1> QED
    BY <1>3

\* A set of numbers up to N that has 0 and the successor of each of its numbers.
LEMMA UpFromZero ==
  ASSUME NEW N \in Nat, NEW S, 0 \in S, \A n \in 1 .. N : n - 1 \in S => n \in S
  PROVE  0 .. N \subseteq S
  <1> DEFINE Bad == {n \in 0 .. N : n \notin S}
  <1> SUFFICES ASSUME Bad # {} PROVE FALSE
    OBVIOUS
  <1>1. PICK m \in Bad : \A n \in Bad : m <= n
    <2>1. Bad \in SUBSET Nat
      OBVIOUS
    <2> HIDE DEF Bad
    <2> QED
      BY <2>1, SetsHaveALeast
  <1>2. m \in 1 .. N /\ m - 1 \in 0 .. N /\ ~ (m <= m - 1)
    BY <1>1
  <1>3. m - 1 \in S
    BY <1>1, <1>2
  <1> QED
    BY <1>1, <1>2, <1>3

\* A recursion over the numbers up to N has a solution.
Solution(f, N, W, base, step) ==
  f \in [0 .. N -> W] /\ f[0] = base /\ \A n \in 1 .. N : f[n] = step[<<f[n - 1], n>>]

LEMMA RecursionHasASolution ==
  ASSUME NEW N \in Nat, NEW W, NEW base \in W, NEW step \in [W \X (1 .. N) -> W]
  PROVE  \E f : Solution(f, N, W, base, step)
  <1> DEFINE Upto(f, m) == f \in [0 .. m -> W] /\ f[0] = base
                           /\ \A n \in 1 .. m : f[n] = step[<<f[n - 1], n>>]
             S == {m \in 0 .. N : \E f : Upto(f, m)}
  <1>1. 0 \in S
    <2> DEFINE f == [n \in 0 .. 0 |-> base]
    <2>1. f \in [0 .. 0 -> W] /\ f[0] = base /\ 1 .. 0 = {}
      OBVIOUS
    <2> HIDE DEF f
    <2>2. Upto(f, 0)
      BY <2>1
    <2>3. \E g : Upto(g, 0)
      BY <2>2
    <2> HIDE DEF Upto
    <2> QED
      BY <2>3
  <1>2. ASSUME NEW m \in 1 .. N, m - 1 \in S PROVE m \in S
    <2>1. PICK f : Upto(f, m - 1)
      BY <1>2
    <2>2. m - 1 \in 0 .. m - 1 /\ 0 \in 0 .. m - 1 /\ f[m - 1] \in W
      BY <2>1
    <2> DEFINE g == [n \in 0 .. m |-> IF n < m THEN f[n] ELSE step[<<f[m - 1], m>>]]
    <2>3. step[<<f[m - 1], m>>] \in W
      BY <2>2
    <2>4. g \in [0 .. m -> W]
      BY <2>1, <2>3
    <2>5. g[0] = base
      BY <2>1
    <2>6. ASSUME NEW n \in 1 .. m PROVE g[n] = step[<<g[n - 1], n>>]
      <3>1. n - 1 \in 0 .. m /\ n - 1 < m /\ n \in 0 .. m /\ g[n - 1] = f[n - 1]
        OBVIOUS
      <3>2. CASE n < m
        <4>1. n \in 1 .. m - 1 /\ g[n] = f[n]
          BY <3>1, <3>2
        <4> HIDE DEF g
        <4> QED
          BY <2>1, <3>1, <4>1
      <3>3. CASE n = m
        <4>1. g[n] = step[<<f[m - 1], m>>]
          BY <3>1, <3>3
        <4> HIDE DEF g
        <4> QED
          BY <3>1, <3>3, <4>1
      <3> QED
        BY <3>2, <3>3
    <2> HIDE DEF g
    <2>7. Upto(g, m)
      BY <2>4, <2>5, <2>6
    <2> QED
      BY <2>7
  <1>3. N \in S
    <2> HIDE DEF S
    <2> QED
      BY <1>1, <1>2, UpFromZero
  <1> QED
    BY <1>3, Zenon DEF Solution


LEMMA SetsHaveAGreatest ==
  ASSUME NEW N \in Nat, NEW S \in SUBSET (0 .. N), S # {}
  PROVE  Max(S) \in S /\ \A y \in S : y <= Max(S)
  <1> DEFINE T == {N - x : x \in S}
  <1>0. PICK z \in S : TRUE
    OBVIOUS
  <1>1. T \in SUBSET Nat /\ N - z \in T
    OBVIOUS
  <1>2. PICK t \in T : \A u \in T : t <= u
    <2> HIDE DEF T
    <2> QED
      BY <1>1, SetsHaveALeast
  <1>3. PICK x \in S : t = N - x
    BY <1>2
  <1>4. \A y \in S : x >= y
    BY <1>2, <1>3
  <1>5. \E x1 \in S : \A y \in S : x1 >= y
    BY <1>4
  <1>6. Max(S) \in S /\ \A y \in S : Max(S) >= y
    BY <1>5, Zenon DEF Max
  <1> QED
    BY <1>6

LEMMA SetsHaveAMinimum ==
  ASSUME NEW S \in SUBSET Nat, S # {}
  PROVE  Min(S) \in S /\ \A y \in S : Min(S) <= y
  <1>1. \E z \in S : \A y \in S : z <= y
    BY SetsHaveALeast
  <1>2. Min(S) \in S /\ \A y \in S : Min(S) <= y
    BY <1>1, Zenon DEF Min
  <1> QED
    BY <1>2

LEMMA OneShorter ==
  ASSUME NEW S, NEW p \in Seq(S), p # <<>>
  PROVE  /\ Front(p) \in Seq(S) /\ Last(p) \in S /\ Append(Front(p), Last(p)) = p
         /\ Len(Front(p)) = Len(p) - 1 /\ Len(p) > 0 /\ Front(p) = SubSeq(p, 1, Len(p) - 1)
  <1>1. Len(p) \in Nat /\ Len(p) > 0
    OBVIOUS
  <1>2. Front(p) = SubSeq(p, 1, Len(p) - 1) /\ Last(p) = p[Len(p)]
    BY DEF Front, Last
  <1>3. SubSeq(p, 1, Len(p) - 1) \in Seq(S) /\ Len(SubSeq(p, 1, Len(p) - 1)) = Len(p) - 1 /\ p[Len(p)] \in S
    <2>1. \A i \in 1 .. Len(p) : p[i] \in S
      OBVIOUS
    <2>2. Len(p) - 1 \in Int /\ \A i \in 1 .. Len(p) - 1 : p[i] \in S
      BY <1>1, <2>1
    <2> DEFINE n == Len(p) - 1
    <2>3. n \in Int /\ 1 \in Int /\ \A i \in 1 .. n : p[i] \in S
      BY <2>2
    <2>4. n >= 0 /\ p[Len(p)] \in S
      BY <1>1, <2>1
    <2> HIDE DEF n
    <2>5. SubSeq(p, 1, n) \in Seq(S) /\ Len(SubSeq(p, 1, n)) = IF 1 <= n THEN n - 1 + 1 ELSE 0
      BY <2>3, SubSeqProperties
    <2>6. SubSeq(p, 1, n) \in Seq(S) /\ Len(SubSeq(p, 1, n)) = n
      BY <2>3, <2>4, <2>5
    <2> QED
      BY <2>4, <2>6 DEF n
  <1>4. Append(SubSeq(p, 1, Len(p) - 1), p[Len(p)]) = p
    <2> DEFINE n == Len(p)
    <2>1. n \in 1 .. Len(p) /\ SubSeq(p, 1, Len(p)) = p
      BY <1>1, SubSeqFull
    <2>2. SubSeq(p, 1, n) = Append(SubSeq(p, 1, n - 1), p[n])
      BY <2>1
    <2> QED
      BY <2>1, <2>2
  <1> QED
    BY <1>1, <1>2, <1>3, <1>4
-----------------------------------------------------------------------------
(***************************************************************************)
(* The members of a set in the order of their keys.                        *)
(***************************************************************************)

RanksOf(s, key) == [x \in s |-> Cardinality({y \in s : key[y] < key[x]}) + 1]

\* The number of the members with a lower key is a bijection to the first numbers.
LEMMA RanksCount ==
  ASSUME NEW s, IsFiniteSet(s), NEW key \in [s -> Int],
         \A x, y \in s : x # y => key[x] # key[y]
  PROVE  /\ RanksOf(s, key) \in Bijection(s, 1 .. Cardinality(s))
         /\ \A x, y \in s : RanksOf(s, key)[x] < RanksOf(s, key)[y] <=> key[x] < key[y]
         /\ Cardinality(s) \in Nat
  <1> DEFINE Lower(x) == {y \in s : key[y] < key[x]}
             r == RanksOf(s, key)
             n == Cardinality(s)
  <1>1. n \in Nat
    BY FS_CardinalityType
  <1>2. ASSUME NEW x \in s
        PROVE  /\ IsFiniteSet(Lower(x)) /\ Cardinality(Lower(x)) \in Nat
               /\ Cardinality(Lower(x)) < n
    <2>1. Lower(x) \in SUBSET s /\ x \in s /\ x \notin Lower(x)
      OBVIOUS
    <2> HIDE DEF Lower
    <2>2. IsFiniteSet(Lower(x)) /\ Cardinality(Lower(x)) <= n /\ Cardinality(Lower(x)) # n
      BY <2>1, FS_Subset
    <2>3. Cardinality(Lower(x)) \in Nat
      BY <2>2, FS_CardinalityType
    <2> QED
      BY <1>1, <2>2, <2>3
  <1>3. ASSUME NEW x \in s, NEW y \in s, key[x] < key[y]
        PROVE  Cardinality(Lower(x)) < Cardinality(Lower(y))
    <2>1. Lower(x) \in SUBSET Lower(y) /\ x \in Lower(y) /\ x \notin Lower(x)
      BY <1>3
    <2>2. IsFiniteSet(Lower(y)) /\ Cardinality(Lower(y)) \in Nat /\ Cardinality(Lower(x)) \in Nat
      BY <1>2
    <2> HIDE DEF Lower
    <2>3. Cardinality(Lower(x)) <= Cardinality(Lower(y)) /\ Cardinality(Lower(x)) # Cardinality(Lower(y))
      BY <2>1, <2>2, FS_Subset
    <2> QED
      BY <2>2, <2>3
  <1>4. \A x \in s : r[x] = Cardinality(Lower(x)) + 1
    BY DEF RanksOf
  <1>5. DOMAIN r = s /\ r = [x \in s |-> r[x]]
    BY DEF RanksOf
  <1>6. \A x \in s : key[x] \in Int
    OBVIOUS
  <1> HIDE DEF Lower, r, n
  <1>7. \A x \in s : r[x] \in 1 .. n
    BY <1>1, <1>2, <1>4
  <1>8. \A x, y \in s : r[x] < r[y] <=> key[x] < key[y]
    <2> SUFFICES ASSUME NEW x \in s, NEW y \in s
                 PROVE  r[x] < r[y] <=> key[x] < key[y]
      OBVIOUS
    <2>1. key[x] < key[y] => r[x] < r[y]
      BY <1>2, <1>3, <1>4
    <2>2. key[y] < key[x] => r[y] < r[x]
      BY <1>2, <1>3, <1>4
    <2>3. x = y \/ key[x] < key[y] \/ key[y] < key[x]
      BY <1>6
    <2> QED
      BY <1>1, <1>6, <1>7, <2>1, <2>2, <2>3
  <1>9. \A x, y \in s : r[x] = r[y] => x = y
    BY <1>1, <1>6, <1>7, <1>8
  <1>10. r \in Injection(s, 1 .. n)
    BY <1>5, <1>7, <1>9 DEF Injection, IsInjective
  <1>11. IsFiniteSet(1 .. n) /\ Cardinality(1 .. n) = n
    BY <1>1, FS_Interval
  <1>12. r \in Surjection(s, 1 .. n)
    BY <1>10, <1>11, FS_Injection DEF n
  <1>13. r \in Bijection(s, 1 .. n)
    BY <1>10, <1>12 DEF Bijection
  <1> QED
    BY <1>1, <1>8, <1>13 DEF r, n

\* Sorted has each member of the set once, in the order of the keys.
IsSortedOf(q, s, key) ==
  /\ Cardinality(s) \in Nat /\ DOMAIN q = 1 .. Cardinality(s) /\ q \in Seq(s) /\ Len(q) = Cardinality(s)
  /\ \A i, j \in DOMAIN q : i < j => key[q[i]] < key[q[j]]
  /\ \A x \in s : \E i \in DOMAIN q : q[i] = x

LEMMA SortedIsInOrder ==
  ASSUME NEW s, IsFiniteSet(s), NEW key \in [s -> Int],
         \A x, y \in s : x # y => key[x] # key[y]
  PROVE  IsSortedOf(Sorted(s, key), s, key)
  <1> DEFINE r == RanksOf(s, key)
             n == Cardinality(s)
             q == Sorted(s, key)
  <1>1. r \in Bijection(s, 1 .. n) /\ n \in Nat
        /\ \A x, y \in s : r[x] < r[y] <=> key[x] < key[y]
    BY RanksCount
  <1>2. /\ \A x \in s : r[x] \in 1 .. n
        /\ \A x, y \in s : r[x] = r[y] => x = y
        /\ \A i \in 1 .. n : \E x \in s : r[x] = i
    BY <1>1 DEF Bijection, Injection, Surjection, IsInjective
  <1> DEFINE At(i) == CHOOSE x \in s : Cardinality({y \in s : key[y] < key[x]}) = i - 1
  <1>3. q = [i \in 1 .. n |-> At(i)]
    BY DEF Sorted
  <1>4. DOMAIN q = 1 .. n /\ \A i \in 1 .. n : q[i] = At(i)
    BY <1>3
  <1>5. \A x \in s : r[x] = Cardinality({y \in s : key[y] < key[x]}) + 1
    BY DEF RanksOf
  <1>6. ASSUME NEW i \in 1 .. n
        PROVE  q[i] \in s /\ r[q[i]] = i
    <2> DEFINE Lower(x) == Cardinality({y \in s : key[y] < key[x]})
    <2>1. PICK x \in s : r[x] = i
      BY <1>2
    <2>2. ASSUME NEW y \in s PROVE Lower(y) \in Nat
      <3>1. {z \in s : key[z] < key[y]} \in SUBSET s
        OBVIOUS
      <3> QED
        BY <3>1, FS_Subset, FS_CardinalityType
    <2>3. \A y \in s : r[y] = Lower(y) + 1
      BY <1>5
    <2>4. q[i] = CHOOSE y \in s : Lower(y) = i - 1
      BY <1>4
    <2> HIDE DEF Lower, q, r
    <2>5. Lower(x) = i - 1
      BY <2>1, <2>2, <2>3
    <2>6. q[i] \in s /\ Lower(q[i]) = i - 1
      BY <2>4, <2>5, Zenon
    <2> QED
      BY <2>3, <2>6
  <1> HIDE DEF q, r, n, At
  <1>7. q \in Seq(s) /\ Len(q) = n
    BY <1>1, <1>3, <1>4, <1>6
  <1>8. \A i, j \in 1 .. n : i < j => key[q[i]] < key[q[j]]
    BY <1>1, <1>6
  <1>9. \A x \in s : \E i \in 1 .. n : q[i] = x
    BY <1>2, <1>6
  <1>10. n = Cardinality(s)
    BY DEF n
  <1> QED
    BY <1>1, <1>4, <1>7, <1>8, <1>9, <1>10 DEF IsSortedOf, q

-----------------------------------------------------------------------------
(***************************************************************************)
(* The calls of a history and their partitions.                            *)
(***************************************************************************)

AreEvents(es) ==
  es \in Seq(Range(es)) /\ \A e \in DOMAIN es : es[e].completes \in 0 .. e - 1

LEMMA CheckedCalls ==
  ASSUME NEW es, AreEvents(es), NEW i \in Invocations(es), NEW c, c = Checked(es, i)
  PROVE  /\ i \in Nat \ {0} /\ c.call = i /\ c.completion \in Nat /\ c.known \in BOOLEAN
         /\ c.known => /\ i < c.completion /\ c.completion \in DOMAIN es
                       /\ es[c.completion].completes = i
  <1> DEFINE S == CompletionsOf(es, i)
  <1>1. DOMAIN es = 1 .. Len(es) /\ Len(es) \in Nat
    BY DEF AreEvents
  <1>2. i \in DOMAIN es
    BY DEF Invocations
  <1>3. S \in SUBSET DOMAIN es /\ \A e \in S : es[e].completes = i
    BY DEF CompletionsOf
  <1>4. c.call = i /\ c.completion = Max(S \cup {0}) /\ c.known = (KindOf(es, i) = "ok")
    BY DEF Checked
  <1>5. KindOf(es, i) = "ok" => S # {}
    BY DEF KindOf
  <1> HIDE DEF S
  <1>6. Max(S \cup {0}) \in S \cup {0} /\ \A e \in S \cup {0} : e <= Max(S \cup {0})
    <2>1. S \cup {0} \in SUBSET (0 .. Len(es)) /\ S \cup {0} # {}
      BY <1>1, <1>3
    <2> QED
      BY <1>1, <2>1, SetsHaveAGreatest
  <1>7. c.known \in BOOLEAN
    BY <1>4
  <1>8. ASSUME c.known PROVE c.completion \in S
    <2>1. PICK e \in S : TRUE
      BY <1>4, <1>5, <1>8
    <2>2. e <= Max(S \cup {0})
      BY <1>6, <2>1, Zenon
    <2>3. e \in 1 .. Len(es)
      BY <1>1, <1>3, <2>1
    <2> HIDE DEF S
    <2> QED
      BY <1>1, <1>4, <1>6, <2>2, <2>3
  <1>9. \A e \in S : i < e
    <2> SUFFICES ASSUME NEW e \in S PROVE i < e
      OBVIOUS
    <2>1. es[e].completes \in 0 .. e - 1 /\ e \in Nat
      BY <1>1, <1>3 DEF AreEvents
    <2> QED
      BY <1>3, <2>1
  <1>10. c.completion \in Nat
    BY <1>1, <1>3, <1>4, <1>6
  <1> QED
    BY <1>1, <1>2, <1>3, <1>4, <1>7, <1>8, <1>9, <1>10

\* The calls of a history in event order.
LEMMA CallsAreChecked ==
  ASSUME NEW es, AreEvents(es)
  PROVE  \E order \in Seq(Invocations(es)) :
           /\ \A m, n \in DOMAIN order : m # n => order[m] # order[n]
           /\ CallsOf(es) = [n \in DOMAIN order |-> Checked(es, order[n])]
  <1> DEFINE kept == {i \in Invocations(es) : KindOf(es, i) # "fail"}
             key == [i \in kept |-> i]
             order == Sorted(kept, key)
  <1>1. DOMAIN es = 1 .. Len(es) /\ Len(es) \in Nat
    BY DEF AreEvents
  <1>2. kept \in SUBSET (1 .. Len(es)) /\ kept \in SUBSET Invocations(es)
    BY <1>1 DEF Invocations
  <1>3. CallsOf(es) = [n \in DOMAIN order |-> Checked(es, order[n])]
    BY DEF CallsOf
  <1> HIDE DEF kept
  <1>4. IsFiniteSet(kept)
    <2>1. IsFiniteSet(1 .. Len(es))
      BY <1>1, FS_Interval
    <2> QED
      BY <1>2, <2>1, FS_Subset
  <1>5. key \in [kept -> Int] /\ (\A x, y \in kept : x # y => key[x] # key[y])
        /\ \A x \in kept : key[x] = x
    BY <1>2
  <1> HIDE DEF key
  <1>6. IsSortedOf(order, kept, key)
    BY <1>4, <1>5, SortedIsInOrder
  <1> HIDE DEF order
  <1>7. order \in Seq(kept) /\ \A m, n \in DOMAIN order : m < n => key[order[m]] < key[order[n]]
    BY <1>6 DEF IsSortedOf
  <1>8. order \in Seq(Invocations(es))
    BY <1>2, <1>7
  <1>9. ASSUME NEW m \in DOMAIN order, NEW n \in DOMAIN order, m # n PROVE order[m] # order[n]
    <2>1. m \in Nat /\ n \in Nat /\ order[m] \in kept /\ order[n] \in kept
      BY <1>7
    <2>2. m < n \/ n < m
      BY <1>9, <2>1
    <2>3. key[order[m]] = order[m] /\ key[order[n]] = order[n] /\ order[m] \in Int /\ order[n] \in Int
      BY <1>2, <1>5, <2>1
    <2> QED
      BY <1>7, <2>2, <2>3
  <1> QED
    BY <1>3, <1>8, <1>9

\* Any of the calls of a history, each once, make a partition.
LEMMA CallsMakeAPart ==
  ASSUME NEW es, AreEvents(es), NEW order \in Seq(Invocations(es)),
         \A m, n \in DOMAIN order : m # n => order[m] # order[n],
         NEW cs, cs = [n \in DOMAIN order |-> Checked(es, order[n])],
         \A n \in DOMAIN order : cs[n] \in CallsOfInputs
  PROVE  ArePart(cs)
  <1>1. DOMAIN order = 1 .. Len(order) /\ Len(order) \in Nat /\ DOMAIN cs = DOMAIN order
        /\ \A n \in DOMAIN order : order[n] \in Invocations(es) /\ cs[n] = Checked(es, order[n])
    OBVIOUS
  <1>2. cs \in Seq(CallsOfInputs)
    <2> DEFINE f(n) == Checked(es, order[n])
    <2>1. cs = [n \in 1 .. Len(order) |-> f(n)] /\ \A n \in 1 .. Len(order) : f(n) \in CallsOfInputs
      BY <1>1
    <2> HIDE DEF f
    <2> QED
      BY <1>1, <2>1
  <1>3. \A n \in DOMAIN cs :
          /\ order[n] \in Nat \ {0} /\ cs[n].call = order[n] /\ cs[n].completion \in Nat
          /\ cs[n].known \in BOOLEAN /\ es[order[n]].completes = 0
          /\ cs[n].known => /\ order[n] < cs[n].completion
                            /\ es[cs[n].completion].completes = order[n]
    BY <1>1, CheckedCalls DEF Invocations
  <1>4. \A n \in DOMAIN cs :
          /\ cs[n].call \in Nat /\ cs[n].completion \in Nat /\ cs[n].known \in BOOLEAN
          /\ cs[n].known => cs[n].call < cs[n].completion
    BY <1>3
  <1>5. ASSUME NEW m \in DOMAIN cs, NEW n \in DOMAIN cs
        PROVE  /\ m # n => cs[m].call # cs[n].call
               /\ m # n /\ cs[m].known /\ cs[n].known => cs[m].completion # cs[n].completion
               /\ cs[n].known => cs[m].call # cs[n].completion
    <2>1. m # n => order[m] # order[n]
      BY <1>1
    <2>2. cs[m].call = order[m] /\ cs[n].call = order[n]
      BY <1>3
    <2>3. /\ cs[m].known => es[cs[m].completion].completes = order[m]
          /\ cs[n].known => es[cs[n].completion].completes = order[n]
          /\ es[order[m]].completes = 0 /\ order[n] # 0
      BY <1>3
    <2> QED
      BY <2>1, <2>2, <2>3, Zenon
  <1> QED
    BY <1>2, <1>4, <1>5 DEF ArePart

\* The groups of partitions_of are disjoint sets of positions, each in order.
LEMMA GroupsAreOrders ==
  ASSUME NEW cs, NEW V, cs \in Seq(V)
  PROVE  /\ Groups(cs) \in Seq(Seq(DOMAIN cs))
         /\ \A i \in DOMAIN Groups(cs) : \A m, n \in DOMAIN Groups(cs)[i] :
              m # n => Groups(cs)[i][m] # Groups(cs)[i][n]
  <1> DEFINE D == DOMAIN cs
             root == [n \in D |-> Root(Parents(cs), n).at]
             class(n) == {m \in D : root[m] = root[n]}
             groups == {class(n) : n \in D}
             key == [g \in groups |-> Min(g)]
             order == Sorted(groups, key)
             within(g) == Sorted(g, [n \in g |-> n])
  <1>1. D = 1 .. Len(cs) /\ Len(cs) \in Nat /\ IsFiniteSet(D)
    <2>1. D = 1 .. Len(cs) /\ Len(cs) \in Nat
      OBVIOUS
    <2> QED
      BY <2>1, FS_Interval
  <1>2. Groups(cs) = [i \in DOMAIN order |-> within(order[i])]
    BY DEF Groups
  <1>3. \A n \in D : class(n) \in SUBSET D /\ n \in class(n)
    OBVIOUS
  <1>4. \A m, n, x \in D : x \in class(m) /\ x \in class(n) => class(m) = class(n)
    OBVIOUS
  <1> HIDE DEF D, root, class
  <1>5. groups \in SUBSET SUBSET D /\ \A g \in groups : g \in SUBSET Nat /\ g # {}
    BY <1>1, <1>3
  <1>6. IsFiniteSet(groups)
    <2>1. IsFiniteSet(SUBSET D)
      BY <1>1, FS_SUBSET
    <2>2. groups \in SUBSET SUBSET D
      BY <1>5
    <2> HIDE DEF groups
    <2> QED
      BY ONLY <2>1, <2>2, FS_Subset
  <1>7. \A g, h \in groups, x \in D : x \in g /\ x \in h => g = h
    BY <1>4
  <1> HIDE DEF groups
  <1>8. \A g \in groups : key[g] = Min(g)
    OBVIOUS
  <1>9. DOMAIN key = groups /\ key = [g \in groups |-> key[g]]
    OBVIOUS
  <1> HIDE DEF key
  <1>10. \A g \in groups : key[g] \in g
    <2> SUFFICES ASSUME NEW g \in groups PROVE key[g] \in g
      OBVIOUS
    <2>1. g \in SUBSET Nat /\ g # {}
      BY <1>5
    <2> QED
      BY <1>8, <2>1, SetsHaveAMinimum
  <1>11. key \in [groups -> Int]
    BY <1>5, <1>9, <1>10
  <1>12. \A g, h \in groups : g # h => key[g] # key[h]
    BY <1>5, <1>7, <1>10
  <1>13. IsSortedOf(order, groups, key)
    BY <1>6, <1>11, <1>12, SortedIsInOrder
  <1> HIDE DEF order
  <1>14. order \in Seq(groups)
    BY <1>13 DEF IsSortedOf
  <1>15. ASSUME NEW g \in groups
         PROVE  /\ within(g) \in Seq(D)
                /\ \A m, n \in DOMAIN within(g) : m # n => within(g)[m] # within(g)[n]
    <2> DEFINE id == [n \in g |-> n]
               w == Sorted(g, id)
    <2>1. g \in SUBSET D /\ g \in SUBSET Nat
      BY <1>5
    <2>2. IsFiniteSet(g)
      BY <1>1, <2>1, FS_Subset
    <2>3. id \in [g -> Int] /\ (\A n \in g : id[n] = n)
      BY <2>1
    <2>4. \A m, n \in g : m # n => id[m] # id[n]
      BY <2>3
    <2>5. within(g) = w
      OBVIOUS
    <2> HIDE DEF id, within
    <2>6. IsSortedOf(w, g, id)
      BY <2>2, <2>3, <2>4, SortedIsInOrder
    <2> HIDE DEF w
    <2>7. w \in Seq(g) /\ \A m, n \in DOMAIN w : m < n => id[w[m]] < id[w[n]]
      BY <2>6 DEF IsSortedOf
    <2>8. w \in Seq(D)
      <3>1. PICK v : v = w
        OBVIOUS
      <3>2. PICK n \in Nat : n = Len(v)
        BY ONLY <2>7, <3>1
      <3>3. v \in [1 .. n -> g]
        BY ONLY <2>7, <3>1, <3>2
      <3>4. v \in [1 .. n -> D]
        BY ONLY <2>1, <3>3
      <3>5. v \in Seq(D)
        BY ONLY <3>2, <3>4
      <3> QED
        BY ONLY <3>1, <3>5
    <2>9. ASSUME NEW m \in DOMAIN w, NEW n \in DOMAIN w, m # n PROVE w[m] # w[n]
      <3>1. m \in Nat /\ n \in Nat /\ w[m] \in g /\ w[n] \in g
        BY <2>7
      <3>2. m < n \/ n < m
        BY <2>9, <3>1
      <3>3. w[m] < w[n] \/ w[n] < w[m]
        BY <2>3, <2>7, <3>1, <3>2
      <3>4. w[m] \in Nat /\ w[n] \in Nat
        BY <2>1, <3>1
      <3> QED
        BY <3>3, <3>4
    <2> QED
      BY <2>5, <2>8, <2>9
  <1> HIDE DEF within
  <1>16. DOMAIN order = 1 .. Len(order) /\ Len(order) \in Nat /\ \A i \in DOMAIN order : order[i] \in groups
    BY <1>14
  <1>17. \A i \in 1 .. Len(order) : within(order[i]) \in Seq(D)
    BY <1>15, <1>16
  <1>18. Groups(cs) \in Seq(Seq(D))
    BY <1>2, <1>16, <1>17
  <1>19. DOMAIN Groups(cs) = DOMAIN order /\ \A i \in DOMAIN order : Groups(cs)[i] = within(order[i])
    BY <1>2
  <1>20. \A i \in DOMAIN Groups(cs) : \A m, n \in DOMAIN Groups(cs)[i] :
           m # n => Groups(cs)[i][m] # Groups(cs)[i][n]
    BY <1>15, <1>16, <1>19
  <1> QED
    BY <1>18, <1>20 DEF D

LEMMA PartitionsAreParts ==
  ASSUME NEW input \in Inputs, AreEvents(input.events)
  PROVE  LET parts == PartitionsOf(CallsOf(input.events)) IN
         parts \in Seq(Seq(CallsOfInputs)) /\ \A i \in DOMAIN parts : ArePart(parts[i])
  <1> DEFINE es == input.events
             cs == CallsOf(es)
             parts == PartitionsOf(cs)
  <1>1. PICK order \in Seq(Invocations(es)) :
          /\ \A m, n \in DOMAIN order : m # n => order[m] # order[n]
          /\ cs = [n \in DOMAIN order |-> Checked(es, order[n])]
    BY CallsAreChecked
  <1>2. \A n \in DOMAIN cs : cs[n] \in CallsOfInputs
    <2>1. \A n \in DOMAIN cs : cs[n] \in ToSet(cs)
      BY DEF ToSet
    <2>2. ToSet(cs) \in {ToSet(CallsOf(i.events)) : i \in Inputs}
      OBVIOUS
    <2> HIDE DEF cs
    <2> QED
      BY <2>1, <2>2, Zenon DEF CallsOfInputs
  <1> HIDE DEF cs, es
  <1>3. DOMAIN order = 1 .. Len(order) /\ Len(order) \in Nat /\ DOMAIN cs = 1 .. Len(order)
        /\ \A n \in 1 .. Len(order) : cs[n] = Checked(es, order[n])
    BY <1>1
  <1>4. AreEvents(es)
    BY DEF es
  <1>5. ArePart(cs)
    BY <1>1, <1>2, <1>3, <1>4, CallsMakeAPart
  <1>6. cs \in Seq(CallsOfInputs)
    BY <1>5 DEF ArePart
  <1>7. CASE cs = <<>>
    <2>1. parts = <<>>
      BY <1>7 DEF PartitionsOf
    <2> QED
      BY <2>1 DEF cs, es
  <1>8. CASE cs # <<>> /\ \E n \in DOMAIN cs : cs[n].keys = <<>>
    <2>1. parts = <<cs>>
      BY <1>8 DEF PartitionsOf
    <2> QED
      BY <1>5, <1>6, <2>1 DEF cs, es
  <1>9. CASE cs # <<>> /\ ~ \E n \in DOMAIN cs : cs[n].keys = <<>>
    <2> DEFINE gs == Groups(cs)
    <2>1. parts = [i \in DOMAIN gs |-> [n \in DOMAIN gs[i] |-> cs[gs[i][n]]]]
      BY <1>9 DEF PartitionsOf
    <2>2. gs \in Seq(Seq(DOMAIN cs)) /\ \A i \in DOMAIN gs : \A m, n \in DOMAIN gs[i] :
              m # n => gs[i][m] # gs[i][n]
      BY <1>6, GroupsAreOrders
    <2> HIDE DEF gs
    <2>3. DOMAIN parts = DOMAIN gs /\ DOMAIN gs = 1 .. Len(gs) /\ Len(gs) \in Nat
      BY <2>1, <2>2
    <2>4. ASSUME NEW i \in DOMAIN gs PROVE ArePart(parts[i])
      <3> DEFINE p == [n \in DOMAIN gs[i] |-> order[gs[i][n]]]
                 q == [n \in DOMAIN p |-> Checked(es, p[n])]
      <3>1. gs[i] \in Seq(DOMAIN cs) /\ \A m, n \in DOMAIN gs[i] : m # n => gs[i][m] # gs[i][n]
        BY <2>2
      <3>2. DOMAIN gs[i] = 1 .. Len(gs[i]) /\ Len(gs[i]) \in Nat
            /\ \A n \in DOMAIN gs[i] : gs[i][n] \in DOMAIN order
        BY <1>3, <3>1
      <3>3. DOMAIN p = DOMAIN gs[i] /\ \A n \in DOMAIN gs[i] : p[n] = order[gs[i][n]]
        OBVIOUS
      <3>4. p \in Seq(Invocations(es))
        BY <1>1, <3>2
      <3> HIDE DEF p
      <3>5. \A m, n \in DOMAIN p : m # n => p[m] # p[n]
        BY <1>1, <3>1, <3>2, <3>3
      <3>6. parts[i] = [n \in DOMAIN gs[i] |-> cs[gs[i][n]]]
        BY <2>1
      <3>7. parts[i] = q
        BY <1>3, <3>2, <3>3, <3>6
      <3>8. \A n \in DOMAIN p : q[n] \in CallsOfInputs
        BY <1>2, <1>3, <3>2, <3>3
      <3> HIDE DEF q
      <3>9. q = [n \in DOMAIN p |-> Checked(es, p[n])]
        BY DEF q
      <3>10. ArePart(q)
        BY <1>4, <3>4, <3>5, <3>8, <3>9, CallsMakeAPart
      <3> QED
        BY <3>7, <3>10
    <2> HIDE DEF parts
    <2>5. \A i \in DOMAIN gs : parts[i] \in Seq(CallsOfInputs)
      BY <2>4 DEF ArePart
    <2>6. parts = [i \in 1 .. Len(gs) |-> parts[i]]
      <3>1. \E f : parts = [i \in DOMAIN gs |-> [n \in DOMAIN gs[i] |-> cs[gs[i][n]]]]
        BY <2>1
      <3> QED
        BY <2>1, <2>3
    <2>7. parts \in Seq(Seq(CallsOfInputs))
      BY <2>3, <2>5, <2>6
    <2>8. \A i \in DOMAIN parts : ArePart(parts[i])
      BY <2>3, <2>4
    <2> QED
      BY <2>7, <2>8 DEF parts, cs, es
  <1> QED
    BY <1>7, <1>8, <1>9

-----------------------------------------------------------------------------
(***************************************************************************)
(* The entries of a partition.                                             *)
(***************************************************************************)

LEMMA RangesAreFinite ==
  ASSUME NEW f, IsFiniteSet(DOMAIN f), f = [x \in DOMAIN f |-> f[x]]
  PROVE  IsFiniteSet(Range(f))
  <1>1. f \in Surjection(DOMAIN f, Range(f))
    BY DEF Surjection, Range
  <1> QED
    BY <1>1, FS_Surjection

InvocationOf(cs, n) == [event |-> cs[n].call, position |-> n, invokes |-> TRUE]
CompletionOf(cs, n) == [event |-> cs[n].completion, position |-> n, invokes |-> FALSE]

LEMMA EntriesOfAPart ==
  ASSUME NEW cs, ArePart(cs)
  PROVE  AreEntries(EntriesOf(cs), cs)
  <1> DEFINE D == DOMAIN cs
             known == {m \in D : cs[m].known}
             fi == [n \in D |-> InvocationOf(cs, n)]
             fc == [n \in known |-> CompletionOf(cs, n)]
             all == {InvocationOf(cs, n) : n \in D} \cup {CompletionOf(cs, n) : n \in known}
             key == [e \in all |-> e.event]
             q == Sorted(all, key)
             Entry == [event : Nat, position : D, invokes : BOOLEAN]
  <1>1. EntriesOf(cs) = q
    BY DEF EntriesOf, InvocationOf, CompletionOf
  <1>2. D = 1 .. Len(cs) /\ Len(cs) \in Nat /\ IsFiniteSet(D)
    <2>1. D = 1 .. Len(cs) /\ Len(cs) \in Nat
      BY DEF ArePart
    <2> QED
      BY <2>1, FS_Interval
  <1>3. IsFiniteSet(all)
    <2>1. known \in SUBSET D
      OBVIOUS
    <2>2. IsFiniteSet(known)
      BY <1>2, <2>1, FS_Subset
    <2>3. DOMAIN fi = D /\ fi = [x \in DOMAIN fi |-> fi[x]] /\ Range(fi) = {InvocationOf(cs, n) : n \in D}
      BY DEF Range
    <2>4. DOMAIN fc = known /\ fc = [x \in DOMAIN fc |-> fc[x]]
          /\ Range(fc) = {CompletionOf(cs, n) : n \in known}
      BY DEF Range
    <2> HIDE DEF fi, fc, known
    <2>5. IsFiniteSet(Range(fi)) /\ IsFiniteSet(Range(fc))
      BY <1>2, <2>2, <2>3, <2>4, RangesAreFinite
    <2>6. all = Range(fi) \cup Range(fc)
      BY <2>3, <2>4
    <2> QED
      BY <2>5, <2>6, FS_Union
  <1>4. \A n \in D : cs[n].call \in Nat /\ cs[n].completion \in Nat /\ cs[n].known \in BOOLEAN
    BY DEF ArePart
  <1>5. \A e \in all : /\ e \in Entry /\ e.event = EventAt(cs, e)
                       /\ e.invokes \/ cs[e.position].known
    <2> SUFFICES ASSUME NEW e \in all
                 PROVE  /\ e \in Entry /\ e.event = EventAt(cs, e)
                        /\ e.invokes \/ cs[e.position].known
      OBVIOUS
    <2>1. CASE \E n \in D : e = InvocationOf(cs, n)
      BY <1>4, <2>1 DEF InvocationOf, EventAt
    <2>2. CASE \E n \in known : e = CompletionOf(cs, n)
      BY <1>4, <2>2 DEF CompletionOf, EventAt
    <2> QED
      BY <2>1, <2>2, Zenon
  <1>6. \A n \in D : InvocationOf(cs, n) \in all /\ (cs[n].known => CompletionOf(cs, n) \in all)
    OBVIOUS
  <1>7. \A n \in D : /\ InvocationOf(cs, n).position = n /\ InvocationOf(cs, n).invokes = TRUE
                     /\ CompletionOf(cs, n).position = n /\ CompletionOf(cs, n).invokes = FALSE
    BY DEF InvocationOf, CompletionOf
  <1>8. ASSUME NEW e \in all, NEW f \in all
        PROVE  /\ e.position = f.position /\ e.invokes = f.invokes => e = f
               /\ e # f => e.event # f.event
    <2>1. /\ e \in Entry /\ e.event = EventAt(cs, e) /\ (e.invokes \/ cs[e.position].known)
          /\ f \in Entry /\ f.event = EventAt(cs, f) /\ (f.invokes \/ cs[f.position].known)
      BY <1>5
    <2>2. e.position = f.position /\ e.invokes = f.invokes => e.event = f.event
      BY <2>1 DEF EventAt
    <2>3. e.position = f.position /\ e.invokes = f.invokes => e = f
      BY <2>1, <2>2
    <2>4. \A m, n \in D :
            /\ m # n => cs[m].call # cs[n].call
            /\ m # n /\ cs[m].known /\ cs[n].known => cs[m].completion # cs[n].completion
            /\ cs[n].known => cs[m].call # cs[n].completion
      BY DEF ArePart
    <2>5. e.position \in D /\ f.position \in D /\ e.invokes \in BOOLEAN /\ f.invokes \in BOOLEAN
      BY <2>1
    <2>6. ASSUME e # f PROVE e.event # f.event
      <3>1. e.position # f.position \/ e.invokes # f.invokes
        BY <2>3, <2>6
      <3>2. CASE e.invokes /\ f.invokes
        BY <2>1, <2>4, <2>5, <3>1, <3>2 DEF EventAt
      <3>3. CASE e.invokes /\ ~ f.invokes
        BY <2>1, <2>4, <2>5, <3>3 DEF EventAt
      <3>4. CASE ~ e.invokes /\ f.invokes
        <4>1. cs[e.position].known /\ e.event = cs[e.position].completion /\ f.event = cs[f.position].call
          BY <2>1, <3>4 DEF EventAt
        <4>2. cs[f.position].call # cs[e.position].completion
          BY <2>4, <2>5, <4>1
        <4> QED
          BY <4>1, <4>2
      <3>5. CASE ~ e.invokes /\ ~ f.invokes
        BY <2>1, <2>4, <2>5, <3>1, <3>5 DEF EventAt
      <3> QED
        BY <2>5, <3>2, <3>3, <3>4, <3>5
    <2> QED
      BY <2>3, <2>6
  <1>9. all \in SUBSET Entry
    BY <1>5
  <1> HIDE DEF all
  <1>10. \A e \in all : key[e] = e.event
    OBVIOUS
  <1>11. key \in [all -> Int]
    <2>1. \A e \in all : e.event \in Int
      BY <1>9
    <2> QED
      BY <2>1
  <1> HIDE DEF key
  <1>12. IsSortedOf(q, all, key)
    <2>1. \A e, f \in all : e # f => key[e] # key[f]
      BY <1>8, <1>10
    <2> QED
      BY <1>3, <1>11, <2>1, SortedIsInOrder
  <1> HIDE DEF q
  <1>13. /\ q \in Seq(all) /\ DOMAIN q = 1 .. Len(q) /\ Len(q) \in Nat
         /\ \A i \in DOMAIN q : q[i] \in all
         /\ \A x \in all : \E i \in DOMAIN q : q[i] = x
    BY <1>12 DEF IsSortedOf
  <1>14. \A e, f \in DOMAIN q : e < f => q[e].event < q[f].event
    BY <1>10, <1>12, <1>13 DEF IsSortedOf
  <1>15. \A e, f \in DOMAIN q : q[e] = q[f] => e = f
    <2> SUFFICES ASSUME NEW e \in DOMAIN q, NEW f \in DOMAIN q, q[e] = q[f] PROVE e = f
      OBVIOUS
    <2>1. e \in Int /\ f \in Int /\ q[e].event \in Nat
      BY <1>9, <1>13
    <2>2. ~ (e < f) /\ ~ (f < e)
      BY <1>14, <2>1
    <2> QED
      BY <2>1, <2>2
  <1>16. \A e \in DOMAIN q : e = EntryAt(q, q[e].position, q[e].invokes)
    <2> SUFFICES ASSUME NEW e \in DOMAIN q
                 PROVE  e = EntryAt(q, q[e].position, q[e].invokes)
      OBVIOUS
    <2>1. \A f \in DOMAIN q : q[f].position = q[e].position /\ q[f].invokes = q[e].invokes => f = e
      BY <1>8, <1>13, <1>15
    <2> QED
      BY <2>1, Zenon DEF EntryAt
  <1>17. ASSUME NEW n \in D, NEW b \in BOOLEAN, b \/ cs[n].known
         PROVE  /\ EntryAt(q, n, b) \in DOMAIN q
                /\ q[EntryAt(q, n, b)].position = n /\ q[EntryAt(q, n, b)].invokes = b
    <2> DEFINE x == IF b THEN InvocationOf(cs, n) ELSE CompletionOf(cs, n)
    <2>1. x \in all /\ x.position = n /\ x.invokes = b
      BY <1>6, <1>7, <1>17
    <2>2. \E i \in DOMAIN q : q[i].position = n /\ q[i].invokes = b
      BY <1>13, <2>1
    <2> QED
      BY <2>2, Zenon DEF EntryAt
  <1>18. q \in Seq(Entry)
    <2> HIDE DEF Entry, known
    <2>1. \A i \in 1 .. Len(q) : q[i] \in Entry
      BY <1>9, <1>13
    <2> QED
      BY <1>13, <2>1
  <1>19. \A e \in DOMAIN q :
           /\ q[e].event = EventAt(cs, q[e])
           /\ q[e].invokes \/ cs[q[e].position].known
    BY <1>5, <1>13
  <1> HIDE DEF q
  <1>20. AreEntries(q, cs)
    BY <1>14, <1>16, <1>17, <1>18, <1>19 DEF AreEntries
  <1> QED
    BY <1>1, <1>20

-----------------------------------------------------------------------------
(***************************************************************************)
(* The linked list.                                                        *)
(***************************************************************************)

\* Two lists agree on the places of X.
Agree(l, k, X) == \A x \in X : k.next[x] = l.next[x] /\ k.prev[x] = l.prev[x]

LEMMA LinksOfTwo ==
  ASSUME NEW m, NEW f \in [0 .. m + 1 -> 0 .. m + 1], NEW g \in [0 .. m + 1 -> 0 .. m + 1]
  PROVE  [next |-> f, prev |-> g] \in Links(m)
  BY DEF Links

LEMMA StillWithin ==
  ASSUME NEW S, NEW f \in [S -> S], NEW a \in S, NEW b \in S
  PROVE  [f EXCEPT ![a] = b] \in [S -> S]
  OBVIOUS

IsUnlinked(k, l, e, H, m) ==
  /\ k \in Links(m) /\ Linked(k, H \ {e}, m) /\ Between(k, e, H, m)
  /\ Agree(l, k, (1 .. m) \ (H \ {e}))

LEMMA UnlinkTakesOut ==
  ASSUME NEW m \in Nat, NEW H \in SUBSET (1 .. m), NEW l \in Links(m), Linked(l, H, m),
         NEW e \in H
  PROVE  IsUnlinked(Unlink(l, e), l, e, H, m)
  <1> DEFINE k == Unlink(l, e)
             p == l.prev[e]
             q == l.next[e]
  <1>1. l.next \in [0 .. m + 1 -> 0 .. m + 1] /\ l.prev \in [0 .. m + 1 -> 0 .. m + 1]
    BY DEF Links
  <1>2. k.next = [l.next EXCEPT ![p] = q] /\ k.prev = [l.prev EXCEPT ![q] = p]
    BY DEF Unlink
  <1>3. k = [next |-> k.next, prev |-> k.prev]
    BY DEF Unlink
  <1>4. p \in {0} \cup H /\ p < e /\ \A h \in H : h < e => h <= p
    BY DEF Linked, Leads
  <1>5. q \in H \cup {m + 1} /\ e < q /\ \A h \in H : e < h => q <= h
    BY DEF Linked, Follows
  <1> HIDE DEF p, q
  <1>6. e \in 1 .. m /\ p \in 0 .. m /\ q \in 1 .. m + 1
    BY <1>4, <1>5
  <1>7. /\ \A x \in {0} \cup H : Follows(l.next[x], x, H, m)
        /\ \A x \in H \cup {m + 1} : Leads(l.prev[x], x, H)
    BY DEF Linked
  <1> HIDE DEF k
  <1>8. k \in Links(m)
    <2>1. k.next \in [0 .. m + 1 -> 0 .. m + 1] /\ k.prev \in [0 .. m + 1 -> 0 .. m + 1]
      <3>1. e \in 0 .. m + 1 /\ p \in 0 .. m + 1 /\ q \in 0 .. m + 1
        BY <1>6
      <3> DEFINE S == 0 .. m + 1
      <3>2. p \in S /\ q \in S /\ e \in S /\ l.next \in [S -> S] /\ l.prev \in [S -> S]
        BY <1>1, <3>1
      <3> HIDE DEF S
      <3>3. [l.next EXCEPT ![p] = q] \in [S -> S] /\ [l.prev EXCEPT ![q] = p] \in [S -> S]
        BY <3>2, StillWithin
      <3>4. k.next \in [S -> S] /\ k.prev \in [S -> S]
        BY <1>2, <3>3, Zenon
      <3> QED
        BY <3>4 DEF S
    <2>2. [next |-> k.next, prev |-> k.prev] \in Links(m)
      BY <2>1, LinksOfTwo
    <2> QED
      BY <1>3, <2>2, Zenon
  <1>9. \A x \in 0 .. m + 1 : /\ k.next[x] = IF x = p THEN q ELSE l.next[x]
                              /\ k.prev[x] = IF x = q THEN p ELSE l.prev[x]
    BY <1>1, <1>2, <1>6
  <1>10. ASSUME NEW x \in {0} \cup (H \ {e})
         PROVE  Follows(k.next[x], x, H \ {e}, m)
    <2>1. x \in 0 .. m /\ x # e
      BY <1>6
    <2>2. CASE x = p
      <3>1. k.next[x] = q /\ q \in (H \ {e}) \cup {m + 1} /\ p < q
        BY <1>4, <1>5, <1>6, <1>9, <2>1, <2>2
      <3>2. \A h \in H \ {e} : p < h => q <= h
        BY <1>4, <1>5, <1>6
      <3> QED
        BY <2>2, <3>1, <3>2 DEF Follows
    <2>3. CASE x # p
      <3>1. k.next[x] = l.next[x] /\ Follows(l.next[x], x, H, m)
        BY <1>7, <1>9, <2>1, <2>3
      <3>2. l.next[x] # e
        <4> SUFFICES ASSUME l.next[x] = e PROVE FALSE
          OBVIOUS
        <4>1. x < e /\ \A h \in H : x < h => e <= h
          BY <3>1 DEF Follows
        <4>2. x <= p
          BY <1>4, <1>6, <2>1, <4>1
        <4>3. x < p /\ p \in H
          BY <1>4, <1>6, <2>1, <2>3, <4>2
        <4> QED
          BY <1>4, <1>6, <2>1, <4>1, <4>3
      <3> QED
        BY <3>1, <3>2 DEF Follows
    <2> QED
      BY <2>2, <2>3
  <1>11. ASSUME NEW x \in (H \ {e}) \cup {m + 1}
         PROVE  Leads(k.prev[x], x, H \ {e})
    <2>1. x \in 1 .. m + 1 /\ x # e
      BY <1>6
    <2>2. CASE x = q
      <3>1. k.prev[x] = p /\ p \in {0} \cup (H \ {e}) /\ p < q
        BY <1>4, <1>5, <1>6, <1>9, <2>1, <2>2
      <3>2. \A h \in H \ {e} : h < q => h <= p
        BY <1>4, <1>5, <1>6
      <3> QED
        BY <2>2, <3>1, <3>2 DEF Leads
    <2>3. CASE x # q
      <3>1. k.prev[x] = l.prev[x] /\ Leads(l.prev[x], x, H)
        BY <1>7, <1>9, <2>1, <2>3
      <3>2. l.prev[x] # e
        <4> SUFFICES ASSUME l.prev[x] = e PROVE FALSE
          OBVIOUS
        <4>1. e < x /\ \A h \in H : h < x => h <= e
          BY <3>1 DEF Leads
        <4>2. q <= x
          BY <1>5, <1>6, <2>1, <4>1
        <4>3. q < x /\ q \in H
          BY <1>5, <1>6, <2>1, <2>3, <4>2
        <4> QED
          BY <1>5, <1>6, <2>1, <4>1, <4>3
      <3> QED
        BY <3>1, <3>2 DEF Leads
    <2> QED
      BY <2>2, <2>3
  <1>12. Linked(k, H \ {e}, m)
    BY <1>10, <1>11 DEF Linked
  <1>13. k.next[e] = q /\ k.prev[e] = p
    BY <1>4, <1>5, <1>6, <1>9 DEF p, q
  <1>14. Between(k, e, H, m)
    BY <1>4, <1>5, <1>13 DEF Between, Follows, Leads
  <1>15. Agree(l, k, (1 .. m) \ (H \ {e}))
    <2> SUFFICES ASSUME NEW x \in (1 .. m) \ (H \ {e})
                 PROVE  k.next[x] = l.next[x] /\ k.prev[x] = l.prev[x]
      BY DEF Agree
    <2>1. x \in 0 .. m + 1 /\ x # p /\ x # q
      BY <1>4, <1>5, <1>6
    <2> QED
      BY <1>9, <2>1
  <1> QED
    BY <1>8, <1>12, <1>14, <1>15 DEF IsUnlinked, k

IsRelinked(k, l, e, H, m) ==
  k \in Links(m) /\ Linked(k, H, m) /\ Agree(l, k, (1 .. m) \ (H \ {e}))

LEMMA RelinkPutsBack ==
  ASSUME NEW m \in Nat, NEW H \in SUBSET (1 .. m), NEW l \in Links(m), NEW e \in H,
         Linked(l, H \ {e}, m), Between(l, e, H, m)
  PROVE  IsRelinked(Relink(l, e), l, e, H, m)
  <1> DEFINE k == Relink(l, e)
             p == l.prev[e]
             q == l.next[e]
  <1>1. l.next \in [0 .. m + 1 -> 0 .. m + 1] /\ l.prev \in [0 .. m + 1 -> 0 .. m + 1]
    BY DEF Links
  <1>2. k.next = [l.next EXCEPT ![p] = e] /\ k.prev = [l.prev EXCEPT ![q] = e]
    BY DEF Relink
  <1>3. k = [next |-> k.next, prev |-> k.prev]
    BY DEF Relink
  <1>4. p \in {0} \cup H /\ p < e /\ \A h \in H : h < e => h <= p
    BY DEF Between, Leads
  <1>5. q \in H \cup {m + 1} /\ e < q /\ \A h \in H : e < h => q <= h
    BY DEF Between, Follows
  <1>10. l.next[e] = q /\ l.prev[e] = p
    OBVIOUS
  <1> HIDE DEF p, q
  <1>6. e \in 1 .. m /\ p \in 0 .. m /\ q \in 1 .. m + 1
    BY <1>4, <1>5
  <1>7. /\ \A x \in {0} \cup (H \ {e}) : Follows(l.next[x], x, H \ {e}, m)
        /\ \A x \in (H \ {e}) \cup {m + 1} : Leads(l.prev[x], x, H \ {e})
    BY DEF Linked
  <1> HIDE DEF k
  <1>8. k \in Links(m)
    <2>1. k.next \in [0 .. m + 1 -> 0 .. m + 1] /\ k.prev \in [0 .. m + 1 -> 0 .. m + 1]
      <3>1. e \in 0 .. m + 1 /\ p \in 0 .. m + 1 /\ q \in 0 .. m + 1
        BY <1>6
      <3> DEFINE S == 0 .. m + 1
      <3>2. p \in S /\ q \in S /\ e \in S /\ l.next \in [S -> S] /\ l.prev \in [S -> S]
        BY <1>1, <3>1
      <3> HIDE DEF S
      <3>3. [l.next EXCEPT ![p] = e] \in [S -> S] /\ [l.prev EXCEPT ![q] = e] \in [S -> S]
        BY <3>2, StillWithin
      <3>4. k.next \in [S -> S] /\ k.prev \in [S -> S]
        BY <1>2, <3>3, Zenon
      <3> QED
        BY <3>4 DEF S
    <2>2. [next |-> k.next, prev |-> k.prev] \in Links(m)
      BY <2>1, LinksOfTwo
    <2> QED
      BY <1>3, <2>2, Zenon
  <1>9. \A x \in 0 .. m + 1 : /\ k.next[x] = IF x = p THEN e ELSE l.next[x]
                              /\ k.prev[x] = IF x = q THEN e ELSE l.prev[x]
    BY <1>1, <1>2, <1>6
  <1>11. ASSUME NEW x \in {0} \cup H
         PROVE  Follows(k.next[x], x, H, m)
    <2>1. x \in 0 .. m
      BY <1>6
    <2>2. CASE x = p
      <3>1. k.next[x] = e /\ x < e /\ e \in H
        BY <1>4, <1>6, <1>9, <2>1, <2>2
      <3>2. \A h \in H : h \in Nat
        OBVIOUS
      <3>3. \A h \in H : x < h => e <= h
        BY ONLY <1>4, <1>6, <2>2, <3>2
      <3> QED
        BY ONLY <3>1, <3>3 DEF Follows
    <2>3. CASE x = e
      <3>1. k.next[x] = q
        BY <1>4, <1>6, <1>9, <1>10, <2>1, <2>3
      <3> QED
        BY <1>5, <2>3, <3>1 DEF Follows
    <2>4. CASE x # p /\ x # e
      <3>1. k.next[x] = l.next[x] /\ Follows(l.next[x], x, H \ {e}, m)
        <4>1. x \in 0 .. m + 1 /\ x \in {0} \cup (H \ {e})
          BY <2>1, <2>4
        <4> QED
          BY <1>7, <1>9, <2>4, <4>1
      <3>2. x < e => x < p /\ p \in H \ {e}
        BY <1>4, <1>6, <2>1, <2>4
      <3>3. x < e => l.next[x] <= p
        BY <3>1, <3>2 DEF Follows
      <3>4. l.next[x] \in 0 .. m + 1
        <4>1. x \in 0 .. m + 1
          BY <2>1
        <4> QED
          BY <1>1, <4>1
      <3>5. x < e => l.next[x] <= e
        BY <1>4, <1>6, <3>3, <3>4
      <3> QED
        BY <3>1, <3>5 DEF Follows
    <2> QED
      BY <2>2, <2>3, <2>4
  <1>12. ASSUME NEW x \in H \cup {m + 1}
         PROVE  Leads(k.prev[x], x, H)
    <2>1. x \in 1 .. m + 1
      BY <1>6
    <2>2. CASE x = q
      <3>1. k.prev[x] = e /\ e < x /\ e \in H
        BY <1>5, <1>6, <1>9, <2>1, <2>2
      <3>2. \A h \in H : h \in Nat
        OBVIOUS
      <3>3. \A h \in H : h < x => h <= e
        BY ONLY <1>5, <1>6, <2>2, <3>2
      <3> QED
        BY ONLY <3>1, <3>3 DEF Leads
    <2>3. CASE x = e
      <3>1. k.prev[x] = p
        BY <1>5, <1>6, <1>9, <1>10, <2>1, <2>3
      <3> QED
        BY <1>4, <2>3, <3>1 DEF Leads
    <2>4. CASE x # q /\ x # e
      <3>1. k.prev[x] = l.prev[x] /\ Leads(l.prev[x], x, H \ {e})
        <4>1. x \in (H \ {e}) \cup {m + 1}
          BY <2>4
        <4>2. Leads(l.prev[x], x, H \ {e})
          BY ONLY <1>7, <4>1
        <4>3. k.prev[x] = l.prev[x]
          BY ONLY <1>9, <2>1, <2>4
        <4> QED
          BY ONLY <4>2, <4>3
      <3>2. e < x => q < x /\ q \in H \ {e}
        BY <1>5, <1>6, <2>1, <2>4
      <3>3. e < x => q <= l.prev[x]
        BY <3>1, <3>2 DEF Leads
      <3>4. l.prev[x] \in 0 .. m + 1
        <4>1. x \in 0 .. m + 1
          BY <2>1
        <4> QED
          BY <1>1, <4>1
      <3>5. e < x => e <= l.prev[x]
        BY <1>5, <1>6, <3>3, <3>4
      <3> QED
        BY <3>1, <3>5 DEF Leads
    <2> QED
      BY <2>2, <2>3, <2>4
  <1>13. Linked(k, H, m)
    BY <1>11, <1>12 DEF Linked
  <1>14. Agree(l, k, (1 .. m) \ (H \ {e}))
    <2> SUFFICES ASSUME NEW x \in (1 .. m) \ (H \ {e})
                 PROVE  k.next[x] = l.next[x] /\ k.prev[x] = l.prev[x]
      BY DEF Agree
    <2>1. x \in 0 .. m + 1 /\ x # p /\ x # q
      BY <1>4, <1>5, <1>6
    <2> QED
      BY <1>9, <2>1
  <1> QED
    BY <1>8, <1>13, <1>14 DEF IsRelinked, k

LiftIn(l, cs, es, n) ==
  IF cs[n].known THEN Unlink(Unlink(l, EntryAt(es, n, TRUE)), EntryAt(es, n, FALSE))
  ELSE Unlink(l, EntryAt(es, n, TRUE))

UnliftIn(l, cs, es, n) ==
  IF cs[n].known THEN Relink(Relink(l, EntryAt(es, n, FALSE)), EntryAt(es, n, TRUE))
  ELSE Relink(l, EntryAt(es, n, TRUE))

LEMMA LiftsAreTheSame ==
  ASSUME NEW l, NEW n
  PROVE  /\ Lift(l, n) = LiftIn(l, partCalls, entries, n)
         /\ Unlift(l, n) = UnliftIn(l, partCalls, entries, n)
  BY DEF Lift, LiftIn, Unlift, UnliftIn, EntryOf, EntryAt

LEMMA NeighboursAgree ==
  ASSUME NEW l, NEW k, NEW X, Agree(l, k, X), NEW x \in X, NEW H, NEW m, Between(l, x, H, m)
  PROVE  Between(k, x, H, m)
  BY DEF Agree, Between

LEMMA EntryFacts ==
  ASSUME NEW cs, NEW es, AreEntries(es, cs)
  PROVE  /\ DOMAIN es = 1 .. Len(es) /\ Len(es) \in Nat
         /\ \A e \in DOMAIN es : es[e].event \in Nat /\ es[e].position \in DOMAIN cs /\ es[e].invokes \in BOOLEAN
         /\ \A D : HeldIn(es, D) \in SUBSET (1 .. Len(es))
  <1>1. es \in Seq([event : Nat, position : DOMAIN cs, invokes : BOOLEAN])
    BY DEF AreEntries
  <1>2. DOMAIN es = 1 .. Len(es) /\ Len(es) \in Nat
    BY <1>1
  <1>3. \A e \in DOMAIN es : es[e] \in [event : Nat, position : DOMAIN cs, invokes : BOOLEAN]
    <2>1. PICK R : R = [event : Nat, position : DOMAIN cs, invokes : BOOLEAN]
      OBVIOUS
    <2>2. es \in Seq(R)
      BY <1>1, <2>1
    <2>3. \A e \in DOMAIN es : es[e] \in R
      BY <1>2, <2>2
    <2> QED
      BY <2>1, <2>3
  <1> QED
    BY <1>2, <1>3 DEF HeldIn

\* The calls that are held without one more.
IsWithout(es, D, n, e, c, known) ==
  /\ e \in HeldIn(es, D) /\ es[e].position = n /\ es[e].invokes = TRUE
  /\ known => /\ c \in HeldIn(es, D) /\ c # e
              /\ HeldIn(es, D \cup {n}) = (HeldIn(es, D) \ {e}) \ {c}
              /\ es[c].position = n /\ es[c].invokes = FALSE
  /\ ~ known => HeldIn(es, D \cup {n}) = HeldIn(es, D) \ {e}

LEMMA HeldWithout ==
  ASSUME NEW cs, NEW es, AreEntries(es, cs), NEW D, NEW n \in DOMAIN cs, n \notin D
  PROVE  IsWithout(es, D, n, EntryAt(es, n, TRUE), EntryAt(es, n, FALSE), cs[n].known)
  <1> DEFINE e == EntryAt(es, n, TRUE)
             c == EntryAt(es, n, FALSE)
             known == cs[n].known
  <1>1. e \in DOMAIN es /\ es[e].position = n /\ es[e].invokes = TRUE
    BY DEF AreEntries
  <1>2. known => c \in DOMAIN es /\ es[c].position = n /\ es[c].invokes = FALSE
    BY DEF AreEntries
  <1>3. \A f \in DOMAIN es : es[f].position = n => f = e \/ (f = c /\ known)
    <2> SUFFICES ASSUME NEW f \in DOMAIN es, es[f].position = n PROVE f = e \/ (f = c /\ known)
      OBVIOUS
    <2>1. /\ f = EntryAt(es, n, es[f].invokes)
          /\ es[f].invokes \/ known
      BY DEF AreEntries
    <2>2. es[f].invokes \in BOOLEAN
      BY EntryFacts
    <2>3. CASE es[f].invokes = TRUE
      BY <2>1, <2>3, Zenon
    <2>4. CASE es[f].invokes = FALSE
      BY <2>1, <2>4, Zenon
    <2> QED
      BY <2>2, <2>3, <2>4
  <1> HIDE DEF e, c, known
  <1>4. IsWithout(es, D, n, e, c, known)
    BY <1>1, <1>2, <1>3 DEF HeldIn, IsWithout
  <1> QED
    BY <1>4 DEF e, c, known

IsLifted(k, l, cs, es, D, n) ==
  /\ k \in Links(Len(es)) /\ Linked(k, HeldIn(es, D \cup {n}), Len(es))
  /\ Lifted(k, cs, es, D, n)
  /\ Agree(l, k, (1 .. Len(es)) \ HeldIn(es, D))

LEMMA AgreeLess ==
  ASSUME NEW l, NEW k, NEW X, NEW Y \in SUBSET X, Agree(l, k, X)
  PROVE  Agree(l, k, Y)
  BY DEF Agree

LEMMA AgreeOn ==
  ASSUME NEW l, NEW k, NEW j, NEW X, Agree(l, k, X), Agree(k, j, X)
  PROVE  Agree(l, j, X)
  BY DEF Agree

\* _lift takes a call out of the list, and its entries keep their neighbours.
LEMMA LiftTakesOut ==
  ASSUME NEW cs, NEW es, AreEntries(es, cs), NEW D, NEW n \in DOMAIN cs, n \notin D,
         NEW l \in Links(Len(es)), Linked(l, HeldIn(es, D), Len(es))
  PROVE  IsLifted(LiftIn(l, cs, es, n), l, cs, es, D, n)
  <1>1. PICK m : m = Len(es)
    OBVIOUS
  <1>2. PICK H : H = HeldIn(es, D)
    OBVIOUS
  <1>3. PICK e : e = EntryAt(es, n, TRUE)
    OBVIOUS
  <1>4. PICK c : c = EntryAt(es, n, FALSE)
    OBVIOUS
  <1>5. PICK known : known = cs[n].known
    OBVIOUS
  <1>6. PICK k : k = Unlink(l, e)
    OBVIOUS
  <1>7. m \in Nat /\ H \in SUBSET (1 .. m)
    BY <1>1, <1>2, EntryFacts
  <1>8. /\ e \in H
        /\ known => c \in H /\ c # e /\ HeldIn(es, D \cup {n}) = (H \ {e}) \ {c}
        /\ ~ known => HeldIn(es, D \cup {n}) = H \ {e}
    <2>1. IsWithout(es, D, n, EntryAt(es, n, TRUE), EntryAt(es, n, FALSE), cs[n].known)
      BY HeldWithout
    <2>2. IsWithout(es, D, n, e, c, known)
      BY <1>3, <1>4, <1>5, <2>1, Zenon
    <2> QED
      BY <1>2, <2>2 DEF IsWithout
  <1>9. l \in Links(m) /\ Linked(l, H, m)
    BY <1>1, <1>2
  <1>10. IsUnlinked(k, l, e, H, m)
    BY <1>6, <1>7, <1>8, <1>9, UnlinkTakesOut
  <1>11. k \in Links(m) /\ Linked(k, H \ {e}, m) /\ Between(k, e, H, m)
         /\ Agree(l, k, (1 .. m) \ (H \ {e}))
    BY <1>10 DEF IsUnlinked
  <1>12. CASE known
    <2>1. PICK j : j = Unlink(k, c)
      OBVIOUS
    <2>2. LiftIn(l, cs, es, n) = j
      BY <1>3, <1>4, <1>5, <1>6, <1>12, <2>1, Zenon DEF LiftIn
    <2>3. H \ {e} \in SUBSET (1 .. m) /\ c \in H \ {e}
      BY <1>7, <1>8, <1>12
    <2>4. IsUnlinked(j, k, c, H \ {e}, m)
      BY <1>7, <1>11, <2>1, <2>3, UnlinkTakesOut
    <2>5. j \in Links(m) /\ Linked(j, (H \ {e}) \ {c}, m) /\ Between(j, c, H \ {e}, m)
          /\ Agree(k, j, (1 .. m) \ ((H \ {e}) \ {c}))
      BY <2>4 DEF IsUnlinked
    <2>6. e \in (1 .. m) \ ((H \ {e}) \ {c})
      BY <1>7, <1>8
    <2>7. Between(j, e, H, m)
      BY <1>11, <2>5, <2>6, NeighboursAgree
    <2>8. Agree(l, j, (1 .. m) \ H)
      <3>1. (1 .. m) \ H \in SUBSET ((1 .. m) \ (H \ {e}))
            /\ (1 .. m) \ H \in SUBSET ((1 .. m) \ ((H \ {e}) \ {c}))
        OBVIOUS
      <3>2. Agree(l, k, (1 .. m) \ H) /\ Agree(k, j, (1 .. m) \ H)
        BY <1>11, <2>5, <3>1, AgreeLess
      <3> QED
        BY <3>2, AgreeOn
    <2>9. Lifted(j, cs, es, D, n)
      BY <1>1, <1>2, <1>3, <1>4, <2>5, <2>7, Zenon DEF Lifted
    <2>10. Linked(j, HeldIn(es, D \cup {n}), m)
      BY <1>8, <1>12, <2>5
    <2> QED
      BY <1>1, <1>2, <2>2, <2>5, <2>8, <2>9, <2>10, Zenon DEF IsLifted
  <1>13. CASE ~ known
    <2>1. LiftIn(l, cs, es, n) = k
      BY <1>3, <1>5, <1>6, <1>13, Zenon DEF LiftIn
    <2>2. Agree(l, k, (1 .. m) \ H)
      <3>1. (1 .. m) \ H \in SUBSET ((1 .. m) \ (H \ {e}))
        OBVIOUS
      <3> QED
        BY <1>11, <3>1, AgreeLess
    <2>3. Lifted(k, cs, es, D, n)
      BY <1>1, <1>2, <1>3, <1>5, <1>11, <1>13, Zenon DEF Lifted
    <2>4. Linked(k, HeldIn(es, D \cup {n}), m)
      BY <1>8, <1>11, <1>13
    <2> QED
      BY <1>1, <1>2, <1>11, <2>1, <2>2, <2>3, <2>4, Zenon DEF IsLifted
  <1> QED
    BY <1>12, <1>13

IsUnlifted(k, l, es, D) ==
  /\ k \in Links(Len(es)) /\ Linked(k, HeldIn(es, D), Len(es))
  /\ Agree(l, k, (1 .. Len(es)) \ HeldIn(es, D))

\* _unlift puts it back.
LEMMA UnliftPutsBack ==
  ASSUME NEW cs, NEW es, AreEntries(es, cs), NEW D, NEW n \in DOMAIN cs, n \notin D,
         NEW l \in Links(Len(es)), Linked(l, HeldIn(es, D \cup {n}), Len(es)),
         Lifted(l, cs, es, D, n)
  PROVE  IsUnlifted(UnliftIn(l, cs, es, n), l, es, D)
  <1>1. PICK m : m = Len(es)
    OBVIOUS
  <1>2. PICK H : H = HeldIn(es, D)
    OBVIOUS
  <1>3. PICK e : e = EntryAt(es, n, TRUE)
    OBVIOUS
  <1>4. PICK c : c = EntryAt(es, n, FALSE)
    OBVIOUS
  <1>5. PICK known : known = cs[n].known
    OBVIOUS
  <1>7. m \in Nat /\ H \in SUBSET (1 .. m)
    BY <1>1, <1>2, EntryFacts
  <1>8. /\ e \in H
        /\ known => c \in H /\ c # e /\ HeldIn(es, D \cup {n}) = (H \ {e}) \ {c}
        /\ ~ known => HeldIn(es, D \cup {n}) = H \ {e}
    <2>1. IsWithout(es, D, n, EntryAt(es, n, TRUE), EntryAt(es, n, FALSE), cs[n].known)
      BY HeldWithout
    <2>2. IsWithout(es, D, n, e, c, known)
      BY <1>3, <1>4, <1>5, <2>1, Zenon
    <2> QED
      BY <1>2, <2>2 DEF IsWithout
  <1>9. l \in Links(m) /\ Linked(l, HeldIn(es, D \cup {n}), m)
    BY <1>1
  <1>10. Between(l, e, H, m) /\ (known => Between(l, c, H \ {e}, m))
    BY <1>1, <1>2, <1>3, <1>4, <1>5, Zenon DEF Lifted
  <1>11. CASE known
    <2>1. PICK k : k = Relink(l, c)
      OBVIOUS
    <2>2. PICK j : j = Relink(k, e)
      OBVIOUS
    <2>3. UnliftIn(l, cs, es, n) = j
      BY <1>3, <1>4, <1>5, <1>11, <2>1, <2>2, Zenon DEF UnliftIn
    <2>4. H \ {e} \in SUBSET (1 .. m) /\ c \in H \ {e} /\ Linked(l, (H \ {e}) \ {c}, m)
          /\ Between(l, c, H \ {e}, m)
      BY <1>7, <1>8, <1>9, <1>10, <1>11
    <2>5. IsRelinked(k, l, c, H \ {e}, m)
      BY <1>7, <1>9, <2>1, <2>4, RelinkPutsBack
    <2>6. k \in Links(m) /\ Linked(k, H \ {e}, m) /\ Agree(l, k, (1 .. m) \ ((H \ {e}) \ {c}))
      BY <2>5 DEF IsRelinked
    <2>7. e \in (1 .. m) \ ((H \ {e}) \ {c})
      BY <1>7, <1>8
    <2>8. Between(k, e, H, m)
      BY <1>10, <2>6, <2>7, NeighboursAgree
    <2>9. IsRelinked(j, k, e, H, m)
      BY <1>7, <1>8, <2>2, <2>6, <2>8, RelinkPutsBack
    <2>10. j \in Links(m) /\ Linked(j, H, m) /\ Agree(k, j, (1 .. m) \ (H \ {e}))
      BY <2>9 DEF IsRelinked
    <2>11. Agree(l, j, (1 .. m) \ H)
      <3>1. (1 .. m) \ H \in SUBSET ((1 .. m) \ (H \ {e}))
            /\ (1 .. m) \ H \in SUBSET ((1 .. m) \ ((H \ {e}) \ {c}))
        OBVIOUS
      <3>2. Agree(l, k, (1 .. m) \ H) /\ Agree(k, j, (1 .. m) \ H)
        BY <2>6, <2>10, <3>1, AgreeLess
      <3> QED
        BY <3>2, AgreeOn
    <2> QED
      BY <1>1, <1>2, <2>3, <2>10, <2>11, Zenon DEF IsUnlifted
  <1>12. CASE ~ known
    <2>1. PICK k : k = Relink(l, e)
      OBVIOUS
    <2>2. UnliftIn(l, cs, es, n) = k
      BY <1>3, <1>5, <1>12, <2>1, Zenon DEF UnliftIn
    <2>3. Linked(l, H \ {e}, m)
      BY <1>8, <1>9, <1>12
    <2>4. IsRelinked(k, l, e, H, m)
      BY <1>7, <1>8, <1>9, <1>10, <2>1, <2>3, RelinkPutsBack
    <2>5. k \in Links(m) /\ Linked(k, H, m) /\ Agree(l, k, (1 .. m) \ (H \ {e}))
      BY <2>4 DEF IsRelinked
    <2>6. Agree(l, k, (1 .. m) \ H)
      <3>1. (1 .. m) \ H \in SUBSET ((1 .. m) \ (H \ {e}))
        OBVIOUS
      <3> QED
        BY <2>5, <3>1, AgreeLess
    <2> QED
      BY <1>1, <1>2, <2>2, <2>5, <2>6, Zenon DEF IsUnlifted
  <1> QED
    BY <1>11, <1>12

\* Calls that were lifted before stay lifted.
LEMMA LiftedCallsStay ==
  ASSUME NEW cs, NEW es, AreEntries(es, cs), NEW D, NEW B, NEW n \in DOMAIN cs,
         n \notin B, n \in D, NEW l, NEW k, Agree(l, k, (1 .. Len(es)) \ HeldIn(es, D)),
         Lifted(l, cs, es, B, n)
  PROVE  Lifted(k, cs, es, B, n)
  <1>1. PICK m : m = Len(es)
    OBVIOUS
  <1>2. PICK e : e = EntryAt(es, n, TRUE)
    OBVIOUS
  <1>3. PICK c : c = EntryAt(es, n, FALSE)
    OBVIOUS
  <1>4. PICK known : known = cs[n].known
    OBVIOUS
  <1>5. e \in HeldIn(es, B) /\ es[e].position = n /\ (known => c \in HeldIn(es, B) /\ es[c].position = n)
    <2>1. IsWithout(es, B, n, EntryAt(es, n, TRUE), EntryAt(es, n, FALSE), cs[n].known)
      BY HeldWithout
    <2>2. IsWithout(es, B, n, e, c, known)
      BY <1>2, <1>3, <1>4, <2>1, Zenon
    <2> QED
      BY <2>2 DEF IsWithout
  <1>6. HeldIn(es, B) \in SUBSET (1 .. m)
    BY <1>1, EntryFacts
  <1>7. e \in (1 .. m) \ HeldIn(es, D) /\ (known => c \in (1 .. m) \ HeldIn(es, D))
    BY <1>5, <1>6 DEF HeldIn
  <1>8. Between(l, e, HeldIn(es, B), m) /\ (known => Between(l, c, HeldIn(es, B) \ {e}, m))
    BY <1>1, <1>2, <1>3, <1>4, Zenon DEF Lifted
  <1>9. Between(k, e, HeldIn(es, B), m) /\ (known => Between(k, c, HeldIn(es, B) \ {e}, m))
    BY <1>1, <1>7, <1>8, NeighboursAgree
  <1> QED
    BY <1>1, <1>2, <1>3, <1>4, <1>9, Zenon DEF Lifted

-----------------------------------------------------------------------------
(***************************************************************************)
(* The steps of the spec.                                                  *)
(***************************************************************************)

Kept(f, t) == IF t \in ToSet(f) THEN f ELSE Append(f, t)

LEMMA KeptOnce ==
  ASSUME NEW V, NEW f \in Seq(V), NEW t \in V
  PROVE  Kept(f, t) \in Seq(V) /\ ToSet(Kept(f, t)) = ToSet(f) \cup {t}
  <1>1. CASE t \in ToSet(f)
    BY <1>1 DEF Kept
  <1>2. CASE t \notin ToSet(f)
    <2>1. Kept(f, t) = Append(f, t)
      BY <1>2 DEF Kept
    <2>2. PICK g : g = Append(f, t)
      OBVIOUS
    <2>3. /\ g \in Seq(V) /\ DOMAIN g = 1 .. Len(f) + 1 /\ Len(f) \in Nat /\ DOMAIN f = 1 .. Len(f)
          /\ \A i \in 1 .. Len(f) : g[i] = f[i]
          /\ g[Len(f) + 1] = t
      BY <2>2
    <2>4. ASSUME NEW x PROVE x \in ToSet(g) <=> x \in ToSet(f) \cup {t}
      <3>1. ASSUME x \in ToSet(g) PROVE x \in ToSet(f) \cup {t}
        <4>1. PICK i \in DOMAIN g : x = g[i]
          BY <3>1 DEF ToSet
        <4>2. i \in 1 .. Len(f) \/ i = Len(f) + 1
          BY <2>3, <4>1
        <4> QED
          BY <2>3, <4>1, <4>2 DEF ToSet
      <3>2. ASSUME x \in ToSet(f) \cup {t} PROVE x \in ToSet(g)
        <4>1. CASE x = t
          <5>1. Len(f) + 1 \in DOMAIN g
            BY <2>3
          <5> QED
            BY <2>3, <4>1, <5>1 DEF ToSet
        <4>2. CASE x \in ToSet(f)
          <5>1. PICK i \in DOMAIN f : x = f[i]
            BY <4>2 DEF ToSet
          <5>2. i \in DOMAIN g /\ x = g[i]
            BY <2>3, <5>1
          <5> QED
            BY <5>2 DEF ToSet
        <4> QED
          BY <3>2, <4>1, <4>2
      <3> QED
        BY <3>1, <3>2
    <2>5. ToSet(g) = ToSet(f) \cup {t}
      BY <2>4
    <2> QED
      BY <2>1, <2>2, <2>3, <2>5
  <1> QED
    BY <1>1, <1>2

FirstOf(q, n) == {q[i] : i \in 1 .. n}

LEMMA DistinctKeepsAll ==
  ASSUME NEW V, NEW kept \in Seq(V), NEW more \in Seq(V)
  PROVE  Distinct(kept, more) \in Seq(V) /\ ToSet(Distinct(kept, more)) = ToSet(kept) \cup ToSet(more)
  <1> DEFINE N == Len(more)
             W == Seq(V)
             step == [x \in W \X (1 .. N) |-> Kept(x[1], more[x[2]])]
             F == CHOOSE f : f = [k \in 0 .. N |-> IF k = 0 THEN kept ELSE Kept(f[k - 1], more[k])]
  <1>1. N \in Nat /\ DOMAIN more = 1 .. N /\ \A n \in 1 .. N : more[n] \in V
    OBVIOUS
  <1>2. Distinct(kept, more) = F[N]
    BY Zenon DEF Distinct, Kept
  <1>3. step \in [W \X (1 .. N) -> W] /\ \A f \in W, n \in 1 .. N : step[<<f, n>>] = Kept(f, more[n])
    <2>1. \A x \in W \X (1 .. N) : Kept(x[1], more[x[2]]) \in W
      <3> SUFFICES ASSUME NEW x \in W \X (1 .. N) PROVE Kept(x[1], more[x[2]]) \in W
        OBVIOUS
      <3>1. x[1] \in W /\ x[2] \in 1 .. N /\ more[x[2]] \in V
        BY <1>1
      <3> QED
        BY <3>1, KeptOnce
    <2> HIDE DEF W, N
    <2> QED
      BY <2>1
  <1> HIDE DEF step, F
  <1>4. PICK f \in [0 .. N -> W] : f[0] = kept /\ \A n \in 1 .. N : f[n] = step[<<f[n - 1], n>>]
    <2>1. \E f : Solution(f, N, W, kept, step)
      BY <1>1, <1>3, RecursionHasASolution
    <2> QED
      BY <2>1 DEF Solution
  <1> HIDE DEF W, N
  <1>5. f = [k \in 0 .. N |-> IF k = 0 THEN kept ELSE Kept(f[k - 1], more[k])]
    <2>1. \A n \in 1 .. N : f[n] = Kept(f[n - 1], more[n])
      <3> SUFFICES ASSUME NEW n \in 1 .. N PROVE f[n] = Kept(f[n - 1], more[n])
        OBVIOUS
      <3>1. n - 1 \in 0 .. N
        BY <1>1
      <3>2. f[n - 1] \in W
        BY <1>4, <3>1
      <3> QED
        BY <1>3, <1>4, <3>2
    <2>2. \A n \in 0 .. N : f[n] = IF n = 0 THEN kept ELSE Kept(f[n - 1], more[n])
      BY <1>1, <1>4, <2>1
    <2> QED
      BY <1>4, <2>2
  <1>6. F = [k \in 0 .. N |-> IF k = 0 THEN kept ELSE Kept(F[k - 1], more[k])]
    BY <1>5, Zenon DEF F
  <1>7. F[0] = kept /\ \A n \in 1 .. N : F[n] = Kept(F[n - 1], more[n])
    BY <1>1, <1>6
  <1> DEFINE S == {n \in 0 .. N : F[n] \in W /\ ToSet(F[n]) = ToSet(kept) \cup FirstOf(more, n)}
  <1>8. 0 \in S
    <2>1. FirstOf(more, 0) = {}
      BY DEF FirstOf
    <2> QED
      BY <1>1, <1>7, <2>1 DEF W
  <1>9. ASSUME NEW n \in 1 .. N, n - 1 \in S PROVE n \in S
    <2>1. F[n - 1] \in Seq(V) /\ ToSet(F[n - 1]) = ToSet(kept) \cup FirstOf(more, n - 1)
      BY <1>9 DEF W
    <2>2. F[n] = Kept(F[n - 1], more[n]) /\ more[n] \in V
      BY <1>1, <1>7
    <2>3. F[n] \in Seq(V) /\ ToSet(F[n]) = ToSet(F[n - 1]) \cup {more[n]}
      <3>1. PICK g : g = F[n - 1]
        OBVIOUS
      <3>2. PICK t : t = more[n]
        OBVIOUS
      <3>3. g \in Seq(V) /\ t \in V
        BY <2>1, <2>2, <3>1, <3>2
      <3>4. Kept(g, t) \in Seq(V) /\ ToSet(Kept(g, t)) = ToSet(g) \cup {t}
        BY ONLY <3>3, KeptOnce
      <3> QED
        BY <2>2, <3>1, <3>2, <3>4, Zenon
    <2>4. FirstOf(more, n) = FirstOf(more, n - 1) \cup {more[n]}
      <3>1. 1 .. n = (1 .. n - 1) \cup {n}
        BY <1>1
      <3> QED
        BY <3>1 DEF FirstOf
    <2>5. n \in 0 .. N
      BY <1>1
    <2> QED
      BY <2>1, <2>3, <2>4, <2>5 DEF W
  <1> HIDE DEF S
  <1>10. 0 .. N \subseteq S
    BY <1>1, <1>8, <1>9, UpFromZero
  <1>11. N \in S
    BY <1>1, <1>10
  <1>12. ToSet(more) = FirstOf(more, N)
    BY <1>1 DEF ToSet, FirstOf
  <1> QED
    BY <1>2, <1>11, <1>12 DEF S, W

LEMMA LeavesOfSome ==
  ASSUME NEW call, NEW A, NEW B
  PROVE  /\ Leaves(A \cup B, call) = Leaves(A, call) \cup Leaves(B, call)
         /\ Leaves({}, call) = {} /\ \A s : Leaves({s}, call) = ToSet(After(s, call))
  BY DEF Leaves

\* What a spec needs of a call.
TakesFrom(call) == /\ \A s \in States : After(s, call) \in Seq(States) /\ Cost(s) \in Nat
               /\ ClockSteps \in Nat

Stops == {"", "steps", "time", "raised"}
Accs == [steps : Nat, clockAt : Nat, stop : Stops, following : Seq(States)]

\* A step stays within the budget, and what it has so far is what the states up to the
\* n-th leave.
IsAcc(acc, call, from, now, budget, n) ==
  /\ acc \in Accs /\ acc.steps <= budget
  /\ acc.stop = "" => ToSet(acc.following) = Leaves(FirstOf(now, n), call)
  /\ acc.stop = "steps" => \E s \in ToSet(now) : acc.steps + Cost(s) > budget
  /\ acc.stop = "time" => from <= Len(now)

LEMMA AccOfFour ==
  ASSUME NEW a \in Nat, NEW b \in Nat, NEW c \in Stops, NEW d \in Seq(States)
  PROVE  [steps |-> a, clockAt |-> b, stop |-> c, following |-> d] \in Accs
  BY DEF Accs

LEMMA AccStops ==
  ASSUME NEW acc \in Accs, NEW why \in Stops
  PROVE  /\ [acc EXCEPT !.stop = why] \in Accs
         /\ [acc EXCEPT !.stop = why].steps = acc.steps
         /\ [acc EXCEPT !.stop = why].stop = why
  BY DEF Accs

LEMMA AccGoesOn ==
  ASSUME NEW call, TakesFrom(call), limits.budget \in Nat, NEW now \in Seq(States), NEW n \in 1 .. Len(now),
         NEW from \in Int, NEW acc, IsAcc(acc, call, from, now, limits.budget, n - 1)
  PROVE  IsAcc(StepOn(acc, now[n], call, n >= from), call, from, now, limits.budget, n)
  <1>1. PICK s : s = now[n]
    OBVIOUS
  <1>2. n \in Nat /\ Len(now) \in Nat /\ DOMAIN now = 1 .. Len(now) /\ s \in States /\ s \in ToSet(now)
        /\ n <= Len(now) /\ FirstOf(now, n) = FirstOf(now, n - 1) \cup {s}
    <2>1. n \in Nat /\ Len(now) \in Nat /\ DOMAIN now = 1 .. Len(now) /\ s \in States /\ n <= Len(now)
      BY <1>1
    <2>2. 1 .. n = (1 .. n - 1) \cup {n}
      BY <2>1
    <2>3. FirstOf(now, n) = FirstOf(now, n - 1) \cup {s}
      BY <1>1, <2>2 DEF FirstOf
    <2> QED
      BY <1>1, <2>1, <2>3 DEF ToSet
  <1>3. After(s, call) \in Seq(States) /\ Cost(s) \in Nat /\ ClockSteps \in Nat
    BY <1>2 DEF TakesFrom
  <1>4. PICK b : b = limits.budget
    OBVIOUS
  <1>5. b \in Nat
    BY <1>4
  <1>6. /\ acc \in Accs /\ acc.steps \in Nat /\ acc.clockAt \in Nat /\ acc.stop \in Stops
        /\ acc.following \in Seq(States) /\ acc.steps <= b
    BY <1>4 DEF IsAcc, Accs
  <1>7. PICK r : r = StepOn(acc, s, call, n >= from)
    OBVIOUS
  <1>8. CASE acc.stop # ""
    <2>1. r = acc
      BY <1>7, <1>8 DEF StepOn
    <2> QED
      <3>1. IsAcc(acc, call, from, now, limits.budget, n)
        BY <1>8 DEF IsAcc
      <3> QED
        BY <1>1, <1>7, <2>1, <3>1
  <1>9. CASE acc.stop = "" /\ ~ (acc.steps + Cost(s) <= b)
    <2>1. r = [acc EXCEPT !.stop = "steps"]
      BY <1>4, <1>7, <1>9 DEF StepOn, Affords
    <2>2. r \in Accs /\ r.steps = acc.steps /\ r.stop = "steps"
      BY <1>6, <2>1, AccStops DEF Stops
    <2>3. r.steps + Cost(s) > b
      <3>1. PICK st : st = acc.steps
        OBVIOUS
      <3>2. PICK cost : cost = Cost(s)
        OBVIOUS
      <3>3. st \in Nat /\ cost \in Nat /\ ~ (st + cost <= b) /\ r.steps = st
        BY <1>3, <1>6, <1>9, <2>2, <3>1, <3>2
      <3>4. st + cost > b
        BY <1>5, <3>3
      <3> QED
        BY <3>2, <3>3, <3>4
    <2>4. r.stop # "" /\ r.stop # "time"
      BY <2>2
    <2>5. IsAcc(r, call, from, now, b, n)
      BY <1>2, <1>6, <2>2, <2>3, <2>4 DEF IsAcc
    <2> QED
      BY <1>1, <1>4, <1>7, <2>5
  <1>10. CASE acc.stop = "" /\ acc.steps + Cost(s) <= b /\ acc.steps >= acc.clockAt /\ n >= from
    <2>1. r = [acc EXCEPT !.stop = "time"]
      BY <1>4, <1>7, <1>10 DEF StepOn, Affords
    <2>2. r \in Accs /\ r.steps = acc.steps /\ r.stop = "time"
      BY <1>6, <2>1, AccStops DEF Stops
    <2>3. from <= Len(now)
      <3>1. from <= n
        BY <1>2, <1>10
      <3> QED
        BY <1>2, <3>1
    <2>4. r.stop # "" /\ r.stop # "steps"
      BY <2>2
    <2>5. IsAcc(r, call, from, now, b, n)
      BY <1>6, <2>2, <2>3, <2>4 DEF IsAcc
    <2> QED
      BY <1>1, <1>4, <1>7, <2>5
  <1>11. CASE acc.stop = "" /\ acc.steps + Cost(s) <= b /\ ~ (acc.steps >= acc.clockAt /\ n >= from)
    <2>1. PICK clock : clock = IF acc.steps >= acc.clockAt THEN acc.steps + ClockSteps ELSE acc.clockAt
      OBVIOUS
    <2>2. PICK why : why = IF Raises(s, call) THEN "raised" ELSE ""
      OBVIOUS
    <2>3. PICK following : following = Distinct(acc.following, After(s, call))
      OBVIOUS
    <2>4. PICK spend : spend = acc.steps + Cost(s)
      OBVIOUS
    <2>5. r = [steps |-> spend, clockAt |-> clock, stop |-> why, following |-> following]
      BY <1>4, <1>7, <1>11, <2>1, <2>2, <2>3, <2>4 DEF StepOn, Affords
    <2>6. spend \in Nat /\ clock \in Nat /\ why \in {"", "raised"} /\ why \in Stops /\ spend <= b
      <3>1. why \in {"", "raised"} /\ why \in Stops
        BY <2>2 DEF Stops
      <3>2. spend \in Nat /\ spend <= b
        <4>1. acc.steps + Cost(s) <= b
          BY <1>11
        <4>2. PICK st : st = acc.steps
          OBVIOUS
        <4>3. PICK cost : cost = Cost(s)
          OBVIOUS
        <4>4. st \in Nat /\ cost \in Nat /\ st + cost <= b /\ spend = st + cost
          BY <1>3, <1>6, <2>4, <4>1, <4>2, <4>3
        <4> QED
          BY <4>4
      <3>3. acc.steps + ClockSteps \in Nat
        BY <1>3, <1>6
      <3>4. clock \in Nat
        BY <1>6, <2>1, <3>3
      <3> QED
        BY <3>1, <3>2, <3>4
    <2>7. following \in Seq(States) /\ ToSet(following) = ToSet(acc.following) \cup ToSet(After(s, call))
      BY <1>3, <1>6, <2>3, DistinctKeepsAll
    <2>8. r \in Accs
      BY <2>5, <2>6, <2>7, AccOfFour
    <2>9. r.steps = spend /\ r.stop = why /\ r.following = following
      BY <2>5
    <2>10. ToSet(following) = Leaves(FirstOf(now, n), call)
      <3>1. ToSet(acc.following) = Leaves(FirstOf(now, n - 1), call)
        BY <1>11 DEF IsAcc
      <3>2. Leaves(FirstOf(now, n), call) = Leaves(FirstOf(now, n - 1), call) \cup ToSet(After(s, call))
        <4>1. Leaves({s}, call) = ToSet(After(s, call))
          BY LeavesOfSome
        <4>2. Leaves(FirstOf(now, n - 1) \cup {s}, call) = Leaves(FirstOf(now, n - 1), call) \cup Leaves({s}, call)
          BY LeavesOfSome
        <4> QED
          BY <1>2, <4>1, <4>2, Zenon
      <3> QED
        BY <2>7, <3>1, <3>2
    <2>11. r.stop # "steps" /\ r.stop # "time"
      BY <2>6, <2>9
    <2>12. IsAcc(r, call, from, now, b, n)
      BY <2>6, <2>8, <2>9, <2>10, <2>11 DEF IsAcc
    <2> QED
      BY <1>1, <1>4, <1>7, <2>12
  <1> QED
    BY <1>5, <1>6, <1>8, <1>9, <1>10, <1>11

LEMMA StepIsRight ==
  ASSUME NEW call, TakesFrom(call), limits.budget \in Nat, states \in Seq(States),
         spent.steps \in Nat, spent.clockAt \in Nat, spent.steps <= limits.budget,
         NEW from \in Int
  PROVE  IsAcc(Step(call, from), call, from, states, limits.budget, Len(states))
  <1>1. PICK now : now = states
    OBVIOUS
  <1>2. PICK N : N = Len(now)
    OBVIOUS
  <1> DEFINE base == [steps |-> spent.steps, clockAt |-> spent.clockAt, stop |-> "", following |-> <<>>]
             On(acc, k) == StepOn(acc, now[k], call, k >= from)
             Ok(acc, n) == IsAcc(acc, call, from, now, limits.budget, n)
             W == Accs
             step == [x \in W \X (1 .. N) |-> IF Ok(x[1], x[2] - 1) THEN On(x[1], x[2]) ELSE x[1]]
             F == CHOOSE f : f = [k \in 0 .. N |-> IF k = 0 THEN base ELSE On(f[k - 1], k)]
  <1>3. N \in Nat /\ now \in Seq(States)
    BY <1>1, <1>2
  <1>4. Step(call, from) = F[N]
    BY <1>1, <1>2, Zenon DEF Step
  <1>5. base \in W /\ Ok(base, 0)
    <2>1. base \in W
      <3>1. <<>> \in Seq(States) /\ "" \in Stops
        BY DEF Stops
      <3> QED
        BY <3>1, AccOfFour
    <2>2. base.steps = spent.steps /\ base.stop = "" /\ base.following = <<>>
      OBVIOUS
    <2>3. ToSet(<<>>) = {} /\ FirstOf(now, 0) = {}
      BY DEF ToSet, FirstOf
    <2>4. ToSet(base.following) = Leaves(FirstOf(now, 0), call)
      BY <2>2, <2>3, LeavesOfSome
    <2> HIDE DEF base
    <2> QED
      BY <2>1, <2>2, <2>4 DEF IsAcc
  <1>6. ASSUME NEW acc, NEW n \in 1 .. N, Ok(acc, n - 1)
        PROVE  Ok(On(acc, n), n)
    BY <1>2, <1>3, <1>6, AccGoesOn
  <1> HIDE DEF base, On, F
  <1>7. \A acc, n : Ok(acc, n) => acc \in W
    BY DEF IsAcc
  <1> HIDE DEF Ok
  <1>8. \A acc \in W, n \in 1 .. N : Ok(acc, n - 1) => step[<<acc, n>>] = On(acc, n)
    OBVIOUS
  <1>9. step \in [W \X (1 .. N) -> W]
    <2>1. \A x \in W \X (1 .. N) : step[x] \in W
      <3> SUFFICES ASSUME NEW x \in W \X (1 .. N) PROVE step[x] \in W
        OBVIOUS
      <3>1. x[1] \in W /\ x[2] \in 1 .. N
        OBVIOUS
      <3>2. CASE Ok(x[1], x[2] - 1)
        <4>1. step[x] = On(x[1], x[2])
          BY <3>2
        <4>2. Ok(On(x[1], x[2]), x[2])
          BY <1>6, <3>1, <3>2
        <4> QED
          BY <1>7, <4>1, <4>2
      <3>3. CASE ~ Ok(x[1], x[2] - 1)
        BY <3>1, <3>3
      <3> QED
        BY <3>2, <3>3
    <2>2. step = [x \in W \X (1 .. N) |-> step[x]]
      OBVIOUS
    <2> HIDE DEF step, W
    <2> QED
      BY <2>1, <2>2
  <1> HIDE DEF step, W
  <1>10. PICK f \in [0 .. N -> W] : f[0] = base /\ \A n \in 1 .. N : f[n] = step[<<f[n - 1], n>>]
    <2>1. \E f : Solution(f, N, W, base, step)
      BY <1>3, <1>5, <1>9, RecursionHasASolution
    <2> QED
      BY <2>1 DEF Solution
  <1>11. \A n \in 0 .. N : Ok(f[n], n)
    <2> DEFINE S == {n \in 0 .. N : Ok(f[n], n)}
    <2>1. 0 \in S
      BY <1>3, <1>5, <1>10
    <2>2. ASSUME NEW n \in 1 .. N, n - 1 \in S PROVE n \in S
      <3>1. n - 1 \in 0 .. N /\ n \in 0 .. N /\ f[n - 1] \in W /\ Ok(f[n - 1], n - 1)
        BY <1>3, <1>10, <2>2
      <3>2. f[n] = On(f[n - 1], n)
        BY <1>8, <1>10, <3>1
      <3>3. Ok(On(f[n - 1], n), n)
        BY <1>6, <3>1
      <3> QED
        BY <3>1, <3>2, <3>3
    <2> HIDE DEF S
    <2>3. 0 .. N \subseteq S
      BY <1>3, <2>1, <2>2, UpFromZero
    <2> QED
      BY <2>3 DEF S
  <1>12. \A n \in 1 .. N : f[n] = On(f[n - 1], n)
    <2> SUFFICES ASSUME NEW n \in 1 .. N PROVE f[n] = On(f[n - 1], n)
      OBVIOUS
    <2>1. n - 1 \in 0 .. N /\ f[n - 1] \in W /\ Ok(f[n - 1], n - 1)
      BY <1>3, <1>10, <1>11
    <2> QED
      BY <1>8, <1>10, <2>1
  <1>13. f = [k \in 0 .. N |-> IF k = 0 THEN base ELSE On(f[k - 1], k)]
    <2>1. \A k \in 0 .. N : f[k] = IF k = 0 THEN base ELSE On(f[k - 1], k)
      BY <1>3, <1>10, <1>12
    <2> QED
      BY <1>10, <2>1
  <1>14. F = [k \in 0 .. N |-> IF k = 0 THEN base ELSE On(F[k - 1], k)]
    BY <1>13, Zenon DEF F
  <1>15. F[0] = base /\ \A n \in 1 .. N : F[n] = On(F[n - 1], n)
    BY <1>3, <1>14
  <1> DEFINE S == {n \in 0 .. N : Ok(F[n], n)}
  <1>16. 0 \in S
    BY <1>3, <1>5, <1>15
  <1>17. ASSUME NEW n \in 1 .. N, n - 1 \in S PROVE n \in S
    BY <1>3, <1>6, <1>15, <1>17
  <1> HIDE DEF S
  <1>18. 0 .. N \subseteq S
    BY <1>3, <1>16, <1>17, UpFromZero
  <1>19. Ok(F[N], N)
    BY <1>3, <1>18 DEF S
  <1> QED
    BY <1>1, <1>2, <1>4, <1>19, Zenon DEF Ok

-----------------------------------------------------------------------------
(***************************************************************************)
(* The scan.                                                               *)
(***************************************************************************)

\* No completion that is held is before an entry.
AtFront(es, D, e) == e \in HeldIn(es, D) /\ \A f \in HeldIn(es, D) : f <= e => es[f].invokes

HoldsEntries(cs, es, D) ==
  /\ \A e \in HeldIn(es, D) :
       /\ e \in DOMAIN es /\ e \in Nat /\ es[e].position \in DOMAIN cs /\ es[e].position \notin D
       /\ es[e].invokes \in BOOLEAN /\ e = EntryAt(es, es[e].position, es[e].invokes)
       /\ es[e].invokes \/ es[e].position \in Known(cs) \ D
  /\ \A n \in DOMAIN cs \ D :
       /\ EntryAt(es, n, TRUE) \in HeldIn(es, D) /\ es[EntryAt(es, n, TRUE)].position = n
       /\ es[EntryAt(es, n, TRUE)].invokes = TRUE
  /\ \A n \in Known(cs) \ D :
       /\ EntryAt(es, n, FALSE) \in HeldIn(es, D) /\ es[EntryAt(es, n, FALSE)].position = n
       /\ es[EntryAt(es, n, FALSE)].invokes = FALSE

LEMMA EntriesHeld ==
  ASSUME NEW cs, NEW es, AreEntries(es, cs), NEW D
  PROVE  HoldsEntries(cs, es, D)
  <1>1. DOMAIN es = 1 .. Len(es) /\ Len(es) \in Nat
        /\ \A e \in DOMAIN es : es[e].position \in DOMAIN cs /\ es[e].invokes \in BOOLEAN
    BY EntryFacts
  <1>2. \A e \in DOMAIN es :
           /\ es[e].invokes \/ cs[es[e].position].known
           /\ e = EntryAt(es, es[e].position, es[e].invokes)
    BY DEF AreEntries
  <1>3. \A n \in DOMAIN cs : /\ EntryAt(es, n, TRUE) \in DOMAIN es
                             /\ es[EntryAt(es, n, TRUE)].position = n
                             /\ es[EntryAt(es, n, TRUE)].invokes = TRUE
    BY DEF AreEntries
  <1>4. \A n \in DOMAIN cs : cs[n].known =>
                             /\ EntryAt(es, n, FALSE) \in DOMAIN es
                             /\ es[EntryAt(es, n, FALSE)].position = n
                             /\ es[EntryAt(es, n, FALSE)].invokes = FALSE
    BY DEF AreEntries
  <1>5. ASSUME NEW e \in HeldIn(es, D)
        PROVE  /\ e \in DOMAIN es /\ e \in Nat /\ es[e].position \in DOMAIN cs /\ es[e].position \notin D
               /\ es[e].invokes \in BOOLEAN /\ e = EntryAt(es, es[e].position, es[e].invokes)
               /\ es[e].invokes \/ es[e].position \in Known(cs) \ D
    <2>1. e \in DOMAIN es /\ es[e].position \notin D
      BY DEF HeldIn
    <2> QED
      BY <1>1, <1>2, <2>1 DEF Known
  <1>6. ASSUME NEW n \in DOMAIN cs \ D
        PROVE  /\ EntryAt(es, n, TRUE) \in HeldIn(es, D) /\ es[EntryAt(es, n, TRUE)].position = n
               /\ es[EntryAt(es, n, TRUE)].invokes = TRUE
    BY <1>3, <1>6 DEF HeldIn
  <1>7. ASSUME NEW n \in Known(cs) \ D
        PROVE  /\ EntryAt(es, n, FALSE) \in HeldIn(es, D) /\ es[EntryAt(es, n, FALSE)].position = n
               /\ es[EntryAt(es, n, FALSE)].invokes = FALSE
    BY <1>4, <1>7 DEF HeldIn, Known
  <1> QED
    BY <1>5, <1>6, <1>7 DEF HoldsEntries

\* Real time allows a call next exactly when its invocation is before every completion.
LEMMA MinimalIsAtFront ==
  ASSUME NEW cs, ArePart(cs), NEW es, AreEntries(es, cs), NEW D, NEW n \in DOMAIN cs, n \notin D
  PROVE  Minimal(cs, D, n) <=> AtFront(es, D, EntryAt(es, n, TRUE))
  <1>1. PICK e : e = EntryAt(es, n, TRUE)
    OBVIOUS
  <1>2. e \in HeldIn(es, D) /\ es[e].position = n /\ es[e].invokes = TRUE /\ e \in DOMAIN es /\ e \in Nat
    <2>1. HoldsEntries(cs, es, D)
      BY EntriesHeld
    <2> QED
      BY <1>1, <2>1 DEF HoldsEntries
  <1>3. \A f \in DOMAIN es : es[f].event \in Nat /\ es[f].event = EventAt(cs, es[f])
    <2>1. \A f \in DOMAIN es : es[f].event \in Nat
      BY EntryFacts
    <2>2. \A f \in DOMAIN es : es[f].event = EventAt(cs, es[f])
      BY DEF AreEntries
    <2> QED
      BY <2>1, <2>2
  <1>4. es[e].event = cs[n].call
    BY <1>2, <1>3 DEF EventAt
  <1>5. \A f, g \in DOMAIN es : f < g => es[f].event < es[g].event
    BY DEF AreEntries
  <1>6. ASSUME Minimal(cs, D, n), NEW f \in HeldIn(es, D), f <= e
        PROVE  es[f].invokes
    <2> SUFFICES ASSUME ~ es[f].invokes PROVE FALSE
      OBVIOUS
    <2>1. PICK d : d = es[f].position
      OBVIOUS
    <2>2. f \in DOMAIN es /\ f \in Nat /\ d \in Known(cs) \ D /\ f # e
      <3>1. HoldsEntries(cs, es, D)
        BY EntriesHeld
      <3> QED
        BY <1>2, <2>1, <3>1 DEF HoldsEntries
    <2>3. es[f].event = cs[d].completion
      BY <1>3, <2>1, <2>2 DEF EventAt
    <2>4. es[f].event < es[e].event /\ es[f].event \in Nat /\ es[e].event \in Nat
      BY <1>2, <1>3, <1>5, <1>6, <2>2
    <2>5. d = n \/ cs[d].completion > cs[n].call
      BY <1>6, <2>2 DEF Minimal
    <2>6. d = n => cs[n].call < cs[d].completion
      BY <2>2 DEF ArePart, Known
    <2> QED
      BY <1>4, <2>3, <2>4, <2>5, <2>6
  <1>7. ASSUME AtFront(es, D, e)
        PROVE  Minimal(cs, D, n)
    <2> SUFFICES ASSUME NEW d \in Known(cs) \ D PROVE cs[d].completion > cs[n].call
      BY DEF Minimal
    <2>1. PICK f : f = EntryAt(es, d, FALSE)
      OBVIOUS
    <2>2. f \in HeldIn(es, D) /\ es[f].position = d /\ es[f].invokes = FALSE
      <3>1. HoldsEntries(cs, es, D)
        BY EntriesHeld
      <3> QED
        BY <2>1, <3>1 DEF HoldsEntries
    <2>3. f \in DOMAIN es /\ f \in Nat
      <3>1. HoldsEntries(cs, es, D)
        BY EntriesHeld
      <3> QED
        BY <2>2, <3>1 DEF HoldsEntries
    <2>4. e < f
      BY <1>2, <1>7, <2>2, <2>3 DEF AtFront
    <2>5. es[e].event < es[f].event /\ es[f].event = cs[d].completion
      BY <1>2, <1>3, <1>5, <2>2, <2>3, <2>4 DEF EventAt
    <2>6. es[e].event \in Nat /\ es[f].event \in Nat
      BY <1>2, <1>3, <2>3
    <2> QED
      BY <1>4, <2>5, <2>6
  <1> QED
    BY <1>1, <1>2, <1>6, <1>7 DEF AtFront

\* What is next in the list behind the front, while a known call is not done.
IsNextHeld(es, D, e, q) ==
  q \in HeldIn(es, D) /\ \A f \in HeldIn(es, D) : f < q => f <= e

LEMMA NextIsHeld ==
  ASSUME NEW cs, ArePart(cs), NEW es, AreEntries(es, cs), NEW D, Known(cs) \ D # {},
         NEW l \in Links(Len(es)), Linked(l, HeldIn(es, D), Len(es)),
         NEW e, e = 0 \/ AtFront(es, D, e)
  PROVE  IsNextHeld(es, D, e, l.next[e])
  <1>1. PICK d \in Known(cs) \ D : TRUE
    OBVIOUS
  <1>2. PICK h : h = EntryAt(es, d, FALSE)
    OBVIOUS
  <1>3. h \in HeldIn(es, D) /\ es[h].invokes = FALSE
    <2>1. HoldsEntries(cs, es, D)
      BY EntriesHeld
    <2> QED
      BY <1>2, <2>1 DEF HoldsEntries
  <1>4. HeldIn(es, D) \in SUBSET (1 .. Len(es)) /\ Len(es) \in Nat
    BY EntryFacts
  <1>5. e \in {0} \cup HeldIn(es, D) /\ e \in Nat
    BY <1>4 DEF AtFront
  <1>6. e < h
    <2>1. h \in Nat /\ h > 0
      BY <1>3, <1>4
    <2>2. CASE e = 0
      BY <2>1, <2>2
    <2>3. CASE AtFront(es, D, e)
      BY <1>3, <1>5, <2>1, <2>3 DEF AtFront
    <2> QED
      BY <2>2, <2>3
  <1>7. PICK q : q = l.next[e]
    OBVIOUS
  <1>8. Follows(q, e, HeldIn(es, D), Len(es))
    BY <1>5, <1>7 DEF Linked
  <1>9. q \in HeldIn(es, D) \cup {Len(es) + 1} /\ e < q /\ \A f \in HeldIn(es, D) : e < f => q <= f
    BY <1>8 DEF Follows
  <1>10. q \in HeldIn(es, D)
    <2>1. q <= h
      BY <1>3, <1>6, <1>9
    <2>2. h \in 1 .. Len(es)
      BY <1>3, <1>4
    <2> QED
      BY <1>4, <1>9, <2>1, <2>2
  <1>11. \A f \in HeldIn(es, D) : f < q => f <= e
    BY <1>4, <1>5, <1>9, <1>10
  <1> QED
    BY <1>7, <1>10, <1>11 DEF IsNextHeld

-----------------------------------------------------------------------------
(***************************************************************************)
(* The stack.                                                              *)
(***************************************************************************)

Frames(cs) == [position : DOMAIN cs, states : Seq(States)]

\* A stack with one call more.
IsPushed(big, next, stk, now, n) ==
  /\ Len(stk) \in Nat /\ Len(big) = Len(stk) + 1
  /\ DOMAIN stk = 1 .. Len(stk) /\ DOMAIN big = 1 .. Len(stk) + 1
  /\ \A k \in 1 .. Len(stk) : big[k] = stk[k]
  /\ big[Len(stk) + 1].position = n
  /\ \A k \in 1 .. Len(stk) + 1 :
       Below(big, k) = Below(stk, k) /\ StatesAt(big, next, k) = StatesAt(stk, now, k)
  /\ Below(big, Len(stk) + 2) = Below(stk, Len(stk) + 1) \cup {n}
  /\ StatesAt(stk, now, Len(stk) + 1) = ToSet(now)
  /\ StatesAt(big, next, Len(stk) + 2) = ToSet(next)
  /\ \A k \in 1 .. Len(stk) : Below(stk, k + 1) = Below(stk, k) \cup {stk[k].position}

LEMMA PushedFacts ==
  ASSUME NEW R, NEW stk \in Seq(R), NEW now, NEW next, NEW n, NEW big \in Seq(R),
         big = Append(stk, [position |-> n, states |-> now])
  PROVE  IsPushed(big, next, stk, now, n)
  <1>1. PICK len : len = Len(stk)
    OBVIOUS
  <1>2. PICK r : r = [position |-> n, states |-> now]
    OBVIOUS
  <1>3. r.position = n /\ r.states = now
    BY <1>2
  <1>4. big = Append(stk, r)
    BY <1>2
  <1>5. /\ len \in Nat /\ DOMAIN stk = 1 .. len /\ Len(big) = len + 1 /\ DOMAIN big = 1 .. len + 1
        /\ \A k \in 1 .. len : big[k] = stk[k]
        /\ big[len + 1] = r
    BY <1>1, <1>4
  <1>6. ASSUME NEW k \in 1 .. len + 1
        PROVE  Below(big, k) = Below(stk, k) /\ StatesAt(big, next, k) = StatesAt(stk, now, k)
    <2>1. {j \in DOMAIN big : j < k} = {j \in DOMAIN stk : j < k}
      BY <1>5
    <2>2. Below(big, k) = Below(stk, k)
      BY <1>5, <2>1 DEF Below
    <2>3. CASE k \in 1 .. len
      <3>1. k \in DOMAIN stk /\ k \in DOMAIN big /\ big[k] = stk[k]
        BY <1>5, <2>3
      <3> QED
        BY <2>2, <3>1 DEF StatesAt
    <2>4. CASE k = len + 1
      <3>1. k \notin DOMAIN stk /\ k \in DOMAIN big /\ big[k].states = now
        BY <1>3, <1>5, <2>4
      <3> QED
        BY <2>2, <3>1 DEF StatesAt
    <2> QED
      BY <1>5, <2>3, <2>4
  <1>7. Below(big, len + 2) = Below(stk, len + 1) \cup {n}
    <2>1. {j \in DOMAIN big : j < len + 2} = {j \in DOMAIN stk : j < len + 1} \cup {len + 1}
      BY <1>5
    <2>2. \A j \in {j \in DOMAIN stk : j < len + 1} : big[j] = stk[j]
      BY <1>5
    <2>3. big[len + 1].position = n
      BY <1>3, <1>5
    <2> QED
      BY <2>1, <2>2, <2>3 DEF Below
  <1>8. StatesAt(stk, now, len + 1) = ToSet(now) /\ StatesAt(big, next, len + 2) = ToSet(next)
    <2>1. len + 1 \notin DOMAIN stk /\ len + 2 \notin DOMAIN big
      BY <1>5
    <2> QED
      BY <2>1 DEF StatesAt
  <1>9. ASSUME NEW k \in 1 .. len PROVE Below(stk, k + 1) = Below(stk, k) \cup {stk[k].position}
    <2>1. {j \in DOMAIN stk : j < k + 1} = {j \in DOMAIN stk : j < k} \cup {k}
      BY <1>5
    <2> QED
      BY <2>1 DEF Below
  <1>10. big[len + 1].position = n
    BY <1>3, <1>5
  <1> QED
    BY <1>1, <1>5, <1>6, <1>7, <1>8, <1>9, <1>10 DEF IsPushed

LEMMA FrontThenLast ==
  ASSUME NEW R, NEW big \in Seq(R), big # <<>>
  PROVE  /\ Len(big) \in DOMAIN big /\ big[Len(big)] \in R
         /\ Front(big) \in Seq(R) /\ big = Append(Front(big), big[Len(big)])
         /\ Len(Front(big)) = Len(big) - 1 /\ Len(big) \in Nat /\ Len(big) > 0
  <1>1. Len(big) \in Nat /\ Len(big) > 0 /\ DOMAIN big = 1 .. Len(big)
    BY EmptySeq
  <1>2. Front(big) \in Seq(R) /\ Last(big) \in R /\ Append(Front(big), Last(big)) = big
        /\ Len(Front(big)) = Len(big) - 1
    BY OneShorter
  <1> QED
    BY <1>1, <1>2 DEF Last

\* The stack before its last call, and the states that it had.
LEMMA PoppedFacts ==
  ASSUME NEW cs, NEW big \in Seq(Frames(cs)), big # <<>>, NEW next, NEW last, last = big[Len(big)]
  PROVE  /\ IsPushed(big, next, Front(big), last.states, last.position)
         /\ Front(big) \in Seq(Frames(cs)) /\ last.position \in DOMAIN cs /\ last.states \in Seq(States)
         /\ Len(Front(big)) + 1 = Len(big) /\ Len(big) \in DOMAIN big
  <1>1. PICK R : R = Frames(cs)
    OBVIOUS
  <1>2. last \in R /\ Front(big) \in Seq(R) /\ big = Append(Front(big), last)
        /\ Len(Front(big)) = Len(big) - 1 /\ Len(big) \in Nat /\ Len(big) \in DOMAIN big
    BY <1>1, FrontThenLast
  <1>3. last.position \in DOMAIN cs /\ last.states \in Seq(States)
        /\ last = [position |-> last.position, states |-> last.states]
    BY <1>1, <1>2 DEF Frames
  <1>4. big \in Seq(R)
    BY <1>1
  <1>5. big = Append(Front(big), [position |-> last.position, states |-> last.states])
    BY <1>2, <1>3, Zenon
  <1>6. PICK stk : stk = Front(big)
    OBVIOUS
  <1>7. PICK now : now = last.states
    OBVIOUS
  <1>8. PICK n : n = last.position
    OBVIOUS
  <1>9. IsPushed(big, next, stk, now, n)
    <2>1. stk \in Seq(R) /\ big = Append(stk, [position |-> n, states |-> now])
      BY <1>2, <1>5, <1>6, <1>7, <1>8
    <2> QED
      BY <1>4, <2>1, PushedFacts
  <1>10. Len(Front(big)) + 1 = Len(big)
    BY <1>2
  <1> QED
    BY <1>1, <1>2, <1>3, <1>6, <1>7, <1>8, <1>9, <1>10

LEMMA StackGrows ==
  ASSUME NEW cs, NEW stk, NEW now, IsStack(stk, now, cs), NEW n \in DOMAIN cs,
         Minimal(cs, Below(stk, Len(stk) + 1), n), NEW next \in Seq(States), ToSet(next) # {},
         ToSet(next) = Leaves(ToSet(now), cs[n]), NEW big,
         big = Append(stk, [position |-> n, states |-> now])
  PROVE  IsPushed(big, next, stk, now, n) /\ IsStack(big, next, cs)
  <1>1. PICK R : R = Frames(cs)
    OBVIOUS
  <1>2. stk \in Seq(R) /\ now \in Seq(States)
    BY <1>1 DEF IsStack, Frames
  <1>3. [position |-> n, states |-> now] \in R
    BY <1>1, <1>2 DEF Frames
  <1>4. big \in Seq(R)
    BY <1>2, <1>3
  <1>5. IsPushed(big, next, stk, now, n)
    BY <1>2, <1>4, PushedFacts
  <1>6. PICK len : len = Len(stk)
    OBVIOUS
  <1>7. /\ len \in Nat /\ Len(big) = len + 1 /\ DOMAIN stk = 1 .. len /\ DOMAIN big = 1 .. len + 1
        /\ \A k \in 1 .. len : big[k] = stk[k]
        /\ big[len + 1].position = n
        /\ \A k \in 1 .. len + 1 :
             Below(big, k) = Below(stk, k) /\ StatesAt(big, next, k) = StatesAt(stk, now, k)
        /\ StatesAt(stk, now, len + 1) = ToSet(now) /\ StatesAt(big, next, len + 2) = ToSet(next)
    BY <1>5, <1>6 DEF IsPushed
  <1>8. /\ StatesAt(stk, now, 1) = {Initial}
        /\ \A k \in 1 .. len + 1 : StatesAt(stk, now, k) # {}
        /\ \A k \in DOMAIN stk :
             /\ Minimal(cs, Below(stk, k), stk[k].position)
             /\ StatesAt(stk, now, k + 1) = Leaves(StatesAt(stk, now, k), cs[stk[k].position])
    BY <1>6 DEF IsStack
  <1>9. StatesAt(big, next, 1) = {Initial}
    BY <1>7, <1>8
  <1>10. \A k \in 1 .. len + 2 : StatesAt(big, next, k) # {}
    <2> SUFFICES ASSUME NEW k \in 1 .. len + 2 PROVE StatesAt(big, next, k) # {}
      OBVIOUS
    <2>1. CASE k \in 1 .. len + 1
      BY <1>7, <1>8, <2>1
    <2>2. CASE k = len + 2
      BY <1>7, <2>2
    <2> QED
      BY <1>7, <2>1, <2>2
  <1>11. ASSUME NEW k \in DOMAIN big
         PROVE  /\ Minimal(cs, Below(big, k), big[k].position)
                /\ StatesAt(big, next, k + 1) = Leaves(StatesAt(big, next, k), cs[big[k].position])
    <2>1. CASE k \in 1 .. len
      <3>1. k \in DOMAIN stk /\ k + 1 \in 1 .. len + 1 /\ k \in 1 .. len + 1 /\ big[k] = stk[k]
        BY <1>7, <2>1
      <3>2. Below(big, k) = Below(stk, k) /\ StatesAt(big, next, k) = StatesAt(stk, now, k)
            /\ StatesAt(big, next, k + 1) = StatesAt(stk, now, k + 1)
        BY <1>7, <3>1
      <3>3. /\ Minimal(cs, Below(stk, k), stk[k].position)
            /\ StatesAt(stk, now, k + 1) = Leaves(StatesAt(stk, now, k), cs[stk[k].position])
        BY <1>8, <3>1
      <3> QED
        BY <3>1, <3>2, <3>3, Zenon
    <2>2. CASE k = len + 1
      <3>1. k \in 1 .. len + 1 /\ k + 1 = len + 2 /\ big[k].position = n
        BY <1>7, <2>2
      <3>2. Below(big, k) = Below(stk, len + 1) /\ StatesAt(big, next, k) = ToSet(now)
            /\ StatesAt(big, next, k + 1) = ToSet(next)
        BY <1>7, <2>2, <3>1
      <3> QED
        BY <1>6, <3>1, <3>2, Zenon
    <2> QED
      BY <1>7, <2>1, <2>2
  <1>12. Len(big) + 1 = len + 2
    BY <1>7
  <1>13. IsStack(big, next, cs)
    BY <1>1, <1>4, <1>9, <1>10, <1>11, <1>12 DEF IsStack, Frames
  <1> QED
    BY <1>5, <1>13

LEMMA StackShrinks ==
  ASSUME NEW cs, NEW big, NEW next, IsStack(big, next, cs), NEW stk, NEW now, NEW n,
         stk \in Seq(Frames(cs)), now \in Seq(States), IsPushed(big, next, stk, now, n)
  PROVE  IsStack(stk, now, cs) /\ Minimal(cs, Below(stk, Len(stk) + 1), n)
         /\ ToSet(next) = Leaves(ToSet(now), cs[n])
  <1>6. PICK len : len = Len(stk)
    OBVIOUS
  <1>7. /\ len \in Nat /\ Len(big) = len + 1 /\ DOMAIN stk = 1 .. len /\ DOMAIN big = 1 .. len + 1
        /\ \A k \in 1 .. len : big[k] = stk[k]
        /\ big[len + 1].position = n
        /\ \A k \in 1 .. len + 1 :
             Below(big, k) = Below(stk, k) /\ StatesAt(big, next, k) = StatesAt(stk, now, k)
        /\ StatesAt(stk, now, len + 1) = ToSet(now) /\ StatesAt(big, next, len + 2) = ToSet(next)
    BY <1>6 DEF IsPushed
  <1>8. /\ StatesAt(big, next, 1) = {Initial}
        /\ \A k \in 1 .. Len(big) + 1 : StatesAt(big, next, k) # {}
        /\ \A k \in DOMAIN big :
             /\ Minimal(cs, Below(big, k), big[k].position)
             /\ StatesAt(big, next, k + 1) = Leaves(StatesAt(big, next, k), cs[big[k].position])
    BY DEF IsStack
  <1>9. StatesAt(stk, now, 1) = {Initial}
    BY <1>7, <1>8
  <1>10. \A k \in 1 .. len + 1 : StatesAt(stk, now, k) # {}
    <2> SUFFICES ASSUME NEW k \in 1 .. len + 1 PROVE StatesAt(stk, now, k) # {}
      OBVIOUS
    <2>1. k \in 1 .. Len(big) + 1
      BY <1>7
    <2> QED
      BY <1>7, <1>8, <2>1
  <1>11. ASSUME NEW k \in DOMAIN stk
         PROVE  /\ Minimal(cs, Below(stk, k), stk[k].position)
                /\ StatesAt(stk, now, k + 1) = Leaves(StatesAt(stk, now, k), cs[stk[k].position])
    <2>1. k \in DOMAIN big /\ k + 1 \in 1 .. len + 1 /\ k \in 1 .. len + 1 /\ big[k] = stk[k]
      BY <1>7
    <2>2. Below(big, k) = Below(stk, k) /\ StatesAt(big, next, k) = StatesAt(stk, now, k)
          /\ StatesAt(big, next, k + 1) = StatesAt(stk, now, k + 1)
      BY <1>7, <2>1
    <2>3. /\ Minimal(cs, Below(big, k), big[k].position)
          /\ StatesAt(big, next, k + 1) = Leaves(StatesAt(big, next, k), cs[big[k].position])
      BY <1>8, <2>1
    <2> QED
      BY <2>1, <2>2, <2>3, Zenon
  <1>12. IsStack(stk, now, cs)
    BY <1>6, <1>9, <1>10, <1>11 DEF IsStack, Frames
  <1>13. len + 1 \in DOMAIN big /\ len + 1 \in 1 .. len + 1 /\ (len + 1) + 1 = len + 2
    BY <1>7
  <1>14. /\ Minimal(cs, Below(big, len + 1), n)
         /\ StatesAt(big, next, len + 2) = Leaves(StatesAt(big, next, len + 1), cs[n])
    BY <1>7, <1>8, <1>13, Zenon
  <1>15. Minimal(cs, Below(stk, len + 1), n) /\ ToSet(next) = Leaves(ToSet(now), cs[n])
    BY <1>7, <1>13, <1>14, Zenon
  <1> QED
    BY <1>6, <1>12, <1>15

-----------------------------------------------------------------------------
(***************************************************************************)
(* The memo.                                                               *)
(***************************************************************************)

LEMMA MemosOnlyGrow ==
  ASSUME NEW cs, NEW es, NEW V, NEW W, V \subseteq W, NEW c
  PROVE  /\ Explored(cs, V, c) => Explored(cs, W, c)
         /\ \A e : TriedBefore(cs, es, V, c, e) => TriedBefore(cs, es, W, c, e)
  BY Zenon DEF Explored, TriedBefore

\* The memo with the configuration that a call led to.
HasOneMore(W, V, stk, next, n) == W = V \cup {<<Below(stk, Len(stk) + 1) \cup {n}, ToSet(next)>>}

LEMMA MemoGrows ==
  ASSUME NEW cs, NEW es, NEW stk, NEW now, NEW big, NEW next, NEW n,
         IsPushed(big, next, stk, now, n), NEW V, IsMemo(V, stk, now, cs, es),
         TriedBefore(cs, es, V, ConfAt(stk, now, Len(stk) + 1), EntryAt(es, n, TRUE)),
         NEW W, HasOneMore(W, V, stk, next, n)
  PROVE  IsMemo(W, big, next, cs, es)
  <1>1. PICK len : len = Len(stk)
    OBVIOUS
  <1>2. /\ len \in Nat /\ Len(big) = len + 1 /\ DOMAIN stk = 1 .. len /\ DOMAIN big = 1 .. len + 1
        /\ \A k \in 1 .. len : big[k] = stk[k]
        /\ big[len + 1].position = n
        /\ \A k \in 1 .. len + 1 :
             Below(big, k) = Below(stk, k) /\ StatesAt(big, next, k) = StatesAt(stk, now, k)
        /\ Below(big, len + 2) = Below(stk, len + 1) \cup {n}
        /\ StatesAt(big, next, len + 2) = ToSet(next)
    BY <1>1 DEF IsPushed
  <1>3. \A k \in 1 .. len + 1 : ConfAt(big, next, k) = ConfAt(stk, now, k)
    BY <1>2 DEF ConfAt
  <1>4. PICK new : new = ConfAt(big, next, len + 2)
    OBVIOUS
  <1>5. W = V \cup {new}
    BY <1>1, <1>2, <1>4 DEF ConfAt, HasOneMore
  <1>6. IsFiniteSet(W)
    BY <1>5, FS_AddElement DEF IsMemo
  <1>7. ASSUME NEW c \in W
        PROVE  Explored(cs, W, c) \/ \E k \in 2 .. Len(big) + 1 : c = ConfAt(big, next, k)
    <2>1. CASE c = new
      <3>1. len + 2 \in 2 .. Len(big) + 1
        BY <1>2
      <3> QED
        BY <1>4, <2>1, <3>1
    <2>2. CASE c \in V /\ Explored(cs, V, c)
      BY <1>5, <2>2, MemosOnlyGrow
    <2>3. CASE \E k \in 2 .. Len(stk) + 1 : c = ConfAt(stk, now, k)
      <3>1. PICK k \in 2 .. len + 1 : c = ConfAt(stk, now, k)
        BY <1>1, <2>3
      <3>2. k \in 2 .. Len(big) + 1 /\ k \in 1 .. len + 1
        BY <1>2
      <3> QED
        BY <1>3, <3>1, <3>2
    <2> QED
      BY <1>5, <2>1, <2>2, <2>3 DEF IsMemo
  <1>8. ASSUME NEW k \in DOMAIN big
        PROVE  /\ TriedBefore(cs, es, W, ConfAt(big, next, k), EntryAt(es, big[k].position, TRUE))
               /\ ConfAt(big, next, k + 1) \in W
    <2>1. CASE k \in 1 .. len
      <3>1. k \in DOMAIN stk /\ k \in 1 .. len + 1 /\ k + 1 \in 1 .. len + 1 /\ big[k] = stk[k]
        BY <1>2, <2>1
      <3>2. /\ TriedBefore(cs, es, V, ConfAt(stk, now, k), EntryAt(es, stk[k].position, TRUE))
            /\ ConfAt(stk, now, k + 1) \in V
        BY <3>1 DEF IsMemo
      <3>3. ConfAt(big, next, k) = ConfAt(stk, now, k) /\ ConfAt(big, next, k + 1) = ConfAt(stk, now, k + 1)
        BY <1>3, <3>1
      <3>4. TriedBefore(cs, es, W, ConfAt(stk, now, k), EntryAt(es, stk[k].position, TRUE))
        BY <1>5, <3>2, MemosOnlyGrow
      <3> QED
        BY <1>5, <3>1, <3>2, <3>3, <3>4
    <2>2. CASE k = len + 1
      <3>1. k + 1 = len + 2 /\ k \in 1 .. len + 1 /\ big[k].position = n
        BY <1>2, <2>2
      <3>2. ConfAt(big, next, k) = ConfAt(stk, now, len + 1)
        BY <1>3, <2>2, <3>1
      <3>3. TriedBefore(cs, es, W, ConfAt(stk, now, len + 1), EntryAt(es, n, TRUE))
        BY <1>1, <1>5, MemosOnlyGrow
      <3> QED
        BY <1>4, <1>5, <3>1, <3>2, <3>3
    <2>3. k \in 1 .. len \/ k = len + 1
      <3>1. k \in 1 .. len + 1 /\ len \in Nat
        BY ONLY k \in DOMAIN big, <1>2
      <3> QED
        BY ONLY <3>1
    <2> QED
      BY ONLY <2>1, <2>2, <2>3
  <1> QED
    BY <1>6, <1>7, <1>8 DEF IsMemo

HasOneLess(V, cs, es, stk, now, big, next, n) ==
  /\ IsMemo(V, stk, now, cs, es)
  /\ TriedBefore(cs, es, V, ConfAt(stk, now, Len(stk) + 1), EntryAt(es, n, TRUE))
  /\ ConfAt(big, next, Len(stk) + 2) \in V

LEMMA MemoShrinks ==
  ASSUME NEW cs, NEW es, NEW stk, NEW now, NEW big, NEW next, NEW n,
         IsPushed(big, next, stk, now, n), NEW V, IsMemo(V, big, next, cs, es),
         Explored(cs, V, ConfAt(big, next, Len(big) + 1))
  PROVE  HasOneLess(V, cs, es, stk, now, big, next, n)
  <1>1. PICK len : len = Len(stk)
    OBVIOUS
  <1>2. /\ len \in Nat /\ Len(big) = len + 1 /\ DOMAIN stk = 1 .. len /\ DOMAIN big = 1 .. len + 1
        /\ \A k \in 1 .. len : big[k] = stk[k]
        /\ big[len + 1].position = n
        /\ \A k \in 1 .. len + 1 :
             Below(big, k) = Below(stk, k) /\ StatesAt(big, next, k) = StatesAt(stk, now, k)
    BY <1>1 DEF IsPushed
  <1>3. \A k \in 1 .. len + 1 : ConfAt(big, next, k) = ConfAt(stk, now, k)
    BY <1>2 DEF ConfAt
  <1>4. ASSUME NEW c \in V
        PROVE  Explored(cs, V, c) \/ \E k \in 2 .. Len(stk) + 1 : c = ConfAt(stk, now, k)
    <2>1. CASE Explored(cs, V, c)
      BY <2>1
    <2>2. CASE \E k \in 2 .. Len(big) + 1 : c = ConfAt(big, next, k)
      <3>1. PICK k \in 2 .. Len(big) + 1 : c = ConfAt(big, next, k)
        BY <2>2
      <3>2. CASE k = Len(big) + 1
        BY <3>1, <3>2
      <3>3. CASE k # Len(big) + 1
        <4>1. k \in 2 .. Len(stk) + 1 /\ k \in 1 .. len + 1
          BY <1>1, <1>2, <3>1, <3>3
        <4> QED
          BY <1>3, <3>1, <4>1
      <3> QED
        BY <3>2, <3>3
    <2> QED
      BY <2>1, <2>2 DEF IsMemo
  <1>5. ASSUME NEW k \in DOMAIN stk
        PROVE  /\ TriedBefore(cs, es, V, ConfAt(stk, now, k), EntryAt(es, stk[k].position, TRUE))
               /\ ConfAt(stk, now, k + 1) \in V
    <2>1. k \in DOMAIN big /\ k \in 1 .. len + 1 /\ k + 1 \in 1 .. len + 1 /\ big[k] = stk[k]
      BY <1>2
    <2>2. /\ TriedBefore(cs, es, V, ConfAt(big, next, k), EntryAt(es, big[k].position, TRUE))
          /\ ConfAt(big, next, k + 1) \in V
      BY <2>1 DEF IsMemo
    <2>3. ConfAt(big, next, k) = ConfAt(stk, now, k) /\ ConfAt(big, next, k + 1) = ConfAt(stk, now, k + 1)
      BY <1>3, <2>1
    <2> QED
      BY <2>1, <2>2, <2>3
  <1>6. /\ TriedBefore(cs, es, V, ConfAt(stk, now, len + 1), EntryAt(es, n, TRUE))
        /\ ConfAt(big, next, len + 2) \in V
    <2>1. len + 1 \in DOMAIN big /\ len + 1 \in 1 .. len + 1 /\ (len + 1) + 1 = len + 2
      BY <1>2
    <2>2. /\ TriedBefore(cs, es, V, ConfAt(big, next, len + 1), EntryAt(es, big[len + 1].position, TRUE))
          /\ ConfAt(big, next, (len + 1) + 1) \in V
      BY <2>1 DEF IsMemo
    <2>3. ConfAt(big, next, len + 1) = ConfAt(stk, now, len + 1)
      BY <1>3, <2>1
    <2> QED
      BY <1>2, <2>1, <2>2, <2>3
  <1>7. IsFiniteSet(V)
    BY DEF IsMemo
  <1>8. IsMemo(V, stk, now, cs, es)
    BY <1>4, <1>5, <1>7 DEF IsMemo
  <1> QED
    BY ONLY <1>1, <1>6, <1>8, Zenon DEF HasOneLess

\* The scan goes on behind a candidate that was tried, or from the head of the list.
LEMMA ScanGoesOn ==
  ASSUME NEW cs, ArePart(cs), NEW es, AreEntries(es, cs), NEW stk, NEW now, NEW D,
         D = Below(stk, Len(stk) + 1), Known(cs) \ D # {},
         NEW l \in Links(Len(es)), Linked(l, HeldIn(es, D), Len(es)), NEW V,
         NEW e, e = 0 \/ (/\ AtFront(es, D, e)
                          /\ TriedBefore(cs, es, V, ConfAt(stk, now, Len(stk) + 1), e)),
         e # 0 /\ Leaves(StatesAt(stk, now, Len(stk) + 1), cs[es[e].position]) # {}
           => Then(cs, ConfAt(stk, now, Len(stk) + 1), es[e].position) \in V
  PROVE  Scans(l.next[e], V, stk, now, cs, es)
  <1>1. PICK q : q = l.next[e]
    OBVIOUS
  <1>2. PICK c : c = ConfAt(stk, now, Len(stk) + 1)
    OBVIOUS
  <1>3. c[1] = D /\ c[2] = StatesAt(stk, now, Len(stk) + 1)
    BY <1>2 DEF ConfAt
  <1>4. IsNextHeld(es, D, e, l.next[e])
    <2>1. e = 0 \/ AtFront(es, D, e)
      OBVIOUS
    <2> QED
      BY <2>1, NextIsHeld
  <1>5. q \in HeldIn(es, D) /\ \A f \in HeldIn(es, D) : f < q => f <= e
    BY <1>1, <1>4 DEF IsNextHeld
  <1>6. HoldsEntries(cs, es, D)
    BY EntriesHeld
  <1>7. \A f \in HeldIn(es, D) : f \in Nat /\ f > 0
    <2>1. HeldIn(es, D) \in SUBSET (1 .. Len(es)) /\ Len(es) \in Nat
      BY EntryFacts
    <2> QED
      BY <2>1
  <1>8. ASSUME NEW f \in HeldIn(es, D), f < q PROVE es[f].invokes
    <2>1. f <= e
      BY <1>5, <1>8
    <2>2. e # 0
      BY <1>7, <2>1
    <2> QED
      BY <2>1, <2>2 DEF AtFront
  <1>9. ASSUME NEW n \in DOMAIN cs, Minimal(cs, c[1], n), Leaves(c[2], cs[n]) # {}, EntryAt(es, n, TRUE) < q
        PROVE  Then(cs, c, n) \in V
    <2>1. PICK f : f = EntryAt(es, n, TRUE)
      OBVIOUS
    <2>2. n \in DOMAIN cs \ D
      BY <1>3, <1>9 DEF Minimal
    <2>3. f \in HeldIn(es, D) /\ es[f].position = n
      BY <1>6, <2>1, <2>2 DEF HoldsEntries
    <2>4. f <= e /\ f \in Nat /\ f > 0
      BY <1>5, <1>7, <1>9, <2>1, <2>3
    <2>5. e # 0 /\ AtFront(es, D, e) /\ TriedBefore(cs, es, V, c, e)
      BY <1>2, <2>4
    <2>6. e \in Nat
      BY <1>7, <2>5 DEF AtFront
    <2>7. CASE f < e
      BY <1>9, <2>1, <2>5, <2>7 DEF TriedBefore
    <2>8. CASE f = e
      BY <1>2, <1>3, <1>9, <2>3, <2>5, <2>8
    <2> QED
      BY <2>4, <2>6, <2>7, <2>8
  <1>10. TriedBefore(cs, es, V, c, q)
    BY <1>9 DEF TriedBefore
  <1> QED
    BY <1>1, <1>2, <1>5, <1>8, <1>10 DEF Scans

IsNext(cs, es, D, e, n) ==
  /\ AtFront(es, D, e) /\ n \in DOMAIN cs /\ n \notin D /\ e = EntryAt(es, n, TRUE)
  /\ Minimal(cs, D, n) /\ e # 0

\* The scan is at an invocation: real time allows its call.
LEMMA ScanAtInvocation ==
  ASSUME NEW cs, ArePart(cs), NEW es, AreEntries(es, cs), NEW stk, NEW now, NEW D,
         D = Below(stk, Len(stk) + 1), NEW V, NEW e, Scans(e, V, stk, now, cs, es),
         es[e].invokes, NEW n, n = es[e].position
  PROVE  IsNext(cs, es, D, e, n)
  <1>1. e \in HeldIn(es, D) /\ \A f \in HeldIn(es, D) : f < e => es[f].invokes
    BY DEF Scans
  <1>2. HoldsEntries(cs, es, D)
    BY EntriesHeld
  <1>3. e \in Nat /\ n \in DOMAIN cs /\ n \notin D /\ e = EntryAt(es, n, es[e].invokes) /\ es[e].invokes \in BOOLEAN
    BY <1>1, <1>2 DEF HoldsEntries
  <1>4. e = EntryAt(es, n, TRUE)
    <2>1. es[e].invokes = TRUE
      BY <1>3
    <2> QED
      BY <1>3, <2>1, Zenon
  <1>5. \A f \in HeldIn(es, D) : f \in Nat
    BY <1>2 DEF HoldsEntries
  <1>6. AtFront(es, D, e)
    <2> SUFFICES ASSUME NEW f \in HeldIn(es, D), f <= e PROVE es[f].invokes
      BY <1>1 DEF AtFront
    <2>1. f = e \/ f < e
      BY <1>3, <1>5
    <2> QED
      BY <1>1, <2>1
  <1>7. Minimal(cs, D, n)
    BY <1>3, <1>4, <1>6, MinimalIsAtFront
  <1>8. e # 0
    <2>1. HeldIn(es, D) \in SUBSET (1 .. Len(es))
      BY EntryFacts
    <2> QED
      BY <1>1, <2>1
  <1> QED
    BY <1>3, <1>4, <1>6, <1>7, <1>8 DEF IsNext

\* The scan is at a completion: every candidate was tried.
LEMMA ScanAtCompletion ==
  ASSUME NEW cs, ArePart(cs), NEW es, AreEntries(es, cs), NEW stk, NEW now, NEW D,
         D = Below(stk, Len(stk) + 1), NEW V, NEW e, Scans(e, V, stk, now, cs, es),
         ~ es[e].invokes, Known(cs) \ D # {}
  PROVE  Explored(cs, V, ConfAt(stk, now, Len(stk) + 1))
  <1>1. PICK c : c = ConfAt(stk, now, Len(stk) + 1)
    OBVIOUS
  <1>2. c[1] = D
    BY <1>1 DEF ConfAt
  <1>3. HoldsEntries(cs, es, D)
    BY EntriesHeld
  <1>4. e \in HeldIn(es, D) /\ e \in Nat
    BY <1>3 DEF Scans, HoldsEntries
  <1>5. TriedBefore(cs, es, V, c, e)
    BY <1>1 DEF Scans
  <1>6. ASSUME NEW n \in DOMAIN cs, Minimal(cs, c[1], n), Leaves(c[2], cs[n]) # {}
        PROVE  Then(cs, c, n) \in V
    <2>1. PICK f : f = EntryAt(es, n, TRUE)
      OBVIOUS
    <2>2. n \notin D
      BY <1>2, <1>6 DEF Minimal
    <2>3. AtFront(es, D, f)
      BY <1>2, <1>6, <2>1, <2>2, MinimalIsAtFront
    <2>4. f \in Nat
      BY <1>3, <2>3 DEF AtFront, HoldsEntries
    <2>5. f < e
      BY <1>4, <2>3, <2>4 DEF AtFront
    <2> QED
      BY <1>5, <1>6, <2>1, <2>5 DEF TriedBefore
  <1>7. ~ (Known(cs) \subseteq c[1])
    BY <1>2
  <1> QED
    BY <1>1, <1>6, <1>7 DEF Explored


-----------------------------------------------------------------------------
(***************************************************************************)
(* Linearizations.                                                         *)
(***************************************************************************)

LEMMA FirstOfOrders ==
  ASSUME NEW V, NEW q \in Seq(V)
  PROVE  /\ \A k \in 0 .. Len(q) : ToSet(SubSeq(q, 1, k)) = FirstOf(q, k)
         /\ FirstOf(q, Len(q)) = ToSet(q) /\ FirstOf(q, 0) = {}
         /\ \A k \in 1 .. Len(q) : FirstOf(q, k) = FirstOf(q, k - 1) \cup {q[k]}
  <1>1. PICK N : N = Len(q)
    OBVIOUS
  <1>2. N \in Nat /\ DOMAIN q = 1 .. N /\ \A i \in 1 .. N : q[i] \in V
    BY <1>1
  <1>3. ASSUME NEW k \in 0 .. N PROVE ToSet(SubSeq(q, 1, k)) = FirstOf(q, k)
    <2>1. PICK p : p = SubSeq(q, 1, k)
      OBVIOUS
    <2>2. DOMAIN p = 1 .. k /\ \A i \in 1 .. k : p[i] = q[i]
      <3>1. k \in Int /\ 1 \in Int /\ \A i \in 1 .. k : q[i] \in V
        BY <1>2
      <3>2. /\ p \in Seq(V) /\ Len(p) = IF 1 <= k THEN k - 1 + 1 ELSE 0
            /\ \A i \in 1 .. k - 1 + 1 : p[i] = q[1 + i - 1]
        BY <2>1, <3>1, SubSeqProperties
      <3>3. Len(p) = k /\ DOMAIN p = 1 .. k
        BY <1>2, <3>2
      <3>4. \A i \in 1 .. k : i \in 1 .. k - 1 + 1 /\ 1 + i - 1 = i
        BY <1>2
      <3> QED
        BY <3>2, <3>3, <3>4
    <2> QED
      BY <2>1, <2>2 DEF ToSet, FirstOf
  <1>4. FirstOf(q, N) = ToSet(q) /\ FirstOf(q, 0) = {}
    BY <1>2 DEF FirstOf, ToSet
  <1>5. ASSUME NEW k \in 1 .. N PROVE FirstOf(q, k) = FirstOf(q, k - 1) \cup {q[k]}
    <2>1. 1 .. k = (1 .. k - 1) \cup {k}
      BY <1>2
    <2> QED
      BY <2>1 DEF FirstOf
  <1> QED
    BY <1>1, <1>3, <1>4, <1>5

IsInOrders(order, cs) ==
  order \in Seq(DOMAIN cs) /\ \A i, j \in DOMAIN order : i # j => order[i] # order[j]

LEMMA OrdersOfCalls ==
  ASSUME NEW cs, NEW R, cs \in Seq(R), NEW order
  PROVE  order \in Orders(cs) <=> IsInOrders(order, cs)
  <1>1. PICK D : D = DOMAIN cs
    OBVIOUS
  <1>2. IsFiniteSet(D)
    <2>1. D = 1 .. Len(cs) /\ Len(cs) \in Int /\ 1 \in Int
      BY <1>1
    <2> QED
      BY <2>1, FS_Interval
  <1>3. ASSUME order \in Orders(cs) PROVE IsInOrders(order, cs)
    <2>1. PICK s \in SUBSET D : order \in SetToSeqs(s)
      BY <1>1, <1>3 DEF Orders, SetToAllKPermutations
    <2>2. Cardinality(s) \in Nat
      BY <1>2, FS_Subset, FS_CardinalityType
    <2>3. order \in [1 .. Cardinality(s) -> s]
          /\ \A i, j \in 1 .. Cardinality(s) : i # j => order[i] # order[j]
      BY <2>1 DEF SetToSeqs
    <2>4. order \in Seq(D)
      BY <2>1, <2>2, <2>3
    <2> QED
      BY <1>1, <2>3, <2>4 DEF IsInOrders
  <1>4. ASSUME IsInOrders(order, cs) PROVE order \in Orders(cs)
    <2>1. PICK N : N = Len(order)
      OBVIOUS
    <2>2. N \in Nat /\ order \in [1 .. N -> D] /\ order \in Seq(D)
          /\ \A i, j \in 1 .. N : i # j => order[i] # order[j]
      <3>1. order \in Seq(D) /\ \A i, j \in DOMAIN order : i # j => order[i] # order[j]
        BY <1>1, <1>4 DEF IsInOrders
      <3>2. N \in Nat /\ order \in [1 .. N -> D] /\ DOMAIN order = 1 .. N
        BY ONLY <2>1, <3>1
      <3> QED
        BY ONLY <3>1, <3>2
    <2>3. PICK s : s = FirstOf(order, N)
      OBVIOUS
    <2>4. s \in SUBSET D /\ order \in [1 .. N -> s]
      BY <2>2, <2>3 DEF FirstOf
    <2>5. order \in Bijection(1 .. N, s)
      BY <2>2, <2>3, <2>4 DEF Bijection, Injection, Surjection, IsInjective, FirstOf
    <2>6. Cardinality(1 .. N) = N /\ IsFiniteSet(1 .. N)
      <3>1. 1 \in Int /\ N \in Int /\ Cardinality(1 .. N) = IF 1 > N THEN 0 ELSE N - 1 + 1
        BY <2>2, FS_Interval
      <3> QED
        BY <2>2, <3>1, FS_Interval
    <2>7. Cardinality(s) = N
      <3>1. ExistsBijection(1 .. N, s)
        BY <2>5 DEF ExistsBijection
      <3> QED
        BY <2>6, <3>1, FS_Bijection
    <2>8. order \in SetToSeqs(s)
      BY <2>2, <2>4, <2>7 DEF SetToSeqs
    <2> QED
      BY <1>1, <2>4, <2>8 DEF Orders, SetToAllKPermutations
  <1> QED
    BY <1>3, <1>4

\* The states after every call of an order.
IsChain(f, cs, order) ==
  /\ f[0] = {Initial}
  /\ \A k \in 1 .. Len(order) : f[k] = Leaves(f[k - 1], cs[order[k]])

LEMMA StatesAfterIsAChain ==
  ASSUME NEW cs, \A n \in DOMAIN cs : TakesFrom(cs[n]), Initial \in States,
         NEW order \in Seq(DOMAIN cs)
  PROVE  \E f : IsChain(f, cs, order) /\ StatesAfter(cs, order) = f[Len(order)]
  <1> DEFINE N == Len(order)
             W == SUBSET States
             On(ss, k) == Leaves(ss, cs[order[k]])
             step == [x \in W \X (1 .. N) |-> On(x[1], x[2])]
             F == CHOOSE f : f = [k \in 0 .. N |-> IF k = 0 THEN {Initial} ELSE On(f[k - 1], k)]
  <1>1. N \in Nat /\ \A k \in 1 .. N : order[k] \in DOMAIN cs
    OBVIOUS
  <1>2. StatesAfter(cs, order) = F[N]
    BY Zenon DEF StatesAfter
  <1>3. \A ss \in W, k \in 1 .. N : On(ss, k) \in W
    <2> SUFFICES ASSUME NEW ss \in W, NEW k \in 1 .. N PROVE On(ss, k) \in W
      OBVIOUS
    <2>1. \A s \in ss : After(s, cs[order[k]]) \in Seq(States)
      BY <1>1 DEF TakesFrom
    <2>2. \A s \in ss : ToSet(After(s, cs[order[k]])) \in SUBSET States
      BY <2>1 DEF ToSet
    <2> QED
      BY <2>2 DEF Leaves
  <1> HIDE DEF N, On, F, W
  <1>4. step \in [W \X (1 .. N) -> W] /\ \A ss \in W, n \in 1 .. N : step[<<ss, n>>] = On(ss, n)
    <2>1. \A x \in W \X (1 .. N) : On(x[1], x[2]) \in W
      <3> SUFFICES ASSUME NEW x \in W \X (1 .. N) PROVE On(x[1], x[2]) \in W
        OBVIOUS
      <3>1. x[1] \in W /\ x[2] \in 1 .. N
        OBVIOUS
      <3> QED
        BY <1>3, <3>1
    <2> QED
      BY <2>1
  <1> HIDE DEF step
  <1>5. {Initial} \in W
    BY DEF W
  <1>6. PICK f \in [0 .. N -> W] : f[0] = {Initial} /\ \A n \in 1 .. N : f[n] = step[<<f[n - 1], n>>]
    <2>1. \E f : Solution(f, N, W, {Initial}, step)
      BY <1>1, <1>4, <1>5, RecursionHasASolution
    <2> QED
      BY <2>1 DEF Solution
  <1>7. \A n \in 1 .. N : f[n] = On(f[n - 1], n)
    <2> SUFFICES ASSUME NEW n \in 1 .. N PROVE f[n] = On(f[n - 1], n)
      OBVIOUS
    <2>1. n - 1 \in 0 .. N /\ f[n - 1] \in W
      BY <1>1, <1>6
    <2> QED
      BY <1>4, <1>6, <2>1
  <1>8. f = [k \in 0 .. N |-> IF k = 0 THEN {Initial} ELSE On(f[k - 1], k)]
    <2>1. \A k \in 0 .. N : f[k] = IF k = 0 THEN {Initial} ELSE On(f[k - 1], k)
      BY <1>1, <1>6, <1>7
    <2> QED
      BY <1>6, <2>1
  <1>9. F = [k \in 0 .. N |-> IF k = 0 THEN {Initial} ELSE On(F[k - 1], k)]
    BY <1>8, Zenon DEF F
  <1>10. F[0] = {Initial} /\ \A n \in 1 .. N : F[n] = On(F[n - 1], n)
    <2>1. N \in Nat
      BY <1>1
    <2>2. \A k \in 0 .. N : F[k] = IF k = 0 THEN {Initial} ELSE On(F[k - 1], k)
      BY ONLY <1>9, Zenon
    <2> QED
      BY ONLY <2>1, <2>2
  <1>11. IsChain(F, cs, order)
    BY <1>10 DEF IsChain, On, N
  <1> QED
    BY <1>2, <1>11, Zenon DEF N

\* A stack whose calls are all the known ones is a linearization.
LEMMA StackIsAnOrder ==
  ASSUME NEW cs, ArePart(cs), \A n \in DOMAIN cs : TakesFrom(cs[n]), Initial \in States,
         NEW stk, NEW now, IsStack(stk, now, cs), Known(cs) \subseteq Below(stk, Len(stk) + 1)
  PROVE  IsLinearizable(cs)
  <1>1. PICK R : R = Frames(cs)
    OBVIOUS
  <1>2. PICK N : N = Len(stk)
    OBVIOUS
  <1>3. stk \in Seq(R)
    BY <1>1 DEF IsStack, Frames
  <1>4. N \in Nat /\ DOMAIN stk = 1 .. N /\ \A k \in 1 .. N : stk[k] \in R
    BY <1>2, <1>3
  <1>5. \A k \in 1 .. N : stk[k].position \in DOMAIN cs
    BY <1>1, <1>4 DEF Frames
  <1>6. PICK order : order = [k \in 1 .. N |-> stk[k].position]
    OBVIOUS
  <1>7. order \in Seq(DOMAIN cs) /\ Len(order) = N /\ DOMAIN order = 1 .. N
        /\ \A k \in 1 .. N : order[k] = stk[k].position
    BY <1>4, <1>5, <1>6
  <1>8. \A k \in 1 .. N + 1 : Below(stk, k) = FirstOf(order, k - 1)
    <2> SUFFICES ASSUME NEW k \in 1 .. N + 1 PROVE Below(stk, k) = FirstOf(order, k - 1)
      OBVIOUS
    <2>1. {j \in DOMAIN stk : j < k} = 1 .. k - 1 /\ 1 .. k - 1 \subseteq 1 .. N
      BY <1>4
    <2> QED
      BY <1>7, <2>1 DEF Below, FirstOf
  <1>9. \A k \in 1 .. N :
          /\ Minimal(cs, Below(stk, k), order[k])
          /\ StatesAt(stk, now, k + 1) = Leaves(StatesAt(stk, now, k), cs[order[k]])
    BY <1>4, <1>7 DEF IsStack
  <1>10. \A i, j \in DOMAIN order : i # j => order[i] # order[j]
    <2>1. \A i, j \in 1 .. N : i < j => order[i] # order[j]
      <3> SUFFICES ASSUME NEW i \in 1 .. N, NEW j \in 1 .. N, i < j PROVE order[i] # order[j]
        OBVIOUS
      <3>1. order[i] \in Below(stk, j)
        <4>1. i \in {k \in DOMAIN stk : k < j} /\ order[i] = stk[i].position
          BY <1>4, <1>7
        <4> QED
          BY <4>1 DEF Below
      <3>2. order[j] \notin Below(stk, j)
        BY <1>9 DEF Minimal
      <3> QED
        BY <3>1, <3>2
    <2>2. \A i, j \in 1 .. N : i # j => i < j \/ j < i
      BY <1>4
    <2> QED
      BY <1>7, <2>1, <2>2
  <1>11. order \in Orders(cs)
    <2>1. IsInOrders(order, cs)
      BY <1>7, <1>10 DEF IsInOrders
    <2>2. cs \in Seq(CallsOfInputs)
      BY DEF ArePart
    <2> QED
      BY <2>1, <2>2, OrdersOfCalls
  <1>12. /\ \A k \in 0 .. N : ToSet(SubSeq(order, 1, k)) = FirstOf(order, k)
         /\ FirstOf(order, N) = ToSet(order)
    BY <1>7, FirstOfOrders
  <1>13. Known(cs) \subseteq ToSet(order)
    <2>1. N + 1 \in 1 .. N + 1 /\ (N + 1) - 1 = N
      BY <1>4
    <2>2. Below(stk, N + 1) = FirstOf(order, N)
      BY <1>8, <2>1
    <2> QED
      BY <1>2, <1>12, <2>2
  <1>14. \A k \in DOMAIN order : Minimal(cs, ToSet(SubSeq(order, 1, k - 1)), order[k])
    <2> SUFFICES ASSUME NEW k \in 1 .. N PROVE Minimal(cs, ToSet(SubSeq(order, 1, k - 1)), order[k])
      BY <1>7
    <2>1. k \in 1 .. N + 1 /\ k - 1 \in 0 .. N
      BY <1>4
    <2>2. ToSet(SubSeq(order, 1, k - 1)) = Below(stk, k)
      BY <1>8, <1>12, <2>1
    <2> QED
      BY <1>9, <2>2
  <1>15. PICK f : IsChain(f, cs, order) /\ StatesAfter(cs, order) = f[N]
    BY <1>7, StatesAfterIsAChain
  <1>16. f[0] = {Initial} /\ \A k \in 1 .. N : f[k] = Leaves(f[k - 1], cs[order[k]])
    BY <1>7, <1>15 DEF IsChain
  <1>17. N \in {k \in 0 .. N : f[k] = StatesAt(stk, now, k + 1)}
    <2> DEFINE S == {k \in 0 .. N : f[k] = StatesAt(stk, now, k + 1)}
    <2>1. 0 \in S
      <3>1. StatesAt(stk, now, 1) = {Initial} /\ 0 + 1 = 1
        BY DEF IsStack
      <3>2. StatesAt(stk, now, 0 + 1) = {Initial}
        <4> HIDE DEF S
        <4> QED
          BY ONLY <3>1, Zenon
      <3>3. 0 \in 0 .. N
        BY <1>4
      <3>4. f[0] = StatesAt(stk, now, 0 + 1)
        BY <1>16, <3>2, Zenon
      <3> QED
        BY ONLY <3>3, <3>4, Zenon
    <2>2. ASSUME NEW k \in 1 .. N, k - 1 \in S PROVE k \in S
      <3>1. k \in 0 .. N /\ (k - 1) + 1 = k
        BY <1>4
      <3>2. f[k - 1] = StatesAt(stk, now, k)
        BY <2>2, <3>1
      <3> QED
        BY <1>9, <1>16, <3>1, <3>2
    <2> HIDE DEF S
    <2>3. 0 .. N \subseteq S
      BY <1>4, <2>1, <2>2, UpFromZero
    <2>4. N \in S
      BY <1>4, <2>3
    <2> QED
      BY <2>4 DEF S
  <1>18. StatesAfter(cs, order) # {}
    <2>1. StatesAt(stk, now, N + 1) # {}
      <3>1. N + 1 \in 1 .. Len(stk) + 1
        BY <1>2, <1>4
      <3> QED
        BY <3>1 DEF IsStack
    <2> QED
      BY <1>15, <1>17, <2>1
  <1>19. IsAccepted(cs, order)
    BY <1>14, <1>18 DEF IsAccepted
  <1> QED
    BY <1>11, <1>13, <1>19 DEF IsLinearizable

\* A memo of configurations that were all explored, the root among them, shows that
\* there is none.
LEMMA ExploredIsViolated ==
  ASSUME NEW cs, ArePart(cs), \A n \in DOMAIN cs : TakesFrom(cs[n]), Initial \in States,
         NEW V, \A c \in V : Explored(cs, V, c), Explored(cs, V, <<{}, {Initial}>>)
  PROVE  ~ IsLinearizable(cs)
  <1> SUFFICES ASSUME IsLinearizable(cs) PROVE FALSE
    OBVIOUS
  <1>1. PICK order \in Orders(cs) : Known(cs) \subseteq ToSet(order) /\ IsAccepted(cs, order)
    BY DEF IsLinearizable
  <1>2. IsInOrders(order, cs)
    <2>1. cs \in Seq(CallsOfInputs)
      BY DEF ArePart
    <2> QED
      BY <1>1, <2>1, OrdersOfCalls
  <1>3. order \in Seq(DOMAIN cs)
    BY <1>2 DEF IsInOrders
  <1>4. PICK N : N = Len(order)
    OBVIOUS
  <1>5. N \in Nat /\ DOMAIN order = 1 .. N /\ \A k \in 1 .. N : order[k] \in DOMAIN cs
    BY <1>3, <1>4
  <1>6. PICK f : IsChain(f, cs, order) /\ StatesAfter(cs, order) = f[N]
    BY <1>3, <1>4, StatesAfterIsAChain
  <1>7. f[0] = {Initial} /\ \A k \in 1 .. N : f[k] = Leaves(f[k - 1], cs[order[k]])
    BY <1>4, <1>6 DEF IsChain
  <1>8. f[N] # {} /\ \A k \in 1 .. N : Minimal(cs, ToSet(SubSeq(order, 1, k - 1)), order[k])
    BY <1>1, <1>5, <1>6 DEF IsAccepted
  <1>9. /\ \A k \in 0 .. N : ToSet(SubSeq(order, 1, k)) = FirstOf(order, k)
        /\ FirstOf(order, N) = ToSet(order) /\ FirstOf(order, 0) = {}
        /\ \A k \in 1 .. N : FirstOf(order, k) = FirstOf(order, k - 1) \cup {order[k]}
    BY <1>3, <1>4, FirstOfOrders
  <1>10. \A k \in 0 .. N : f[k] # {}
    <2> DEFINE S == {n \in 0 .. N : f[N - n] # {}}
    <2>1. 0 \in S
      BY <1>5, <1>8
    <2>2. ASSUME NEW n \in 1 .. N, n - 1 \in S PROVE n \in S
      <3>1. PICK k : k = N - (n - 1)
        OBVIOUS
      <3>2. k \in 1 .. N /\ k - 1 = N - n /\ f[k] # {}
        BY <1>5, <2>2, <3>1
      <3>3. f[k] = Leaves(f[k - 1], cs[order[k]])
        BY <1>7, <3>2
      <3>4. Leaves({}, cs[order[k]]) = {}
        BY LeavesOfSome
      <3>5. f[k - 1] # {}
        BY <3>2, <3>3, <3>4
      <3> QED
        BY <3>2, <3>5
    <2> HIDE DEF S
    <2>3. 0 .. N \subseteq S
      BY <1>5, <2>1, <2>2, UpFromZero
    <2> SUFFICES ASSUME NEW k \in 0 .. N PROVE f[k] # {}
      OBVIOUS
    <2>4. PICK n : n = N - k
      OBVIOUS
    <2>5. n \in 0 .. N /\ N - n = k
      BY <1>5, <2>4
    <2> QED
      BY <2>3, <2>5 DEF S
  <1> DEFINE S == {k \in 0 .. N : Explored(cs, V, <<FirstOf(order, k), f[k]>>)}
  <1>11. 0 \in S
    <2>1. FirstOf(order, 0) = {} /\ f[0] = {Initial} /\ 0 \in 0 .. N
      BY <1>5, <1>7, <1>9
    <2>2. Explored(cs, V, <<FirstOf(order, 0), f[0]>>)
      BY <2>1
    <2> QED
      BY <2>1, <2>2
  <1>12. ASSUME NEW k \in 1 .. N, k - 1 \in S PROVE k \in S
    <2>1. PICK c : c = <<FirstOf(order, k - 1), f[k - 1]>>
      OBVIOUS
    <2>2. c[1] = FirstOf(order, k - 1) /\ c[2] = f[k - 1] /\ k \in 0 .. N /\ k - 1 \in 0 .. N
      BY <1>5, <2>1
    <2>3. Explored(cs, V, c)
      BY <1>12, <2>1
    <2>4. Minimal(cs, c[1], order[k]) /\ order[k] \in DOMAIN cs
      BY <1>5, <1>8, <1>9, <2>2
    <2>5. Leaves(c[2], cs[order[k]]) = f[k] /\ f[k] # {}
      BY <1>7, <1>10, <2>2
    <2>6. Then(cs, c, order[k]) \in V
      BY <2>3, <2>4, <2>5 DEF Explored
    <2>7. Then(cs, c, order[k]) = <<FirstOf(order, k), f[k]>>
      BY <1>9, <2>2, <2>5 DEF Then
    <2>8. Explored(cs, V, <<FirstOf(order, k), f[k]>>)
      BY <2>6, <2>7
    <2> QED
      BY <2>2, <2>8
  <1> HIDE DEF S
  <1>13. 0 .. N \subseteq S
    BY <1>5, <1>11, <1>12, UpFromZero
  <1>14. Explored(cs, V, <<FirstOf(order, N), f[N]>>)
    BY <1>5, <1>13 DEF S
  <1>15. ~ (Known(cs) \subseteq FirstOf(order, N))
    BY <1>14 DEF Explored
  <1> QED
    BY <1>1, <1>9, <1>15

-----------------------------------------------------------------------------
(***************************************************************************)
(* A call that is linearized or undone.                                    *)
(***************************************************************************)

LEMMA KnownAreFinite ==
  ASSUME NEW cs, ArePart(cs), NEW D
  PROVE  /\ IsFiniteSet(Known(cs) \ D) /\ Cardinality(Known(cs) \ D) \in Nat
         /\ Cardinality(Known(cs) \ D) = 0 <=> Known(cs) \ D = {}
  <1>1. cs \in Seq(CallsOfInputs)
    BY DEF ArePart
  <1>2. IsFiniteSet(DOMAIN cs)
    <2>1. DOMAIN cs = 1 .. Len(cs) /\ Len(cs) \in Int /\ 1 \in Int
      BY <1>1
    <2> QED
      BY <2>1, FS_Interval
  <1>3. Known(cs) \ D \in SUBSET DOMAIN cs
    BY DEF Known
  <1>4. IsFiniteSet(Known(cs) \ D)
    BY <1>2, <1>3, FS_Subset
  <1> QED
    BY <1>4, FS_CardinalityType, FS_EmptySet

LEMMA OneKnownLess ==
  ASSUME NEW cs, ArePart(cs), NEW D, NEW n \in DOMAIN cs, n \notin D
  PROVE  Cardinality(Known(cs) \ D) =
           Cardinality(Known(cs) \ (D \cup {n})) + (IF cs[n].known THEN 1 ELSE 0)
  <1>1. PICK K : K = Known(cs) \ (D \cup {n})
    OBVIOUS
  <1>2. IsFiniteSet(K) /\ Cardinality(K) \in Nat
    BY <1>1, KnownAreFinite
  <1>3. CASE cs[n].known
    <2>1. Known(cs) \ D = K \cup {n} /\ n \notin K
      BY <1>1, <1>3 DEF Known
    <2>2. Cardinality(K \cup {n}) = Cardinality(K) + 1
      BY <1>2, <2>1, FS_AddElement
    <2> QED
      BY <1>1, <1>3, <2>1, <2>2
  <1>4. CASE ~ cs[n].known
    <2>1. Known(cs) \ D = K
      BY <1>1, <1>4 DEF Known
    <2>2. Cardinality(K) = Cardinality(K) + 0
      BY <1>2
    <2> QED
      BY <1>1, <1>4, <2>1, <2>2, Zenon
  <1> QED
    BY <1>3, <1>4

LEMMA CallIsLinearized ==
  ASSUME NEW cs, NEW es, NEW l, NEW stk, NEW now, NEW V, NEW left,
         Keeps(cs, es, l, stk, now, V, left),
         NEW D, D = Below(stk, Len(stk) + 1),
         NEW n \in DOMAIN cs, n \notin D, Minimal(cs, D, n),
         TriedBefore(cs, es, V, ConfAt(stk, now, Len(stk) + 1), EntryAt(es, n, TRUE)),
         NEW next \in Seq(States), ToSet(next) # {}, ToSet(next) = Leaves(ToSet(now), cs[n]),
         NEW big, big = Append(stk, [position |-> n, states |-> now]),
         NEW W, W = V \cup {<<D \cup {n}, ToSet(next)>>}
  PROVE  Keeps(cs, es, LiftIn(l, cs, es, n), big, next, W, IF cs[n].known THEN left - 1 ELSE left)
  <1>1. /\ ArePart(cs) /\ AreEntries(es, cs) /\ IsStack(stk, now, cs)
        /\ l \in Links(Len(es)) /\ Linked(l, HeldIn(es, D), Len(es))
        /\ left = Cardinality(Known(cs) \ D) /\ IsMemo(V, stk, now, cs, es)
    BY DEF Keeps
  <1>2. IsPushed(big, next, stk, now, n) /\ IsStack(big, next, cs)
    BY <1>1, StackGrows
  <1>3. PICK len : len = Len(stk)
    OBVIOUS
  <1>4. PICK k : k = LiftIn(l, cs, es, n)
    OBVIOUS
  <1>5. /\ len \in Nat /\ Len(big) = len + 1 /\ DOMAIN stk = 1 .. len /\ DOMAIN big = 1 .. len + 1
        /\ \A j \in 1 .. len : big[j] = stk[j]
        /\ big[len + 1].position = n
        /\ \A j \in 1 .. len + 1 : Below(big, j) = Below(stk, j)
        /\ Below(big, len + 2) = D \cup {n}
    BY <1>2, <1>3 DEF IsPushed
  <1>6. IsLifted(k, l, cs, es, D, n)
    BY <1>1, <1>4, LiftTakesOut
  <1>7. k \in Links(Len(es)) /\ Linked(k, HeldIn(es, Below(big, Len(big) + 1)), Len(es))
    <2>1. Below(big, Len(big) + 1) = D \cup {n}
      BY <1>5
    <2> QED
      BY <1>6, <2>1 DEF IsLifted
  <1>8. ASSUME NEW j \in DOMAIN big PROVE Lifted(k, cs, es, Below(big, j), big[j].position)
    <2>1. CASE j \in 1 .. len
      <3>1. PICK B : B = Below(stk, j)
        OBVIOUS
      <3>2. PICK c : c = stk[j].position
        OBVIOUS
      <3>3. Lifted(l, cs, es, B, c)
        BY <1>5, <2>1, <3>1, <3>2 DEF Keeps
      <3>4. c \in DOMAIN cs /\ c \notin B
        BY <1>1, <1>5, <2>1, <3>1, <3>2 DEF IsStack, Minimal
      <3>5. c \in D
        <4>1. j \in {i \in DOMAIN stk : i < Len(stk) + 1}
          BY <1>3, <1>5, <2>1
        <4> QED
          BY <3>2, <4>1 DEF Below
      <3>6. Agree(l, k, (1 .. Len(es)) \ HeldIn(es, D))
        BY <1>6 DEF IsLifted
      <3>7. Lifted(k, cs, es, B, c)
        BY <1>1, <3>3, <3>4, <3>5, <3>6, LiftedCallsStay
      <3>8. Below(big, j) = B /\ big[j].position = c
        BY <1>5, <2>1, <3>1, <3>2
      <3> QED
        BY <3>7, <3>8
    <2>2. CASE j = len + 1
      <3>1. Below(big, j) = D /\ big[j].position = n
        BY <1>3, <1>5, <2>2
      <3> QED
        BY <1>6, <3>1 DEF IsLifted
    <2>3. j \in 1 .. len \/ j = len + 1
      <3>1. j \in 1 .. len + 1 /\ len \in Nat
        BY ONLY j \in DOMAIN big, <1>5
      <3> QED
        BY ONLY <3>1
    <2> QED
      BY ONLY <2>1, <2>2, <2>3
  <1>9. IsMemo(W, big, next, cs, es)
    <2>1. HasOneMore(W, V, stk, next, n)
      BY DEF HasOneMore
    <2>2. TriedBefore(cs, es, V, ConfAt(stk, now, Len(stk) + 1), EntryAt(es, n, TRUE))
      OBVIOUS
    <2>3. IsPushed(big, next, stk, now, n) /\ IsMemo(V, stk, now, cs, es)
      BY <1>1, <1>2
    <2> QED
      BY ONLY <2>1, <2>2, <2>3, MemoGrows
  <1>10. (IF cs[n].known THEN left - 1 ELSE left) = Cardinality(Known(cs) \ Below(big, Len(big) + 1))
    <2>1. Below(big, Len(big) + 1) = D \cup {n}
      BY <1>5
    <2>2. PICK K : K = Cardinality(Known(cs) \ (D \cup {n}))
      OBVIOUS
    <2>3. K \in Nat
      BY <1>1, <2>2, KnownAreFinite
    <2>4. Cardinality(Known(cs) \ D) = K + (IF cs[n].known THEN 1 ELSE 0)
      BY <1>1, <2>2, OneKnownLess
    <2>5. left = K + (IF cs[n].known THEN 1 ELSE 0)
      BY <1>1, <2>4
    <2>6. (IF cs[n].known THEN left - 1 ELSE left) = K
      BY ONLY <2>3, <2>5
    <2> QED
      BY <2>1, <2>2, <2>6
  <1> QED
    BY <1>1, <1>2, <1>4, <1>7, <1>8, <1>9, <1>10 DEF Keeps

IsUndone(cs, es, l, stk, now, V, left, n, D, B) ==
  /\ Keeps(cs, es, l, stk, now, V, left)
  /\ TriedBefore(cs, es, V, ConfAt(stk, now, Len(stk) + 1), EntryAt(es, n, TRUE))
  /\ Then(cs, ConfAt(stk, now, Len(stk) + 1), n) \in V
  /\ n \in DOMAIN cs /\ n \notin D /\ Minimal(cs, D, n) /\ D \subseteq B

\* After every candidate was tried, the last call is undone.
LEMMA CallIsUndone ==
  ASSUME NEW cs, NEW es, NEW l, NEW big, NEW next, NEW V, NEW left,
         Keeps(cs, es, l, big, next, V, left), big # <<>>,
         Explored(cs, V, ConfAt(big, next, Len(big) + 1)),
         NEW last, last = big[Len(big)], NEW stk, stk = Front(big), NEW n, n = last.position,
         NEW now, now = last.states, NEW D, D = Below(stk, Len(stk) + 1)
  PROVE  IsUndone(cs, es, UnliftIn(l, cs, es, n), stk, now, V, IF cs[n].known THEN left + 1 ELSE left,
                  n, D, Below(big, Len(big) + 1))
  <1>1. /\ ArePart(cs) /\ AreEntries(es, cs) /\ IsStack(big, next, cs)
        /\ l \in Links(Len(es)) /\ Linked(l, HeldIn(es, Below(big, Len(big) + 1)), Len(es))
        /\ left = Cardinality(Known(cs) \ Below(big, Len(big) + 1)) /\ IsMemo(V, big, next, cs, es)
    BY DEF Keeps
  <1>2. big \in Seq(Frames(cs))
    BY <1>1 DEF IsStack, Frames
  <1>3. /\ IsPushed(big, next, stk, now, n)
        /\ stk \in Seq(Frames(cs)) /\ n \in DOMAIN cs /\ now \in Seq(States)
    BY <1>2, PoppedFacts
  <1>4. IsStack(stk, now, cs) /\ Minimal(cs, D, n) /\ ToSet(next) = Leaves(ToSet(now), cs[n])
    BY <1>1, <1>3, StackShrinks
  <1>5. n \notin D
    BY <1>4 DEF Minimal
  <1>6. PICK len : len = Len(stk)
    OBVIOUS
  <1>7. PICK k : k = UnliftIn(l, cs, es, n)
    OBVIOUS
  <1>8. /\ len \in Nat /\ Len(big) = len + 1 /\ DOMAIN stk = 1 .. len /\ DOMAIN big = 1 .. len + 1
        /\ \A j \in 1 .. len : big[j] = stk[j]
        /\ big[len + 1].position = n
        /\ \A j \in 1 .. len + 1 : Below(big, j) = Below(stk, j)
        /\ Below(big, len + 2) = D \cup {n}
        /\ StatesAt(stk, now, len + 1) = ToSet(now) /\ StatesAt(big, next, len + 2) = ToSet(next)
    BY <1>3, <1>6 DEF IsPushed
  <1>9. Below(big, Len(big) + 1) = D \cup {n}
    BY <1>8
  <1>10. IsUnlifted(k, l, es, D)
    <2>1. Lifted(l, cs, es, D, n)
      <3>1. len + 1 \in DOMAIN big /\ len + 1 \in 1 .. len + 1
        BY <1>8
      <3>2. Lifted(l, cs, es, Below(big, len + 1), big[len + 1].position)
        BY <3>1 DEF Keeps
      <3>3. Below(big, len + 1) = D /\ big[len + 1].position = n
        BY <1>6, <1>8, <3>1
      <3> QED
        BY <3>2, <3>3
    <2> QED
      BY <1>1, <1>3, <1>5, <1>7, <1>9, <2>1, UnliftPutsBack
  <1>11. ASSUME NEW j \in DOMAIN stk PROVE Lifted(k, cs, es, Below(stk, j), stk[j].position)
    <2>1. PICK B : B = Below(stk, j)
      OBVIOUS
    <2>2. PICK c : c = stk[j].position
      OBVIOUS
    <2>3. j \in 1 .. len /\ j \in DOMAIN big /\ j \in 1 .. len + 1 /\ big[j] = stk[j] /\ Below(big, j) = B
      BY <1>8, <2>1
    <2>4. Lifted(l, cs, es, B, c)
      BY <2>2, <2>3 DEF Keeps
    <2>5. c \in DOMAIN cs /\ c \notin B
      BY <1>4, <2>1, <2>2 DEF IsStack, Minimal
    <2>6. c \in D
      <3>1. j \in {i \in DOMAIN stk : i < Len(stk) + 1}
        BY <1>6, <1>8, <2>3
      <3> QED
        BY <2>2, <3>1 DEF Below
    <2>7. Agree(l, k, (1 .. Len(es)) \ HeldIn(es, D))
      BY <1>10 DEF IsUnlifted
    <2>8. Lifted(k, cs, es, B, c)
      BY <1>1, <2>4, <2>5, <2>6, <2>7, LiftedCallsStay
    <2> QED
      BY <2>1, <2>2, <2>8
  <1>12. /\ IsMemo(V, stk, now, cs, es)
         /\ TriedBefore(cs, es, V, ConfAt(stk, now, Len(stk) + 1), EntryAt(es, n, TRUE))
         /\ ConfAt(big, next, Len(stk) + 2) \in V
    <2>1. IsPushed(big, next, stk, now, n) /\ IsMemo(V, big, next, cs, es)
      BY <1>1, <1>3
    <2>2. Explored(cs, V, ConfAt(big, next, Len(big) + 1))
      OBVIOUS
    <2>3. HasOneLess(V, cs, es, stk, now, big, next, n)
      BY ONLY <2>1, <2>2, MemoShrinks
    <2> QED
      BY ONLY <2>3, Zenon DEF HasOneLess
  <1>13. Then(cs, ConfAt(stk, now, Len(stk) + 1), n) \in V
    <2>1. ConfAt(stk, now, Len(stk) + 1)[1] = D /\ ConfAt(stk, now, Len(stk) + 1)[2] = ToSet(now)
      BY <1>6, <1>8 DEF ConfAt
    <2>2. ConfAt(big, next, Len(stk) + 2) = <<D \cup {n}, ToSet(next)>>
      BY <1>6, <1>8 DEF ConfAt
    <2> QED
      BY <1>4, <1>12, <2>1, <2>2 DEF Then
  <1>14. (IF cs[n].known THEN left + 1 ELSE left) = Cardinality(Known(cs) \ D)
    <2>1. PICK K : K = Cardinality(Known(cs) \ (D \cup {n}))
      OBVIOUS
    <2>2. left = K /\ K \in Nat
      BY <1>1, <1>9, <2>1, KnownAreFinite
    <2>3. Cardinality(Known(cs) \ D) = K + (IF cs[n].known THEN 1 ELSE 0)
      BY <1>1, <1>3, <1>5, <2>1, OneKnownLess
    <2> QED
      BY ONLY <2>2, <2>3
  <1>15. Keeps(cs, es, k, stk, now, V, IF cs[n].known THEN left + 1 ELSE left)
    <2>1. k \in Links(Len(es)) /\ Linked(k, HeldIn(es, D), Len(es))
      BY <1>10 DEF IsUnlifted
    <2> QED
      BY <1>1, <1>4, <1>11, <1>12, <1>14, <2>1 DEF Keeps
  <1> QED
    <2>1. D \subseteq Below(big, Len(big) + 1)
      BY <1>9
    <2> QED
      BY <1>3, <1>4, <1>5, <1>7, <1>12, <1>13, <1>15, <2>1, Zenon DEF IsUndone

-----------------------------------------------------------------------------
(***************************************************************************)
(* The actions of the search.                                              *)
(***************************************************************************)

LEMMA NoneToSet == ToSet(<<>>) = {}
  BY DEF ToSet

LEMMA CallsAreTaken ==
  ASSUME SearchAssumption, NEW cs, ArePart(cs)
  PROVE  Initial \in States /\ \A n \in DOMAIN cs : TakesFrom(cs[n])
  <1> SUFFICES ASSUME NEW n \in DOMAIN cs PROVE TakesFrom(cs[n])
    BY DEF SearchAssumption
  <1>1. cs[n] \in CallsOfInputs
    BY DEF ArePart
  <1>2. PICK input \in Inputs : cs[n] \in ToSet(CallsOf(input.events))
    BY <1>1 DEF CallsOfInputs
  <1>3. \A s \in States : After(s, cs[n]) \in Seq(States)
    BY <1>2 DEF SearchAssumption
  <1> QED
    BY <1>3 DEF TakesFrom, SearchAssumption

LEMMA DoneIsBelow ==
  ASSUME NEW R, stack \in Seq(R)
  PROVE  Done = Below(stack, Len(stack) + 1)
  <1>1. {j \in DOMAIN stack : j < Len(stack) + 1} = DOMAIN stack
    <2>1. DOMAIN stack = 1 .. Len(stack) /\ Len(stack) \in Nat
      OBVIOUS
    <2> QED
      BY <2>1
  <1> QED
    BY <1>1 DEF Done, Below

\* The search is at a call that comes next in real time.
Facts(D) ==
  /\ D = Done /\ ArePart(partCalls) /\ AreEntries(entries, partCalls)
  /\ Keeps(partCalls, entries, list, stack, states, memo, openCalls) /\ WithinLimits
  /\ states \in Seq(States) /\ ToSet(states) # {} /\ Len(stack) \in Nat
  /\ list \in Links(Len(entries)) /\ Linked(list, HeldIn(entries, D), Len(entries))
  /\ StatesAt(stack, states, Len(stack) + 1) = ToSet(states)
  /\ openCalls = Cardinality(Known(partCalls) \ D) /\ openCalls \in Nat
  /\ openCalls > 0 <=> Known(partCalls) \ D # {}
  /\ openCalls > 0 /\ outcome = "searching" => Scans(entry, memo, stack, states, partCalls, entries)

LEMMA SearchKnows ==
  ASSUME Searches, NEW D, D = Below(stack, Len(stack) + 1)
  PROVE  Facts(D)
  <1>1. Keeps(partCalls, entries, list, stack, states, memo, openCalls)
    BY DEF Searches
  <1>2. /\ ArePart(partCalls) /\ AreEntries(entries, partCalls) /\ IsStack(stack, states, partCalls)
        /\ list \in Links(Len(entries)) /\ Linked(list, HeldIn(entries, D), Len(entries))
        /\ openCalls = Cardinality(Known(partCalls) \ D)
    BY <1>1 DEF Keeps
  <1>3. stack \in Seq(Frames(partCalls)) /\ states \in Seq(States)
    BY <1>2 DEF IsStack, Frames
  <1>4. D = Done /\ Len(stack) \in Nat
    BY <1>3, DoneIsBelow
  <1>5. StatesAt(stack, states, Len(stack) + 1) = ToSet(states)
    <2>1. Len(stack) + 1 \notin DOMAIN stack
      <3>1. DOMAIN stack = 1 .. Len(stack) /\ Len(stack) \in Nat
        BY <1>3
      <3> QED
        BY <3>1
    <2> QED
      BY <2>1 DEF StatesAt
  <1>6. ToSet(states) # {}
    <2>1. Len(stack) + 1 \in 1 .. Len(stack) + 1
      BY <1>4
    <2>2. StatesAt(stack, states, Len(stack) + 1) # {}
      BY <1>2, <2>1 DEF IsStack
    <2> QED
      BY <1>5, <2>2
  <1>7. openCalls \in Nat /\ (openCalls = 0 <=> Known(partCalls) \ D = {})
    BY <1>2, KnownAreFinite
  <1>8. openCalls > 0 <=> Known(partCalls) \ D # {}
    BY <1>7
  <1> QED
    BY <1>1, <1>2, <1>3, <1>4, <1>5, <1>6, <1>7, <1>8 DEF Facts, Searches

IsFaced(n, D) ==
  /\ Facts(D) /\ openCalls > 0 /\ n \in DOMAIN partCalls /\ n \notin D /\ Minimal(partCalls, D, n)
  /\ entry # 0 /\ AtFront(entries, D, entry) /\ entry = EntryAt(entries, n, TRUE)
  /\ entries[entry].position = n
  /\ TriedBefore(partCalls, entries, memo, ConfAt(stack, states, Len(stack) + 1), entry)

LEMMA CandidateIsFaced ==
  ASSUME Searches, AtInvocation, NEW D, D = Below(stack, Len(stack) + 1), NEW n, n = Candidate
  PROVE  IsFaced(n, D)
  <1>1. Facts(D)
    BY SearchKnows
  <1>2. outcome = "searching" /\ openCalls > 0 /\ entries[entry].invokes /\ n = entries[entry].position
    BY DEF AtInvocation, Candidate
  <1>3. ArePart(partCalls) /\ AreEntries(entries, partCalls) /\ Scans(entry, memo, stack, states, partCalls, entries)
    BY <1>1, <1>2 DEF Facts
  <1>4. /\ AtFront(entries, D, entry) /\ n \in DOMAIN partCalls /\ n \notin D
        /\ entry = EntryAt(entries, n, TRUE) /\ Minimal(partCalls, D, n) /\ entry # 0
    <2>1. IsNext(partCalls, entries, D, entry, n)
      BY <1>2, <1>3, ScanAtInvocation
    <2> QED
      BY <2>1 DEF IsNext
  <1>5. TriedBefore(partCalls, entries, memo, ConfAt(stack, states, Len(stack) + 1), entry)
    BY <1>3 DEF Scans
  <1> QED
    BY <1>1, <1>2, <1>4, <1>5 DEF IsFaced

\* What the steps of the spec come to.
IsPaid(step, from, n) ==
  /\ step.steps \in Nat /\ step.clockAt \in Nat /\ step.stop \in Stops
  /\ step.following \in Seq(States) /\ step.steps <= limits.budget
  /\ step.stop = "" => ToSet(step.following) = Leaves(ToSet(states), partCalls[n])
  /\ step.stop = "steps" => \E s \in ToSet(states) : step.steps + Cost(s) > limits.budget
  /\ step.stop = "time" => from <= Len(states)
  /\ (from <= Len(states)) \in BOOLEAN /\ (from <= Len(states) => limits.timed)

LEMMA CandidateIsPaid ==
  ASSUME SearchAssumption, HasLimits, Searches, AtInvocation, NEW D, NEW n, IsFaced(n, D),
         NEW from \in Passing, NEW step, step = Step(partCalls[n], from)
  PROVE  IsPaid(step, from, n)
  <1>1. /\ ArePart(partCalls) /\ states \in Seq(States) /\ n \in DOMAIN partCalls
        /\ spent.steps \in Nat /\ spent.clockAt \in Nat /\ spent.steps <= limits.budget
        /\ limits.budget \in Nat
    BY DEF IsFaced, Facts, WithinLimits, HasLimits
  <1>2. TakesFrom(partCalls[n])
    BY <1>1, CallsAreTaken
  <1>3. Len(states) \in Nat
    BY <1>1
  <1>4. from \in Int /\ (from <= Len(states) => limits.timed)
    BY <1>3 DEF Passing, HasLimits
  <1>5. IsAcc(Step(partCalls[n], from), partCalls[n], from, states, limits.budget, Len(states))
    BY <1>1, <1>2, <1>4, StepIsRight
  <1>6. IsAcc(step, partCalls[n], from, states, limits.budget, Len(states))
    BY <1>5
  <1>7. FirstOf(states, Len(states)) = ToSet(states)
    BY <1>1, FirstOfOrders
  <1>8. step \in Accs
    BY <1>6 DEF IsAcc
  <1>9. step.steps \in Nat /\ step.clockAt \in Nat /\ step.stop \in Stops /\ step.following \in Seq(States)
    BY <1>8 DEF Accs
  <1>10. (from <= Len(states)) \in BOOLEAN
    BY ONLY <1>3, <1>4
  <1> QED
    BY <1>4, <1>6, <1>7, <1>9, <1>10 DEF IsAcc, IsPaid

\* A step of the search leaves the rest of a check alone.
LEMMA SearchGoesOn ==
  ASSUME SearchInductive, outcome # "idle", UNCHANGED checkVars, UNCHANGED <<partCalls, limits>>,
         late' \in BOOLEAN, late' => limits.timed, outcome' \in Ended \cup {"searching"}, Searches'
  PROVE  SearchInductive'
  <1>1. /\ recorded' = recorded /\ partitions' = partitions /\ endings' = endings /\ total' = total
        /\ undecided' = undecided /\ detail' = detail /\ partCalls' = partCalls /\ limits' = limits
    BY DEF checkVars
  <1>2. HasLimits'
    BY <1>1 DEF SearchInductive, HasLimits
  <1>3. KnowsItsPartitions' /\ ReportIsOfTheFirst' /\ PassesAll'
    BY <1>1 DEF SearchInductive, KnowsItsPartitions, ReportIsOfTheFirst, PassesAll
  <1>4. detail' = NoDetail => at' \in DOMAIN partitions' /\ partCalls' = partitions'[at']
    BY <1>1 DEF SearchInductive, at
  <1>5. partitions' \in Seq(Seq(CallsOfInputs)) /\ \A i \in DOMAIN partitions' : ArePart(partitions'[i])
    BY <1>1 DEF SearchInductive
  <1> QED
    BY <1>2, <1>3, <1>4, <1>5 DEF SearchInductive

\* A step that leaves the stack and the list as they are.
LEMMA SameStackIsKept ==
  ASSUME Searches, UNCHANGED <<partCalls, entries, list, stack, states, memo, openCalls>>,
         outcome' = "searching" /\ openCalls > 0 => Scans(entry', memo, stack, states, partCalls, entries),
         WithinLimits', outcome' = "passed" => IsLinearizable(partCalls),
         outcome' = "violated" => ~ IsLinearizable(partCalls)
  PROVE  Searches'
  <1>1. /\ partCalls' = partCalls /\ entries' = entries /\ list' = list /\ stack' = stack
        /\ states' = states /\ memo' = memo /\ openCalls' = openCalls
    OBVIOUS
  <1>2. Keeps(partCalls, entries, list, stack, states, memo, openCalls)'
    BY <1>1 DEF Searches
  <1> QED
    BY <1>1, <1>2 DEF Searches

LEMMA PaidWithinLimits ==
  ASSUME HasLimits, WithinLimits, NEW step, NEW from, NEW n, IsPaid(step, from, n), Pays(step, from),
         UNCHANGED <<memo, states>>,
         outcome' \in {"searching", "raised"} \/ outcome' = step.stop
           \/ (outcome' = "memo" /\ ~ HasRoom)
  PROVE  WithinLimits'
  <1>1. /\ spent' = [steps |-> step.steps, clockAt |-> step.clockAt] /\ late' = (from <= Len(states))
        /\ partCalls' = partCalls /\ limits' = limits /\ memo' = memo /\ states' = states
    BY DEF Pays
  <1>2. spent'.steps = step.steps /\ spent'.clockAt = step.clockAt
    BY <1>1
  <1>3. spent'.steps \in Nat /\ spent'.clockAt \in Nat /\ spent'.steps <= limits'.budget
    BY <1>1, <1>2 DEF IsPaid
  <1>4. Cardinality(memo') * Len(partCalls') <= limits'.memo
    BY <1>1 DEF WithinLimits
  <1>5. outcome' = "steps" => \E s \in ToSet(states') : spent'.steps + Cost(s) > limits'.budget
    BY <1>1, <1>2 DEF IsPaid
  <1>6. outcome' = "memo" => ~ HasRoom'
    <2>1. outcome' = "memo" => ~ HasRoom
      BY DEF IsPaid, Stops
    <2>2. HasRoom' = HasRoom
      BY <1>1 DEF HasRoom
    <2> QED
      BY <2>1, <2>2
  <1>7. outcome' = "time" => late'
    BY <1>1 DEF IsPaid
  <1> QED
    BY <1>3, <1>4, <1>5, <1>6, <1>7 DEF WithinLimits

\* The scan goes on behind a candidate that was tried.
LEMMA ScanPassesTheCandidate ==
  ASSUME NEW D, NEW n, IsFaced(n, D), D = Below(stack, Len(stack) + 1),
         Leaves(ToSet(states), partCalls[n]) # {}
           => <<D \cup {n}, Leaves(ToSet(states), partCalls[n])>> \in memo
  PROVE  Scans(list.next[entry], memo, stack, states, partCalls, entries)
  <1>1. /\ ArePart(partCalls) /\ AreEntries(entries, partCalls) /\ Known(partCalls) \ D # {}
        /\ list \in Links(Len(entries)) /\ Linked(list, HeldIn(entries, D), Len(entries))
        /\ StatesAt(stack, states, Len(stack) + 1) = ToSet(states)
        /\ AtFront(entries, D, entry) /\ entry # 0 /\ entries[entry].position = n
        /\ TriedBefore(partCalls, entries, memo, ConfAt(stack, states, Len(stack) + 1), entry)
    BY DEF IsFaced, Facts
  <1>2. ConfAt(stack, states, Len(stack) + 1) = <<D, ToSet(states)>>
    BY <1>1 DEF ConfAt
  <1>3. Then(partCalls, ConfAt(stack, states, Len(stack) + 1), n) = <<D \cup {n}, Leaves(ToSet(states), partCalls[n])>>
    BY <1>2 DEF Then
  <1>4. entry # 0 /\ Leaves(StatesAt(stack, states, Len(stack) + 1), partCalls[entries[entry].position]) # {}
          => Then(partCalls, ConfAt(stack, states, Len(stack) + 1), entries[entry].position) \in memo
    BY <1>1, <1>3
  <1>5. entry = 0 \/ (/\ AtFront(entries, D, entry)
                      /\ TriedBefore(partCalls, entries, memo, ConfAt(stack, states, Len(stack) + 1), entry))
    BY <1>1
  <1> QED
    BY <1>1, <1>4, <1>5, ScanGoesOn

\* A candidate that leads nowhere new is passed.
LEMMA CandidateIsPassed ==
  ASSUME SearchAssumption, SearchInductive, AtInvocation, UNCHANGED checkVars,
         NEW from \in Passing, NEW step, step = Step(partCalls[Candidate], from),
         step.stop = "", step.following = <<>> \/ Configuration(step.following) \in memo,
         Pays(step, from), entry' = list.next[entry],
         UNCHANGED <<list, stack, states, memo, openCalls, outcome>>
  PROVE  SearchInductive'
  <1>1. PICK D : D = Below(stack, Len(stack) + 1)
    OBVIOUS
  <1>2. PICK n : n = Candidate
    OBVIOUS
  <1>3. Searches /\ HasLimits /\ outcome = "searching" /\ outcome # "idle"
    BY DEF AtInvocation, SearchInductive
  <1>4. IsFaced(n, D)
    BY <1>1, <1>2, <1>3, CandidateIsFaced
  <1>5. IsPaid(step, from, n)
    BY <1>2, <1>3, <1>4, CandidateIsPaid
  <1>6. ToSet(step.following) = Leaves(ToSet(states), partCalls[n])
    BY <1>5 DEF IsPaid
  <1>7. Scans(list.next[entry], memo, stack, states, partCalls, entries)
    <2>1. CASE step.following = <<>>
      <3>1. ToSet(step.following) = {}
        BY <2>1, NoneToSet
      <3> QED
        BY <1>1, <1>4, <1>6, <3>1, ScanPassesTheCandidate
    <2>2. CASE Configuration(step.following) \in memo
      <3>1. Configuration(step.following) = <<D \cup {n}, ToSet(step.following)>>
        BY <1>2, <1>4 DEF Configuration, IsFaced, Facts
      <3> QED
        BY <1>1, <1>4, <1>6, <2>2, <3>1, ScanPassesTheCandidate
    <2> QED
      BY <2>1, <2>2
  <1>8. WithinLimits'
    <2>1. WithinLimits
      BY <1>4 DEF IsFaced, Facts
    <2>2. outcome' \in {"searching", "raised"}
      BY <1>3
    <2>3. UNCHANGED <<memo, states>>
      OBVIOUS
    <2> QED
      BY <1>3, <1>5, <2>1, <2>2, <2>3, PaidWithinLimits
  <1>9. Searches'
    <2>1. UNCHANGED <<partCalls, entries, list, stack, states, memo, openCalls>>
      BY DEF Pays
    <2>2. outcome' = "searching" /\ entry' = list.next[entry]
      BY <1>3
    <2> QED
      BY <1>3, <1>7, <1>8, <2>1, <2>2, SameStackIsKept
  <1>10. late' \in BOOLEAN /\ (late' => limits.timed) /\ UNCHANGED <<partCalls, limits>>
    <2>1. late' = (from <= Len(states)) /\ UNCHANGED <<partCalls, limits>>
      BY DEF Pays
    <2>2. (from <= Len(states)) \in BOOLEAN /\ (from <= Len(states) => limits.timed)
      BY <1>5 DEF IsPaid
    <2> QED
      BY ONLY <2>1, <2>2, Zenon
  <1>11. outcome' \in Ended \cup {"searching"}
    BY <1>3
  <1> QED
    BY <1>3, <1>9, <1>10, <1>11, SearchGoesOn

LEMMA RejectGoesOn ==
  ASSUME SearchAssumption, SearchInductive, Reject, UNCHANGED checkVars
  PROVE  SearchInductive'
  <1>1. PICK from \in Passing :
          LET step == Step(partCalls[Candidate], from) IN
          step.stop = "" /\ step.following = <<>> /\ Pays(step, from)
    BY DEF Reject
  <1>2. PICK step : step = Step(partCalls[Candidate], from)
    OBVIOUS
  <1>3. step.stop = "" /\ step.following = <<>> /\ Pays(step, from)
    BY <1>1, <1>2
  <1>4. AtInvocation /\ entry' = list.next[entry] /\ UNCHANGED <<list, stack, states, memo, openCalls, outcome>>
    BY DEF Reject
  <1> QED
    BY <1>2, <1>3, <1>4, CandidateIsPassed

LEMMA RevisitGoesOn ==
  ASSUME SearchAssumption, SearchInductive, Revisit, UNCHANGED checkVars
  PROVE  SearchInductive'
  <1>1. PICK from \in Passing :
          LET step == Step(partCalls[Candidate], from) IN
          step.stop = "" /\ Configuration(step.following) \in memo /\ Pays(step, from)
    BY DEF Revisit
  <1>2. PICK step : step = Step(partCalls[Candidate], from)
    OBVIOUS
  <1>3. step.stop = "" /\ Configuration(step.following) \in memo /\ Pays(step, from)
    BY <1>1, <1>2
  <1>4. AtInvocation /\ entry' = list.next[entry] /\ UNCHANGED <<list, stack, states, memo, openCalls, outcome>>
    BY DEF Revisit
  <1> QED
    BY <1>2, <1>3, <1>4, CandidateIsPassed

LEMMA StopGoesOn ==
  ASSUME SearchAssumption, SearchInductive, Stop, UNCHANGED checkVars
  PROVE  SearchInductive'
  <1>1. PICK from \in Passing :
          LET step == Step(partCalls[Candidate], from)
              full == step.stop = "" /\ step.following # <<>>
                      /\ Configuration(step.following) \notin memo /\ ~ HasRoom
          IN  /\ step.stop # "" \/ full
              /\ outcome' = IF full THEN "memo" ELSE step.stop
              /\ Pays(step, from)
    BY DEF Stop
  <1>2. PICK step : step = Step(partCalls[Candidate], from)
    OBVIOUS
  <1>3. /\ (outcome' = "memo" /\ ~ HasRoom) \/ (outcome' = step.stop /\ step.stop # "")
        /\ Pays(step, from)
    BY <1>1, <1>2
  <1>4. AtInvocation /\ UNCHANGED <<entry, list, stack, states, memo, openCalls>>
    BY DEF Stop
  <1>5. PICK D : D = Below(stack, Len(stack) + 1)
    OBVIOUS
  <1>6. PICK n : n = Candidate
    OBVIOUS
  <1>7. Searches /\ HasLimits /\ outcome # "idle"
    BY <1>4 DEF AtInvocation, SearchInductive
  <1>8. IsFaced(n, D)
    BY <1>4, <1>5, <1>6, <1>7, CandidateIsFaced
  <1>9. IsPaid(step, from, n)
    BY <1>2, <1>4, <1>6, <1>7, <1>8, CandidateIsPaid
  <1>10. outcome' \in {"memo", "steps", "time", "raised"}
    BY <1>3, <1>9 DEF IsPaid, Stops
  <1>11. WithinLimits'
    <2>1. WithinLimits
      BY <1>8 DEF IsFaced, Facts
    <2>2. \/ outcome' \in {"searching", "raised"} \/ outcome' = step.stop
          \/ (outcome' = "memo" /\ ~ HasRoom)
      BY <1>3
    <2>3. UNCHANGED <<memo, states>>
      BY <1>4
    <2> QED
      BY <1>3, <1>7, <1>9, <2>1, <2>2, <2>3, PaidWithinLimits
  <1>12. Searches'
    <2>1. UNCHANGED <<partCalls, entries, list, stack, states, memo, openCalls>>
      BY <1>3, <1>4 DEF Pays
    <2>2. outcome' # "searching" /\ outcome' # "passed" /\ outcome' # "violated"
      BY <1>10
    <2> QED
      BY <1>7, <1>11, <2>1, <2>2, SameStackIsKept
  <1>13. late' \in BOOLEAN /\ (late' => limits.timed) /\ UNCHANGED <<partCalls, limits>>
    <2>1. late' = (from <= Len(states)) /\ UNCHANGED <<partCalls, limits>>
      BY <1>3 DEF Pays
    <2>2. (from <= Len(states)) \in BOOLEAN /\ (from <= Len(states) => limits.timed)
      BY <1>9 DEF IsPaid
    <2> QED
      BY ONLY <2>1, <2>2, Zenon
  <1>14. outcome' \in Ended \cup {"searching"}
    BY <1>10 DEF Ended
  <1> QED
    BY <1>7, <1>12, <1>13, <1>14, SearchGoesOn

LEMMA LinearizeGoesOn ==
  ASSUME SearchAssumption, SearchInductive, Linearize, UNCHANGED checkVars
  PROVE  SearchInductive'
  <1>1. PICK from \in Passing :
          LET step == Step(partCalls[Candidate], from) IN
          /\ step.stop = "" /\ step.following # <<>>
          /\ Configuration(step.following) \notin memo /\ HasRoom /\ Pays(step, from)
          /\ memo' = memo \cup {Configuration(step.following)}
          /\ stack' = Append(stack, [position |-> Candidate, states |-> states])
          /\ states' = step.following
    BY DEF Linearize
  <1>2. PICK step : step = Step(partCalls[Candidate], from)
    OBVIOUS
  <1>3. PICK D : D = Below(stack, Len(stack) + 1)
    OBVIOUS
  <1>4. PICK n : n = Candidate
    OBVIOUS
  <1>5. PICK next : next = step.following
    OBVIOUS
  <1>6. /\ step.stop = "" /\ next # <<>> /\ Configuration(next) \notin memo /\ HasRoom /\ Pays(step, from)
        /\ memo' = memo \cup {Configuration(next)}
        /\ stack' = Append(stack, [position |-> n, states |-> states]) /\ states' = next
    BY <1>1, <1>2, <1>4, <1>5
  <1>7. /\ AtInvocation /\ list' = Lift(list, n) /\ openCalls' = (IF partCalls[n].known THEN openCalls - 1 ELSE openCalls)
        /\ entry' = list'.next[0] /\ UNCHANGED outcome
    BY <1>4 DEF Linearize
  <1>8. Searches /\ HasLimits /\ outcome = "searching" /\ outcome # "idle"
    BY <1>7 DEF AtInvocation, SearchInductive
  <1>9. IsFaced(n, D)
    BY <1>3, <1>4, <1>7, <1>8, CandidateIsFaced
  <1>10. IsPaid(step, from, n)
    BY <1>2, <1>4, <1>7, <1>8, <1>9, CandidateIsPaid
  <1>11. next \in Seq(States) /\ ToSet(next) = Leaves(ToSet(states), partCalls[n]) /\ ToSet(next) # {}
    <2>1. next \in Seq(States) /\ ToSet(next) = Leaves(ToSet(states), partCalls[n])
      BY <1>5, <1>6, <1>10 DEF IsPaid
    <2>2. ToSet(next) # {}
      <3>1. Len(next) \in Nat /\ Len(next) > 0 /\ DOMAIN next = 1 .. Len(next)
        <4>1. next \in Seq(States) /\ next # <<>>
          BY <1>6, <2>1
        <4> QED
          BY ONLY <4>1, EmptySeq
      <3>2. 1 \in DOMAIN next
        BY <3>1
      <3> QED
        BY <3>2 DEF ToSet
    <2> QED
      BY <2>1, <2>2
  <1>12. Configuration(next) = <<D \cup {n}, ToSet(next)>>
    BY <1>4, <1>9 DEF Configuration, IsFaced, Facts
  <1>13. /\ Keeps(partCalls, entries, list, stack, states, memo, openCalls) /\ Facts(D) /\ n \in DOMAIN partCalls /\ n \notin D
         /\ Minimal(partCalls, D, n)
         /\ TriedBefore(partCalls, entries, memo, ConfAt(stack, states, Len(stack) + 1), EntryAt(entries, n, TRUE))
    BY <1>9 DEF IsFaced, Facts
  <1>14. PICK big : big = stack'
    OBVIOUS
  <1>15. PICK W : W = memo'
    OBVIOUS
  <1>16. PICK left : left = (IF partCalls[n].known THEN openCalls - 1 ELSE openCalls)
    OBVIOUS
  <1>17. Keeps(partCalls, entries, LiftIn(list, partCalls, entries, n), big, next, W, left)
    <2>1. big = Append(stack, [position |-> n, states |-> states])
      BY <1>6, <1>14
    <2>2. W = memo \cup {<<D \cup {n}, ToSet(next)>>}
      BY <1>6, <1>12, <1>15
    <2>3. Keeps(partCalls, entries, LiftIn(list, partCalls, entries, n), big, next, W, IF partCalls[n].known THEN openCalls - 1 ELSE openCalls)
      BY <1>3, <1>11, <1>13, <2>1, <2>2, CallIsLinearized
    <2> QED
      BY <1>16, <2>3, Zenon
  <1>18. PICK k : k = LiftIn(list, partCalls, entries, n)
    OBVIOUS
  <1>19. /\ partCalls' = partCalls /\ entries' = entries /\ limits' = limits /\ list' = k /\ stack' = big
         /\ states' = next /\ memo' = W /\ openCalls' = left /\ entry' = k.next[0] /\ outcome' = "searching"
    <2>1. partCalls' = partCalls /\ entries' = entries /\ limits' = limits
      BY <1>6 DEF Pays
    <2>2. list' = k
      BY <1>7, <1>18, LiftsAreTheSame
    <2> QED
      BY <1>6, <1>7, <1>8, <1>14, <1>15, <1>16, <2>1, <2>2
  <1>20. Keeps(partCalls, entries, k, big, next, W, left)
    BY <1>17, <1>18
  <1>21. Keeps(partCalls, entries, list, stack, states, memo, openCalls)'
    BY <1>19, <1>20, Zenon
  <1>22. left > 0 => Scans(k.next[0], W, big, next, partCalls, entries)
    <2> SUFFICES ASSUME left > 0 PROVE Scans(k.next[0], W, big, next, partCalls, entries)
      OBVIOUS
    <2>1. PICK E : E = Below(big, Len(big) + 1)
      OBVIOUS
    <2>2. /\ ArePart(partCalls) /\ AreEntries(entries, partCalls)
          /\ k \in Links(Len(entries)) /\ Linked(k, HeldIn(entries, E), Len(entries))
          /\ left = Cardinality(Known(partCalls) \ E)
      BY <1>20, <2>1 DEF Keeps
    <2>3. Known(partCalls) \ E # {}
      <3>1. Cardinality(Known(partCalls) \ E) # 0
        BY <2>2
      <3> QED
        BY <2>2, <3>1, KnownAreFinite
    <2>4. PICK e : e = 0
      OBVIOUS
    <2>5. Scans(k.next[e], W, big, next, partCalls, entries)
      <3>1. e = 0 \/ (/\ AtFront(entries, E, e)
                      /\ TriedBefore(partCalls, entries, W, ConfAt(big, next, Len(big) + 1), e))
        BY <2>4
      <3>2. e # 0 /\ Leaves(StatesAt(big, next, Len(big) + 1), partCalls[entries[e].position]) # {}
              => Then(partCalls, ConfAt(big, next, Len(big) + 1), entries[e].position) \in W
        BY <2>4
      <3> QED
        BY <2>1, <2>2, <2>3, <3>1, <3>2, ScanGoesOn
    <2> QED
      BY <2>4, <2>5
  <1>23. WithinLimits'
    <2>1. /\ spent' = [steps |-> step.steps, clockAt |-> step.clockAt]
      BY <1>6 DEF Pays
    <2>2. spent'.steps \in Nat /\ spent'.clockAt \in Nat /\ spent'.steps <= limits'.budget
      <3>1. spent'.steps = step.steps /\ spent'.clockAt = step.clockAt
        BY <2>1
      <3> QED
        BY <1>10, <1>19, <3>1 DEF IsPaid
    <2>3. Cardinality(memo') * Len(partCalls') <= limits'.memo
      <3>1. IsFiniteSet(memo)
        BY <1>13 DEF Keeps, IsMemo
      <3>2. Cardinality(memo') = Cardinality(memo) + 1
        BY <1>6, <3>1, FS_AddElement
      <3>3. (Cardinality(memo) + 1) * Len(partCalls) <= limits.memo
        BY <1>6 DEF HasRoom
      <3> QED
        BY <1>19, <3>2, <3>3, Zenon
    <2> QED
      BY <1>19, <2>2, <2>3 DEF WithinLimits
  <1>24. Searches'
    BY <1>19, <1>21, <1>22, <1>23 DEF Searches
  <1>25. late' \in BOOLEAN /\ (late' => limits.timed) /\ UNCHANGED <<partCalls, limits>>
    <2>1. late' = (from <= Len(states)) /\ UNCHANGED <<partCalls, limits>>
      BY <1>6 DEF Pays
    <2>2. (from <= Len(states)) \in BOOLEAN /\ (from <= Len(states) => limits.timed)
      BY <1>10 DEF IsPaid
    <2> QED
      BY ONLY <2>1, <2>2, Zenon
  <1>26. outcome' \in Ended \cup {"searching"}
    BY <1>19
  <1> QED
    BY <1>8, <1>24, <1>25, <1>26, SearchGoesOn

LEMMA BacktrackGoesOn ==
  ASSUME SearchAssumption, SearchInductive, Backtrack, UNCHANGED checkVars
  PROVE  SearchInductive'
  <1>1. PICK last : last = stack[Len(stack)]
    OBVIOUS
  <1>2. PICK n : n = last.position
    OBVIOUS
  <1>3. PICK now : now = last.states
    OBVIOUS
  <1>4. PICK stk : stk = Front(stack)
    OBVIOUS
  <1>5. /\ AtCompletion /\ stack # <<>> /\ stack' = stk /\ states' = now /\ list' = Unlift(list, n)
        /\ openCalls' = (IF partCalls[n].known THEN openCalls + 1 ELSE openCalls)
        /\ entry' = list'.next[EntryOf(n, TRUE)]
        /\ UNCHANGED <<partCalls, entries, limits, memo, spent, late, outcome>>
    BY <1>1, <1>2, <1>3, <1>4 DEF Backtrack
  <1>6. Searches /\ HasLimits /\ outcome = "searching" /\ outcome # "idle" /\ openCalls > 0 /\ ~ entries[entry].invokes
    BY <1>5 DEF AtCompletion, SearchInductive
  <1>7. PICK B : B = Below(stack, Len(stack) + 1)
    OBVIOUS
  <1>8. Facts(B)
    BY <1>6, <1>7, SearchKnows
  <1>9. Explored(partCalls, memo, ConfAt(stack, states, Len(stack) + 1))
    BY <1>6, <1>7, <1>8, ScanAtCompletion DEF Facts
  <1>10. PICK D : D = Below(stk, Len(stk) + 1)
    OBVIOUS
  <1>11. PICK left : left = (IF partCalls[n].known THEN openCalls + 1 ELSE openCalls)
    OBVIOUS
  <1>12. PICK k : k = UnliftIn(list, partCalls, entries, n)
    OBVIOUS
  <1>13. /\ Keeps(partCalls, entries, k, stk, now, memo, left)
         /\ TriedBefore(partCalls, entries, memo, ConfAt(stk, now, Len(stk) + 1), EntryAt(entries, n, TRUE))
         /\ Then(partCalls, ConfAt(stk, now, Len(stk) + 1), n) \in memo
         /\ n \in DOMAIN partCalls /\ n \notin D /\ Minimal(partCalls, D, n)
         /\ D \subseteq B
    <2>1. Keeps(partCalls, entries, list, stack, states, memo, openCalls)
      BY <1>8 DEF Facts
    <2>2. IsUndone(partCalls, entries, k, stk, now, memo, left, n, D, B)
      <3>1. IsUndone(partCalls, entries, UnliftIn(list, partCalls, entries, n), stk, now, memo,
                     IF partCalls[n].known THEN openCalls + 1 ELSE openCalls, n, D, Below(stack, Len(stack) + 1))
        BY <1>1, <1>2, <1>3, <1>4, <1>5, <1>9, <1>10, <2>1, CallIsUndone
      <3> QED
        BY <1>7, <1>11, <1>12, <3>1, Zenon
    <2> QED
      BY <2>2 DEF IsUndone
  <1>14. /\ partCalls' = partCalls /\ entries' = entries /\ limits' = limits /\ list' = k /\ stack' = stk
         /\ states' = now /\ memo' = memo /\ openCalls' = left /\ outcome' = "searching"
         /\ spent' = spent /\ late' = late /\ entry' = k.next[EntryAt(entries, n, TRUE)]
    <2>1. list' = k
      BY <1>5, <1>12, LiftsAreTheSame
    <2>2. EntryOf(n, TRUE) = EntryAt(entries, n, TRUE)
      BY DEF EntryOf, EntryAt
    <2> QED
      BY <1>5, <1>6, <1>11, <2>1, <2>2
  <1>15. Keeps(partCalls, entries, list, stack, states, memo, openCalls)'
    BY <1>13, <1>14, Zenon
  <1>16. Scans(k.next[EntryAt(entries, n, TRUE)], memo, stk, now, partCalls, entries)
    <2>1. PICK e : e = EntryAt(entries, n, TRUE)
      OBVIOUS
    <2>2. /\ ArePart(partCalls) /\ AreEntries(entries, partCalls)
          /\ k \in Links(Len(entries)) /\ Linked(k, HeldIn(entries, D), Len(entries))
      BY <1>10, <1>13 DEF Keeps
    <2>3. Known(partCalls) \ D # {}
      <3>1. Known(partCalls) \ B # {}
        BY <1>6, <1>8 DEF Facts
      <3> QED
        BY <1>13, <3>1
    <2>4. AtFront(entries, D, e)
      BY <1>13, <2>1, <2>2, MinimalIsAtFront
    <2>5. entries[e].position = n
      <3>1. HoldsEntries(partCalls, entries, D)
        BY <2>2, EntriesHeld
      <3> QED
        BY <1>13, <2>1, <3>1 DEF HoldsEntries
    <2>6. e = 0 \/ (/\ AtFront(entries, D, e)
                    /\ TriedBefore(partCalls, entries, memo, ConfAt(stk, now, Len(stk) + 1), e))
      BY <1>13, <2>1, <2>4
    <2>7. e # 0 /\ Leaves(StatesAt(stk, now, Len(stk) + 1), partCalls[entries[e].position]) # {}
            => Then(partCalls, ConfAt(stk, now, Len(stk) + 1), entries[e].position) \in memo
      BY <1>13, <2>5
    <2>8. Scans(k.next[e], memo, stk, now, partCalls, entries)
      BY <1>10, <2>2, <2>3, <2>6, <2>7, ScanGoesOn
    <2> QED
      BY <2>1, <2>8
  <1>17. WithinLimits'
    <2>1. WithinLimits
      BY <1>8 DEF Facts
    <2> QED
      BY <1>14, <2>1 DEF WithinLimits
  <1>18. Searches'
    <2>1. Scans(entry', memo', stack', states', partCalls', entries')
      BY <1>14, <1>16, Zenon
    <2> QED
      BY <1>14, <1>15, <1>17, <2>1 DEF Searches
  <1>19. late' \in BOOLEAN /\ (late' => limits.timed) /\ UNCHANGED <<partCalls, limits>>
    BY <1>6, <1>14 DEF HasLimits
  <1>20. outcome' \in Ended \cup {"searching"}
    BY <1>14
  <1> QED
    BY <1>6, <1>18, <1>19, <1>20, SearchGoesOn

\* The search ends as it is.
LEMMA SearchEnds ==
  ASSUME SearchInductive, outcome = "searching", UNCHANGED checkVars, outcome' \in {"passed", "violated"},
         UNCHANGED <<partCalls, entries, list, entry, stack, states, memo, openCalls, spent, best, limits, late>>,
         outcome' = "passed" => IsLinearizable(partCalls), outcome' = "violated" => ~ IsLinearizable(partCalls)
  PROVE  SearchInductive'
  <1>1. Searches /\ HasLimits /\ outcome # "idle"
    BY DEF SearchInductive
  <1>2. WithinLimits'
    BY <1>1 DEF Searches, WithinLimits
  <1>3. Searches'
    <2>1. UNCHANGED <<partCalls, entries, list, stack, states, memo, openCalls>> /\ outcome' # "searching"
      OBVIOUS
    <2> QED
      BY <1>1, <1>2, <2>1, SameStackIsKept
  <1>4. late' \in BOOLEAN /\ (late' => limits.timed) /\ UNCHANGED <<partCalls, limits>>
    BY <1>1 DEF HasLimits
  <1>5. outcome' \in Ended \cup {"searching"}
    BY DEF Ended
  <1> QED
    BY <1>1, <1>3, <1>4, <1>5, SearchGoesOn

LEMMA ViolateGoesOn ==
  ASSUME SearchAssumption, SearchInductive, Violate, UNCHANGED checkVars
  PROVE  SearchInductive'
  <1>1. /\ AtCompletion /\ stack = <<>> /\ outcome' = "violated"
        /\ UNCHANGED <<partCalls, entries, list, entry, stack, states, memo, openCalls, spent, best, limits, late>>
    BY DEF Violate
  <1>2. Searches /\ outcome = "searching" /\ openCalls > 0 /\ ~ entries[entry].invokes
    BY <1>1 DEF AtCompletion, SearchInductive
  <1>3. PICK D : D = Below(stack, Len(stack) + 1)
    OBVIOUS
  <1>4. Facts(D)
    BY <1>2, <1>3, SearchKnows
  <1>5. Explored(partCalls, memo, ConfAt(stack, states, Len(stack) + 1))
    BY <1>2, <1>3, <1>4, ScanAtCompletion DEF Facts
  <1>6. IsStack(stack, states, partCalls) /\ IsMemo(memo, stack, states, partCalls, entries) /\ ArePart(partCalls)
    BY <1>4 DEF Facts, Keeps
  <1>7. Len(stack) = 0 /\ DOMAIN stack = {}
    BY <1>1
  <1>8. ConfAt(stack, states, Len(stack) + 1) = <<{}, {Initial}>>
    <2>1. StatesAt(stack, states, 1) = {Initial}
      BY <1>6 DEF IsStack
    <2>2. Below(stack, 1) = {}
      BY <1>7 DEF Below
    <2>3. Len(stack) + 1 = 1
      BY <1>7
    <2> QED
      BY <2>1, <2>2, <2>3 DEF ConfAt
  <1>9. \A c \in memo : Explored(partCalls, memo, c)
    <2>1. 2 .. Len(stack) + 1 = {}
      BY <1>7
    <2> QED
      BY <1>6, <2>1 DEF IsMemo
  <1>10. ~ IsLinearizable(partCalls)
    <2>1. Initial \in States /\ \A n \in DOMAIN partCalls : TakesFrom(partCalls[n])
      BY <1>6, CallsAreTaken
    <2> QED
      BY <1>5, <1>6, <1>8, <1>9, <2>1, ExploredIsViolated
  <1> QED
    BY <1>1, <1>2, <1>10, SearchEnds

LEMMA PassGoesOn ==
  ASSUME SearchAssumption, SearchInductive, PassSearch, UNCHANGED checkVars
  PROVE  SearchInductive'
  <1>1. /\ outcome = "searching" /\ openCalls = 0 /\ outcome' = "passed"
        /\ UNCHANGED <<partCalls, entries, list, entry, stack, states, memo, openCalls, spent, best, limits, late>>
    BY DEF PassSearch
  <1>2. Searches
    BY <1>1 DEF SearchInductive
  <1>3. PICK D : D = Below(stack, Len(stack) + 1)
    OBVIOUS
  <1>4. Facts(D)
    BY <1>2, <1>3, SearchKnows
  <1>5. Known(partCalls) \subseteq D
    BY <1>1, <1>4 DEF Facts
  <1>6. IsStack(stack, states, partCalls) /\ ArePart(partCalls)
    BY <1>4 DEF Facts, Keeps
  <1>7. Initial \in States /\ \A n \in DOMAIN partCalls : TakesFrom(partCalls[n])
    BY <1>6, CallsAreTaken
  <1>8. IsLinearizable(partCalls)
    BY <1>3, <1>5, <1>6, <1>7, StackIsAnOrder
  <1> QED
    BY <1>1, <1>8, SearchEnds

\* The list of the entries of a partition, each behind the one before it.
FirstLinks(m) == [next |-> [e \in 0 .. m + 1 |-> IF e = m + 1 THEN 0 ELSE e + 1],
                  prev |-> [e \in 0 .. m + 1 |-> IF e = 0 THEN 0 ELSE e - 1]]

LEMMA FirstLinksLinkAll ==
  ASSUME NEW m \in Nat, NEW l, l = FirstLinks(m)
  PROVE  l \in Links(m) /\ Linked(l, 1 .. m, m)
  <1> DEFINE next == [e \in 0 .. m + 1 |-> IF e = m + 1 THEN 0 ELSE e + 1]
             prev == [e \in 0 .. m + 1 |-> IF e = 0 THEN 0 ELSE e - 1]
  <1>1. l = [next |-> next, prev |-> prev]
    BY DEF FirstLinks
  <1>2. next \in [0 .. m + 1 -> 0 .. m + 1] /\ prev \in [0 .. m + 1 -> 0 .. m + 1]
    OBVIOUS
  <1>3. /\ \A e \in {0} \cup 1 .. m : next[e] = e + 1
        /\ \A e \in 1 .. m \cup {m + 1} : prev[e] = e - 1
    OBVIOUS
  <1> HIDE DEF next, prev
  <1>4. l \in Links(m) /\ l.next = next /\ l.prev = prev
    BY <1>1, <1>2 DEF Links
  <1>5. \A e \in {0} \cup 1 .. m : Follows(e + 1, e, 1 .. m, m)
    BY DEF Follows
  <1>6. \A e \in 1 .. m \cup {m + 1} : Leads(e - 1, e, 1 .. m)
    BY DEF Leads
  <1>7. Linked(l, 1 .. m, m)
    BY <1>3, <1>4, <1>5, <1>6, Zenon DEF Linked
  <1> QED
    BY <1>4, <1>7

\* Before the first step of a search every entry is in its list.
LEMMA SearchBegins ==
  ASSUME NEW cs, ArePart(cs), Initial \in States, NEW es, es = EntriesOf(cs),
         NEW l, l = FirstLinks(Len(es)), NEW now, now = <<Initial>>
  PROVE  /\ Keeps(cs, es, l, <<>>, now, {}, Cardinality(Known(cs)))
         /\ Cardinality(Known(cs)) > 0 => Scans(1, {}, <<>>, now, cs, es)
  <1>1. AreEntries(es, cs)
    BY EntriesOfAPart
  <1>2. PICK m : m = Len(es)
    OBVIOUS
  <1>3. DOMAIN es = 1 .. m /\ m \in Nat
    BY <1>1, <1>2, EntryFacts
  <1>4. PICK stk : stk = <<>>
    OBVIOUS
  <1>5. Len(stk) = 0 /\ DOMAIN stk = {} /\ stk \in Seq([position : DOMAIN cs, states : Seq(States)])
    BY <1>4
  <1>6. Len(stk) + 1 = 1
    BY <1>5
  <1>7. Below(stk, 1) = {}
    BY <1>5 DEF Below
  <1>8. HeldIn(es, {}) = 1 .. m
    BY <1>3 DEF HeldIn
  <1>9. now \in Seq(States) /\ ToSet(now) = {Initial}
    BY DEF ToSet
  <1>10. StatesAt(stk, now, 1) = {Initial}
    BY <1>5, <1>9 DEF StatesAt
  <1>11. IsStack(stk, now, cs)
    <2>1. \A k \in 1 .. Len(stk) + 1 : StatesAt(stk, now, k) # {}
      <3>1. \A k \in 1 .. Len(stk) + 1 : k = 1
        BY <1>5
      <3> QED
        BY <1>10, <3>1
    <2> QED
      BY <1>5, <1>9, <1>10, <2>1 DEF IsStack
  <1>12. l \in Links(Len(es)) /\ Linked(l, HeldIn(es, Below(stk, Len(stk) + 1)), Len(es))
    <2>1. l \in Links(m) /\ Linked(l, 1 .. m, m)
      BY <1>2, <1>3, FirstLinksLinkAll
    <2> QED
      BY <1>2, <1>6, <1>7, <1>8, <2>1
  <1>13. IsMemo({}, stk, now, cs, es)
    <2>1. IsFiniteSet({})
      BY FS_EmptySet
    <2> QED
      BY <1>5, <2>1 DEF IsMemo
  <1>14. Known(cs) \ {} = Known(cs)
    OBVIOUS
  <1>15. Keeps(cs, es, l, stk, now, {}, Cardinality(Known(cs)))
    BY <1>1, <1>5, <1>6, <1>7, <1>11, <1>12, <1>13, <1>14 DEF Keeps
  <1>16. ASSUME Cardinality(Known(cs)) > 0 PROVE Scans(1, {}, stk, now, cs, es)
    <2>1. Known(cs) # {}
      <3>1. Cardinality(Known(cs)) # 0 /\ Cardinality({}) = 0
        BY <1>16, FS_EmptySet
      <3> QED
        BY <3>1
    <2>2. PICK d \in DOMAIN cs : TRUE
      BY <2>1 DEF Known
    <2>3. \A n \in DOMAIN cs : EntryAt(es, n, TRUE) \in 1 .. m
      BY <1>1, <1>3 DEF AreEntries
    <2>4. 1 \in 1 .. m
      <3>1. PICK e : e = EntryAt(es, d, TRUE)
        OBVIOUS
      <3>2. e \in 1 .. m /\ m \in Nat
        BY <1>3, <2>2, <2>3, <3>1
      <3> QED
        BY ONLY <3>2
    <2>5. 1 \in HeldIn(es, Below(stk, Len(stk) + 1))
      BY <1>6, <1>7, <1>8, <2>4
    <2>6. \A f \in HeldIn(es, Below(stk, Len(stk) + 1)) : ~ (f < 1)
      <3>1. HeldIn(es, Below(stk, Len(stk) + 1)) = 1 .. m
        BY <1>6, <1>7, <1>8
      <3>2. \A f \in 1 .. m : ~ (f < 1)
        BY ONLY <1>3
      <3> QED
        BY ONLY <3>1, <3>2
    <2>7. \A n \in DOMAIN cs : ~ (EntryAt(es, n, TRUE) < 1)
      <3>1. \A f \in 1 .. m : ~ (f < 1)
        BY ONLY <1>3
      <3> QED
        BY ONLY <2>3, <3>1
    <2> QED
      BY <2>5, <2>6, <2>7 DEF Scans, TriedBefore
  <1> QED
    BY <1>4, <1>15, <1>16

LEMMA StartGoesOn ==
  ASSUME SearchAssumption, SearchInductive, StartSearch
  PROVE  SearchInductive'
  <1>1. PICK cs : cs = partitions[at]
    OBVIOUS
  <1>2. detail = NoDetail /\ at <= Len(partitions) /\ LayOut(cs) /\ UNCHANGED checkVars
    BY <1>1 DEF StartSearch
  <1>3. at \in DOMAIN partitions /\ ArePart(cs)
    <2>1. endings \in Seq(Ended) /\ partitions \in Seq(Seq(CallsOfInputs))
          /\ \A i \in DOMAIN partitions : ArePart(partitions[i])
      BY DEF SearchInductive, KnowsItsPartitions
    <2>2. at \in Nat /\ at > 0 /\ DOMAIN partitions = 1 .. Len(partitions) /\ Len(partitions) \in Nat
      BY <2>1 DEF at
    <2>3. at \in DOMAIN partitions
      BY <1>2, <2>2
    <2> QED
      BY <1>1, <2>1, <2>3
  <1>4. PICK es : es = EntriesOf(cs)
    OBVIOUS
  <1>5. PICK l : l = FirstLinks(Len(es))
    OBVIOUS
  <1>6. PICK now : now = <<Initial>>
    OBVIOUS
  <1>7. PICK left : left = Cardinality(Known(cs))
    OBVIOUS
  <1>8. /\ partCalls' = cs /\ entries' = es /\ list' = l /\ entry' = 1 /\ stack' = <<>> /\ states' = now
        /\ memo' = {} /\ openCalls' = left /\ spent' = [steps |-> 0, clockAt |-> 0]
        /\ outcome' = "searching" /\ limits' = limits /\ late' = late
    BY <1>2, <1>4, <1>5, <1>6, <1>7 DEF LayOut, FirstLinks
  <1>9. Keeps(cs, es, l, <<>>, now, {}, left) /\ (left > 0 => Scans(1, {}, <<>>, now, cs, es))
    <2>1. Initial \in States
      BY DEF SearchAssumption
    <2> QED
      BY <1>3, <1>4, <1>5, <1>6, <1>7, <2>1, SearchBegins
  <1>10. Keeps(partCalls, entries, list, stack, states, memo, openCalls)'
    BY <1>8, <1>9, Zenon
  <1>11. openCalls' > 0 => Scans(entry', memo', stack', states', partCalls', entries')
    BY <1>8, <1>9, Zenon
  <1>12. HasLimits /\ HasLimits'
    BY <1>8 DEF SearchInductive, HasLimits
  <1>13. WithinLimits'
    <2>1. spent'.steps = 0 /\ spent'.clockAt = 0
      BY <1>8
    <2>2. limits'.budget \in Nat /\ limits'.memo \in Nat
      BY <1>12 DEF HasLimits
    <2>3. Len(cs) \in Nat
      BY <1>3 DEF ArePart
    <2>4. Cardinality({}) = 0
      BY FS_EmptySet
    <2>5. Cardinality(memo') * Len(partCalls') = 0
      BY <1>8, <2>3, <2>4
    <2> QED
      BY <1>8, <2>1, <2>2, <2>5 DEF WithinLimits
  <1>14. Searches'
    BY <1>8, <1>10, <1>11, <1>13 DEF Searches
  <1>15. /\ partitions' = partitions /\ endings' = endings /\ undecided' = undecided /\ detail' = detail
    BY <1>2 DEF checkVars
  <1>16. KnowsItsPartitions' /\ ReportIsOfTheFirst' /\ PassesAll'
    BY <1>15 DEF SearchInductive, KnowsItsPartitions, ReportIsOfTheFirst, PassesAll
  <1>17. at' \in DOMAIN partitions' /\ partCalls' = partitions'[at']
    BY <1>1, <1>3, <1>8, <1>15 DEF at
  <1>18. partitions' \in Seq(Seq(CallsOfInputs)) /\ \A i \in DOMAIN partitions' : ArePart(partitions'[i])
    BY <1>15 DEF SearchInductive
  <1> QED
    BY <1>8, <1>12, <1>14, <1>16, <1>17, <1>18 DEF SearchInductive

LEMMA CheckBegins ==
  ASSUME SearchAssumption, CheckInit
  PROVE  SearchInductive
  <1>1. PICK input \in Inputs : /\ recorded = input.events
                                /\ partitions = PartitionsOf(CallsOf(input.events))
                                /\ limits = input.limits
    BY DEF CheckInit
  <1>2. endings = <<>> /\ undecided.partition = 0 /\ detail = NoDetail /\ late = FALSE /\ outcome = "idle"
    BY DEF CheckInit
  <1>3. /\ AreEvents(input.events) /\ input.limits.budget \in Nat /\ input.limits.memo \in Nat
        /\ input.limits.timed \in BOOLEAN
    BY DEF SearchAssumption, AreEvents
  <1>4. HasLimits
    BY <1>1, <1>2, <1>3 DEF HasLimits
  <1>5. partitions \in Seq(Seq(CallsOfInputs)) /\ \A i \in DOMAIN partitions : ArePart(partitions[i])
    BY <1>1, <1>3, PartitionsAreParts
  <1>6. Len(endings) = 0 /\ DOMAIN endings = {} /\ endings \in Seq(Ended) /\ Len(partitions) \in Nat
    BY <1>2, <1>5
  <1>7. KnowsItsPartitions
    BY <1>2, <1>6 DEF KnowsItsPartitions
  <1>8. detail.outcome = "none"
    BY <1>2 DEF NoDetail
  <1>9. ReportIsOfTheFirst /\ PassesAll
    BY <1>8 DEF ReportIsOfTheFirst, PassesAll
  <1> QED
    BY <1>2, <1>4, <1>5, <1>7, <1>9 DEF SearchInductive, Ended

\* The endings with the one of the search that ended.
LEMMA OneMoreEnding ==
  ASSUME NEW old \in Seq(Ended), NEW verdict \in Ended, NEW new, new = Append(old, verdict)
  PROVE  /\ new \in Seq(Ended) /\ Len(new) = Len(old) + 1 /\ DOMAIN new = 1 .. Len(old) + 1
         /\ \A i \in DOMAIN old : new[i] = old[i]
         /\ \A i \in DOMAIN new : i \in DOMAIN old \/ i = Len(old) + 1
         /\ new[Len(old) + 1] = verdict /\ DOMAIN old = 1 .. Len(old) /\ Len(old) \in Nat
  <1>1. /\ new \in Seq(Ended) /\ Len(new) = Len(old) + 1 /\ DOMAIN new = 1 .. Len(old) + 1
        /\ new[Len(old) + 1] = verdict /\ DOMAIN old = 1 .. Len(old) /\ Len(old) \in Nat
        /\ \A i \in 1 .. Len(old) : new[i] = old[i]
    OBVIOUS
  <1>2. \A i \in DOMAIN new : i \in DOMAIN old \/ i = Len(old) + 1
    <2>1. PICK len : len = Len(old)
      OBVIOUS
    <2>2. len \in Nat /\ DOMAIN new = 1 .. len + 1 /\ DOMAIN old = 1 .. len
      BY <1>1, <2>1
    <2>3. \A i \in DOMAIN new : i \in DOMAIN old \/ i = len + 1
      BY ONLY <2>2
    <2> QED
      BY ONLY <2>1, <2>3
  <1> QED
    BY <1>1, <1>2

LEMMA CollectGoesOn ==
  ASSUME SearchAssumption, SearchInductive, Collect
  PROVE  SearchInductive'
  <1>1. /\ detail = NoDetail /\ outcome \in Ended /\ endings' = Append(endings, outcome)
        /\ UNCHANGED <<recorded, partitions, partCalls, entries, list, entry, stack, states, memo,
                       openCalls, spent, best, limits, late>>
    BY DEF Collect
  <1>2. outcome \in {"violated", "raised"} =>
          /\ detail' = [outcome |-> outcome, partition |-> at, steps |-> total']
          /\ outcome' = outcome /\ undecided'.partition = undecided.partition
    BY DEF Collect
  <1>3. outcome \notin {"violated", "raised"} =>
          /\ outcome' = "idle" /\ detail' = detail
          /\ undecided'.partition =
               IF outcome \in Undecided /\ undecided.partition = 0 THEN at ELSE undecided.partition
    BY DEF Collect
  <1>4. outcome # "idle"
    BY <1>1 DEF Ended
  <1>5. Searches /\ at \in DOMAIN partitions /\ partCalls = partitions[at] /\ HasLimits
    BY <1>1, <1>4 DEF SearchInductive
  <1>6. /\ outcome = "passed" => IsLinearizable(partitions[at])
        /\ outcome = "violated" => ~ IsLinearizable(partitions[at])
    BY <1>5 DEF Searches
  <1>7. /\ endings \in Seq(Ended)
        /\ \A i \in DOMAIN endings : /\ endings[i] = "passed" => IsLinearizable(partitions[i])
                                     /\ endings[i] = "violated" => ~ IsLinearizable(partitions[i])
        /\ undecided.partition = 0 \/ (undecided.partition \in DOMAIN endings /\ endings[undecided.partition] \in Undecided)
        /\ \A i \in DOMAIN endings :
             /\ endings[i] \in {"passed"} \cup Undecided
             /\ undecided.partition = 0 \/ i < undecided.partition => endings[i] \notin Undecided
    BY <1>1 DEF SearchInductive, KnowsItsPartitions
  <1>8. /\ endings' \in Seq(Ended) /\ Len(endings') = at /\ DOMAIN endings' = 1 .. at
        /\ \A i \in DOMAIN endings : endings'[i] = endings[i]
        /\ \A i \in DOMAIN endings' : i \in DOMAIN endings \/ i = at
        /\ endings'[at] = outcome /\ DOMAIN endings = 1 .. Len(endings) /\ Len(endings) \in Nat
    BY <1>1, <1>7, OneMoreEnding DEF at
  <1>9. at \in Nat /\ at > 0 /\ DOMAIN partitions = 1 .. Len(partitions) /\ Len(partitions) \in Nat
        /\ at <= Len(partitions) /\ \A i \in DOMAIN endings : i < at /\ i \in Nat /\ i > 0
    <2>1. partitions \in Seq(Seq(CallsOfInputs))
      BY DEF SearchInductive
    <2>2. at \in Nat /\ at > 0 /\ DOMAIN partitions = 1 .. Len(partitions) /\ Len(partitions) \in Nat
      BY <1>8, <2>1 DEF at
    <2>3. at <= Len(partitions)
      BY <1>5, <2>2
    <2>4. \A i \in DOMAIN endings : i < at /\ i \in Nat /\ i > 0
      BY <1>8 DEF at
    <2> QED
      BY <2>2, <2>3, <2>4
  <1>10. \A i \in DOMAIN endings' : /\ endings'[i] = "passed" => IsLinearizable(partitions'[i])
                                    /\ endings'[i] = "violated" => ~ IsLinearizable(partitions'[i])
    <2>1. partitions' = partitions
      BY <1>1
    <2> SUFFICES ASSUME NEW i \in DOMAIN endings'
                 PROVE  /\ endings'[i] = "passed" => IsLinearizable(partitions[i])
                        /\ endings'[i] = "violated" => ~ IsLinearizable(partitions[i])
      BY <2>1
    <2>2. CASE i \in DOMAIN endings
      BY <1>7, <1>8, <2>2
    <2>3. CASE i = at
      BY <1>6, <1>8, <2>3
    <2> QED
      BY <1>8, <2>2, <2>3
  <1>11. HasLimits'
    BY <1>1, <1>5 DEF HasLimits
  <1>12. partitions' \in Seq(Seq(CallsOfInputs)) /\ \A i \in DOMAIN partitions' : ArePart(partitions'[i])
    BY <1>1 DEF SearchInductive
  <1>13. CASE outcome \in {"violated", "raised"}
    <2>1. detail' = [outcome |-> outcome, partition |-> at, steps |-> total'] /\ outcome' = outcome
      BY <1>2, <1>13
    <2>2. detail'.outcome = outcome /\ detail'.partition = at
      BY <2>1
    <2>3. detail' # NoDetail
      BY <1>13, <2>2 DEF NoDetail
    <2>4. KnowsItsPartitions'
      BY <1>8, <1>10, <2>3 DEF KnowsItsPartitions
    <2>5. ReportIsOfTheFirst'
      <3>1. partitions' = partitions /\ detail'.outcome # "undecided"
        BY <1>1, <1>13, <2>2
      <3>2. ASSUME outcome = "violated", NEW i \in DOMAIN partitions
            PROVE  \/ i >= at
                   \/ IsLinearizable(partitions[i])
                   \/ i \in DOMAIN endings' /\ endings'[i] \in Undecided
        <4>1. CASE i \in DOMAIN endings
          <5>1. i \in DOMAIN endings' /\ endings'[i] = endings[i]
            BY <1>8, <1>9, <4>1
          <5>2. endings[i] = "passed" \/ endings[i] \in Undecided
            BY <1>7, <4>1
          <5>3. endings[i] = "passed" => IsLinearizable(partitions[i])
            BY <1>7, <4>1
          <5> QED
            BY <5>1, <5>2, <5>3
        <4>2. CASE i \notin DOMAIN endings
          <5>1. i \in 1 .. Len(partitions) /\ at = Len(endings) + 1 /\ i \notin 1 .. Len(endings)
            BY <1>8, <1>9, <4>2 DEF at
          <5>2. PICK len : len = Len(endings)
            OBVIOUS
          <5>3. i >= len + 1
            BY <1>8, <1>9, <5>1, <5>2
          <5> QED
            BY <5>1, <5>2, <5>3
        <4> QED
          BY <4>1, <4>2
      <3> QED
        BY <1>6, <2>2, <3>1, <3>2 DEF ReportIsOfTheFirst
    <2>6. PassesAll'
      BY <1>13, <2>2 DEF PassesAll
    <2>7. Searches'
      <3>1. WithinLimits'
        BY <1>1, <1>5, <2>1 DEF Searches, WithinLimits, HasRoom
      <3>2. UNCHANGED <<partCalls, entries, list, stack, states, memo, openCalls>> /\ outcome' # "searching"
        BY <1>1, <1>13, <2>1
      <3>3. (outcome' = "passed" => IsLinearizable(partCalls)) /\ (outcome' = "violated" => ~ IsLinearizable(partCalls))
        BY <1>5, <1>6, <2>1
      <3> QED
        BY <1>5, <3>1, <3>2, <3>3, SameStackIsKept
    <2> QED
      BY <1>1, <1>11, <1>12, <2>1, <2>3, <2>4, <2>5, <2>6, <2>7 DEF SearchInductive
  <1>14. CASE outcome \notin {"violated", "raised"}
    <2>1. /\ outcome' = "idle" /\ detail' = detail
          /\ undecided'.partition =
               IF outcome \in Undecided /\ undecided.partition = 0 THEN at ELSE undecided.partition
      BY <1>3, <1>14
    <2>2. outcome = "passed" \/ outcome \in Undecided
      BY <1>1, <1>14 DEF Ended, Undecided
    <2>3. "passed" \notin Undecided
      BY DEF Undecided
    <2>4. undecided'.partition = 0 \/ (undecided'.partition \in DOMAIN endings' /\ endings'[undecided'.partition] \in Undecided)
      <3>1. CASE outcome \in Undecided /\ undecided.partition = 0
        <4>1. undecided'.partition = at /\ at \in DOMAIN endings'
          BY <1>8, <1>9, <2>1, <3>1
        <4> QED
          BY <1>8, <3>1, <4>1
      <3>2. CASE ~ (outcome \in Undecided /\ undecided.partition = 0)
        <4>1. undecided'.partition = undecided.partition
          BY <2>1, <3>2
        <4>2. ASSUME undecided.partition # 0 PROVE undecided.partition \in DOMAIN endings' /\ endings'[undecided.partition] \in Undecided
          <5>1. undecided.partition \in DOMAIN endings /\ endings[undecided.partition] \in Undecided
            BY <1>7, <4>2
          <5> QED
            BY <1>8, <1>9, <5>1
        <4> QED
          BY <4>1, <4>2
      <3> QED
        BY <3>1, <3>2
    <2>5. ASSUME NEW i \in DOMAIN endings'
          PROVE  /\ endings'[i] \in {"passed"} \cup Undecided
                 /\ undecided'.partition = 0 \/ i < undecided'.partition => endings'[i] \notin Undecided
      <3>1. CASE i \in DOMAIN endings
        <4>1. endings'[i] = endings[i] /\ endings[i] \in {"passed"} \cup Undecided
              /\ (undecided.partition = 0 \/ i < undecided.partition => endings[i] \notin Undecided)
          BY <1>7, <1>8, <3>1
        <4>2. undecided'.partition = undecided.partition \/ undecided.partition = 0
          BY <2>1
        <4>3. undecided'.partition = 0 => undecided.partition = 0
          BY <1>9, <2>1
        <4> QED
          BY <4>1, <4>2, <4>3
      <3>2. CASE i = at
        <4>1. endings'[i] = outcome
          BY <1>8, <3>2
        <4>2. ASSUME outcome \in Undecided, undecided'.partition = 0 \/ at < undecided'.partition PROVE FALSE
          <5>1. CASE undecided.partition = 0
            <6>1. undecided'.partition = at
              BY <2>1, <4>2, <5>1
            <6> QED
              BY <1>9, <4>2, <6>1
          <5>2. CASE undecided.partition # 0
            <6>1. undecided'.partition = undecided.partition /\ undecided.partition \in DOMAIN endings
              BY <1>7, <2>1, <5>2
            <6>2. undecided.partition < at /\ undecided.partition \in Nat /\ at \in Nat
              BY <1>9, <6>1
            <6> QED
              BY <4>2, <5>2, <6>1, <6>2
          <5> QED
            BY <5>1, <5>2
        <4> QED
          BY <2>2, <3>2, <4>1, <4>2
      <3> QED
        BY <1>8, <3>1, <3>2
    <2>6. KnowsItsPartitions'
      <3>1. Len(endings') <= Len(partitions')
        BY <1>1, <1>8, <1>9
      <3> QED
        BY <1>8, <1>10, <2>4, <2>5, <3>1 DEF KnowsItsPartitions
    <2>7. ReportIsOfTheFirst' /\ PassesAll'
      <3>1. detail'.outcome = "none"
        BY <1>1, <2>1 DEF NoDetail
      <3> QED
        BY <3>1 DEF ReportIsOfTheFirst, PassesAll
    <2> QED
      BY <1>11, <1>12, <2>1, <2>6, <2>7 DEF SearchInductive
  <1> QED
    BY <1>13, <1>14

LEMMA ConcludeGoesOn ==
  ASSUME SearchAssumption, SearchInductive, ConcludeCheck
  PROVE  SearchInductive'
  <1>1. /\ detail = NoDetail /\ outcome = "idle" /\ at > Len(partitions)
        /\ detail' = [outcome |-> IF undecided.partition = 0 THEN "passed" ELSE "undecided",
                      partition |-> undecided.partition,
                      steps |-> IF undecided.partition = 0 THEN total ELSE undecided.steps]
        /\ UNCHANGED <<recorded, partitions, endings, total, undecided>>
        /\ UNCHANGED <<partCalls, entries, list, entry, stack, states, memo, openCalls, spent, best, limits, late, outcome>>
    BY DEF ConcludeCheck, searchVars
  <1>2. detail'.partition = undecided.partition /\ detail'.outcome = (IF undecided.partition = 0 THEN "passed" ELSE "undecided")
    BY <1>1
  <1>3. detail' # NoDetail
    BY <1>2 DEF NoDetail
  <1>4. /\ endings \in Seq(Ended)
        /\ \A i \in DOMAIN endings : endings[i] = "passed" => IsLinearizable(partitions[i])
        /\ undecided.partition = 0 \/ (undecided.partition \in DOMAIN endings /\ endings[undecided.partition] \in Undecided)
        /\ \A i \in DOMAIN endings :
             /\ endings[i] \in {"passed"} \cup Undecided
             /\ undecided.partition = 0 \/ i < undecided.partition => endings[i] \notin Undecided
        /\ Len(endings) <= Len(partitions)
    BY <1>1 DEF SearchInductive, KnowsItsPartitions
  <1>5. DOMAIN endings = DOMAIN partitions /\ DOMAIN endings = 1 .. Len(endings) /\ Len(endings) \in Nat
    <2>1. partitions \in Seq(Seq(CallsOfInputs))
      BY DEF SearchInductive
    <2>2. /\ Len(endings) \in Nat /\ Len(partitions) \in Nat
          /\ DOMAIN endings = 1 .. Len(endings) /\ DOMAIN partitions = 1 .. Len(partitions)
      BY <1>4, <2>1
    <2>3. Len(endings) = Len(partitions)
      <3>1. at > Len(partitions) /\ Len(endings) <= Len(partitions) /\ at = Len(endings) + 1
        BY <1>1, <1>4 DEF at
      <3> QED
        <4>1. PICK a : a = Len(endings)
          OBVIOUS
        <4>2. PICK b : b = Len(partitions)
          OBVIOUS
        <4>3. a \in Nat /\ b \in Nat /\ a <= b /\ a + 1 > b
          BY <2>2, <3>1, <4>1, <4>2
        <4>4. a = b
          BY ONLY <4>3
        <4> QED
          BY ONLY <4>1, <4>2, <4>4
    <2> QED
      BY <2>2, <2>3
  <1>6. HasLimits' /\ KnowsItsPartitions'
    BY <1>1, <1>3 DEF SearchInductive, HasLimits, KnowsItsPartitions
  <1>7. PassesAll'
    <2> SUFFICES ASSUME undecided.partition = 0, NEW i \in DOMAIN partitions PROVE IsLinearizable(partitions[i])
      BY <1>1, <1>2 DEF PassesAll
    <2> QED
      BY <1>4, <1>5
  <1>8. ReportIsOfTheFirst'
    <2>1. detail'.outcome # "violated"
      BY <1>2
    <2>2. ASSUME NEW i \in DOMAIN partitions
          PROVE  IsLinearizable(partitions[i]) \/ (i \in DOMAIN endings /\ endings[i] \in Undecided)
      BY <1>4, <1>5, <2>2
    <2>3. ASSUME undecided.partition # 0
          PROVE  /\ endings[undecided.partition] \in Undecided
                 /\ \A i \in 1 .. undecided.partition - 1 : endings[i] \notin Undecided
      <3>1. undecided.partition \in DOMAIN endings /\ endings[undecided.partition] \in Undecided
        BY <1>4, <2>3
      <3>2. \A i \in 1 .. undecided.partition - 1 : i \in DOMAIN endings /\ i < undecided.partition
        <4>1. PICK len : len = Len(endings)
          OBVIOUS
        <4>2. undecided.partition \in 1 .. len /\ len \in Nat /\ DOMAIN endings = 1 .. len
          BY <1>5, <3>1, <4>1
        <4> QED
          BY ONLY <4>2
      <3> QED
        BY <1>4, <3>1, <3>2
    <2> QED
      BY <1>1, <1>2, <2>1, <2>2, <2>3 DEF ReportIsOfTheFirst
  <1>9. partitions' \in Seq(Seq(CallsOfInputs)) /\ \A i \in DOMAIN partitions' : ArePart(partitions'[i])
    BY <1>1 DEF SearchInductive
  <1> QED
    BY <1>1, <1>3, <1>6, <1>7, <1>8, <1>9 DEF SearchInductive

\* The lists, the memo and the verdicts of a check are right after every step, for any
\* histories, specs and limits.
THEOREM SearchInvariantHolds ==
  ASSUME SearchAssumption
  PROVE  CheckSpec => []SearchInductive
  <1>1. CheckInit => SearchInductive
    BY CheckBegins
  <1>2. SearchInductive /\ [CheckNext]_linearVars => SearchInductive'
    <2> SUFFICES ASSUME SearchInductive, [CheckNext]_linearVars PROVE SearchInductive'
      OBVIOUS
    <2>1. CASE StartSearch
      BY <2>1, StartGoesOn
    <2>2. CASE Collect
      BY <2>2, CollectGoesOn
    <2>3. CASE ConcludeCheck
      BY <2>3, ConcludeGoesOn
    <2>4. CASE Reject /\ UNCHANGED checkVars
      BY <2>4, RejectGoesOn
    <2>5. CASE Revisit /\ UNCHANGED checkVars
      BY <2>5, RevisitGoesOn
    <2>6. CASE Linearize /\ UNCHANGED checkVars
      BY <2>6, LinearizeGoesOn
    <2>7. CASE Stop /\ UNCHANGED checkVars
      BY <2>7, StopGoesOn
    <2>8. CASE Backtrack /\ UNCHANGED checkVars
      BY <2>8, BacktrackGoesOn
    <2>9. CASE Violate /\ UNCHANGED checkVars
      BY <2>9, ViolateGoesOn
    <2>10. CASE PassSearch /\ UNCHANGED checkVars
      BY <2>10, PassGoesOn
    <2>11. CASE UNCHANGED linearVars
      <3>1. /\ recorded' = recorded /\ partitions' = partitions /\ endings' = endings /\ total' = total
            /\ undecided' = undecided /\ detail' = detail
        BY <2>11 DEF linearVars, checkVars
      <3>2. /\ partCalls' = partCalls /\ entries' = entries /\ list' = list /\ entry' = entry /\ stack' = stack
            /\ states' = states /\ memo' = memo /\ openCalls' = openCalls /\ spent' = spent /\ limits' = limits
            /\ late' = late /\ outcome' = outcome
        BY <2>11 DEF linearVars, searchVars
      <3>3. HasLimits' /\ KnowsItsPartitions' /\ ReportIsOfTheFirst' /\ PassesAll'
        BY <3>1, <3>2 DEF SearchInductive, HasLimits, KnowsItsPartitions, ReportIsOfTheFirst, PassesAll
      <3>4. outcome' # "idle" => Searches'
        <4>1. WithinLimits => WithinLimits'
          BY <3>2 DEF WithinLimits, HasRoom
        <4> QED
          BY <3>2, <4>1 DEF SearchInductive, Searches
      <3> QED
        BY <3>1, <3>2, <3>3, <3>4 DEF SearchInductive, at
    <2> QED
      BY <2>1, <2>2, <2>3, <2>4, <2>5, <2>6, <2>7, <2>8, <2>9, <2>10, <2>11 DEF CheckNext
  <1> QED
    BY <1>1, <1>2, PTL DEF CheckSpec

IsLinkedTo(l, e, f) == l.next[e] = f /\ l.prev[f] = e

\* What is next behind an entry that nothing held is between.
LEMMA NeighboursAreLinked ==
  ASSUME NEW m \in Nat, NEW H \in SUBSET (1 .. m), NEW l, Linked(l, H, m),
         NEW e \in H \cup {0}, NEW f \in H \cup {m + 1}, e < f, \A g \in H : g <= e \/ g >= f
  PROVE  IsLinkedTo(l, e, f)
  <1>1. \A g \in H : g \in Nat /\ g > 0 /\ g <= m
    OBVIOUS
  <1>2. e \in Nat /\ f \in Nat
    BY <1>1
  <1>3. PICK q : q = l.next[e]
    OBVIOUS
  <1>4. q \in H \cup {m + 1} /\ e < q /\ \A h \in H : e < h => q <= h
    BY <1>3 DEF Linked, Follows
  <1>5. q = f
    <2>1. q \in Nat
      BY <1>1, <1>4
    <2>2. ASSUME q < f PROVE FALSE
      <3>1. q \in H
        BY <1>1, <1>2, <1>4, <2>2
      <3> QED
        BY <1>2, <1>4, <2>1, <2>2, <3>1
    <2>3. ASSUME f < q PROVE FALSE
      <3>1. f \in H
        BY <1>1, <1>2, <1>4, <2>3
      <3> QED
        BY <1>2, <1>4, <2>1, <2>3, <3>1
    <2> QED
      BY <1>2, <2>1, <2>2, <2>3
  <1>6. PICK p : p = l.prev[f]
    OBVIOUS
  <1>7. p \in {0} \cup H /\ p < f /\ \A h \in H : h < f => h <= p
    BY <1>6 DEF Linked, Leads
  <1>8. p = e
    <2>1. p \in Nat
      BY <1>1, <1>7
    <2>2. ASSUME p < e PROVE FALSE
      <3>1. e \in H
        BY <1>1, <1>2, <1>7, <2>1, <2>2
      <3> QED
        BY <1>2, <1>7, <2>1, <2>2, <3>1
    <2>3. ASSUME e < p PROVE FALSE
      <3>1. p \in H
        BY <1>1, <1>2, <1>7, <2>3
      <3> QED
        BY <1>2, <1>7, <2>1, <2>3, <3>1
    <2> QED
      BY <1>2, <2>1, <2>2, <2>3
  <1> QED
    BY <1>3, <1>5, <1>6, <1>8 DEF IsLinkedTo

\* After any chain of accepted and undone calls the list, the count of open calls, the stack
\* and the states of a search agree, and no limit is passed or taken early (search.py).
THEOREM SearchStaysInStep ==
  ASSUME SearchAssumption
  PROVE  CheckSpec => []SearchIsInStep
  <1>1. ASSUME SearchInductive, Laid PROVE ListHoldsTheOpenEntries /\ StackIsALinearization
    <2>1. Searches /\ outcome # "idle"
      BY <1>1 DEF SearchInductive, Laid
    <2>2. PICK D : D = Below(stack, Len(stack) + 1)
      OBVIOUS
    <2>3. Facts(D)
      BY <2>1, <2>2, SearchKnows
    <2>4. ListHoldsTheOpenEntries
      <3>1. PICK H : H = HeldIn(entries, D)
        OBVIOUS
      <3>2. PICK m : m = Len(entries)
        OBVIOUS
      <3>3. H \in SUBSET (1 .. m) /\ m \in Nat /\ Linked(list, H, m)
        BY <2>3, <3>1, <3>2, EntryFacts DEF Facts
      <3>4. H = {e \in DOMAIN entries : entries[e].position \notin Done} /\ openCalls = Cardinality(Known(partCalls) \ Done)
        BY <2>3, <3>1 DEF Facts, HeldIn
      <3>5. outcome = "searching" /\ openCalls > 0 => entry \in H
        BY <2>2, <2>3, <3>1 DEF Facts, Scans
      <3>6. \A e \in H \cup {0}, f \in H \cup {m + 1} :
              e < f /\ (\A g \in H : g <= e \/ g >= f) => list.next[e] = f /\ list.prev[f] = e
        <4> SUFFICES ASSUME NEW e \in H \cup {0}, NEW f \in H \cup {m + 1}, e < f,
                            \A g \in H : g <= e \/ g >= f
                     PROVE  list.next[e] = f /\ list.prev[f] = e
          OBVIOUS
        <4>1. PICK l : l = list
          OBVIOUS
        <4>2. Linked(l, H, m) /\ m \in Nat /\ H \in SUBSET (1 .. m)
          BY <3>3, <4>1
        <4>3. IsLinkedTo(l, e, f)
          BY <4>2, NeighboursAreLinked
        <4> QED
          BY <4>1, <4>3 DEF IsLinkedTo
      <3> QED
        BY <3>2, <3>4, <3>5, <3>6 DEF ListHoldsTheOpenEntries
    <2>5. StackIsALinearization
      <3>1. IsStack(stack, states, partCalls) /\ ArePart(partCalls)
        BY <2>3 DEF Facts, Keeps
      <3>2. PICK R : R = Frames(partCalls)
        OBVIOUS
      <3>3. PICK N : N = Len(stack)
        OBVIOUS
      <3>4. N \in Nat /\ DOMAIN stack = 1 .. N /\ (\A k \in 1 .. N : stack[k] \in R)
        <4>1. stack \in Seq(R)
          BY <3>1, <3>2 DEF IsStack, Frames
        <4> QED
          BY <3>3, <4>1
      <3>5. \A k \in 1 .. N : stack[k].position \in DOMAIN partCalls
        BY <3>2, <3>4 DEF Frames
      <3>6. PICK order : order = [k \in DOMAIN stack |-> stack[k].position]
        OBVIOUS
      <3>7. PICK sets : sets = [k \in DOMAIN stack |-> ToSet(stack[k].states)]
        OBVIOUS
      <3>8. order \in Seq(DOMAIN partCalls) /\ Len(order) = N /\ DOMAIN order = 1 .. N
            /\ \A k \in 1 .. N : order[k] = stack[k].position
        BY <3>4, <3>5, <3>6
      <3>9. PICK before : before = sets \o <<ToSet(states)>>
        OBVIOUS
      <3>10. \A k \in 1 .. N + 1 : before[k] = StatesAt(stack, states, k)
        <4>1. PICK T : T = {ToSet(stack[k].states) : k \in 1 .. N} \cup {ToSet(states)}
          OBVIOUS
        <4>2. PICK last : last = <<ToSet(states)>>
          OBVIOUS
        <4>3. sets \in Seq(T) /\ Len(sets) = N /\ last \in Seq(T) /\ Len(last) = 1 /\ last[1] = ToSet(states)
              /\ \A k \in 1 .. N : sets[k] = ToSet(stack[k].states)
          BY <3>4, <3>7, <4>1, <4>2
        <4>4. \A k \in 1 .. N + 1 : before[k] = IF k <= N THEN sets[k] ELSE last[k - N]
          BY <3>4, <3>9, <4>2, <4>3
        <4> SUFFICES ASSUME NEW k \in 1 .. N + 1 PROVE before[k] = StatesAt(stack, states, k)
          OBVIOUS
        <4>5. CASE k \in 1 .. N
          <5>1. k <= N /\ k \in DOMAIN stack
            BY <3>4, <4>5
          <5> QED
            BY <4>3, <4>4, <4>5, <5>1 DEF StatesAt
        <4>6. CASE k = N + 1
          <5>1. ~ (k <= N) /\ k - N = 1 /\ k \notin DOMAIN stack
            BY <3>4, <4>6
          <5> QED
            BY <4>3, <4>4, <5>1 DEF StatesAt
        <4>7. k \in 1 .. N \/ k = N + 1
          BY ONLY <3>4, k \in 1 .. N + 1
        <4> QED
          BY <4>5, <4>6, <4>7
      <3>11. before[1] = {Initial}
        <4>1. 1 \in 1 .. N + 1
          BY <3>4
        <4> QED
          BY <3>1, <3>10, <4>1 DEF IsStack
      <3>12. \A k \in 0 .. N : ToSet(SubSeq(order, 1, k)) = FirstOf(order, k)
        BY <3>8, FirstOfOrders
      <3>13. ASSUME NEW k \in DOMAIN order
             PROVE  /\ Minimal(partCalls, ToSet(SubSeq(order, 1, k - 1)), order[k])
                    /\ before[k + 1] = Leaves(before[k], partCalls[order[k]])
        <4>1. k \in 1 .. N /\ k \in DOMAIN stack /\ k - 1 \in 0 .. N /\ k \in 1 .. N + 1 /\ k + 1 \in 1 .. N + 1
          BY <3>4, <3>8
        <4>2. /\ Minimal(partCalls, Below(stack, k), stack[k].position)
              /\ StatesAt(stack, states, k + 1) = Leaves(StatesAt(stack, states, k), partCalls[stack[k].position])
          BY <3>1, <4>1 DEF IsStack
        <4>3. Below(stack, k) = FirstOf(order, k - 1)
          <5>1. {j \in DOMAIN stack : j < k} = 1 .. k - 1 /\ 1 .. k - 1 \subseteq 1 .. N
            BY <3>4, <4>1
          <5> QED
            BY <3>8, <5>1 DEF Below, FirstOf
        <4>4. ToSet(SubSeq(order, 1, k - 1)) = Below(stack, k)
          BY <3>12, <4>1, <4>3
        <4>5. before[k] = StatesAt(stack, states, k) /\ before[k + 1] = StatesAt(stack, states, k + 1)
          BY <3>10, <4>1
        <4>6. order[k] = stack[k].position
          BY <3>8, <4>1
        <4> QED
          BY <4>2, <4>4, <4>5, <4>6, Zenon
      <3> QED
        BY <3>6, <3>7, <3>9, <3>11, <3>13, Zenon DEF StackIsALinearization
    <2> QED
      BY <2>4, <2>5
  <1>2. SearchInductive => ListHoldsTheOpenEntries /\ StackIsALinearization
    BY <1>1 DEF ListHoldsTheOpenEntries, StackIsALinearization
  <1>3. SearchInductive => LimitsAreExact
    <2> SUFFICES ASSUME SearchInductive PROVE LimitsAreExact
      OBVIOUS
    <2>1. outcome # "idle" => WithinLimits
      BY DEF SearchInductive, Searches
    <2>2. late => limits.timed
      BY DEF SearchInductive, HasLimits
    <2> QED
      BY <2>1, <2>2 DEF LimitsAreExact, WithinLimits, Laid
  <1>4. SearchInductive => SearchIsInStep
    BY <1>2, <1>3 DEF SearchIsInStep
  <1> QED
    BY <1>4, SearchInvariantHolds, PTL

\* What the search of a partition comes to.
SearchesAreRight ==
  /\ outcome = "passed" => IsLinearizable(partCalls)
  /\ outcome = "violated" => ~ IsLinearizable(partCalls)

\* A search passes only a partition that has a linearization and it finds a violation only in
\* one that has none: the memo cuts no order off that another one does not stand for
\* (search.py).
THEOREM SearchIsSoundAndComplete ==
  ASSUME SearchAssumption
  PROVE  CheckSpec => []SearchesAreRight
  <1>1. SearchInductive => SearchesAreRight
    BY DEF SearchInductive, Searches, SearchesAreRight
  <1> QED
    BY <1>1, SearchInvariantHolds, PTL

\* A check that passes found a linearization of every partition; one that does not reports
\* its first violated partition, else its first undecided one (linearizable.py).
THEOREM CheckReportsTheFirst ==
  ASSUME SearchAssumption
  PROVE  CheckSpec => [](ReportIsOfTheFirst /\ PassesAll)
  <1>1. SearchInductive => ReportIsOfTheFirst /\ PassesAll
    BY DEF SearchInductive
  <1> QED
    BY <1>1, SearchInvariantHolds, PTL
=============================================================================
