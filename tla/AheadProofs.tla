---------------------------- MODULE AheadProofs ----------------------------
(***************************************************************************)
(* Proofs about Ahead, for any number of workers, edge cases and checks.   *)
(***************************************************************************)
EXTENDS Ahead, Functions, FiniteSetTheorems, TLAPS

(***************************************************************************)
(* The arithmetic of the positions: random cases and edge cases never      *)
(* share a position, and a worker makes the case that the runner meant.    *)
(***************************************************************************)
LEMMA PositionTypes ==
  /\ \A i \in Nat : RandomPosition(i) \in Nat
  /\ \A n \in Nat : EdgePosition(n) \in Nat
  /\ \A p \in Nat : CaseAt(p) \in Case
  BY BoundariesAssumption
     DEF RandomPosition, EdgePosition, Smaller, CaseAt, IsEdgePosition, RandomAt, Larger,
         Case, EdgeCase, RandomCase

LEMMA RandomPositionsDiffer ==
  ASSUME NEW i \in Nat, NEW j \in Nat, RandomPosition(i) = RandomPosition(j)
  PROVE  i = j
  BY BoundariesAssumption DEF RandomPosition, Smaller

LEMMA RandomAndEdgePositionsDiffer ==
  ASSUME NEW i \in Nat, NEW n \in 0 .. Boundaries - 1
  PROVE  RandomPosition(i) # EdgePosition(n)
  BY BoundariesAssumption DEF RandomPosition, EdgePosition, Smaller

\* The case that a worker makes for the position of random case i is random
\* case i (_random_at undoes _random_position).
THEOREM RandomCaseIsAtItsPosition ==
  ASSUME NEW i \in Nat
  PROVE  CaseAt(RandomPosition(i)) = RandomCase(i)
  BY BoundariesAssumption
     DEF RandomPosition, Smaller, CaseAt, IsEdgePosition, RandomAt, Larger

\* The case that a worker makes for the position of an edge case is that edge
\* case.
THEOREM EdgeCaseIsAtItsPosition ==
  ASSUME NEW n \in 0 .. Boundaries - 1
  PROVE  CaseAt(EdgePosition(n)) = EdgeCase(n)
  BY BoundariesAssumption DEF EdgePosition, CaseAt, IsEdgePosition

-----------------------------------------------------------------------------
LEMMA WorkersCount == Cardinality(Workers) \in Nat
  BY FS_CardinalityType, WorkersAssumption

LEMMA FlightTypes ==
  /\ \A p \in Nat : AheadFlight(p) \in Flight /\ AheadFlight(p) # NoFlight
  /\ \A c \in Case : ReplayFlight(c) \in Flight /\ ReplayFlight(c) # NoFlight
  /\ NoFlight \notin Flight
  /\ \A f \in Flight : CaseOf(f) \in Case
  /\ \A f \in Flight : f.order = "ahead" => f.position \in Nat /\ f = AheadFlight(f.position)
  BY PositionTypes DEF AheadFlight, ReplayFlight, NoFlight, Flight, AheadFlights, CaseOf

-----------------------------------------------------------------------------
(***************************************************************************)
(* The inductive invariant, one lemma for each action.                     *)
(***************************************************************************)
LEMMA InitInductive == Init => Inductive
  <1> SUFFICES ASSUME Init PROVE Inductive
    OBVIOUS
  <1>1. TypeOK
    BY LimitsAssumption, BoundariesAssumption DEF Init, TypeOK
  <1>2. FliesWhileFlying /\ AwaitsItsCase /\ QueueOfOne /\ RunsOnce /\ CallIsServed
        /\ CloseReachesEveryFlight
    BY DEF Init, FliesWhileFlying, AwaitsItsCase, QueueOfOne, RunsOnce, CallIsServed,
           CloseReachesEveryFlight, Idle, Closed
  <1>3. ReplaysWereCalled /\ ClaimedBelowNext
    BY DEF Init, ReplaysWereCalled, ClaimedBelowNext, Known, Started, NoFlight
  <1>4. CancelledAtClose /\ NoLostWakeup
    BY WorkersAssumption DEF Init, CancelledAtClose, NoLostWakeup, Idle, Live, Closed, Asleep
  <1> QED
    BY <1>1, <1>2, <1>3, <1>4 DEF Inductive

LEMMA CallReplayPreserves ==
  ASSUME Inductive, CallSimplest \/ CallPrefix
  PROVE  Inductive'
  <1>1. PICK c \in Case : /\ Idle /\ CallReplay(ReplayFlight(c))
                          /\ \/ stage = "simplest" /\ c = SimplestCase
                             \/ stage = "prefix" /\ c = PrefixCase(index - 1) /\ index > 0
    BY DEF CallSimplest, CallPrefix, SimplestCase, PrefixCase, Case, Inductive, TypeOK,
           AwaitsItsCase
  <1> DEFINE f == ReplayFlight(c)
  <1>2. f \in Flight /\ f # NoFlight /\ f.order = "replay" /\ f.case = c
    BY FlightTypes DEF ReplayFlight
  <1>3. Live /\ ~Closed /\ replays = <<>>
    BY <1>1, FlightTypes DEF Live, Closed, Inductive, QueueOfOne, TypeOK, Idle, NoFlight
  <1>4. f \notin Started
    BY <1>1, <1>2 DEF Inductive, ReplaysWereCalled, Called, Known, PrefixCase, SimplestCase,
                      TypeOK
  <1>5. /\ replays' = <<f>> /\ awaited' = f /\ NotifyOne
        /\ UNCHANGED <<stage, check, index, edges, entered, table, next, taken, flying,
                       done, cancelled, cut>>
    BY <1>1, <1>3 DEF CallReplay, phases, ending
  <1>6. /\ worker' \in [Workers -> {"ready", "flying", "asleep", "ended"}]
        /\ \A w \in Workers : worker'[w] = "flying" <=> worker[w] = "flying"
        /\ Asleep' \subseteq Asleep
        /\ Asleep' # Workers
    BY <1>5, WorkersAssumption DEF NotifyOne, Asleep, Inductive, TypeOK
  <1>7. TypeOK'
    BY <1>2, <1>5, <1>6 DEF Inductive, TypeOK
  <1>8. FliesWhileFlying' /\ RunsOnce' /\ CloseReachesEveryFlight'
    BY <1>5, <1>6 DEF Inductive, FliesWhileFlying, RunsOnce, CloseReachesEveryFlight, Closed
  <1>9. AwaitsItsCase'
    BY <1>1, <1>5 DEF Inductive, AwaitsItsCase
  <1>10. QueueOfOne'
    BY <1>2, <1>4, <1>5 DEF QueueOfOne, Started, Flies
  <1>11. ReplaysWereCalled'
    <2>1. Known' = Started \cup {f} /\ Started' = Started /\ ~Idle'
      BY <1>2, <1>5 DEF Known, Started, Idle
    <2>2. Called(c)'
      BY <1>1, <1>5, <2>1 DEF Called, PrefixCase, SimplestCase, Inductive, TypeOK
    <2>3. \A d \in Case : Called(d) => Called(d)'
      BY <1>5, <2>1 DEF Called
    <2>4. \A g \in Started : g.order = "replay" => g.case \in Case
      BY DEF Started, Inductive, TypeOK, Flight, AheadFlights, NoFlight
    <2> QED
      BY <2>1, <2>2, <2>3, <2>4, <1>2 DEF Inductive, ReplaysWereCalled, Known
  <1>12. ClaimedBelowNext'
    BY <1>5 DEF Inductive, ClaimedBelowNext, Started, Live, Taken
  <1>13. CancelledAtClose'
    BY <1>3, <1>5 DEF Inductive, CancelledAtClose, Closed, Live
  <1>14. NoLostWakeup'
    BY <1>5, <1>6 DEF Inductive, NoLostWakeup, Closed
  <1>15. CallIsServed'
    BY <1>3, <1>5 DEF Inductive, CallIsServed, CancelledAtClose
  <1> QED
    BY <1>7, <1>8, <1>9, <1>10, <1>11, <1>12, <1>13, <1>14, <1>15 DEF Inductive

\* A position that the runner has yet to take is not one that it took.
LEMMA CalledPositionIsNotTaken ==
  ASSUME TypeOK, NEW p \in Nat,
         p = RandomPosition(index) \/ (edges < Boundaries /\ p = EdgePosition(edges))
  PROVE  ~Taken(p)
  <1>1. index \in Nat /\ edges \in 0 .. Boundaries
    BY DEF TypeOK
  <1>2. CASE p = RandomPosition(index)
    BY <1>1, <1>2, BoundariesAssumption, RandomPositionsDiffer, RandomAndEdgePositionsDiffer
       DEF Taken
  <1>3. CASE edges < Boundaries /\ p = EdgePosition(edges)
    <2>1. \A i \in 0 .. index - 1 : p # RandomPosition(i)
      BY <1>1, <1>3, BoundariesAssumption, RandomAndEdgePositionsDiffer
    <2>2. \A n \in 0 .. edges - 1 : p # EdgePosition(n)
      BY <1>1, <1>3, BoundariesAssumption DEF EdgePosition
    <2> QED
      BY <2>1, <2>2 DEF Taken
  <1> QED
    BY <1>2, <1>3

LEMMA CallTakePreserves ==
  ASSUME Inductive, CallRandom \/ CallEdge
  PROVE  Inductive'
  <1> USE DEF Inductive
  <1> DEFINE p == IF stage = "random" THEN RandomPosition(index) ELSE EdgePosition(edges)
  <1>0. p \in Nat
    <2>1. index \in Nat /\ edges \in Nat
      BY BoundariesAssumption DEF TypeOK
    <2> QED
      BY <2>1, PositionTypes
  <1>1. /\ Idle
        /\ \/ stage = "random" /\ index < Limits[check] /\ p = RandomPosition(index)
           \/ stage \in {"edge", "left"} /\ edges < Boundaries /\ p = EdgePosition(edges)
        /\ table' = table \cup {p}
        /\ IF p \in table THEN UNCHANGED ending
                           ELSE /\ done' = done \ {AheadFlight(p)}
                                /\ cancelled' = cancelled \ {AheadFlight(p)}
                                /\ cut' = cut \ {AheadFlight(p)}
        /\ taken' = Larger(taken, p + 1)
        /\ awaited' = AheadFlight(p)
        /\ NotifyAll
        /\ UNCHANGED <<phases, entered, next, replays, flying>>
    <2>1. CASE CallRandom
      BY <2>1 DEF CallRandom, CallTake, FlightAt
    <2>2. CASE CallEdge
      BY <2>2 DEF CallEdge, CallTake, FlightAt
    <2> QED
      BY <2>1, <2>2
  <1> HIDE DEF p
  <1> DEFINE f == AheadFlight(p)
  <1>2. f \in Flight /\ f # NoFlight /\ f.order = "ahead" /\ f.position = p
    BY <1>0, FlightTypes DEF AheadFlight
  <1>3. Live /\ ~Closed /\ replays = <<>> /\ cancelled = {} /\ cut = {}
    BY <1>1, FlightTypes
       DEF Live, Closed, QueueOfOne, TypeOK, Idle, NoFlight, CancelledAtClose
  <1>4. p < next => f \in Started /\ p \in table
    <2>1. ~Taken(p)
      BY <1>0, <1>1, CalledPositionIsNotTaken
    <2> QED
      BY <1>0, <1>3, <2>1 DEF ClaimedBelowNext, TypeOK
  <1>5. next <= p => f \notin Started
    BY <1>0, <1>2 DEF ClaimedBelowNext, TypeOK
  <1>6. /\ table' = table \cup {p} /\ taken' = Larger(taken, p + 1) /\ awaited' = f
        /\ UNCHANGED <<stage, check, index, edges, entered, next, replays, flying>>
    BY <1>1 DEF phases
  <1>7. done' = done /\ cancelled' = {} /\ cut' = {}
    <2>1. p \notin table => f \notin done
      BY <1>0, <1>4, <1>5 DEF Started, TypeOK
    <2> QED
      BY <1>1, <1>3, <2>1 DEF ending
  <1>8. /\ worker' \in [Workers -> {"ready", "flying", "asleep", "ended"}]
        /\ \A w \in Workers : worker'[w] = "flying" <=> worker[w] = "flying"
        /\ Asleep' = {}
    BY <1>1 DEF NotifyAll, Asleep, TypeOK
  <1>9. taken' \in Nat /\ p < taken'
    BY <1>0, <1>6 DEF Larger, TypeOK
  <1>10. TypeOK'
    BY <1>0, <1>2, <1>6, <1>7, <1>8, <1>9 DEF TypeOK
  <1>11. FliesWhileFlying' /\ RunsOnce' /\ CloseReachesEveryFlight'
    BY <1>3, <1>6, <1>7, <1>8 DEF FliesWhileFlying, RunsOnce, CloseReachesEveryFlight, Closed
  <1>12. AwaitsItsCase'
    BY <1>1, <1>6 DEF AwaitsItsCase
  <1>13. QueueOfOne'
    BY <1>3, <1>6 DEF QueueOfOne
  <1>14. Started' = Started /\ Known' = Known
    BY <1>6, <1>7 DEF Started, Known
  <1>15. ReplaysWereCalled'
    BY <1>1, <1>3, <1>6, <1>14 DEF ReplaysWereCalled, Called, Idle, Known
  <1>16. ClaimedBelowNext'
    <2>1. \A q \in 0 .. next - 1 : q \in table' => AheadFlight(q) \in Started'
      BY <1>0, <1>3, <1>4, <1>6, <1>14 DEF ClaimedBelowNext, TypeOK
    <2>2. \A q \in 0 .. next - 1 : q \notin table' => q \notin table /\ Taken(q)'
      BY <1>3, <1>6 DEF ClaimedBelowNext, Taken
    <2> QED
      BY <2>1, <2>2, <1>6, <1>14 DEF ClaimedBelowNext
  <1>17. CancelledAtClose'
    BY <1>3, <1>6, <1>7 DEF CancelledAtClose, Closed, Live
  <1>18. NoLostWakeup'
    BY <1>3, <1>6, <1>8 DEF NoLostWakeup
  <1>19. CallIsServed'
    <2>1. \/ f \in done'
          \/ \E w \in Workers : flying'[w] = f
          \/ next' <= p /\ p < taken'
      BY <1>0, <1>4, <1>6, <1>7, <1>9 DEF Started, TypeOK
    <2> QED
      BY <2>1, <1>2, <1>6, <1>7 DEF CallIsServed, Flies
  <1> QED
    BY <1>10, <1>11, <1>12, <1>13, <1>15, <1>16, <1>17, <1>18, <1>19

LEMMA AwaitedTypes ==
  ASSUME Inductive, ~Idle
  PROVE  /\ awaited \in Flight /\ Live /\ ~Closed
         /\ awaited \in done => replays = <<>>
  BY FlightTypes
     DEF Inductive, TypeOK, Idle, CancelledAtClose, Live, Closed, QueueOfOne

LEMMA ReturnPreserves ==
  ASSUME Inductive, Return
  PROVE  Inductive'
  <1> USE DEF Inductive
  <1>1. /\ ~Idle /\ awaited \in done /\ awaited' = NoFlight /\ Idle'
        /\ entered' = Append(entered, CaseOf(awaited))
        /\ UNCHANGED <<check, next, taken, replays, worker, flying, done, cancelled, cut>>
    BY DEF Return, ending, Idle
  <1>2. awaited \in Flight /\ Live /\ ~Closed /\ replays = <<>>
    BY <1>1, AwaitedTypes
  <1>3. \/ /\ stage = "simplest" /\ stage' = "random" /\ index' = index /\ edges' = edges
           /\ awaited.order = "replay"
        \/ /\ stage = "prefix" /\ stage' = "edge" /\ index' = index /\ edges' = edges
           /\ awaited.order = "replay"
        \/ /\ stage = "random" /\ stage' \in {"prefix", "edge"}
           /\ index' = index + 1 /\ edges' = edges
           /\ awaited = AheadFlight(RandomPosition(index))
        \/ /\ stage \in {"edge", "left"} /\ stage' \in {"random", "left"}
           /\ index' = index /\ edges' = edges + 1
           /\ edges < Boundaries /\ awaited = AheadFlight(EdgePosition(edges))
    BY <1>1 DEF Return, AwaitsItsCase, ReplayFlight
  <1>4. Live' /\ ~Closed' /\ stage' # "simplest" /\ index' \in Nat
        /\ edges' \in 0 .. Boundaries /\ index <= index' /\ (stage' = "prefix" => index' = index + 1)
    BY <1>3, BoundariesAssumption DEF Live, Closed, TypeOK
  <1>5. table' = TableWithout(awaited) /\ table' \subseteq table
    BY DEF Return, TableWithout
  <1>6. TypeOK'
    <2>1. entered' \in Seq(Case)
      BY <1>1, <1>2, FlightTypes DEF TypeOK
    <2>2. stage' \in {"random", "prefix", "edge", "left"}
      BY <1>3
    <2> QED
      BY <1>1, <1>4, <1>5, <2>1, <2>2 DEF TypeOK
  <1>7. FliesWhileFlying' /\ RunsOnce' /\ CloseReachesEveryFlight' /\ QueueOfOne'
        /\ CallIsServed'
    BY <1>1, <1>2, <1>4
       DEF FliesWhileFlying, RunsOnce, CloseReachesEveryFlight, QueueOfOne, CallIsServed
  <1>8. AwaitsItsCase'
    BY <1>1, <1>4 DEF AwaitsItsCase, TypeOK
  <1>9. Started' = Started /\ Known' = Known
    BY <1>1 DEF Started, Known
  <1>10. ReplaysWereCalled'
    <2>1. \A f \in Known : f.order = "replay" => f.case \in Case
      BY <1>2 DEF Known, Started, TypeOK, Flight, AheadFlights, NoFlight
    <2>2. \A c \in Case : Called(c) => Called(c)'
      BY <1>1, <1>3, <1>4 DEF Called, TypeOK, Case
    <2> QED
      BY <1>9, <2>1, <2>2 DEF ReplaysWereCalled
  <1>11. ClaimedBelowNext'
    <2>1. \A w \in Workers : flying[w].order = "ahead" => flying[w].position \in table'
      <3> SUFFICES ASSUME NEW w \in Workers, flying[w].order = "ahead"
                   PROVE  flying[w].position \in table'
        OBVIOUS
      <3>1. flying[w] # NoFlight /\ flying[w] \in Flight
        BY DEF NoFlight, TypeOK
      <3>2. flying[w] # awaited
        BY <1>1, <3>1 DEF RunsOnce
      <3>3. awaited.order = "ahead" => flying[w].position # awaited.position
        BY <1>2, <3>1, <3>2, FlightTypes
      <3> QED
        BY <1>5, <3>3 DEF ClaimedBelowNext, TableWithout
    <2>2. \A p \in 0 .. next - 1 : p \in table' => AheadFlight(p) \in Started
      BY <1>2, <1>5 DEF ClaimedBelowNext
    <2>3. \A p \in Nat : Taken(p) => Taken(p)'
      BY <1>3 DEF Taken, TypeOK
    <2>4. \A p \in Nat : p \in table /\ p \notin table' => Taken(p)'
      <3> SUFFICES ASSUME NEW p \in Nat, p \in table, p \notin table'
                   PROVE  Taken(p)'
        OBVIOUS
      <3>1. awaited.order = "ahead" /\ awaited.position = p
        BY <1>5 DEF TableWithout
      <3>2. \/ index' = index + 1 /\ p = RandomPosition(index)
            \/ edges' = edges + 1 /\ p = EdgePosition(edges)
        BY <1>3, <3>1 DEF AheadFlight
      <3> QED
        BY <3>2 DEF Taken, TypeOK
    <2>5. \A p \in 0 .. next - 1 : p \notin table' => Taken(p)'
      BY <1>2, <2>3, <2>4 DEF ClaimedBelowNext, TypeOK
    <2> QED
      BY <1>1, <1>9, <2>1, <2>2, <2>5 DEF ClaimedBelowNext
  <1>12. CancelledAtClose'
    BY <1>1, <1>2, <1>4 DEF CancelledAtClose
  <1>13. NoLostWakeup'
    BY <1>1, <1>2, <1>4 DEF NoLostWakeup, Asleep
  <1> QED
    BY <1>6, <1>7, <1>8, <1>10, <1>11, <1>12, <1>13

\* The steps of the runner between two calls, and the wait that an exception
\* unwinds: they change the stage, the check, and nothing that the workers use.
LEMMA StepPreserves ==
  ASSUME Inductive, Step \/ End \/ Raise \/ Interrupt
  PROVE  Inductive'
  <1> USE DEF Inductive
  <1>1. /\ UNCHANGED <<index, edges, entered, next, taken, replays, worker, flying,
                       done, cancelled, cut>>
        /\ table' \in SUBSET table
        /\ check' \in 1 .. Len(Limits)
        /\ awaited' = NoFlight /\ Live /\ ~Closed'
        /\ \/ stage' \in {"random", "left"} /\ Idle /\ table' = table
           \/ stage' = "ended"
    <2>1. CASE Step
      BY <2>1, LimitsAssumption
         DEF Step, NoEdge, Leave, NextCheck, Goto, shared, ending, Live, Closed, Idle, TypeOK
    <2>2. CASE End
      BY <2>2 DEF End, Goto, shared, ending, Live, Closed, Idle, TypeOK
    <2>3. CASE Raise
      BY <2>3, AwaitedTypes DEF Raise, TableWithout, ending, Closed, TypeOK
    <2>4. CASE Interrupt
      BY <2>4, AwaitedTypes DEF Interrupt, shared, ending, Closed, TypeOK
    <2> QED
      BY <2>1, <2>2, <2>3, <2>4
  <1>2. Idle' /\ ~Closed /\ (Live' => stage' \in {"random", "left"} /\ Idle /\ table' = table)
    BY <1>1 DEF Live, Idle, Closed
  <1>3. TypeOK'
    BY <1>1 DEF TypeOK
  <1>4. FliesWhileFlying' /\ RunsOnce' /\ CloseReachesEveryFlight' /\ CallIsServed'
    BY <1>1, <1>2
       DEF FliesWhileFlying, RunsOnce, CloseReachesEveryFlight, CallIsServed
  <1>5. AwaitsItsCase'
    BY <1>1, <1>2 DEF AwaitsItsCase
  <1>6. QueueOfOne'
    BY <1>1, <1>2 DEF QueueOfOne, Flies, Idle
  <1>7. Started' = Started /\ Known' = Known
    BY <1>1 DEF Started, Known
  <1>8. ReplaysWereCalled'
    BY <1>1, <1>7 DEF ReplaysWereCalled, Called, Idle
  <1>9. ClaimedBelowNext'
    <2>1. \A w \in Workers : flying[w].order = "ahead" => flying[w].position \in table'
      <3> SUFFICES ASSUME NEW w \in Workers, flying[w].order = "ahead"
                   PROVE  flying[w].position \in table'
        OBVIOUS
      <3>1. flying[w] # NoFlight /\ flying[w] \in Flight /\ flying[w].position \in table
        BY DEF NoFlight, TypeOK, ClaimedBelowNext
      <3>2. CASE Raise
        <4>1. ~Idle /\ awaited \in done /\ table' = TableWithout(awaited)
          BY <3>2 DEF Raise
        <4>2. flying[w] # awaited /\ awaited \in Flight
          BY <3>1, <4>1, AwaitedTypes DEF RunsOnce
        <4>3. awaited.order = "ahead" => flying[w].position # awaited.position
          BY <3>1, <4>2, FlightTypes
        <4> QED
          BY <3>1, <4>1, <4>3 DEF TableWithout
      <3>3. CASE ~Raise
        BY <3>1, <3>3 DEF Step, NoEdge, Leave, NextCheck, End, Goto, Interrupt, shared
      <3> QED
        BY <3>2, <3>3
    <2>2. Live' => \A p \in 0 .. next - 1 :
                     IF p \in table' THEN AheadFlight(p) \in Started ELSE Taken(p)
      BY <1>1, <1>2 DEF ClaimedBelowNext
    <2> QED
      BY <1>1, <1>7, <2>1, <2>2 DEF ClaimedBelowNext, Taken
  <1>10. CancelledAtClose'
    BY <1>1, <1>2 DEF CancelledAtClose
  <1>11. NoLostWakeup'
    BY <1>1, <1>2 DEF NoLostWakeup, Asleep
  <1> QED
    BY <1>3, <1>4, <1>5, <1>6, <1>8, <1>9, <1>10, <1>11

LEMMA ClosePreserves ==
  ASSUME Inductive, Close \/ Shutdown
  PROVE  Inductive'
  <1> USE DEF Inductive
  <1>1. /\ UNCHANGED <<check, index, edges, entered, awaited, table, next, taken, replays,
                       flying, done, cut>>
        /\ Idle /\ stage' \in {"closing", "closed"} /\ Closed' /\ ~Live /\ ~Live'
        /\ stage # "simplest" /\ stage # "prefix"
    BY DEF Close, Shutdown, shared, ending, Live, Closed, Idle, CancelledAtClose
  <1>2. /\ worker' \in [Workers -> {"ready", "flying", "asleep", "ended"}]
        /\ \A w \in Workers : worker'[w] = "flying" <=> worker[w] = "flying"
        /\ Asleep' = {}
    BY DEF Close, Shutdown, NotifyAll, Asleep, TypeOK
  <1>3. /\ cancelled' \subseteq Flight /\ cancelled \subseteq cancelled'
        /\ Close => cancelled' = cancelled \cup {AheadFlight(p) : p \in table}
        /\ ~Closed => Close
    BY FlightTypes DEF Close, Shutdown, ToCancel, ending, TypeOK, Closed
  <1>4. TypeOK'
    BY <1>1, <1>2, <1>3 DEF TypeOK
  <1>5. FliesWhileFlying' /\ RunsOnce' /\ CallIsServed' /\ AwaitsItsCase' /\ QueueOfOne'
    BY <1>1, <1>2
       DEF FliesWhileFlying, RunsOnce, CallIsServed, AwaitsItsCase, QueueOfOne, Idle, Flies
  <1>6. Started' = Started /\ Known' = Known
    BY <1>1 DEF Started, Known
  <1>7. ReplaysWereCalled' /\ ClaimedBelowNext'
    BY <1>1, <1>6 DEF ReplaysWereCalled, Called, ClaimedBelowNext
  <1>8. CancelledAtClose' /\ NoLostWakeup'
    BY <1>1, <1>2, WorkersAssumption DEF CancelledAtClose, NoLostWakeup, Idle
  <1>9. CloseReachesEveryFlight'
    <2> SUFFICES ASSUME NEW w \in Workers, flying[w] \in AheadFlights
                 PROVE  flying[w] \in cancelled'
      BY <1>1 DEF CloseReachesEveryFlight
    <2>1. CASE Closed
      BY <2>1, <1>3 DEF CloseReachesEveryFlight
    <2>2. CASE ~Closed
      <3>1. flying[w] = AheadFlight(flying[w].position) /\ flying[w].position \in table
        BY DEF ClaimedBelowNext, AheadFlights, AheadFlight
      <3> QED
        BY <2>2, <3>1, <1>3
    <2> QED
      BY <2>1, <2>2
  <1> QED
    BY <1>4, <1>5, <1>7, <1>8, <1>9

LEMMA ClaimReplayPreserves ==
  ASSUME Inductive, NEW w \in Workers, ClaimReplay(w)
  PROVE  Inductive'
  <1> USE DEF Inductive
  <1> DEFINE f == replays[1]
  <1>1. /\ f \in Flight /\ f # NoFlight /\ f.order = "replay"
        /\ f \notin done /\ ~Flies(f) /\ replays' = <<>>
        /\ flying' = [flying EXCEPT ![w] = f] /\ worker' = [worker EXCEPT ![w] = "flying"]
        /\ worker[w] = "ready" /\ flying[w] = NoFlight /\ ~Closed
        /\ UNCHANGED <<stage, check, index, edges, entered, awaited, table, next, taken,
                       done, cancelled, cut>>
    BY FlightTypes
       DEF ClaimReplay, Fly, Become, QueueOfOne, TypeOK, FliesWhileFlying, phases, ending
  <1>2. TypeOK'
    BY <1>1 DEF TypeOK
  <1>3. FliesWhileFlying'
    BY <1>1 DEF FliesWhileFlying, TypeOK
  <1>4. RunsOnce'
    BY <1>1 DEF RunsOnce, TypeOK, Flies
  <1>5. AwaitsItsCase' /\ QueueOfOne'
    BY <1>1 DEF AwaitsItsCase, Idle, QueueOfOne
  <1>6. /\ Started' \subseteq Started \cup {f} /\ Started \subseteq Started' \cup {NoFlight}
        /\ Known' = Started' /\ f \in Known
    <2>1. Known' = Started'
      BY <1>1 DEF Started, Known
    <2>2. f \in Known
      BY DEF Known, ClaimReplay, TypeOK
    <2>3. Started' \subseteq Started \cup {f}
      BY <1>1 DEF Started, TypeOK
    <2>4. Started \subseteq Started' \cup {NoFlight}
      BY <1>1 DEF Started, TypeOK
    <2> QED
      BY <2>1, <2>2, <2>3, <2>4
  <1>7. ReplaysWereCalled'
    <2>1. \A g \in Known : g.order = "replay" => Called(g.case)'
      BY <1>1 DEF ReplaysWereCalled, Called, Idle
    <2> QED
      BY <1>6, <2>1 DEF ReplaysWereCalled, Known
  <1>8. ClaimedBelowNext'
    <2>1. \A g \in Started' : g.order = "ahead" => g \in Started
      BY <1>1 DEF Started, TypeOK
    <2>2. \A g \in Started : g # NoFlight => g \in Started'
      BY <1>6
    <2>3. \A v \in Workers : flying'[v].order = "ahead" => flying'[v] = flying[v]
      BY <1>1 DEF TypeOK
    <2>4. \A p \in 0 .. next - 1 : AheadFlight(p) # NoFlight
      BY FlightTypes DEF TypeOK
    <2> QED
      BY <1>1, <2>1, <2>2, <2>3, <2>4 DEF ClaimedBelowNext, Live, Taken
  <1>9. CancelledAtClose' /\ CloseReachesEveryFlight'
    BY <1>1 DEF CancelledAtClose, CloseReachesEveryFlight, Closed, Live, Idle
  <1>10. NoLostWakeup'
    BY <1>1 DEF NoLostWakeup, Asleep, Closed, TypeOK
  <1>11. CallIsServed'
    <2> SUFFICES ASSUME ~Idle PROVE CallIsServed'
      BY <1>1 DEF CallIsServed, Idle
    <2>1. \A g \in Flight : Flies(g) => \E v \in Workers : flying'[v] = g
      BY <1>1, FlightTypes DEF Flies, TypeOK
    <2>2. flying'[w] = f
      BY <1>1 DEF TypeOK
    <2>3. awaited \in {replays[i] : i \in DOMAIN replays} => awaited = f
      BY DEF QueueOfOne, TypeOK
    <2>4. awaited \in Flight
      BY AwaitedTypes
    <2> QED
      BY <1>1, <2>1, <2>2, <2>3, <2>4 DEF CallIsServed, Flies
  <1> QED
    BY <1>2, <1>3, <1>4, <1>5, <1>7, <1>8, <1>9, <1>10, <1>11

LEMMA ClaimAheadPreserves ==
  ASSUME Inductive, NEW w \in Workers, ClaimAhead(w)
  PROVE  Inductive'
  <1> USE DEF Inductive
  <1> DEFINE f == AheadFlight(next)
  <1>1. /\ f \in Flight /\ f # NoFlight /\ f.order = "ahead" /\ f.position = next
        /\ next \in Nat
    BY FlightTypes DEF TypeOK, AheadFlight
  <1>2. f \notin Started
    BY <1>1 DEF ClaimedBelowNext
  <1>3. /\ flying' = [flying EXCEPT ![w] = f] /\ worker' = [worker EXCEPT ![w] = "flying"]
        /\ worker[w] = "ready" /\ flying[w] = NoFlight /\ ~Closed
        /\ replays = <<>> /\ next' = next + 1 /\ table' = table \cup {next}
        /\ next < taken + Cardinality(Workers)
        /\ UNCHANGED <<stage, check, index, edges, entered, awaited, taken, replays>>
    BY DEF ClaimAhead, Fly, Become, FlightAt, FliesWhileFlying, phases
  <1>4. cancelled = {} /\ cut = {}
    BY <1>3 DEF CancelledAtClose
  <1>5. done' = done /\ cancelled' = {} /\ cut' = {}
    <2>1. f \notin done
      BY <1>2 DEF Started
    <2> QED
      BY <2>1, <1>4 DEF ClaimAhead, FlightAt, ending
  <1>6. TypeOK'
    BY <1>1, <1>3, <1>5 DEF TypeOK
  <1>7. FliesWhileFlying'
    BY <1>1, <1>3 DEF FliesWhileFlying, TypeOK
  <1>8. RunsOnce'
    BY <1>2, <1>3, <1>5 DEF RunsOnce, TypeOK, Started
  <1>9. AwaitsItsCase' /\ QueueOfOne'
    BY <1>3 DEF AwaitsItsCase, Idle, QueueOfOne
  <1>10. /\ Started' \subseteq Started \cup {f} /\ Started \subseteq Started' \cup {NoFlight}
         /\ f \in Started' /\ Known' = Started' /\ Known = Started
    <2>1. Started' \subseteq Started \cup {f}
      BY <1>3, <1>5 DEF Started, TypeOK
    <2>2. Started \subseteq Started' \cup {NoFlight}
      BY <1>3, <1>5 DEF Started, TypeOK
    <2>3. f \in Started'
      BY <1>3 DEF Started, TypeOK
    <2>4. Known' = Started' /\ Known = Started
      BY <1>3 DEF Known
    <2> QED
      BY <2>1, <2>2, <2>3, <2>4
  <1>11. ReplaysWereCalled'
    BY <1>1, <1>3, <1>10 DEF ReplaysWereCalled, Called, Idle
  <1>12. ClaimedBelowNext'
    <2>1. \A g \in Started' : g.order = "ahead" => g.position < next'
      <3> SUFFICES ASSUME NEW g \in Started', g.order = "ahead"
                   PROVE  g.position < next'
        OBVIOUS
      <3>1. CASE g = f
        BY <3>1, <1>1, <1>3
      <3>2. CASE g # f
        <4>1. g \in Started /\ g \in Flight
          BY <3>2, <1>10 DEF Started, TypeOK, NoFlight
        <4>2. g.position \in Nat /\ g.position < next
          BY <4>1, FlightTypes DEF ClaimedBelowNext
        <4> QED
          BY <4>2, <1>1, <1>3
      <3> QED
        BY <3>1, <3>2
    <2>2. \A v \in Workers : flying'[v].order = "ahead" => flying'[v].position \in table'
      BY <1>1, <1>3 DEF ClaimedBelowNext, TypeOK
    <2>3. \A p \in 0 .. next - 1 : AheadFlight(p) # NoFlight
      BY FlightTypes DEF TypeOK
    <2>4. \A p \in 0 .. next' - 1 : p = next \/ p \in 0 .. next - 1
      BY <1>1, <1>3
    <2>5. \A p \in 0 .. next - 1 : p \in table' => p \in table
      BY <1>1, <1>3
    <2>6. Live' = Live /\ \A p \in Nat : Taken(p)' = Taken(p)
      BY <1>3 DEF Live, Taken
    <2>7. Live => \A p \in 0 .. next - 1 :
                    IF p \in table' THEN AheadFlight(p) \in Started' ELSE Taken(p)'
      BY <1>3, <1>10, <2>3, <2>5, <2>6 DEF ClaimedBelowNext
    <2>8. Live => \A p \in 0 .. next' - 1 :
                    IF p \in table' THEN AheadFlight(p) \in Started' ELSE Taken(p)'
      BY <1>3, <1>10, <2>4, <2>7
    <2> QED
      BY <2>1, <2>2, <2>6, <2>8 DEF ClaimedBelowNext
  <1>13. CancelledAtClose' /\ CloseReachesEveryFlight'
    BY <1>3, <1>5 DEF CancelledAtClose, CloseReachesEveryFlight, Closed, Live, Idle
  <1>14. NoLostWakeup'
    BY <1>1, <1>3, WorkersCount DEF NoLostWakeup, Asleep, Closed, TypeOK
  <1>15. CallIsServed'
    <2> SUFFICES ASSUME ~Idle PROVE CallIsServed'
      BY <1>3 DEF CallIsServed, Idle
    <2>1. \A g \in Flight : Flies(g) => \E v \in Workers : flying'[v] = g
      BY <1>3, FlightTypes DEF Flies, TypeOK
    <2>2. flying'[w] = f
      BY <1>3 DEF TypeOK
    <2>3. awaited \in Flight
      BY AwaitedTypes
    <2>4. awaited.order = "ahead" /\ next <= awaited.position
          => awaited = f \/ next' <= awaited.position
      BY <1>1, <1>3, <2>3, FlightTypes
    <2> QED
      BY <1>3, <1>4, <1>5, <2>1, <2>2, <2>3, <2>4 DEF CallIsServed, Flies
  <1> QED
    BY <1>6, <1>7, <1>8, <1>9, <1>11, <1>12, <1>13, <1>14, <1>15

LEMMA WaitOrQuitPreserves ==
  ASSUME Inductive, NEW w \in Workers, Wait(w) \/ Quit(w)
  PROVE  Inductive'
  <1> USE DEF Inductive
  <1>1. /\ UNCHANGED <<stage, check, index, edges, entered, awaited, table, next, taken,
                       replays, flying, done, cancelled, cut>>
        /\ worker[w] = "ready"
        /\ \/ /\ ~Closed /\ replays = <<>> /\ next >= taken + Cardinality(Workers)
              /\ worker' = [worker EXCEPT ![w] = "asleep"]
           \/ Closed /\ worker' = [worker EXCEPT ![w] = "ended"]
    BY DEF Wait, Quit, Become, phases, shared, ending
  <1>2. TypeOK' /\ FliesWhileFlying'
    BY <1>1 DEF TypeOK, FliesWhileFlying
  <1>3. AwaitsItsCase' /\ QueueOfOne' /\ RunsOnce' /\ CallIsServed' /\ CloseReachesEveryFlight'
        /\ CancelledAtClose'
    BY <1>1 DEF AwaitsItsCase, QueueOfOne, RunsOnce, CallIsServed, CloseReachesEveryFlight,
                CancelledAtClose, Idle, Flies, Closed, Live
  <1>4. Started' = Started /\ Known' = Known
    BY <1>1 DEF Started, Known
  <1>5. ReplaysWereCalled' /\ ClaimedBelowNext'
    BY <1>1, <1>4 DEF ReplaysWereCalled, ClaimedBelowNext, Called, Taken, Live, Idle
  <1>6. NoLostWakeup'
    BY <1>1, WorkersCount DEF NoLostWakeup, Asleep, Closed, TypeOK
  <1> QED
    BY <1>2, <1>3, <1>5, <1>6

LEMMA EndCasePreserves ==
  ASSUME Inductive, NEW w \in Workers, EndCase(w)
  PROVE  Inductive'
  <1> USE DEF Inductive
  <1> DEFINE f == flying[w]
  <1>1. /\ worker[w] = "flying" /\ f \in Flight /\ f # NoFlight
        /\ worker' = [worker EXCEPT ![w] = "ready"]
        /\ flying' = [flying EXCEPT ![w] = NoFlight]
        /\ done' = done \cup {f} /\ cancelled' = cancelled
        /\ cut' \subseteq cut \cup cancelled
        /\ UNCHANGED <<stage, check, index, edges, entered, awaited, table, next, taken, replays>>
    BY DEF EndCase, Become, FliesWhileFlying, TypeOK, phases, shared
  <1>2. TypeOK'
    BY <1>1 DEF TypeOK
  <1>3. FliesWhileFlying'
    BY <1>1 DEF FliesWhileFlying, TypeOK
  <1>4. RunsOnce'
    BY <1>1 DEF RunsOnce, TypeOK
  <1>5. Started' \subseteq Started \cup {NoFlight} /\ Started \subseteq Started'
    BY <1>1 DEF Started, TypeOK
  <1>6. QueueOfOne'
    <2>1. replays # <<>> => replays[1] # f /\ replays[1] # NoFlight
      BY <1>1 DEF QueueOfOne, Flies, NoFlight
    <2> QED
      BY <1>1, <2>1 DEF QueueOfOne, Flies, Live, TypeOK
  <1>7. AwaitsItsCase'
    BY <1>1 DEF AwaitsItsCase, Idle
  <1>8. ReplaysWereCalled'
    BY <1>1, <1>5 DEF ReplaysWereCalled, Known, Called, Idle, NoFlight
  <1>9. ClaimedBelowNext'
    BY <1>1, <1>5 DEF ClaimedBelowNext, Taken, Live, NoFlight, TypeOK
  <1>10. CancelledAtClose'
    BY <1>1 DEF CancelledAtClose, Closed, Live, Idle
  <1>11. CloseReachesEveryFlight'
    BY <1>1 DEF CloseReachesEveryFlight, Closed, TypeOK, AheadFlights, NoFlight
  <1>12. NoLostWakeup'
    BY <1>1 DEF NoLostWakeup, Asleep, Closed, TypeOK
  <1>13. CallIsServed'
    <2> SUFFICES ASSUME ~Idle PROVE CallIsServed'
      BY <1>1 DEF CallIsServed, Idle
    <2>1. cancelled = {} /\ cut = {}
      BY AwaitedTypes DEF CancelledAtClose
    <2>2. awaited \in done \/ Flies(awaited) => awaited \in done' \/ Flies(awaited)'
      BY <1>1 DEF Flies, TypeOK
    <2> QED
      BY <1>1, <2>1, <2>2 DEF CallIsServed
  <1> QED
    BY <1>2, <1>3, <1>4, <1>6, <1>7, <1>8, <1>9, <1>10, <1>11, <1>12, <1>13

LEMMA UnchangedPreserves ==
  ASSUME Inductive, UNCHANGED vars
  PROVE  Inductive'
  <1>1. UNCHANGED <<stage, check, index, edges, entered, awaited, table, next, taken, replays,
                    worker, flying, done, cancelled, cut>>
    BY DEF vars, phases, shared, ending
  <1> QED
    BY <1>1
       DEF Inductive, TypeOK, FliesWhileFlying, AwaitsItsCase, QueueOfOne, ReplaysWereCalled,
           ClaimedBelowNext, CancelledAtClose, RunsOnce, NoLostWakeup, CallIsServed,
           CloseReachesEveryFlight, Known, Started, Called, Taken, Live, Closed, Idle, Flies,
           Asleep

\* The inductive invariant holds in every state of a run.
THEOREM InvariantHolds == Spec => []Inductive
  <1>1. Init => Inductive
    BY InitInductive
  <1>2. Inductive /\ [Next]_vars => Inductive'
    <2> SUFFICES ASSUME Inductive, [Next]_vars PROVE Inductive'
      OBVIOUS
    <2>1. CASE CallSimplest \/ CallPrefix
      BY <2>1, CallReplayPreserves
    <2>2. CASE CallRandom \/ CallEdge
      BY <2>2, CallTakePreserves
    <2>3. CASE Return
      BY <2>3, ReturnPreserves
    <2>4. CASE Step \/ End \/ Raise \/ Interrupt
      BY <2>4, StepPreserves
    <2>5. CASE Close \/ Shutdown
      BY <2>5, ClosePreserves
    <2>6. CASE \E w \in Workers : Worker(w)
      <3> PICK w \in Workers : Worker(w)
        BY <2>6
      <3>1. CASE ClaimReplay(w)
        BY <3>1, ClaimReplayPreserves
      <3>2. CASE ClaimAhead(w)
        BY <3>2, ClaimAheadPreserves
      <3>3. CASE Wait(w) \/ Quit(w)
        BY <3>3, WaitOrQuitPreserves
      <3>4. CASE EndCase(w)
        BY <3>4, EndCasePreserves
      <3> QED
        BY <3>1, <3>2, <3>3, <3>4 DEF Worker
    <2>7. CASE UNCHANGED vars
      BY <2>7, UnchangedPreserves
    <2> QED
      BY <2>1, <2>2, <2>3, <2>4, <2>5, <2>6, <2>7 DEF Next, Runner, Call, Stopped
  <1> QED
    BY <1>1, <1>2, PTL DEF Spec

\* The variables hold values of their types.
THEOREM TypeCorrect == Spec => []TypeOK
  <1>1. Inductive => TypeOK
    BY DEF Inductive
  <1> QED
    BY <1>1, InvariantHolds, PTL

\* The body of a case runs once, on one worker.
THEOREM CasesRunOnce == Spec => []RunsOnce
  <1>1. Inductive => RunsOnce
    BY DEF Inductive
  <1> QED
    BY <1>1, InvariantHolds, PTL

\* No worker sleeps through work that it could claim, or through close.
THEOREM WakeupsAreNotLost == Spec => []NoLostWakeup
  <1>1. Inductive => NoLostWakeup
    BY DEF Inductive
  <1> QED
    BY <1>1, InvariantHolds, PTL

\* The runner waits only for flights that a worker has, had or will claim.
THEOREM CallsAreServed == Spec => []CallIsServed
  <1>1. Inductive => CallIsServed
    BY DEF Inductive
  <1> QED
    BY <1>1, InvariantHolds, PTL

\* After close, a worker that still flies a case ahead flies a cancelled one.
THEOREM CloseCancels == Spec => []CloseReachesEveryFlight
  <1>1. Inductive => CloseReachesEveryFlight
    BY DEF Inductive
  <1> QED
    BY <1>1, InvariantHolds, PTL

-----------------------------------------------------------------------------
(***************************************************************************)
(* The size of the table: what the runner called for and what the workers  *)
(* look ahead move on together.                                            *)
(***************************************************************************)

\* The random cases that edge cases may overtake.
Overtaken == {RandomPosition(i) : i \in 0 .. Boundaries - 1}

\* The edge cases keep up with the random cases, as long as there are any.
EdgesKeepUp ==
  /\ stage \in {"random", "left"} => Smaller(index, Boundaries) <= edges
  /\ stage \in {"prefix", "edge"} => index <= edges + 1 \/ edges = Boundaries
  /\ stage = "simplest" => index = 0

\* The runner called for the positions of the cases behind it.
CalledBelowTaken ==
  /\ \A i \in 0 .. index - 1 : RandomPosition(i) < taken
  /\ \A n \in 0 .. edges - 1 : EdgePosition(n) < taken
  /\ ~Idle /\ awaited.order = "ahead" => awaited.position < taken

\* The positions in the table, or still to come there, that are neither in the lookahead
\* nor overtaken.
Others == (table \cup (next .. taken - 1)) \ ((taken .. next - 1) \cup Overtaken)

\* There is at most one of them: the one that the runner waits for, or that it left.
OneOther ==
  /\ Live /\ Idle => Others = {}
  /\ \A p \in Others : ~Idle => awaited = AheadFlight(p)
  /\ \E a \in Nat : Others \subseteq {a}

Window == /\ EdgesKeepUp /\ OneOther
          /\ Live => CalledBelowTaken
          /\ next <= taken + Cardinality(Workers)

LEMMA EveryPositionHasACase ==
  ASSUME NEW p \in Nat
  PROVE  \/ \E i \in Nat : p = RandomPosition(i)
         \/ \E n \in 0 .. Boundaries - 1 : p = EdgePosition(n)
<1>1. PICK h \in Nat : h = p \div 2 /\ (p = 2 * h \/ p = 2 * h + 1)
  OBVIOUS
<1>2. CASE p = 2 * h /\ h < Boundaries
  <2>1. p = RandomPosition(h)
    BY <1>2, BoundariesAssumption DEF RandomPosition, Smaller
  <2> QED
    BY <2>1
<1>3. CASE p = 2 * h + 1 /\ h < Boundaries
  BY <1>3, BoundariesAssumption DEF EdgePosition
<1>4. CASE h >= Boundaries
  <2>1. p - Boundaries \in Nat /\ p = RandomPosition(p - Boundaries)
    BY <1>1, <1>4, BoundariesAssumption DEF RandomPosition, Smaller
  <2> QED
    BY <2>1
<1> QED
  BY <1>1, <1>2, <1>3, <1>4, BoundariesAssumption

\* Nothing lies between the positions that were called for and that of the next random
\* case; before the next edge case there are overtaken random cases only.
LEMMA NothingIsSkipped ==
  ASSUME TypeOK, EdgesKeepUp, CalledBelowTaken, NEW q \in Nat, taken <= q
  PROVE  /\ stage = "random" => ~(q < RandomPosition(index))
         /\ edges < Boundaries /\ q < EdgePosition(edges) => q \in Overtaken
<1>1. index \in Nat /\ edges \in 0 .. Boundaries /\ taken \in Nat /\ Boundaries \in Nat
  BY BoundariesAssumption DEF TypeOK
<1>2. CASE \E i \in Nat : q = RandomPosition(i)
  <2>1. PICK i \in Nat : q = RandomPosition(i)
    BY <1>2
  <2>2. ~(i < index)
    BY <2>1, <1>1, PositionTypes DEF CalledBelowTaken
  <2>3. ~(q < RandomPosition(index))
    BY <2>1, <2>2, <1>1 DEF RandomPosition, Smaller
  <2>4. edges < Boundaries /\ q < EdgePosition(edges) => i \in 0 .. Boundaries - 1
    BY <2>1, <1>1 DEF RandomPosition, EdgePosition, Smaller
  <2> QED
    BY <2>1, <2>3, <2>4 DEF Overtaken
<1>3. CASE \E n \in 0 .. Boundaries - 1 : q = EdgePosition(n)
  <2>1. PICK n \in 0 .. Boundaries - 1 : q = EdgePosition(n)
    BY <1>3
  <2>2. ~(n < edges)
    BY <2>1, <1>1, PositionTypes DEF CalledBelowTaken
  <2>3. stage = "random" => ~(q < RandomPosition(index))
    BY <2>1, <2>2, <1>1 DEF EdgesKeepUp, RandomPosition, EdgePosition, Smaller
  <2>4. ~(q < EdgePosition(edges))
    BY <2>1, <2>2, <1>1 DEF EdgePosition
  <2> QED
    BY <2>3, <2>4
<1> QED
  BY <1>2, <1>3, EveryPositionHasACase

LEMMA WindowBegins == Init => Window
<1> SUFFICES ASSUME Init PROVE Window
  OBVIOUS
<1>1. EdgesKeepUp /\ CalledBelowTaken
  BY DEF Init, EdgesKeepUp, CalledBelowTaken, Idle
<1>2. Others = {}
  <2>1. table = {} /\ next = 0 /\ taken = 0
    BY DEF Init
  <2> QED
    BY <2>1 DEF Others
<1>3. next <= taken + Cardinality(Workers)
  BY WorkersCount DEF Init
<1> QED
  BY <1>1, <1>2, <1>3 DEF Window, OneOther

\* A call for a position.
LEMMA CallTakeKeepsTheWindow ==
  ASSUME Inductive, Window, CallRandom \/ CallEdge
  PROVE  Window'
<1>1. PICK p \in Nat : /\ Idle /\ CallTake(p)
                       /\ \/ stage = "random" /\ p = RandomPosition(index)
                          \/ /\ stage \in {"edge", "left"} /\ edges < Boundaries
                             /\ p = EdgePosition(edges)
  <2>1. index \in Nat /\ edges \in Nat
    BY BoundariesAssumption DEF Inductive, TypeOK
  <2>2. RandomPosition(index) \in Nat /\ EdgePosition(edges) \in Nat
    BY <2>1, PositionTypes
  <2> QED
    BY <2>2 DEF CallRandom, CallEdge
<1>2. TypeOK /\ index \in Nat /\ edges \in 0 .. Boundaries /\ taken \in Nat /\ next \in Nat
      /\ table \subseteq Nat
  BY DEF Inductive, TypeOK
<1>3. Live /\ EdgesKeepUp /\ CalledBelowTaken /\ Others = {}
  BY <1>1, <1>2 DEF Window, OneOther, Live
<1>4. /\ table' = table \cup {p} /\ taken' = Larger(taken, p + 1) /\ awaited' = AheadFlight(p)
      /\ UNCHANGED <<stage, check, index, edges, next>>
  BY <1>1 DEF CallTake, FlightAt, phases
<1>5. taken' \in Nat /\ taken <= taken' /\ p < taken' /\ (taken' = taken \/ taken' = p + 1)
  BY <1>2, <1>4 DEF Larger
<1>6. EdgesKeepUp' /\ CalledBelowTaken'
  <2>1. awaited'.position = p
    BY <1>4 DEF AheadFlight
  <2> QED
    BY <2>1, <1>2, <1>3, <1>4, <1>5, PositionTypes DEF EdgesKeepUp, CalledBelowTaken
<1>7. ~Idle' /\ (next <= taken + Cardinality(Workers))'
  BY <1>2, <1>4, <1>5, FlightTypes, WorkersCount DEF Idle, Window
<1>8. Others' \subseteq {p}
  <2> SUFFICES ASSUME NEW q \in Others', q # p PROVE FALSE
    OBVIOUS
  <2>1. Overtaken' = Overtaken
    OBVIOUS
  <2>2. /\ q \in table \cup {p} \cup (next .. taken' - 1)
        /\ q \notin (taken' .. next - 1) /\ q \notin Overtaken
    BY <2>1, <1>4 DEF Others
  <2>3. q \in Nat
    <3>1. CASE q \in table \cup {p}
      BY <3>1, <1>2
    <3>2. CASE q \in next .. taken' - 1
      BY <3>2, <1>2
    <3> QED
      BY <3>1, <3>2, <2>2
  <2>4. q \in table \cup (next .. taken - 1) => q \in taken .. next - 1
    BY <2>2, <1>3 DEF Others
  <2>5. taken <= q /\ q < p
    <3>1. CASE q \in table
      BY <3>1, <2>2, <2>3, <2>4, <1>2, <1>5
    <3>2. CASE q \in next .. taken' - 1
      <4>1. next <= q /\ q < taken'
        <5>1. PICK t \in Nat : t = taken'
          BY <1>5
        <5>2. q \in next .. t - 1
          BY <5>1, <3>2
        <5>3. next <= q /\ q < t
          BY <5>2, <2>3, <1>2
        <5> QED
          BY <5>1, <5>3
      <4>2. taken <= q
        <5> SUFFICES ASSUME q < taken PROVE FALSE
          BY <2>3, <1>2
        <5>1. q \in next .. taken - 1
          BY <4>1, <2>3, <1>2
        <5> QED
          BY <5>1, <2>3, <2>4, <1>2
      <4> QED
        BY <4>1, <4>2, <2>3, <1>2, <1>5
    <3> QED
      BY <3>1, <3>2, <2>2
  <2> QED
    BY <2>2, <2>3, <2>4, <2>5, <1>1, <1>2, <1>3, NothingIsSkipped
<1>9. OneOther'
  BY <1>4, <1>7, <1>8 DEF OneOther
<1> QED
  BY <1>6, <1>7, <1>9 DEF Window

\* The case that was called for is behind _next, and leaves the table.
LEMMA ReturnKeepsTheWindow ==
  ASSUME Inductive, Window, Return
  PROVE  Window'
<1>1. /\ TypeOK /\ index \in Nat /\ edges \in 0 .. Boundaries /\ taken \in Nat /\ next \in Nat
      /\ Boundaries \in Nat /\ table \subseteq Nat /\ awaited \in Flight
  BY BoundariesAssumption DEF Inductive, TypeOK, Return, Idle
<1>2. /\ ~Idle /\ Live /\ awaited \in done /\ awaited' = NoFlight /\ table' = TableWithout(awaited)
      /\ UNCHANGED <<next, taken>>
  BY <1>1 DEF Return, Live
<1>3. EdgesKeepUp'
  BY <1>1, <1>2 DEF Return, EdgesKeepUp, Smaller, Window, Inductive, AwaitsItsCase
<1>4. CalledBelowTaken'
  <2>1. CalledBelowTaken
    BY <1>2 DEF Window
  <2>2. awaited.order = "ahead" => awaited.position < taken
    BY <2>1, <1>2 DEF CalledBelowTaken
  <2>3. Idle'
    BY <1>2 DEF Idle
  <2> QED
    BY <2>1, <2>2, <2>3, <1>1, <1>2 DEF Return, CalledBelowTaken, Inductive, AwaitsItsCase, AheadFlight,
       ReplayFlight
<1>5. Others' = {}
  <2> SUFFICES ASSUME NEW q \in Others' PROVE FALSE
    OBVIOUS
  <2>1. Overtaken' = Overtaken
    OBVIOUS
  <2>2. q \in Others
    BY <2>1, <1>2 DEF Others, TableWithout
  <2>3. awaited = AheadFlight(q) /\ q \in Nat
    BY <2>2, <1>1, <1>2 DEF Window, OneOther, Others
  <2>4. q \notin table'
    BY <2>3, <1>2 DEF TableWithout, AheadFlight
  <2>5. q < next
    BY <2>3, <1>2 DEF Inductive, ClaimedBelowNext, Started, AheadFlight
  <2> QED
    BY <2>3, <2>4, <2>5, <1>1, <1>2 DEF Others
<1>6. OneOther' /\ (next <= taken + Cardinality(Workers))'
  BY <1>2, <1>5 DEF OneOther, Window
<1> QED
  BY <1>3, <1>4, <1>6 DEF Window

\* A step of the runner that calls for no position.
LEMMA OtherCallsKeepTheWindow ==
  ASSUME Inductive, Window,
         CallSimplest \/ CallPrefix \/ Step \/ End \/ Raise \/ Interrupt \/ Close \/ Shutdown
  PROVE  Window'
<1>1. /\ TypeOK /\ index \in Nat /\ edges \in 0 .. Boundaries /\ taken \in Nat /\ next \in Nat
      /\ Boundaries \in Nat /\ table \subseteq Nat
  BY BoundariesAssumption DEF Inductive, TypeOK
<1>2. /\ UNCHANGED <<next, taken, index, edges>>
      /\ table' \subseteq table /\ (table' = table \/ Raise)
  BY DEF CallSimplest, CallPrefix, CallReplay, Step, NoEdge, Leave, NextCheck, End, Goto, Raise,
         Interrupt, Close, Shutdown, phases, shared, TableWithout
<1>3. EdgesKeepUp'
  BY <1>1, <1>2 DEF CallSimplest, CallPrefix, CallReplay, Step, NoEdge, Leave, NextCheck, End, Goto,
         Raise, Interrupt, Close, Shutdown, phases, EdgesKeepUp, Smaller, Window
<1>4. Others' \subseteq Others
  <2>1. Overtaken' = Overtaken
    OBVIOUS
  <2> QED
    BY <2>1, <1>2 DEF Others
<1>5. CASE CallSimplest \/ CallPrefix
  <2>1. Idle /\ Live /\ awaited'.order = "replay"
    BY <1>5, <1>1 DEF CallSimplest, CallPrefix, CallReplay, ReplayFlight, Live
  <2>2. Others' = {} /\ CalledBelowTaken'
    BY <2>1, <1>2, <1>4 DEF Window, OneOther, CalledBelowTaken
  <2> QED
    BY <2>2, <1>2, <1>3 DEF Window, OneOther
<1>6. CASE Step \/ End
  <2>1. Idle /\ Live /\ Idle'
    BY <1>6, <1>1 DEF Step, NoEdge, Leave, NextCheck, End, Goto, Idle, Live
  <2>2. Others' = {} /\ CalledBelowTaken'
    BY <2>1, <1>2, <1>4 DEF Window, OneOther, CalledBelowTaken
  <2> QED
    BY <2>1, <2>2, <1>2, <1>3 DEF Window, OneOther
<1>7. CASE Raise \/ Interrupt \/ Close \/ Shutdown
  <2>1. Idle' /\ ~Live'
    BY <1>7 DEF Raise, Interrupt, Close, Shutdown, Idle, Live, Inductive, CancelledAtClose
  <2> QED
    BY <2>1, <1>2, <1>3, <1>4 DEF Window, OneOther
<1> QED
  BY <1>5, <1>6, <1>7

\* A worker moves _next over the positions one by one.
LEMMA WorkersKeepTheWindow ==
  ASSUME Inductive, Window, NEW w \in Workers, Worker(w)
  PROVE  Window'
<1>1. /\ TypeOK /\ taken \in Nat /\ next \in Nat /\ table \subseteq Nat
  BY DEF Inductive, TypeOK
<1>2. UNCHANGED <<stage, check, index, edges, awaited, taken>>
  BY DEF Worker, ClaimReplay, ClaimAhead, Wait, Quit, EndCase, phases, shared
<1>3. EdgesKeepUp' /\ (Live => CalledBelowTaken)' /\ (Live' <=> Live) /\ (Idle' <=> Idle)
  BY <1>2 DEF Window, EdgesKeepUp, CalledBelowTaken, Live, Idle
<1>4. Overtaken' = Overtaken
  OBVIOUS
<1>5. CASE ClaimAhead(w)
  <2>1. next' = next + 1 /\ table' = table \cup {next} /\ next < taken + Cardinality(Workers)
    BY <1>5 DEF ClaimAhead, FlightAt
  <2>2. next' <= taken' + Cardinality(Workers)
    BY <2>1, <1>1, <1>2, WorkersCount
  <2>3. Others' \subseteq Others
    BY <2>1, <1>1, <1>2, <1>4 DEF Others
  <2> QED
    BY <2>2, <2>3, <1>2, <1>3 DEF Window, OneOther
<1>6. CASE ~ClaimAhead(w)
  <2>1. UNCHANGED <<next, table>>
    BY <1>6 DEF Worker, ClaimReplay, Wait, Quit, EndCase, shared
  <2>2. Others' = Others
    BY <2>1, <1>2, <1>4 DEF Others
  <2> QED
    BY <2>1, <2>2, <1>2, <1>3 DEF Window, OneOther
<1> QED
  BY <1>5, <1>6

\* The lookahead, the positions that were overtaken, and one more.
LEMMA WindowBoundsTheTable == Inductive /\ Window => TableBounded
<1> SUFFICES ASSUME Inductive, Window PROVE TableBounded
  OBVIOUS
<1>1. /\ taken \in Nat /\ next \in Nat /\ Boundaries \in Nat /\ Cardinality(Workers) \in Nat
      /\ next <= taken + Cardinality(Workers)
  BY BoundariesAssumption, WorkersCount DEF Inductive, TypeOK, Window
<1>2. PICK a \in Nat : table \subseteq (taken .. next - 1) \cup Overtaken \cup {a}
  BY DEF Window, OneOther, Others
<1>3. /\ IsFiniteSet(taken .. next - 1)
      /\ Cardinality(taken .. next - 1) <= Cardinality(Workers)
  <2>1. /\ IsFiniteSet(taken .. next - 1)
        /\ Cardinality(taken .. next - 1) = IF taken > next - 1 THEN 0 ELSE next - 1 - taken + 1
    <3>1. taken \in Int /\ next - 1 \in Int
      BY <1>1
    <3> QED
      BY ONLY <3>1, FS_Interval
  <2> QED
    BY <2>1, <1>1
<1>4. IsFiniteSet(Overtaken) /\ Cardinality(Overtaken) <= Boundaries
  <2> DEFINE first == 0 .. Boundaries - 1
             f == [i \in first |-> RandomPosition(i)]
  <2>1. IsFiniteSet(first) /\ Cardinality(first) = Boundaries
    <3>1. /\ IsFiniteSet(0 .. Boundaries - 1)
          /\ Cardinality(0 .. Boundaries - 1)
               = IF 0 > Boundaries - 1 THEN 0 ELSE Boundaries - 1 - 0 + 1
      <4>1. 0 \in Int /\ Boundaries - 1 \in Int
        BY <1>1
      <4> QED
        BY ONLY <4>1, FS_Interval
    <3> QED
      BY <3>1, <1>1
  <2>2. f \in Surjection(first, Overtaken)
    BY DEF Surjection, Overtaken
  <2>3. IsFiniteSet(Overtaken) /\ Cardinality(Overtaken) <= Cardinality(first)
    <3> HIDE DEF first, f
    <3> QED
      BY <2>1, <2>2, FS_Surjection
  <2> QED
    BY <2>1, <2>3
<1>5. /\ IsFiniteSet((taken .. next - 1) \cup Overtaken)
      /\ Cardinality((taken .. next - 1) \cup Overtaken) <= Cardinality(Workers) + Boundaries
  <2> DEFINE S == taken .. next - 1
  <2>1. IsFiniteSet(S) /\ IsFiniteSet(Overtaken) /\ Cardinality(S) <= Cardinality(Workers)
    BY <1>3, <1>4
  <2> HIDE DEF S
  <2>2. /\ IsFiniteSet(S \cup Overtaken)
        /\ Cardinality(S \cup Overtaken)
             = Cardinality(S) + Cardinality(Overtaken) - Cardinality(S \cap Overtaken)
    BY <2>1, FS_Union
  <2>3. IsFiniteSet(S \cap Overtaken)
    BY <2>1, FS_Intersection
  <2>4. /\ Cardinality(S \cap Overtaken) \in Nat /\ Cardinality(S) \in Nat
        /\ Cardinality(Overtaken) \in Nat
    BY <2>1, <2>3, FS_CardinalityType
  <2>5. Cardinality(S \cup Overtaken) <= Cardinality(Workers) + Boundaries
    BY <2>1, <2>2, <2>4, <1>1, <1>4
  <2> QED
    BY <2>2, <2>5 DEF S
<1>6. PICK T : T = (taken .. next - 1) \cup Overtaken
  OBVIOUS
<1>7. /\ IsFiniteSet(T \cup {a}) /\ Cardinality(T) \in Nat
      /\ Cardinality(T \cup {a}) <= Cardinality(T) + 1
  <2>1. IsFiniteSet(T)
    BY <1>5, <1>6
  <2>2. Cardinality(T) \in Nat
    BY <2>1, FS_CardinalityType
  <2> QED
    BY <2>1, <2>2, FS_AddElement
<1>8. Cardinality(table) <= Cardinality(T \cup {a})
  <2>1. table \in SUBSET (T \cup {a})
    BY <1>2, <1>6
  <2> QED
    BY <2>1, <1>7, FS_Subset
<1>9. Cardinality(table) \in Nat /\ Cardinality(T \cup {a}) \in Nat
  <2>1. IsFiniteSet(table)
    BY <1>2, <1>6, <1>7, FS_Subset
  <2> QED
    BY <2>1, <1>7, FS_CardinalityType
<1> QED
  BY <1>1, <1>5, <1>6, <1>7, <1>8, <1>9 DEF TableBounded

\* However long a run is, the table holds no more flights than the lookahead, the
\* random cases that edge cases overtook, and one that the runner called for.
THEOREM TheTableIsBounded == Spec => []TableBounded
<1>1. Init => Window
  BY WindowBegins
<1>2. Inductive /\ Window /\ [Next]_vars => Window'
  <2> SUFFICES ASSUME Inductive, Window, [Next]_vars PROVE Window'
    OBVIOUS
  <2>1. CASE CallRandom \/ CallEdge
    BY <2>1, CallTakeKeepsTheWindow
  <2>2. CASE Return
    BY <2>2, ReturnKeepsTheWindow
  <2>3. CASE CallSimplest \/ CallPrefix \/ Step \/ End \/ Raise \/ Interrupt \/ Close \/ Shutdown
    BY <2>3, OtherCallsKeepTheWindow
  <2>4. CASE \E w \in Workers : Worker(w)
    BY <2>4, WorkersKeepTheWindow
  <2>5. CASE UNCHANGED vars
    <3>1. Others' = Others
      BY <2>5 DEF vars, shared, Others, Overtaken
    <3> QED
      BY <2>5, <3>1 DEF vars, phases, shared, Window, EdgesKeepUp, CalledBelowTaken, OneOther, Live, Idle
  <2> QED
    BY <2>1, <2>2, <2>3, <2>4, <2>5 DEF Next, Runner, Call, Stopped
<1>3. Inductive /\ Window => TableBounded
  BY WindowBoundsTheTable
<1> QED
  BY <1>1, <1>2, <1>3, InvariantHolds, PTL DEF Spec

-----------------------------------------------------------------------------
(***************************************************************************)
(* Ahead implements OneWorker: a return is the step of one worker, and     *)
(* every other step leaves what one worker has, or is a step of its runner.*)
(***************************************************************************)
LEMMA ReturnIsASerialStep ==
  ASSUME Inductive, Return
  PROVE  Serial!Next
  <1>1. /\ ~Idle /\ awaited \in done /\ ~Closed /\ Live
        /\ entered' = Append(entered, CaseOf(awaited))
        /\ check' = check /\ index \in Nat /\ edges \in 0 .. Boundaries
    BY AwaitedTypes DEF Return, Inductive, TypeOK
  <1>2. CASE stage = "simplest"
    <2>1. CaseOf(awaited) = SimplestCase
      BY <1>1, <1>2 DEF Inductive, AwaitsItsCase, CaseOf, ReplayFlight
    <2> QED
      BY <1>1, <1>2, <2>1
         DEF Return, Closed, Serial!Next, Serial!Simplest, Serial!Enter, SimplestCase, Serial!SimplestCase
  <1>3. CASE stage = "prefix"
    <2>1. CaseOf(awaited) = PrefixCase(index - 1)
      BY <1>1, <1>3 DEF Inductive, AwaitsItsCase, CaseOf, ReplayFlight
    <2> QED
      BY <1>1, <1>3, <2>1
         DEF Return, Closed, Serial!Next, Serial!Prefix, Serial!Enter, PrefixCase, Serial!PrefixCase
  <1>4. CASE stage = "random"
    <2>1. index < Limits[check] /\ CaseOf(awaited) = CaseAt(RandomPosition(index))
      BY <1>1, <1>4 DEF Inductive, AwaitsItsCase, CaseOf, AheadFlight
    <2>2. CaseOf(awaited) = RandomCase(index)
      BY <1>1, <2>1, RandomCaseIsAtItsPosition
    <2> QED
      BY <1>1, <1>4, <2>1, <2>2
         DEF Return, Closed, Serial!Next, Serial!Random, Serial!Enter, RandomCase, Serial!RandomCase
  <1>5. CASE stage \in {"edge", "left"}
    <2>1. edges < Boundaries /\ CaseOf(awaited) = CaseAt(EdgePosition(edges))
      BY <1>1, <1>5 DEF Inductive, AwaitsItsCase, CaseOf, AheadFlight
    <2>2. edges \in 0 .. Boundaries - 1
      BY <1>1, <2>1, BoundariesAssumption
    <2>3. CaseOf(awaited) = EdgeCase(edges)
      BY <2>1, <2>2, EdgeCaseIsAtItsPosition
    <2> QED
      BY <1>1, <1>5, <2>1, <2>3
         DEF Return, Closed, Serial!Next, Serial!Edge, Serial!Enter, EdgeCase, Serial!EdgeCase
  <1> QED
    BY <1>1, <1>2, <1>3, <1>4, <1>5 DEF Return

LEMMA OtherStepsAreSerial ==
  ASSUME Inductive, [Next]_vars, ~Return
  PROVE  [Serial!Next]_(Serial!vars)
  <1> USE DEF Serial!vars, Serial!phases
  <1>1. CASE NoEdge \/ Leave \/ NextCheck
    BY <1>1 DEF NoEdge, Leave, NextCheck, Goto, Closed, Serial!Next, Serial!NoEdge,
                Serial!Leave, Serial!NextCheck
  <1>2. CASE End \/ Raise \/ Interrupt
    <2>1. ~Closed /\ stage # "ended" /\ stage' = "ended"
      BY <1>2, AwaitedTypes DEF End, Goto, Raise, Interrupt, Closed, Live
    <2> QED
      BY <1>2, <2>1 DEF End, Goto, Raise, Interrupt, Closed, Serial!Next, Serial!End
  <1>3. CASE Close \/ Shutdown
    BY <1>3 DEF Close, Shutdown, Closed
  <1>4. CASE Call
    BY <1>4 DEF Call, CallSimplest, CallPrefix, CallRandom, CallEdge, CallReplay, CallTake,
                Closed, phases
  <1>5. CASE \E w \in Workers : Worker(w)
    BY <1>5 DEF Worker, ClaimReplay, ClaimAhead, Wait, Quit, EndCase, Closed, phases
  <1>6. CASE UNCHANGED vars
    BY <1>6 DEF vars, phases, Closed
  <1> QED
    BY <1>1, <1>2, <1>3, <1>4, <1>5, <1>6 DEF Next, Runner, Step, Stopped

\* A run on any number of workers gives the runner the cases of a run on one
\* worker, in their order.
THEOREM ImplementsOneWorker == Spec => SameCasesAsOneWorker
  <1>1. Init => Serial!Init
    BY DEF Init, Closed, Serial!Init
  <1>2. Inductive /\ [Next]_vars => [Serial!Next]_(Serial!vars)
    BY ReturnIsASerialStep, OtherStepsAreSerial
  <1> QED
    BY <1>1, <1>2, InvariantHolds, PTL DEF Spec, SameCasesAsOneWorker, Serial!Spec
=============================================================================
