--------------------------- MODULE ShrinkerProofs ---------------------------
(***************************************************************************)
(* Proofs about Shrinker for every number of workers, every set of         *)
(* candidates and every budget, and about the integers a candidate is made *)
(* of.                                                                     *)
(***************************************************************************)
EXTENDS Shrinker, Choices, SequenceTheorems, TLAPS

-----------------------------------------------------------------------------
(* Sequences *)

\* The first candidate and the others are the candidates of a sequence.
LEMMA HeadAndTail ==
  ASSUME NEW S, NEW s \in Seq(S), s # <<>>
  PROVE  /\ Head(s) \in S /\ Tail(s) \in Seq(S)
         /\ \A c : Has(s, c) <=> (c = Head(s) \/ Has(Tail(s), c))
<1>1. Head(s) \in S /\ Tail(s) \in Seq(S) /\ Len(s) \in Nat /\ Len(s) > 0
  OBVIOUS
<1>2. /\ DOMAIN s = 1..Len(s) /\ DOMAIN Tail(s) = 1..(Len(s) - 1)
      /\ Head(s) = s[1]
      /\ \A k \in 1..(Len(s) - 1) : Tail(s)[k] = s[k + 1]
  OBVIOUS
<1>3. ASSUME NEW c PROVE Has(s, c) <=> (c = Head(s) \/ Has(Tail(s), c))
  <2>1. ASSUME Has(s, c), c # Head(s) PROVE Has(Tail(s), c)
    <3>1. PICK k \in 1..Len(s) : s[k] = c
      BY <2>1, <1>2 DEF Has
    <3>2. k - 1 \in 1..(Len(s) - 1) /\ Tail(s)[k - 1] = c
      BY <3>1, <2>1, <1>1, <1>2
    <3> QED BY <3>2, <1>2 DEF Has
  <2>2. ASSUME Has(Tail(s), c) PROVE Has(s, c)
    <3>1. PICK k \in 1..(Len(s) - 1) : Tail(s)[k] = c
      BY <2>2, <1>2 DEF Has
    <3>2. k + 1 \in 1..Len(s) /\ s[k + 1] = c
      BY <3>1, <1>1, <1>2
    <3> QED BY <3>2, <1>2 DEF Has
  <2>3. ASSUME c = Head(s) PROVE Has(s, c)
    BY <2>3, <1>1, <1>2 DEF Has
  <2> QED BY <2>1, <2>2, <2>3
<1> QED BY <1>1, <1>3

\* A candidate at the end of a sequence.
LEMMA AtTheEnd ==
  ASSUME NEW S, NEW s \in Seq(S), NEW d \in S
  PROVE  /\ Append(s, d) \in Seq(S)
         /\ \A c : Has(Append(s, d), c) <=> (Has(s, c) \/ c = d)
<1>1. /\ Len(s) \in Nat /\ Append(s, d) \in Seq(S)
      /\ DOMAIN s = 1..Len(s) /\ DOMAIN Append(s, d) = 1..(Len(s) + 1)
      /\ Append(s, d)[Len(s) + 1] = d
      /\ \A k \in 1..Len(s) : Append(s, d)[k] = s[k]
  OBVIOUS
<1>2. ASSUME NEW c PROVE Has(Append(s, d), c) <=> (Has(s, c) \/ c = d)
  <2>1. ASSUME Has(Append(s, d), c), c # d PROVE Has(s, c)
    BY <2>1, <1>1 DEF Has
  <2>2. ASSUME Has(s, c) PROVE Has(Append(s, d), c)
    BY <2>2, <1>1 DEF Has
  <2>3. Has(Append(s, d), d)
    BY <1>1 DEF Has
  <2> QED BY <2>1, <2>2, <2>3
<1> QED BY <1>1, <1>2

\* An empty sequence has no candidate.
LEMMA NothingInEmpty == \A c : ~Has(<<>>, c)
BY DEF Has

\* The candidates s differ.
Differ(s) == \A j, k \in DOMAIN s : s[j] = s[k] => j = k

\* The first of candidates that differ is not among the others.
LEMMA OthersDiffer ==
  ASSUME NEW S, NEW s \in Seq(S), s # <<>>, Differ(s)
  PROVE  Differ(Tail(s)) /\ ~Has(Tail(s), Head(s))
<1>1. /\ Len(s) \in Nat /\ Len(s) > 0
      /\ DOMAIN s = 1..Len(s) /\ DOMAIN Tail(s) = 1..(Len(s) - 1)
      /\ Head(s) = s[1]
      /\ \A k \in 1..(Len(s) - 1) : Tail(s)[k] = s[k + 1]
  OBVIOUS
<1>2. Differ(Tail(s))
  BY <1>1 DEF Differ
<1>3. ~Has(Tail(s), Head(s))
  BY <1>1 DEF Differ, Has
<1> QED BY <1>2, <1>3

\* A candidate that is not among those that differ can join them.
LEMMA OneMoreDiffers ==
  ASSUME NEW S, NEW s \in Seq(S), Differ(s), NEW d \in S, ~Has(s, d)
  PROVE  Differ(Append(s, d))
<1>1. /\ Len(s) \in Nat
      /\ DOMAIN s = 1..Len(s) /\ DOMAIN Append(s, d) = 1..(Len(s) + 1)
      /\ Append(s, d)[Len(s) + 1] = d
      /\ \A k \in 1..Len(s) : Append(s, d)[k] = s[k]
  OBVIOUS
<1> QED BY <1>1 DEF Differ, Has

-----------------------------------------------------------------------------
(* Constants *)

\* The cases are numbers below that of no case.
LEMMA Ranks == /\ MaxCase \in Nat /\ Budget \in Nat /\ None \in Nat
               /\ Repeats \in Nat /\ Fillings \in Nat
               /\ 0 \in Cases
               /\ \A c \in Cases : c \in Nat /\ c < None
<1>1. MaxCase \in Nat /\ Budget \in Nat /\ Repeats \in Nat /\ Fillings \in Nat
  BY PassesAssumption
<1> QED BY <1>1 DEF None, Cases

\* The passes of a round are numbered, and delete-and-lower is the last.
LEMMA PassNumbers == /\ Len(Kinds) \in Nat /\ DeleteAndLower = Len(Kinds) + 1
                     /\ 1 \in 1..DeleteAndLower
                     /\ DeleteAndLower \in 1..DeleteAndLower
                     /\ Sweeps \subseteq 1..DeleteAndLower
<1>1. Len(Kinds) \in Nat
  <2>1. Kinds \in Seq({"sweep", "probe", "step"})
    BY PassesAssumption
  <2> QED BY <2>1
<1> QED BY <1>1 DEF DeleteAndLower, Sweeps

\* How a run ends is not the mark of a case that did not run.
LEMMA EndingIsARun ==
  ASSUME NEW end \in Ending
  PROVE  /\ end.identity \in Identities \cup {"passed"} /\ end.recorded \in Cases
         /\ end = [identity |-> end.identity, recorded |-> end.recorded]
         /\ end # NotRun
<1>1. /\ end.identity \in Identities \cup {"passed"} /\ end.recorded \in Cases
      /\ end = [identity |-> end.identity, recorded |-> end.recorded]
  BY DEF Ending
<1>2. "not run" \notin Identities
  BY PassesAssumption
<1>3. end.identity # "not run" /\ NotRun.identity = "not run"
  BY <1>1, <1>2 DEF NotRun
<1> QED BY <1>1, <1>3

\* An identity of a failure is not that of a case that did not run.
LEMMA NotRunFailsNot == \A i \in Identities : NotRun.identity # i
<1>1. "not run" \notin Identities
  BY PassesAssumption
<1> QED BY <1>1 DEF NotRun

-----------------------------------------------------------------------------
(* The memo and the best cases *)

\* Keeping a run keeps the types and the least cases, and fills one entry.
LEMMA KeepIsSound ==
  ASSUME TypeOK, BestIsTheLeast, NEW case \in Cases, sizes[case] = NotRun,
         NEW end \in Ending, Keep(case, end)
  PROVE  /\ failures' \in [Identities -> Cases \cup {None}]
         /\ sizes' \in [Cases -> Ending \cup {NotRun}]
         /\ \A i \in Identities : failures'[i] <= failures[i]
         /\ sizes'[case] # NotRun
         /\ \A c \in Cases : c # case => sizes'[c] = sizes[c]
         /\ BestIsTheLeast'
<1>1. /\ sizes' = [sizes EXCEPT ![case] = end]
      /\ sizes \in [Cases -> Ending \cup {NotRun}]
      /\ failures \in [Identities -> Cases \cup {None}]
  BY DEF Keep, TypeOK
<1>2. /\ end.identity \in Identities \cup {"passed"} /\ end.recorded \in Cases
      /\ end = [identity |-> end.identity, recorded |-> end.recorded]
      /\ end # NotRun
  BY EndingIsARun
<1>3. /\ sizes' \in [Cases -> Ending \cup {NotRun}] /\ sizes'[case] = end
      /\ \A c \in Cases : c # case => sizes'[c] = sizes[c]
  BY <1>1
<1>4. \A c \in Cases : c \in Nat /\ c < None
  BY Ranks
<1>5. None \in Nat
  BY Ranks
<1>6. /\ failures' \in [Identities -> Cases \cup {None}]
      /\ \A i \in Identities : failures'[i] <= failures[i]
      /\ end.identity \in Identities =>
           /\ failures'[end.identity] <= end.recorded
           /\ failures'[end.identity] \in {failures[end.identity], end.recorded}
      /\ \A i \in Identities : i # end.identity => failures'[i] = failures[i]
  BY <1>1, <1>2, <1>4, <1>5 DEF Keep, Recorded
<1>7. BestIsTheLeast'
  <2> SUFFICES ASSUME NEW i \in Identities
               PROVE  /\ failures'[i] = None
                           \/ \E c \in Cases :
                                sizes'[c] = [identity |-> i, recorded |-> failures'[i]]
                      /\ \A c \in Cases : sizes'[c].identity = i =>
                           failures'[i] <= sizes'[c].recorded
    BY DEF BestIsTheLeast
  <2>1. /\ failures[i] = None
             \/ \E c \in Cases : sizes[c] = [identity |-> i, recorded |-> failures[i]]
        /\ \A c \in Cases : sizes[c].identity = i => failures[i] <= sizes[c].recorded
    BY DEF BestIsTheLeast
  <2>2. failures'[i] = None
          \/ \E c \in Cases : sizes'[c] = [identity |-> i, recorded |-> failures'[i]]
    <3>1. CASE failures'[i] = failures[i] /\ failures[i] # None
      <4>1. PICK c \in Cases : sizes[c] = [identity |-> i, recorded |-> failures[i]]
        BY <3>1, <2>1
      <4>2. c # case
        <5>1. sizes[c].identity = i
          BY <4>1
        <5> QED BY <5>1, NotRunFailsNot
      <4> QED BY <3>1, <4>1, <4>2, <1>3
    <3>2. CASE failures'[i] = failures[i] /\ failures[i] = None
      BY <3>2
    <3>3. CASE failures'[i] # failures[i]
      BY <3>3, <1>2, <1>3, <1>6
    <3> QED BY <3>1, <3>2, <3>3
  <2>3. ASSUME NEW c \in Cases, sizes'[c].identity = i
        PROVE  failures'[i] <= sizes'[c].recorded
    <3>1. CASE c = case
      BY <3>1, <2>3, <1>3, <1>6
    <3>2. CASE c # case
      <4>1. sizes[c].identity = i /\ sizes'[c] = sizes[c]
        BY <3>2, <2>3, <1>3
      <4>2. failures[i] <= sizes[c].recorded
        BY <4>1, <2>1
      <4>3. sizes[c].recorded \in Nat
        <5>1. sizes[c] \in Ending
          BY <1>1, <4>1, NotRunFailsNot
        <5> QED BY <5>1, <1>4, EndingIsARun
      <4>4. failures[i] \in Nat /\ failures'[i] \in Nat /\ failures'[i] <= failures[i]
        BY <1>1, <1>4, <1>5, <1>6
      <4> QED BY <4>1, <4>2, <4>3, <4>4
    <3> QED BY <3>1, <3>2
  <2> QED BY <2>2, <2>3
<1> QED BY <1>2, <1>3, <1>6, <1>7

-----------------------------------------------------------------------------
(* The inductive invariant *)

\* No candidate of a sweep is smaller than the best case and did not run.
Swept(p) == \A c \in Cases : Has(Candidates[p][Best], c) => ~IsNew(c)

\* The candidates of a batch are new and differ.
BatchIsNew ==
  stage = "pass" =>
    /\ \A c \in Cases : Has(batch, c) => IsNew(c)
    /\ Differ(batch)

\* The sweeps before a pass of a quiet round have nothing left, and what the
\* sweep of the pass has left is in its batch or its queue.
SweepsAreOffered ==
  stage = "pass" =>
    /\ ~improved => \A p \in Sweeps : p < pass => Swept(p)
    /\ pass \in Sweeps =>
         \A c \in Cases : Has(Candidates[pass][Best], c) =>
           ~IsNew(c) \/ Has(batch, c) \/ Has(queue, c)

\* A step that deletions may follow ran, or it is about to run.
StepRuns ==
  stage = "pass" /\ step # None =>
    \/ sizes[step] # NotRun
    \/ IsNew(step) /\ (Has(batch, step) \/ Has(queue, step))

IInv == /\ TypeOK /\ BestIsTheLeast /\ BudgetHolds
        /\ BatchIsNew /\ SweepsAreOffered /\ StepRuns /\ NothingSmallerIsLeft

-----------------------------------------------------------------------------
(* Steps outside the passes *)

\* After the passes only the types, the memo and the budget are left to hold.
LEMMA OutsideThePasses ==
  ASSUME TypeOK', BestIsTheLeast', BudgetHolds', stage' \notin {"pick", "pass"}
  PROVE  IInv'
BY DEF IInv, BatchIsNew, SweepsAreOffered, StepRuns, NothingSmallerIsLeft

\* A step that finds nothing keeps the least cases.
LEMMA MemoIsUnchanged ==
  ASSUME BestIsTheLeast, UNCHANGED found
  PROVE  BestIsTheLeast'
BY DEF BestIsTheLeast, found

\* The explanation begins, ends, and goes from draw to draw.
LEMMA ExplainingKeepsIt ==
  ASSUME IInv, Idle,
         StartExplaining \/ NextDraw \/ EndDraw \/ Nearest \/ EndExplaining
  PROVE  IInv'
<1>1. TypeOK /\ BestIsTheLeast /\ BudgetHolds /\ ~flying /\ UNCHANGED flight
  BY DEF IInv, Idle
<1>2. UNCHANGED <<found, late, walk>>
  BY DEF StartExplaining, NextDraw, EndDraw, Nearest, EndExplaining, spent
<1>3. runs' \in 0..Budget
  <2>1. runs \in 0..Budget /\ Budget \in Nat
    BY <1>1, Ranks DEF TypeOK
  <2>2. CASE Nearest
    <3>1. UNCHANGED runs \/ \E n \in Costs(Budget - runs) : runs' = runs + n
      BY <2>2 DEF Nearest
    <3>2. \A n \in Costs(Budget - runs) : n \in Nat /\ n <= Budget - runs
      BY Ranks DEF Costs
    <3> QED BY <2>1, <3>1, <3>2
  <2>3. CASE StartExplaining \/ NextDraw \/ EndDraw \/ EndExplaining
    BY <2>1, <2>3 DEF StartExplaining, NextDraw, EndDraw, EndExplaining, spent
  <2> QED BY <2>2, <2>3
<1>4. queue' \in Seq(Cases)
  <2>1. ASSUME NEW n \in 0..Fillings PROVE [i \in 1..n |-> 0] \in Seq(Cases)
    <3>1. 0 \in Cases /\ n \in Nat
      BY Ranks
    <3> QED BY <3>1
  <2>2. CASE NextDraw
    BY <2>1, <2>2, <1>1 DEF NextDraw, TypeOK
  <2>3. CASE StartExplaining \/ EndDraw \/ Nearest \/ EndExplaining
    BY <2>3, <1>1 DEF StartExplaining, EndDraw, Nearest, EndExplaining, TypeOK
  <2> QED BY <2>2, <2>3
<1>5. /\ same' \in BOOLEAN
      /\ stage' \in {"explain", "ended", "fillings", "raised"}
  BY <1>1 DEF TypeOK, StartExplaining, NextDraw, EndDraw, Nearest,
              EndExplaining, Explain, told
<1>6. TypeOK'
  BY <1>1, <1>2, <1>3, <1>4, <1>5 DEF TypeOK, found, walk, flight
<1>7. BestIsTheLeast'
  BY <1>1, <1>2, MemoIsUnchanged
<1>8. BudgetHolds'
  BY <1>1, <1>3, Ranks DEF BudgetHolds, flight
<1> QED BY <1>5, <1>6, <1>7, <1>8, OutsideThePasses

\* The budget or the time is spent.
LEMMA ExhaustKeepsIt ==
  ASSUME IInv, Exhaust, batch' = <<>>, UNCHANGED room, flying' \in {flying, FALSE}
  PROVE  IInv'
<1>1. /\ TypeOK /\ BestIsTheLeast /\ BudgetHolds
      /\ UNCHANGED <<found, runs, walk>>
      /\ queue' = <<>> /\ late' \in {late, TRUE}
      /\ stage' \in {"shrunk", "explain"} /\ UNCHANGED same
  BY DEF IInv, Exhaust, Explain, told
<1>2. TypeOK'
  <2>1. late' \in BOOLEAN
    BY <1>1, Zenon DEF TypeOK
  <2>2. flying' \in BOOLEAN
    BY <1>1, Zenon DEF TypeOK
  <2>3. <<>> \in Seq(Cases)
    OBVIOUS
  <2> QED BY <1>1, <2>1, <2>2, <2>3 DEF TypeOK, found, walk
<1>3. BestIsTheLeast'
  BY <1>1, MemoIsUnchanged
<1>4. BudgetHolds'
  <2>1. flying' => flying
    BY Zenon
  <2>2. UNCHANGED <<runs, room>>
    BY <1>1
  <2> QED BY <1>1, <2>1, <2>2 DEF BudgetHolds
<1> QED BY <1>1, <1>2, <1>3, <1>4, OutsideThePasses

\* An error unwinds the shrink.
LEMMA UnwindKeepsIt ==
  ASSUME IInv, Unwind
  PROVE  IInv'
<1>1. /\ TypeOK /\ BestIsTheLeast /\ BudgetHolds
      /\ UNCHANGED <<found, runs, walk, room, same>>
      /\ queue' = <<>> /\ late' \in {late, TRUE} /\ stage' = "raised"
      /\ batch' = <<>> /\ flying' = FALSE
  BY DEF IInv, Unwind, Raise, told
<1>2. TypeOK'
  <2>1. late' \in BOOLEAN
    BY <1>1, Zenon DEF TypeOK
  <2>2. flying' \in BOOLEAN
    BY <1>1, Zenon DEF TypeOK
  <2>3. <<>> \in Seq(Cases)
    OBVIOUS
  <2> QED BY <1>1, <2>1, <2>2, <2>3 DEF TypeOK, found, walk
<1>3. BestIsTheLeast'
  BY <1>1, MemoIsUnchanged
<1>4. BudgetHolds'
  BY <1>1 DEF BudgetHolds
<1> QED BY <1>1, <1>2, <1>3, <1>4, OutsideThePasses

\* A run that is paid for stays in the room, and the room in the budget.
LEMMA PayHolds ==
  ASSUME TypeOK, BudgetHolds, flying, room > 0, Pay, UNCHANGED flying
  PROVE  runs' \in 0..Budget /\ room' \in Nat /\ BudgetHolds' /\ UNCHANGED late
<1>1. /\ runs \in 0..Budget /\ Budget \in Nat /\ room \in Nat
      /\ room = Budget - runs
  BY Ranks DEF TypeOK, BudgetHolds
<1>2. PICK n \in Costs(room) : runs' = runs + n /\ room' = room - n /\ UNCHANGED late
  BY DEF Pay
<1>3. n \in Nat /\ n <= room
  BY <1>1, <1>2, Ranks DEF Costs
<1> QED BY <1>1, <1>2, <1>3 DEF BudgetHolds

\* The run of a filling is taken.
LEMMA TakeFillingKeepsIt ==
  ASSUME IInv, TakeFilling
  PROVE  IInv'
<1>1. /\ TypeOK /\ BestIsTheLeast /\ BudgetHolds
      /\ batch \in Seq(Cases) /\ batch # <<>>
      /\ UNCHANGED <<found, walk, flying>>
  BY DEF IInv, TakeFilling, TypeOK
<1>2. runs' \in 0..Budget /\ room' \in Nat /\ BudgetHolds' /\ UNCHANGED late
  BY <1>1, PayHolds DEF TakeFilling
<1>3. /\ batch' \in Seq(Cases) /\ queue' \in Seq(Cases)
      /\ same' \in BOOLEAN /\ stage' \in {"fillings", "nearest"}
  <2>1. Tail(batch) \in Seq(Cases) /\ <<>> \in Seq(Cases)
    BY <1>1, HeadAndTail
  <2>2. queue \in Seq(Cases) /\ stage = "fillings"
    BY <1>1 DEF TakeFilling, TypeOK
  <2>3. same' \in BOOLEAN
    BY <1>1, Zenon DEF TakeFilling, TypeOK
  <2> QED BY <2>1, <2>2, <2>3 DEF TakeFilling
<1>4. TypeOK'
  BY <1>1, <1>2, <1>3 DEF TypeOK, found, walk
<1> QED BY <1>1, <1>2, <1>3, <1>4, MemoIsUnchanged, OutsideThePasses

-----------------------------------------------------------------------------
(* Steps between two offers *)

\* What the invariant says of a pass with no candidate left to take.
LEMMA NothingLeft ==
  ASSUME IInv, batch = <<>>, queue = <<>>, stage = "pass"
  PROVE  /\ pass \in Sweeps => Swept(pass)
         /\ step # None => sizes[step] # NotRun
<1>1. \A c : ~Has(batch, c) /\ ~Has(queue, c)
  BY NothingInEmpty
<1> QED BY <1>1 DEF IInv, SweepsAreOffered, StepRuns, Swept

\* A pass that begins offers its sweep and has no batch.
LEMMA BeginKeepsIt ==
  ASSUME IInv, NEW p \in 1..DeleteAndLower, NEW i \in Identities,
         failures[i] \in Cases, Begin(p, failures[i]), target' = i,
         stage' = "pass", improved' \in BOOLEAN,
         batch = <<>>, ~flying,
         UNCHANGED <<found, spent, told, done, flight>>,
         ~improved' => \A q \in Sweeps : q < p => i = target /\ Swept(q)
  PROVE  IInv'
<1>1. /\ TypeOK /\ BestIsTheLeast /\ BudgetHolds
      /\ pass' = p /\ calls' = 0 /\ step' = None /\ queue' = Offered(p, failures[i])
      /\ failures' = failures /\ sizes' = sizes
  BY DEF IInv, Begin, found
<1>2. queue' \in Seq(Cases)
  <2>1. Candidates \in [Sweeps -> [Cases -> Seq(Cases)]]
    BY PassesAssumption
  <2> QED BY <1>1, <2>1 DEF Offered
<1>3. TypeOK'
  <2>1. Calls \in Nat
    BY PassesAssumption
  <2> QED BY <1>1, <1>2, <2>1 DEF TypeOK, spent, told, flight
<1>4. BestIsTheLeast' /\ BudgetHolds'
  BY <1>1, MemoIsUnchanged DEF BudgetHolds, spent, flight
<1>5. batch' = <<>> /\ Differ(<<>>) /\ \A c : ~Has(<<>>, c)
  BY NothingInEmpty DEF flight, Differ
<1>6. BatchIsNew'
  BY <1>5 DEF BatchIsNew
<1>7. SweepsAreOffered'
  <2>1. ASSUME ~improved', NEW q \in Sweeps, q < p PROVE Swept(q)'
    <3>1. Swept(q) /\ target' = target
      BY <2>1
    <3> QED BY <3>1, <1>1 DEF Swept, IsNew, Best
  <2>2. ASSUME p \in Sweeps PROVE queue' = Candidates[p][Best']
    BY <1>1, <2>2 DEF Offered, Best
  <2> QED BY <1>1, <2>1, <2>2 DEF SweepsAreOffered
<1>8. StepRuns' /\ NothingSmallerIsLeft'
  BY <1>1 DEF StepRuns, NothingSmallerIsLeft, None
<1> QED BY <1>3, <1>4, <1>6, <1>7, <1>8 DEF IInv

\* The next failure is picked.
LEMMA PickKeepsIt ==
  ASSUME IInv, Idle, Pick
  PROVE  IInv'
<1>1. /\ TypeOK /\ BestIsTheLeast /\ BudgetHolds
      /\ ~flying /\ batch = <<>> /\ UNCHANGED flight /\ UNCHANGED <<found, spent, told>>
  BY DEF IInv, Idle, Pick
<1>2. CASE Pending = {}
  <2>1. stage' = "shrunk" /\ UNCHANGED <<walk, queue>>
    BY <1>2 DEF Pick
  <2>2. TypeOK'
    BY <1>1, <2>1 DEF TypeOK, found, spent, told, walk, flight
  <2>3. BestIsTheLeast' /\ BudgetHolds'
    BY <1>1, MemoIsUnchanged DEF BudgetHolds, spent, flight
  <2> QED BY <2>1, <2>2, <2>3, OutsideThePasses
<1>3. CASE Pending # {}
  <2>1. PICK i \in Pending :
          /\ target' = i /\ Begin(1, failures[i])
          /\ improved' = FALSE /\ stage' = "pass" /\ UNCHANGED done
    BY <1>3 DEF Pick
  <2>2. i \in Identities /\ failures[i] \in Cases
    BY <1>1 DEF Pending, TypeOK
  <2>3. \A q \in Sweeps : ~(q < 1)
    BY PassNumbers
  <2> QED BY <1>1, <2>1, <2>2, <2>3, PassNumbers, BeginKeepsIt
<1> QED BY <1>2, <1>3

\* A pass, a round or a failure is over.
LEMMA EndPassKeepsIt ==
  ASSUME IInv, Idle, EndPass
  PROVE  IInv'
<1>1. /\ TypeOK /\ BestIsTheLeast /\ BudgetHolds /\ SweepsAreOffered
      /\ ~flying /\ batch = <<>> /\ queue = <<>> /\ UNCHANGED flight
      /\ stage = "pass" /\ UNCHANGED <<target, found, spent, told>>
  BY DEF IInv, Idle, EndPass
<1>2. /\ target \in Identities /\ failures[target] \in Cases /\ Best = failures[target]
      /\ pass \in 1..DeleteAndLower /\ improved \in BOOLEAN
  BY <1>1 DEF TypeOK, Best
<1>3. ~improved => \A q \in Sweeps : q < pass + 1 => Swept(q)
  <2>1. \A q \in Sweeps : q < pass + 1 => q < pass \/ q = pass
    BY <1>2, PassNumbers
  <2> QED BY <1>1, <2>1, NothingLeft DEF SweepsAreOffered
<1>4. \A q \in Sweeps : ~(q < 1)
  BY PassNumbers
<1>5. CASE pass < Len(Kinds) /\ Begin(pass + 1, Best) /\ UNCHANGED <<improved, done, stage>>
  <2>1. pass + 1 \in 1..DeleteAndLower
    BY <1>2, <1>5, PassNumbers
  <2> QED BY <1>1, <1>2, <1>3, <1>5, <2>1, BeginKeepsIt
<1>6. CASE pass = Len(Kinds) /\ NextRound /\ UNCHANGED <<done, stage>>
  <2>1. CASE improved
    BY <1>1, <1>2, <1>4, <1>6, <2>1, PassNumbers, BeginKeepsIt DEF NextRound
  <2>2. CASE ~improved
    <3>1. Begin(DeleteAndLower, Best) /\ UNCHANGED improved
      BY <1>6, <2>2 DEF NextRound
    <3>2. \A q \in Sweeps : q < DeleteAndLower => Swept(q)
      BY <1>3, <1>6, <2>2, PassNumbers
    <3> QED BY <1>1, <1>2, <1>6, <3>1, <3>2, PassNumbers, BeginKeepsIt
  <2> QED BY <2>1, <2>2
<1>7. CASE /\ pass = DeleteAndLower /\ improved
           /\ Begin(1, Best) /\ improved' = FALSE /\ UNCHANGED <<done, stage>>
  BY <1>1, <1>2, <1>4, <1>7, PassNumbers, BeginKeepsIt
<1>8. CASE /\ pass = DeleteAndLower /\ ~improved
           /\ done' = done \cup {target} /\ stage' = "pick"
           /\ UNCHANGED <<pass, improved, calls, step, queue>>
  <2>1. TypeOK'
    BY <1>1, <1>8 DEF TypeOK, found, spent, told, flight
  <2>2. BestIsTheLeast' /\ BudgetHolds'
    BY <1>1, MemoIsUnchanged DEF BudgetHolds, spent, flight
  <2>3. NothingSmallerIsLeft'
    <3>1. \A q \in Sweeps : Swept(q)
      BY <1>3, <1>8, PassNumbers
    <3> QED BY <1>1, <3>1 DEF NothingSmallerIsLeft, Swept, IsNew, Best, found
  <2> QED BY <1>8, <2>1, <2>2, <2>3 DEF IInv, BatchIsNew, SweepsAreOffered, StepRuns
<1> QED BY <1>5, <1>6, <1>7, <1>8 DEF EndPass

\* A probe offers candidates, a step is taken, or deletions follow it.
LEMMA OfferingKeepsIt ==
  ASSUME IInv, Idle, Probe \/ Step \/ AfterStep
  PROVE  IInv'
<1>1. /\ TypeOK /\ BestIsTheLeast /\ BudgetHolds
      /\ ~flying /\ batch = <<>> /\ queue = <<>> /\ UNCHANGED flight
      /\ stage = "pass" /\ pass \notin Sweeps
      /\ UNCHANGED <<found, spent, told, stage, target, done, pass, improved>>
  BY DEF IInv, Idle, Probe, Step, AfterStep, IsIn
<1>2. Probes \subseteq Seq(Cases) /\ Deletions \subseteq Seq(Cases) /\ Calls \in Nat
  BY PassesAssumption
<1>3. /\ queue' \in Seq(Cases) /\ calls' \in 0..Calls /\ step' \in Cases \cup {None}
      /\ step' \in Cases /\ step' # step => queue' = <<step'>> /\ step' < Best
  <2>1. CASE Probe
    BY <1>1, <1>2, <2>1 DEF Probe, TypeOK
  <2>2. CASE Step
    <3>1. PICK s \in Cases : s < Best /\ step' = s /\ queue' = <<s>>
      BY <2>2 DEF Step
    <3>2. calls' \in 0..Calls
      BY <1>1, <1>2, <2>2 DEF Step, TypeOK
    <3> QED BY <3>1, <3>2
  <2>3. CASE AfterStep
    <3>1. step' = None /\ UNCHANGED calls /\ (UNCHANGED queue \/ queue' \in Deletions)
      BY <2>3 DEF AfterStep
    <3>2. None \notin Cases
      BY Ranks
    <3> QED BY <1>1, <1>2, <3>1, <3>2 DEF TypeOK
  <2> QED BY <2>1, <2>2, <2>3
<1>4. TypeOK'
  BY <1>1, <1>3 DEF TypeOK, found, spent, told, flight
<1>5. BestIsTheLeast' /\ BudgetHolds'
  BY <1>1, MemoIsUnchanged DEF BudgetHolds, spent, flight
<1>6. BatchIsNew' /\ NothingSmallerIsLeft'
  <2>1. batch' = <<>> /\ Differ(<<>>) /\ \A c : ~Has(<<>>, c)
    BY <1>1, NothingInEmpty DEF flight, Differ
  <2> QED BY <1>1, <2>1 DEF BatchIsNew, NothingSmallerIsLeft
<1>7. SweepsAreOffered'
  BY <1>1 DEF IInv, SweepsAreOffered, Swept, IsNew, Best, found
<1>8. StepRuns'
  <2>1. CASE step' = None
    BY <2>1 DEF StepRuns
  <2>2. CASE step' # None /\ UNCHANGED step
    BY <1>1, <2>2, NothingLeft DEF StepRuns, found
  <2>3. CASE step' # None /\ step' # step
    <3>1. step' \in Cases /\ queue' = <<step'>> /\ step' < Best
      BY <1>3, <2>3
    <3>2. Has(queue', step')
      BY <3>1 DEF Has
    <3>3. sizes'[step'] # NotRun \/ (step' < failures'[target'] /\ sizes'[step'] = NotRun)
      BY <1>1, <3>1 DEF Best, found
    <3> QED BY <3>2, <3>3 DEF StepRuns, IsNew, Best
  <2> QED BY <2>1, <2>2, <2>3
<1> QED BY <1>4, <1>5, <1>6, <1>7, <1>8 DEF IInv

-----------------------------------------------------------------------------
(* Steps of a batch *)

\* A step that changes the room, the flight and the time alone.
LEMMA QuietKeepsIt ==
  ASSUME IInv, UNCHANGED <<found, runs, walk, queue, told, stage, batch>>,
         TypeOK', BudgetHolds'
  PROVE  IInv'
<1>1. BestIsTheLeast' /\ Best' = Best /\ UNCHANGED <<sizes, failures>>
  BY MemoIsUnchanged DEF IInv, Best, found, walk
<1>2. BatchIsNew' /\ NothingSmallerIsLeft'
  BY <1>1 DEF IInv, BatchIsNew, NothingSmallerIsLeft, IsNew, walk
<1>3. SweepsAreOffered' /\ StepRuns'
  BY <1>1 DEF IInv, SweepsAreOffered, Swept, StepRuns, IsNew, walk
<1> QED BY <1>1, <1>2, <1>3 DEF IInv

\* The batch runs or has landed, or the time is spent.
LEMMA FlightKeepsIt ==
  ASSUME IInv, Fly \/ Land \/ Late
  PROVE  IInv'
<1>1. /\ TypeOK /\ BudgetHolds
      /\ UNCHANGED <<found, runs, walk, queue, told, stage, batch>>
  BY DEF IInv, Fly, Land, Late, Expire, spent, flight
<1>2. /\ room' \in Nat /\ flying' \in BOOLEAN /\ late' \in BOOLEAN
      /\ flying' => room' = Budget - runs
  <2>1. runs \in 0..Budget /\ Budget \in Nat
    BY <1>1, Ranks DEF TypeOK
  <2>2. CASE Fly
    BY <1>1, <2>1, <2>2 DEF Fly, TypeOK, spent
  <2>3. CASE Land
    BY <1>1, <2>3 DEF Land, TypeOK, spent
  <2>4. CASE Late
    BY <1>1, <2>4 DEF Late, Expire, TypeOK, BudgetHolds, flight
  <2> QED BY <2>2, <2>3, <2>4
<1>3. TypeOK'
  BY <1>1, <1>2 DEF TypeOK, found, walk, told
<1>4. BudgetHolds'
  BY <1>1, <1>2 DEF BudgetHolds
<1> QED BY <1>1, <1>3, <1>4, QuietKeepsIt

\* A candidate joins the batch, or it is left out for a reason that stays.
LEMMA OfferKeepsIt ==
  ASSUME IInv, Offer
  PROVE  IInv'
<1> DEFINE case == Head(queue)
<1>1. /\ TypeOK /\ BestIsTheLeast /\ BudgetHolds
      /\ queue \in Seq(Cases) /\ queue # <<>> /\ batch \in Seq(Cases) /\ ~flying
      /\ queue' = Tail(queue)
      /\ UNCHANGED <<found, spent, walk, told, stage, room, flying>>
  BY DEF IInv, Offer, TypeOK
<1>2. /\ case \in Cases /\ Tail(queue) \in Seq(Cases)
      /\ \A c : Has(queue, c) <=> (c = case \/ Has(Tail(queue), c))
  BY <1>1, HeadAndTail
<1>3. /\ Append(batch, case) \in Seq(Cases)
      /\ \A c : Has(Append(batch, case), c) <=> (Has(batch, c) \/ c = case)
  BY <1>1, <1>2, AtTheEnd
<1>4. /\ stage = "pass" /\ Fresh(case) => batch' = Append(batch, case)
      /\ stage = "pass" /\ ~Fresh(case) => batch' = batch
      /\ batch' \in Seq(Cases)
  BY <1>1, <1>3 DEF Offer
<1>5. TypeOK'
  BY <1>1, <1>2, <1>4 DEF TypeOK, found, spent, walk, told
<1>6. BestIsTheLeast' /\ BudgetHolds'
  BY <1>1, MemoIsUnchanged DEF BudgetHolds, spent
<1>7. /\ Best' = Best /\ \A c : IsNew(c)' <=> IsNew(c)
      /\ UNCHANGED <<sizes, stage, pass, improved, step, target, done>>
  BY <1>1 DEF Best, IsNew, found, walk
<1>8. stage = "pass" =>
        \A c \in Cases : ~IsNew(c) \/ Has(batch, c) \/ Has(queue, c) =>
                         ~IsNew(c) \/ Has(batch', c) \/ Has(queue', c)
  BY <1>1, <1>2, <1>3, <1>4 DEF Fresh
<1>9. BatchIsNew'
  <2> SUFFICES ASSUME stage = "pass"
               PROVE  (\A c \in Cases : Has(batch', c) => IsNew(c)) /\ Differ(batch')
    BY <1>7 DEF BatchIsNew
  <2>1. (\A c \in Cases : Has(batch, c) => IsNew(c)) /\ Differ(batch)
    BY DEF IInv, BatchIsNew
  <2>2. CASE Fresh(case)
    BY <1>1, <1>2, <1>3, <1>4, <2>1, <2>2, OneMoreDiffers DEF Fresh
  <2>3. CASE ~Fresh(case)
    BY <1>4, <2>1, <2>3
  <2> QED BY <2>2, <2>3
<1>10. SweepsAreOffered'
  BY <1>7, <1>8 DEF IInv, SweepsAreOffered, Swept
<1>11. StepRuns'
  <2>1. step \in Cases \cup {None}
    BY <1>1 DEF TypeOK
  <2> QED BY <1>7, <1>8, <2>1 DEF IInv, StepRuns
<1>12. NothingSmallerIsLeft'
  BY <1>7 DEF IInv, NothingSmallerIsLeft
<1> QED BY <1>5, <1>6, <1>9, <1>10, <1>11, <1>12 DEF IInv

\* The run of the first candidate is taken.
LEMMA TakeKeepsIt ==
  ASSUME IInv, Take
  PROVE  IInv' /\ \A i \in Identities : failures'[i] <= failures[i]
<1> DEFINE case == Head(batch)
<1>1. /\ TypeOK /\ BestIsTheLeast /\ BudgetHolds /\ flying /\ room > 0 /\ Pay
      /\ batch \in Seq(Cases) /\ batch # <<>> /\ queue \in Seq(Cases)
      /\ stage = "pass" /\ UNCHANGED <<told, stage, flying>>
      /\ target \in Identities /\ pass \in 1..DeleteAndLower
  BY DEF IInv, Take, TypeOK
<1>2. runs' \in 0..Budget /\ room' \in Nat /\ BudgetHolds' /\ UNCHANGED late
  BY <1>1, PayHolds
<1>3. /\ case \in Cases /\ Tail(batch) \in Seq(Cases)
      /\ \A c : Has(batch, c) <=> (c = case \/ Has(Tail(batch), c))
  BY <1>1, HeadAndTail
<1>4. /\ \A c \in Cases : Has(batch, c) => IsNew(c)
      /\ Differ(batch) /\ Differ(Tail(batch)) /\ ~Has(Tail(batch), case)
  BY <1>1, OthersDiffer DEF IInv, BatchIsNew
<1>5. PICK end \in Ending : Keep(case, end)
  BY DEF Take, KeepFirst
<1>6. sizes[case] = NotRun
  BY <1>3, <1>4 DEF IsNew
<1>7. /\ failures' \in [Identities -> Cases \cup {None}]
      /\ sizes' \in [Cases -> Ending \cup {NotRun}]
      /\ \A i \in Identities : failures'[i] <= failures[i]
      /\ sizes'[case] # NotRun
      /\ \A c \in Cases : c # case => sizes'[c] = sizes[c]
      /\ BestIsTheLeast'
  BY <1>1, <1>3, <1>5, <1>6, KeepIsSound
<1>8. failures'[target] \in Cases
  <2>1. failures[target] \in Cases /\ failures'[target] \in Cases \cup {None}
    BY <1>1, <1>7 DEF TypeOK
  <2> QED BY <1>1, <1>7, <2>1, Ranks
<1>9. CASE NewBest < Best
  <2>1. /\ improved' = TRUE /\ step' = None /\ queue' = Offered(pass, NewBest)
        /\ batch' = <<>> /\ UNCHANGED <<target, done, pass, calls>>
    BY <1>9 DEF Take, Accepted
  <2>2. queue' \in Seq(Cases)
    <3>1. Candidates \in [Sweeps -> [Cases -> Seq(Cases)]]
      BY PassesAssumption
    <3> QED BY <1>8, <2>1, <3>1 DEF Offered, NewBest
  <2>3. TypeOK'
    BY <1>1, <1>2, <1>7, <1>8, <2>1, <2>2 DEF TypeOK, told
  <2>4. BatchIsNew' /\ StepRuns' /\ NothingSmallerIsLeft'
    <3>1. Differ(<<>>) /\ \A c : ~Has(<<>>, c)
      BY NothingInEmpty DEF Differ
    <3> QED BY <1>1, <2>1, <3>1 DEF BatchIsNew, StepRuns, NothingSmallerIsLeft, None
  <2>5. SweepsAreOffered'
    <3>1. pass \in Sweeps => queue' = Candidates[pass][failures'[target]]
      BY <2>1 DEF Offered, NewBest
    <3> QED BY <2>1, <3>1 DEF SweepsAreOffered, Best
  <2> QED BY <1>2, <1>7, <2>3, <2>4, <2>5 DEF IInv
<1>10. CASE ~(NewBest < Best)
  <2>1. batch' = Tail(batch) /\ UNCHANGED <<walk, queue>>
    BY <1>10 DEF Take
  <2>2. failures'[target] = failures[target] /\ Best' = Best
    <3>1. failures[target] \in Nat /\ failures'[target] \in Nat
      BY <1>1, <1>8, Ranks DEF TypeOK
    <3>2. failures'[target] <= failures[target] /\ ~(failures'[target] < failures[target])
      BY <1>1, <1>7, <1>10 DEF NewBest, Best
    <3> QED BY <2>1, <3>1, <3>2 DEF Best, walk
  <2>3. \A c \in Cases : IsNew(c)' <=> IsNew(c) /\ c # case
    BY <1>3, <1>6, <1>7, <2>2 DEF IsNew
  <2>4. TypeOK'
    BY <1>1, <1>2, <1>3, <1>7, <1>8, <2>1 DEF TypeOK, told, walk
  <2>5. BatchIsNew' /\ NothingSmallerIsLeft'
    BY <1>1, <1>3, <1>4, <2>1, <2>3 DEF BatchIsNew, NothingSmallerIsLeft
  <2>6. \A c \in Cases : ~IsNew(c) \/ Has(batch, c) \/ Has(queue, c) =>
                         ~IsNew(c)' \/ Has(batch', c) \/ Has(queue', c)
    BY <1>3, <2>1, <2>3
  <2>7. SweepsAreOffered'
    BY <1>1, <2>1, <2>2, <2>3, <2>6 DEF IInv, SweepsAreOffered, Swept, walk
  <2>8. StepRuns'
    <3>1. step \in Cases \cup {None} /\ step' = step
      BY <1>1, <2>1 DEF TypeOK, walk
    <3> QED BY <1>1, <1>3, <1>7, <2>1, <2>3, <3>1 DEF IInv, StepRuns
  <2> QED BY <1>2, <1>7, <2>4, <2>5, <2>7, <2>8 DEF IInv
<1> QED BY <1>7, <1>9, <1>10

-----------------------------------------------------------------------------
(* Theorems *)

\* The invariant holds before the first run.
LEMMA InitHolds ==
  ASSUME Init
  PROVE  IInv
<1>1. PICK i \in Identities, c \in Cases :
        /\ target = i
        /\ failures = [j \in Identities |-> IF j = i THEN c ELSE None]
        /\ sizes = [d \in Cases |-> IF d = c THEN [identity |-> i, recorded |-> c]
                                             ELSE NotRun]
  BY DEF Init, InitPasses
<1>2. /\ runs = 0 /\ late = FALSE /\ done = {} /\ pass = 1 /\ improved = FALSE
      /\ calls = 0 /\ step = None /\ queue = <<>> /\ same = FALSE /\ stage = "pick"
      /\ batch = <<>> /\ room = 0 /\ flying = FALSE
  BY DEF Init, InitPasses
<1>3. [identity |-> i, recorded |-> c] \in Ending
  BY DEF Ending
<1>4. TypeOK
  <2>1. Calls \in Nat /\ Budget \in Nat /\ 1 \in 1..DeleteAndLower
    BY PassesAssumption, PassNumbers
  <2>2. /\ failures \in [Identities -> Cases \cup {None}] /\ failures[target] \in Cases
        /\ sizes \in [Cases -> Ending \cup {NotRun}]
    BY <1>1, <1>3
  <2>3. <<>> \in Seq(Cases)
    OBVIOUS
  <2>4. done \subseteq Identities /\ late \in BOOLEAN /\ improved \in BOOLEAN
        /\ same \in BOOLEAN /\ flying \in BOOLEAN
    BY <1>2, Zenon
  <2>5. runs \in 0..Budget /\ calls \in 0..Calls /\ room \in Nat
    BY <1>2, <2>1
  <2> QED BY <1>1, <1>2, <2>1, <2>2, <2>3, <2>4, <2>5 DEF TypeOK
<1>5. BestIsTheLeast
  <2> SUFFICES ASSUME NEW j \in Identities
               PROVE  /\ failures[j] = None
                           \/ \E d \in Cases : sizes[d] = [identity |-> j, recorded |-> failures[j]]
                      /\ \A d \in Cases : sizes[d].identity = j =>
                           failures[j] <= sizes[d].recorded
    BY DEF BestIsTheLeast
  <2>1. failures[j] = None
          \/ \E d \in Cases : sizes[d] = [identity |-> j, recorded |-> failures[j]]
    BY <1>1
  <2>2. ASSUME NEW d \in Cases, sizes[d].identity = j
        PROVE  failures[j] <= sizes[d].recorded
    <3>1. d = c /\ j = i
      BY <1>1, <2>2, NotRunFailsNot
    <3> QED BY <1>1, <3>1, Ranks
  <2> QED BY <2>1, <2>2
<1>6. BudgetHolds
  BY <1>2, Ranks DEF BudgetHolds
<1>7. BatchIsNew /\ SweepsAreOffered /\ StepRuns /\ NothingSmallerIsLeft
  BY <1>2 DEF BatchIsNew, SweepsAreOffered, StepRuns, NothingSmallerIsLeft
<1> QED BY <1>4, <1>5, <1>6, <1>7 DEF IInv

\* Every step keeps the invariant, and no step makes a best case larger.
LEMMA NextHolds ==
  ASSUME IInv, [Next]_vars
  PROVE  IInv' /\ \A i \in Identities : failures'[i] <= failures[i]
<1>1. ASSUME UNCHANGED found PROVE \A i \in Identities : failures'[i] <= failures[i]
  <2>1. \A i \in Identities : failures[i] \in Nat
    BY Ranks DEF IInv, TypeOK
  <2> QED BY <1>1, <2>1 DEF found
<1>2. CASE Idle
  <2>1. UNCHANGED found
    BY <1>2 DEF Idle, Between, Pick, EndPass, Probe, Step, AfterStep, StartExplaining,
                NextDraw, EndDraw, Nearest, EndExplaining
  <2>2. IInv'
    BY <1>2, PickKeepsIt, EndPassKeepsIt, OfferingKeepsIt, ExplainingKeepsIt
       DEF Idle, Between
  <2> QED BY <1>1, <2>1, <2>2
<1>3. CASE Offer
  BY <1>1, <1>3, OfferKeepsIt DEF Offer
<1>4. CASE Fly \/ Land \/ Late
  BY <1>1, <1>4, FlightKeepsIt DEF Fly, Land, Late, Expire
<1>5. CASE NoRoom \/ Cut
  <2>1. /\ Exhaust /\ batch' = <<>> /\ UNCHANGED room /\ flying' \in {flying, FALSE}
    BY <1>5 DEF NoRoom, Cut
  <2>2. UNCHANGED found
    BY <2>1 DEF Exhaust
  <2> QED BY <1>1, <2>1, <2>2, ExhaustKeepsIt
<1>6. CASE Take
  BY <1>6, TakeKeepsIt
<1>7. CASE TakeFilling
  BY <1>1, <1>7, TakeFillingKeepsIt DEF TakeFilling
<1>8. CASE Unwind
  BY <1>1, <1>8, UnwindKeepsIt DEF Unwind, Raise
<1>9. CASE UNCHANGED vars
  <2>1. UNCHANGED <<found, spent, walk, queue, told, stage, flight>>
    BY <1>9 DEF vars
  <2>2. TypeOK' /\ BudgetHolds'
    BY <2>1 DEF IInv, TypeOK, BudgetHolds, found, spent, walk, told, flight
  <2> QED BY <1>1, <2>1, <2>2, QuietKeepsIt DEF spent, flight
<1> QED BY <1>2, <1>3, <1>4, <1>5, <1>6, <1>7, <1>8, <1>9 DEF Next, Work

\* The inductive invariant holds in every state that the shrinker reaches.
THEOREM Invariance == Spec => []IInv
<1>1. Init => IInv
  BY InitHolds
<1>2. IInv /\ [Next]_vars => IInv'
  BY NextHolds
<1> QED BY <1>1, <1>2, PTL DEF Spec

\* The state keeps its types (Shrinker.__init__, _shrink, run_each).
THEOREM TypeCorrect == Spec => []TypeOK
<1>1. IInv => TypeOK
  BY DEF IInv
<1> QED BY <1>1, Invariance, PTL

\* The best case of an identity is the smallest that a run of the memo recorded
\* (_settle, _record).
THEOREM BestIsTheLeastCase == Spec => []BestIsTheLeast
<1>1. IInv => BestIsTheLeast
  BY DEF IInv
<1> QED BY <1>1, Invariance, PTL

\* The runs, with the repeats of each case, stay in the budget (run_each).
THEOREM BudgetIsNeverExceeded == Spec => []BudgetHolds
<1>1. IInv => BudgetHolds
  BY DEF IInv
<1> QED BY <1>1, Invariance, PTL

\* A failure that is done has no smaller candidate of a sweep that did not run
\* (_shrink, _sweep).
THEOREM DoneMeansNothingSmaller == Spec => []NothingSmallerIsLeft
<1>1. IInv => NothingSmallerIsLeft
  BY DEF IInv
<1> QED BY <1>1, Invariance, PTL

\* A step that was not accepted has an entry in the sizes (_step_and_delete).
THEOREM EveryStepHasASize == Spec => []StepHasSize
<1>1. IInv => StepHasSize
  BY NothingLeft DEF StepHasSize
<1> QED BY <1>1, Invariance, PTL

\* No sweep misses a candidate (_sweep, _step_and_delete).
THEOREM SweepsAreComplete == Spec => []SweepsMissNothing
<1>1. NothingSmallerIsLeft /\ StepHasSize => SweepsMissNothing
  BY DEF SweepsMissNothing
<1> QED BY <1>1, DoneMeansNothingSmaller, EveryStepHasASize, PTL

\* No step makes the best case of a failure larger (_record).
THEOREM NoBestCaseGrows == Spec => BestOnlyShrinks
<1>1. IInv /\ [Next]_vars => [\A i \in Identities : failures'[i] <= failures[i]]_vars
  BY NextHolds
<1> QED BY <1>1, Invariance, PTL DEF Spec, BestOnlyShrinks

-----------------------------------------------------------------------------
(***************************************************************************)
(* Proof that the shrinker on several workers takes the runs that one      *)
(* worker makes, for every number of workers, every set of candidates and  *)
(* every budget.                                                           *)
(***************************************************************************)

-----------------------------------------------------------------------------
(* The queue of one worker: the batch with what is left to offer *)

\* A sequence after an empty one is itself.
LEMMA AfterNothing ==
  ASSUME NEW S, NEW s \in Seq(S)
  PROVE  <<>> \o s = s
OBVIOUS

\* The first of the batch is the first of the queue of one worker.
LEMMA HeadOfTheBatch ==
  ASSUME NEW S, NEW s \in Seq(S), NEW t \in Seq(S), s # <<>>
  PROVE  /\ s \o t # <<>> /\ s \o t \in Seq(S)
         /\ Head(s \o t) = Head(s) /\ Tail(s \o t) = Tail(s) \o t
OBVIOUS

\* A candidate moves from what is left to the batch.
LEMMA MovesOver ==
  ASSUME NEW S, NEW s \in Seq(S), NEW t \in Seq(S), t # <<>>
  PROVE  Append(s, Head(t)) \o Tail(t) = s \o t
OBVIOUS

\* The first candidate that is left is dropped at its place.
LEMMA DropsOut ==
  ASSUME NEW S, NEW s \in Seq(S), NEW t \in Seq(S), t # <<>>
  PROVE  /\ Len(s) + 1 \in DOMAIN (s \o t)
         /\ (s \o t)[Len(s) + 1] = Head(t)
         /\ \A j \in 1..Len(s) : (s \o t)[j] = s[j]
         /\ OneWorker!RemoveAt(s \o t, Len(s) + 1) = s \o Tail(t)
<1> DEFINE n == Len(s)
           m == Len(t)
           q == s \o t
<1>1. n \in Nat /\ m \in Nat /\ m > 0 /\ Len(q) = n + m /\ q \in Seq(S)
  OBVIOUS
<1>2. /\ \A i \in 1..n : q[i] = s[i]
      /\ \A i \in 1..m : q[n + i] = t[i]
  OBVIOUS
<1>3. n + 1 \in DOMAIN q /\ q[n + 1] = Head(t)
  BY <1>1, <1>2
<1>4. SubSeq(q, 1, n) = s
  <2>1. /\ SubSeq(q, 1, n) \in Seq(S) /\ Len(SubSeq(q, 1, n)) = n
        /\ \A i \in 1..n : SubSeq(q, 1, n)[i] = q[i]
    BY <1>1
  <2> QED BY <2>1, <1>1, <1>2, SeqEqual
<1>5. SubSeq(q, n + 2, n + m) = Tail(t)
  <2>1. /\ SubSeq(q, n + 2, n + m) \in Seq(S)
        /\ Len(SubSeq(q, n + 2, n + m)) = m - 1
        /\ \A i \in 1..(m - 1) : SubSeq(q, n + 2, n + m)[i] = q[n + i + 1]
    <3>1. \A i \in (n + 2)..(n + m) : q[i] \in S
      BY <1>1
    <3> HIDE DEF n, m, q
    <3> QED BY <3>1, <1>1, SubSeqProperties
  <2>2. /\ Tail(t) \in Seq(S) /\ Len(Tail(t)) = m - 1
        /\ \A i \in 1..(m - 1) : Tail(t)[i] = t[i + 1]
    OBVIOUS
  <2>3. \A i \in 1..(m - 1) : q[n + i + 1] = t[i + 1]
    <3> HIDE DEF q
    <3> QED BY <1>1, <1>2
  <2> HIDE DEF n, m, q
  <2> QED BY <2>1, <2>2, <2>3, <1>1, SeqEqual
<1>6. OneWorker!RemoveAt(q, n + 1) = SubSeq(q, 1, n) \o SubSeq(q, n + 2, n + m)
  <2> HIDE DEF n, m, q
  <2>1. (n + 1) - 1 = n /\ (n + 1) + 1 = n + 2
    BY <1>1
  <2> QED BY <2>1, <1>1 DEF OneWorker!RemoveAt
<1> QED BY <1>2, <1>3, <1>4, <1>5, <1>6

-----------------------------------------------------------------------------
(* Between two candidates *)

\* With no batch the shrinker is in the state of one worker.
SameState == /\ batch \o queue = queue /\ (batch \o queue)' = queue'
             /\ (late /\ ~flying) = late /\ (late /\ ~flying)' = late'

\* shrink_all picks the same failure.
LEMMA PickIsTheSame ==
  ASSUME SameState, Pick PROVE OneWorker!Pick
BY DEF SameState, Pick, OneWorker!Pick, Pending, OneWorker!Pending, walk, found, spent, told,
       OneWorker!walk, OneWorker!found, OneWorker!spent, OneWorker!told,
       Begin, OneWorker!Begin, Offered, OneWorker!Offered, None, OneWorker!None,
       Sweeps, OneWorker!Sweeps, DeleteAndLower, OneWorker!DeleteAndLower

\* A pass and a round end alike.
LEMMA EndPassIsTheSame ==
  ASSUME SameState, EndPass PROVE OneWorker!EndPass
BY DEF SameState, EndPass, OneWorker!EndPass, NextRound, OneWorker!NextRound, Best, OneWorker!Best,
       found, spent, told, OneWorker!found, OneWorker!spent, OneWorker!told,
       Begin, OneWorker!Begin, Offered, OneWorker!Offered, None, OneWorker!None,
       Sweeps, OneWorker!Sweeps, DeleteAndLower, OneWorker!DeleteAndLower

\* A pass that is not a sweep asks alike.
LEMMA OfferingIsTheSame ==
  ASSUME SameState, Probe \/ Step \/ AfterStep
  PROVE  OneWorker!Probe \/ OneWorker!Step \/ OneWorker!AfterStep
BY DEF SameState, Probe, Step, AfterStep, OneWorker!Probe, OneWorker!Step, OneWorker!AfterStep,
       IsIn, OneWorker!IsIn, Best, OneWorker!Best, None, OneWorker!None, Cases, OneWorker!Cases,
       found, spent, told, OneWorker!found, OneWorker!spent, OneWorker!told,
       Sweeps, OneWorker!Sweeps, DeleteAndLower, OneWorker!DeleteAndLower

\* The explanation goes on alike.
LEMMA ExplainingIsTheSame ==
  ASSUME SameState,
         StartExplaining \/ NextDraw \/ EndDraw \/ Nearest \/ EndExplaining
  PROVE  \/ OneWorker!StartExplaining \/ OneWorker!NextDraw \/ OneWorker!EndDraw
         \/ OneWorker!Nearest \/ OneWorker!EndExplaining
<1>1. CASE StartExplaining
  BY <1>1 DEF SameState, StartExplaining, OneWorker!StartExplaining, found, spent, told, walk,
              OneWorker!found, OneWorker!spent, OneWorker!told, OneWorker!walk
<1>2. CASE NextDraw
  BY <1>2 DEF SameState, NextDraw, OneWorker!NextDraw, found, spent, told, walk,
              OneWorker!found, OneWorker!spent, OneWorker!told, OneWorker!walk,
              Explain, OneWorker!Explain, Unexplained, OneWorker!Unexplained,
              Explanation, OneWorker!Explanation
<1>3. CASE EndDraw
  BY <1>3 DEF SameState, EndDraw, OneWorker!EndDraw, found, spent, told, walk,
              OneWorker!found, OneWorker!spent, OneWorker!told, OneWorker!walk,
              Explain, OneWorker!Explain, Unexplained, OneWorker!Unexplained,
              Explanation, OneWorker!Explanation
<1>4. CASE Nearest
  BY <1>4 DEF SameState, Nearest, OneWorker!Nearest, found, spent, told, walk,
              OneWorker!found, OneWorker!spent, OneWorker!told, OneWorker!walk,
              Spent, OneWorker!Spent, Costs, OneWorker!Costs,
              Explain, OneWorker!Explain, Unexplained, OneWorker!Unexplained,
              Explanation, OneWorker!Explanation
<1>5. CASE EndExplaining
  BY <1>5 DEF SameState, EndExplaining, OneWorker!EndExplaining, found, spent, told, walk,
              OneWorker!found, OneWorker!spent, OneWorker!told, OneWorker!walk
<1> QED BY <1>1, <1>2, <1>3, <1>4, <1>5

\* Between two batches the shrinker does what one worker does.
LEMMA IdleIsTheSame ==
  ASSUME TypeOK, TypeOK', Idle PROVE OneWorker!Between
<1>1. SameState
  <2>1. queue \in Seq(Cases) /\ queue' \in Seq(Cases) /\ late \in BOOLEAN /\ late' \in BOOLEAN
    BY DEF TypeOK
  <2>2. batch = <<>> /\ batch' = <<>> /\ ~flying /\ ~flying'
    BY DEF Idle, flight
  <2>3. batch \o queue = queue /\ (batch \o queue)' = queue'
    BY <2>1, <2>2, AfterNothing
  <2> QED BY <2>1, <2>2, <2>3 DEF SameState
<1> QED BY <1>1, PickIsTheSame, EndPassIsTheSame, OfferingIsTheSame, ExplainingIsTheSame
        DEF Idle, Between, OneWorker!Between

-----------------------------------------------------------------------------
(* A batch *)

\* A batch has candidates only in a pass, and fillings only in a draw.
BatchHasAStage == batch # <<>> => stage \in {"pass", "fillings"}

\* The shrinker refines one worker in the states with this invariant.
RInv == IInv /\ BatchHasAStage

LEMMA BatchHasAStageHolds ==
  ASSUME BatchHasAStage, [Next]_vars PROVE BatchHasAStage'
<1>1. CASE UNCHANGED vars
  BY <1>1 DEF BatchHasAStage, vars, flight
<1>2. CASE Idle
  BY <1>2, NothingInEmpty DEF BatchHasAStage, Idle, flight
<1>3. CASE Offer
  BY <1>3 DEF BatchHasAStage, Offer
<1>4. CASE Fly \/ Land \/ Late
  BY <1>4 DEF BatchHasAStage, Fly, Land, Late, Expire, flight
<1>5. CASE NoRoom \/ Cut \/ Unwind
  BY <1>5 DEF BatchHasAStage, NoRoom, Cut, Unwind
<1>6. CASE Take
  BY <1>6 DEF BatchHasAStage, Take
<1>7. CASE TakeFilling
  BY <1>7 DEF BatchHasAStage, TakeFilling
<1> QED BY <1>1, <1>2, <1>3, <1>4, <1>5, <1>6, <1>7 DEF Next, Work

\* The first of the batch is what one worker would run now.
LEMMA FirstMayRun ==
  ASSUME RInv, batch # <<>>
  PROVE  /\ OneWorker!MayRun
         /\ Head(batch \o queue) = Head(batch) /\ Head(batch) \in Cases
         /\ Tail(batch \o queue) = Tail(batch) \o queue
<1>1. batch \in Seq(Cases) /\ queue \in Seq(Cases)
  BY DEF RInv, IInv, TypeOK
<1>2. /\ batch \o queue # <<>>
      /\ Head(batch \o queue) = Head(batch) /\ Head(batch) \in Cases
      /\ Tail(batch \o queue) = Tail(batch) \o queue
  BY <1>1, HeadOfTheBatch
<1>3. CASE stage = "pass"
  <2>1. IsNew(Head(batch))
    BY <1>1, <1>2, <1>3, HeadAndTail DEF RInv, IInv, BatchIsNew
  <2>2. OneWorker!IsNew(Head(batch \o queue))
    BY <2>1, <1>2 DEF IsNew, OneWorker!IsNew, Best, OneWorker!Best, NotRun, OneWorker!NotRun
  <2> QED BY <1>2, <1>3, <2>2 DEF OneWorker!MayRun
<1>4. CASE stage = "fillings"
  BY <1>2, <1>4 DEF OneWorker!MayRun
<1> QED BY <1>2, <1>3, <1>4 DEF RInv, BatchHasAStage

\* A candidate that joins the batch keeps its place, and one that does not is
\* one that will not run.
LEMMA OfferIsASkip ==
  ASSUME RInv, Offer PROVE OneWorker!Skip \/ UNCHANGED OneWorker!vars
<1>1. /\ batch \in Seq(Cases) /\ queue \in Seq(Cases) /\ queue # <<>>
      /\ queue' = Tail(queue) /\ ~flying
      /\ UNCHANGED <<found, spent, walk, told, stage, room, flying>>
  BY DEF Offer, RInv, IInv, TypeOK
<1>2. CASE batch' = Append(batch, Head(queue))
  <2>1. (batch \o queue)' = batch \o queue
    BY <1>1, <1>2, MovesOver
  <2> QED BY <1>1, <2>1 DEF found, spent, walk, told, OneWorker!vars, OneWorker!found,
            OneWorker!spent, OneWorker!walk, OneWorker!told
<1>3. CASE stage = "pass" /\ ~Fresh(Head(queue)) /\ batch' = batch
  <2> DEFINE q == batch \o queue
             k == Len(batch) + 1
  <2>1. /\ k \in DOMAIN q /\ q[k] = Head(queue)
        /\ \A j \in 1..Len(batch) : q[j] = batch[j]
        /\ OneWorker!RemoveAt(q, k) = batch \o Tail(queue)
    BY <1>1, DropsOut
  <2>2. ~IsNew(q[k]) \/ \E j \in 1..(k - 1) : q[j] = q[k]
    <3>1. CASE ~IsNew(Head(queue))
      BY <3>1, <2>1
    <3>2. CASE Has(batch, Head(queue))
      <4>1. PICK j \in 1..Len(batch) : batch[j] = Head(queue)
        BY <3>2, <1>1 DEF Has
      <4>2. j \in 1..(k - 1)
        BY <1>1
      <4> QED BY <4>1, <4>2, <2>1
    <3> QED BY <3>1, <3>2, <1>3 DEF Fresh
  <2>3. q' = OneWorker!RemoveAt(q, k)
    BY <1>1, <1>3, <2>1
  <2>4. ~OneWorker!IsNew(q[k]) \/ \E j \in 1..(k - 1) : q[j] = q[k]
    <3> HIDE DEF q, k
    <3> QED BY <2>2 DEF IsNew, OneWorker!IsNew, Best, OneWorker!Best, NotRun, OneWorker!NotRun
  <2>5. UNCHANGED <<OneWorker!found, OneWorker!spent, OneWorker!walk, OneWorker!told, stage>>
    BY <1>1 DEF found, spent, walk, told, OneWorker!found, OneWorker!spent,
                OneWorker!walk, OneWorker!told
  <2> QED BY <1>3, <2>1, <2>3, <2>4, <2>5 DEF OneWorker!Skip
<1> QED BY <1>2, <1>3 DEF Offer

\* A batch that takes off hides the deadline until it has landed.
LEMMA FlightIsASkip ==
  ASSUME RInv, RInv', Fly \/ Land \/ Late
  PROVE  OneWorker!Expire \/ UNCHANGED OneWorker!vars
<1>1. late \in BOOLEAN /\ late' \in BOOLEAN
  BY DEF RInv, IInv, TypeOK
<1>2. UNCHANGED <<found, runs, walk, queue, told, stage, batch>>
  BY DEF Fly, Land, Late, Expire, spent, flight
<1>3. (batch \o queue)' = batch \o queue
  BY <1>2
<1>4. CASE (late /\ ~flying)' <=> (late /\ ~flying)
  BY <1>2, <1>3, <1>4 DEF found, walk, told, OneWorker!vars, OneWorker!found,
            OneWorker!spent, OneWorker!walk, OneWorker!told
<1>5. CASE ~(late /\ ~flying) /\ (late /\ ~flying)'
  <2>1. (late /\ ~flying)' = TRUE
    BY <1>5
  <2> QED BY <1>2, <1>3, <1>5, <2>1 DEF found, walk, told, OneWorker!Expire, OneWorker!found,
            OneWorker!walk, OneWorker!told
<1>6. ~((late /\ ~flying) /\ ~(late /\ ~flying)')
  <2>1. CASE Fly
    BY <2>1 DEF Fly, Spent
  <2>2. CASE Land
    BY <2>2 DEF Land
  <2>3. CASE Late
    BY <2>3 DEF Late, Expire, flight
  <2> QED BY <2>1, <2>2, <2>3
<1> QED BY <1>4, <1>5, <1>6

\* One worker has room for what is taken.
LEMMA RoomOfOneWorker ==
  ASSUME RInv, flying, room > 0
  PROVE  /\ ~OneWorker!Spent /\ Costs(room) = OneWorker!Costs(Budget - runs)
BY Ranks DEF RInv, IInv, TypeOK, BudgetHolds, OneWorker!Spent, Costs, OneWorker!Costs

\* The run of a candidate that is taken is the run that one worker makes.
LEMMA TakeIsATry ==
  ASSUME RInv, RInv', Take PROVE OneWorker!Try
<1>1. /\ flying /\ stage = "pass" /\ batch # <<>> /\ room > 0 /\ Pay
      /\ UNCHANGED <<told, stage, flying>>
  BY DEF Take
<1>2. /\ OneWorker!MayRun
      /\ Head(batch \o queue) = Head(batch) /\ Head(batch) \in Cases
      /\ Tail(batch \o queue) = Tail(batch) \o queue
  BY <1>1, FirstMayRun
<1>3. ~OneWorker!Spent /\ \E n \in OneWorker!Costs(Budget - runs) : runs' = runs + n
  BY <1>1, RoomOfOneWorker DEF Pay
<1>4. \E end \in OneWorker!Ending : OneWorker!Keep(Head(batch \o queue), end)
  <2>1. PICK end \in Ending : Keep(Head(batch), end)
    BY DEF Take, KeepFirst
  <2> QED BY <2>1, <1>2 DEF Ending, OneWorker!Ending, Keep, OneWorker!Keep,
            Recorded, OneWorker!Recorded, Cases, OneWorker!Cases
<1>5. IF OneWorker!NewBest < OneWorker!Best
        THEN OneWorker!Accepted
        ELSE (batch \o queue)' = Tail(batch \o queue) /\ UNCHANGED OneWorker!walk
  <2>1. CASE NewBest < Best
    <3>1. Accepted /\ batch' = <<>> /\ queue' \in Seq(Cases)
      BY <2>1 DEF Take, RInv, IInv, TypeOK
    <3>2. (batch \o queue)' = queue'
      BY <3>1, AfterNothing
    <3> QED BY <2>1, <3>1, <3>2 DEF NewBest, OneWorker!NewBest, Best, OneWorker!Best,
              Accepted, OneWorker!Accepted, Offered, OneWorker!Offered, None, OneWorker!None,
              Sweeps, OneWorker!Sweeps, DeleteAndLower, OneWorker!DeleteAndLower
  <2>2. CASE ~(NewBest < Best)
    <3>1. batch' = Tail(batch) /\ UNCHANGED <<walk, queue>>
      BY <2>2 DEF Take
    <3>2. (batch \o queue)' = Tail(batch \o queue)
      BY <3>1, <1>2
    <3> QED BY <2>2, <3>1, <3>2 DEF NewBest, OneWorker!NewBest, Best, OneWorker!Best,
              walk, OneWorker!walk
  <2> QED BY <2>1, <2>2
<1>6. (late /\ ~flying)' = (late /\ ~flying) /\ UNCHANGED <<OneWorker!told, stage>>
  BY <1>1 DEF Pay, told, OneWorker!told
<1> QED BY <1>1, <1>2, <1>3, <1>4, <1>5, <1>6 DEF OneWorker!Try

\* The run of a filling that is taken is the run that one worker makes.
LEMMA TakeFillingIsAFill ==
  ASSUME RInv, RInv', TakeFilling PROVE OneWorker!Fill
<1>1. /\ flying /\ stage = "fillings" /\ batch # <<>> /\ room > 0 /\ Pay
      /\ UNCHANGED <<explained, found, walk, flying>>
  BY DEF TakeFilling
<1>2. OneWorker!MayRun /\ Tail(batch \o queue) = Tail(batch) \o queue
  BY <1>1, FirstMayRun
<1>3. ~OneWorker!Spent /\ \E n \in OneWorker!Costs(Budget - runs) : runs' = runs + n
  BY <1>1, RoomOfOneWorker DEF Pay
<1>4. \E fails \in BOOLEAN : OneWorker!Filled(fails)
  <2>1. CASE batch' = Tail(batch) /\ same' = TRUE /\ UNCHANGED <<queue, stage>>
    <3>1. OneWorker!Filled(TRUE)
      BY <2>1, <1>1, <1>2 DEF OneWorker!Filled
    <3> QED BY <3>1
  <2>2. CASE batch' = <<>> /\ queue' = <<>> /\ stage' = "nearest" /\ UNCHANGED same
    <3>1. (batch \o queue)' = <<>>
      BY <2>2, AfterNothing
    <3>2. OneWorker!Filled(FALSE)
      BY <2>2, <3>1, <1>1 DEF OneWorker!Filled
    <3> QED BY <3>2
  <2> QED BY <2>1, <2>2 DEF TakeFilling
<1>5. (late /\ ~flying)' = (late /\ ~flying)
  BY <1>1 DEF Pay
<1> QED BY <1>1, <1>2, <1>3, <1>4, <1>5
        DEF OneWorker!Fill, found, walk, OneWorker!found, OneWorker!walk

\* A batch that ends early leaves nothing in the queue of one worker, whose
\* deadline may pass then.
LEMMA EndsEarly ==
  ASSUME RInv, RInv', batch' = <<>>, queue' = <<>>, late' \in {late, TRUE},
         flying' = FALSE
  PROVE  /\ (batch \o queue)' = <<>>
         /\ (late /\ ~flying)' \in {late /\ ~flying, TRUE}
<1>1. late \in BOOLEAN /\ late' \in BOOLEAN /\ flying \in BOOLEAN
  BY DEF RInv, IInv, TypeOK
<1>2. (batch \o queue)' = <<>>
  BY AfterNothing
<1>3. (late /\ ~flying)' \in {late /\ ~flying, TRUE}
  <2>1. CASE late' = TRUE
    BY <2>1
  <2>2. CASE late' = FALSE
    BY <2>2, <1>1
  <2> QED BY <2>1, <2>2, <1>1
<1> QED BY <1>2, <1>3

\* The budget or the time of one worker ends where that of a batch does.
LEMMA ExhaustIsNoRoom ==
  ASSUME RInv, RInv', NoRoom \/ Cut PROVE OneWorker!NoRoom
<1>1. /\ batch # <<>> /\ Exhaust /\ batch' = <<>> /\ flying' = FALSE
      /\ \/ ~flying /\ Spent
         \/ flying /\ room = 0
  BY DEF NoRoom, Cut, Ready, RInv, IInv, TypeOK
<1>2. OneWorker!MayRun
  BY <1>1, FirstMayRun
<1>3. OneWorker!Spent
  <2>1. CASE ~flying /\ Spent
    BY <2>1 DEF Spent, OneWorker!Spent
  <2>2. CASE flying /\ room = 0
    BY <2>2, Ranks DEF RInv, IInv, TypeOK, BudgetHolds, OneWorker!Spent
  <2> QED BY <1>1, <2>1, <2>2
<1>4. /\ (batch \o queue)' = <<>>
      /\ (late /\ ~flying)' \in {late /\ ~flying, TRUE}
  BY <1>1, EndsEarly DEF Exhaust
<1>5. OneWorker!Exhaust
  BY <1>1, <1>4 DEF Exhaust, OneWorker!Exhaust, found, walk, told, OneWorker!found,
            OneWorker!walk, OneWorker!told, Explain, OneWorker!Explain,
            Unexplained, OneWorker!Unexplained, Explanation, OneWorker!Explanation
<1> QED BY <1>2, <1>3, <1>5 DEF OneWorker!NoRoom

\* An error of a candidate of the batch unwinds the shrink of one worker.
LEMMA UnwindIsTheSame ==
  ASSUME RInv, RInv', Unwind PROVE OneWorker!Unwind
<1>1. /\ batch # <<>> /\ Raise /\ batch' = <<>> /\ flying' = FALSE
      /\ \/ ~flying /\ ~Spent
         \/ flying /\ room > 0
  BY DEF Unwind, Ready
<1>2. OneWorker!MayRun
  BY <1>1, FirstMayRun
<1>3. ~OneWorker!Spent
  <2>1. CASE ~flying /\ ~Spent
    BY <2>1 DEF Spent, OneWorker!Spent
  <2>2. CASE flying /\ room > 0
    BY <2>2, RoomOfOneWorker
  <2> QED BY <1>1, <2>1, <2>2
<1>4. /\ (batch \o queue)' = <<>>
      /\ (late /\ ~flying)' \in {late /\ ~flying, TRUE}
  BY <1>1, EndsEarly DEF Raise
<1>5. OneWorker!Raise
  BY <1>1, <1>4 DEF Raise, OneWorker!Raise, found, walk, told, OneWorker!found,
            OneWorker!walk, OneWorker!told
<1> QED BY <1>2, <1>3, <1>5 DEF OneWorker!Unwind

-----------------------------------------------------------------------------
(* The refinement *)

\* The shrinker starts where one worker does.
LEMMA StartsTheSame ==
  ASSUME Init PROVE OneWorker!Init
<1>1. batch = <<>> /\ queue = <<>> /\ ~flying /\ late = FALSE
  BY DEF Init, InitPasses
<1>2. batch \o queue = <<>> /\ (late /\ ~flying) = FALSE
  BY <1>1, AfterNothing
<1> QED BY <1>2 DEF Init, InitPasses, OneWorker!Init, OneWorker!InitPasses,
        None, OneWorker!None, Cases, OneWorker!Cases, NotRun, OneWorker!NotRun

\* A step on several workers is a step of one worker or none.
LEMMA StepsTheSame ==
  ASSUME RInv, RInv', [Next]_vars PROVE [OneWorker!Next]_OneWorker!vars
<1>1. CASE Idle
  BY <1>1, IdleIsTheSame DEF RInv, IInv, OneWorker!Next
<1>2. CASE Offer
  BY <1>2, OfferIsASkip DEF OneWorker!Next
<1>3. CASE Fly \/ Land \/ Late
  BY <1>3, FlightIsASkip DEF OneWorker!Next
<1>4. CASE NoRoom \/ Cut
  BY <1>4, ExhaustIsNoRoom DEF OneWorker!Next
<1>5. CASE Take
  BY <1>5, TakeIsATry DEF OneWorker!Next
<1>6. CASE TakeFilling
  BY <1>6, TakeFillingIsAFill DEF OneWorker!Next
<1>7. CASE Unwind
  BY <1>7, UnwindIsTheSame DEF OneWorker!Next
<1>8. CASE UNCHANGED vars
  BY <1>8 DEF vars, found, spent, walk, told, flight, OneWorker!vars, OneWorker!found,
            OneWorker!spent, OneWorker!walk, OneWorker!told
<1> QED BY <1>1, <1>2, <1>3, <1>4, <1>5, <1>6, <1>7, <1>8 DEF Next, Work

\* A run on several workers takes the runs that one worker makes, in their
\* order, until the same end (_run_all, run_each, _settle, _relevance).
THEOREM ImplementsOneWorker == Spec => SameAsOneWorker
<1>1. Init => BatchHasAStage
  BY DEF Init, BatchHasAStage
<1>2. BatchHasAStage /\ [Next]_vars => BatchHasAStage'
  BY BatchHasAStageHolds
<1>3. Spec => []BatchHasAStage
  BY <1>1, <1>2, PTL DEF Spec
<1>4. Init => OneWorker!Init
  BY StartsTheSame
<1>5. IInv /\ BatchHasAStage /\ IInv' /\ BatchHasAStage' /\ [Next]_vars
        => [OneWorker!Next]_OneWorker!vars
  BY StepsTheSame DEF RInv
<1> QED BY <1>3, <1>4, <1>5, Invariance, PTL DEF Spec, SameAsOneWorker, OneWorker!Spec

-----------------------------------------------------------------------------
(***************************************************************************)
(* Proofs about the integers of Choices, for bounds of any size: what a    *)
(* random draw may return, and the two functions between a value and its   *)
(* place in the key order, which the sources of a case use to draw         *)
(* (_prop/engine/choice.py, draw.py).                                      *)
(***************************************************************************)

\* The target is inside the bounds, so that a choice that does not fit has a value.
LEMMA TargetIsAdmitted ==
  ASSUME NEW lo \in Int, NEW hi \in Int, lo <= hi
  PROVE  /\ IntegerTarget(lo, hi) \in lo .. hi
         /\ IntegerAdmits(IntegerBounds(lo, hi), IntegerBounds(lo, hi).target)
  BY DEF IntegerTarget, IntegerBounds, IntegerAdmits

\* The fields of bounds, for the provers.
LEMMA BoundsAreIntegers ==
  ASSUME NEW lo \in Int, NEW hi \in Int, lo <= hi
  PROVE  LET b == IntegerBounds(lo, hi) IN
         /\ b.lo = lo /\ b.hi = hi /\ b.target \in Int
         /\ lo <= b.target /\ b.target <= hi
         /\ Shorter(b) \in Nat
         /\ Shorter(b) = hi - b.target \/ Shorter(b) = b.target - lo
         /\ Shorter(b) <= hi - b.target /\ Shorter(b) <= b.target - lo
<1> DEFINE t == IntegerTarget(lo, hi)
<1>1. t \in lo .. hi
  BY TargetIsAdmitted
<1>2. Shorter(IntegerBounds(lo, hi)) = IF hi - t < t - lo THEN hi - t ELSE t - lo
  BY DEF IntegerBounds, Shorter, Lesser
<1>3. IntegerBounds(lo, hi).lo = lo /\ IntegerBounds(lo, hi).hi = hi /\ IntegerBounds(lo, hi).target = t
  BY DEF IntegerBounds
<1> HIDE DEF t
<1> QED
  BY <1>1, <1>2, <1>3

\* at_rank inverts rank, as its comment says, for bounds of any size: the words of a
\* source reach every value of the bounds, and no two words of them the same.
THEOREM RankIsInverted ==
  ASSUME NEW lo \in Int, NEW hi \in Int, lo <= hi, NEW v \in lo .. hi
  PROVE  LET b == IntegerBounds(lo, hi) IN
         Rank(b, v) \in 0 .. (hi - lo) /\ AtRank(b, Rank(b, v)) = v
<1> DEFINE b == IntegerBounds(lo, hi)
           t == b.target
           s == Shorter(b)
           d == Abs(v - t)
<1>1. /\ b.lo = lo /\ b.hi = hi /\ t \in Int /\ lo <= t /\ t <= hi
      /\ s \in Nat /\ (s = hi - t \/ s = t - lo) /\ s <= hi - t /\ s <= t - lo
  BY BoundsAreIntegers
<1>2. d \in Nat /\ (v >= t => v = t + d) /\ (v < t => v = t - d)
  BY <1>1 DEF Abs
<1> SUFFICES Rank(b, v) \in 0 .. (hi - lo) /\ AtRank(b, Rank(b, v)) = v
  OBVIOUS
<1> HIDE DEF b, t, s, d
<1>3. CASE d > s
  <2>1. Rank(b, v) = s + d
    BY <1>3 DEF Rank, s, d, t
  <2>2. d <= hi - t \/ d <= t - lo
    BY <1>1, <1>2
  <2>3. s + d \in 0 .. (hi - lo) /\ s + d > 2 * s
    BY <1>1, <1>2, <1>3, <2>2
  <2>4. v >= t <=> hi - t > t - lo
    BY <1>1, <1>2, <1>3
  <2>5. AtRank(b, s + d) = IF hi - t > t - lo THEN t + d ELSE t - d
    BY <1>1, <1>2, <2>3 DEF AtRank, s, t
  <2>6. IF hi - t > t - lo THEN t + d = v ELSE t - d = v
    BY <1>1, <1>2, <2>4
  <2> QED
    BY <2>1, <2>3, <2>5, <2>6
<1>4. CASE d <= s /\ v > t
  <2>1. Rank(b, v) = 2 * d - 1
    BY <1>1, <1>2, <1>4 DEF Rank, s, d, t
  <2>2. 2 * d - 1 \in 0 .. (hi - lo) /\ ~(2 * d - 1 > 2 * s)
    BY <1>1, <1>2, <1>4
  <2>3. (2 * d - 1) % 2 = 1 /\ (2 * d - 1 + 1) \div 2 = d
    BY <1>2
  <2>4. AtRank(b, 2 * d - 1) = t + d
    BY <2>2, <2>3 DEF AtRank, s, t
  <2> QED
    BY <1>2, <1>4, <1>1, <2>1, <2>2, <2>4
<1>5. CASE d <= s /\ v <= t
  <2>1. Rank(b, v) = 2 * d
    BY <1>1, <1>2, <1>5 DEF Rank, s, d, t
  <2>2. 2 * d \in 0 .. (hi - lo) /\ ~(2 * d > 2 * s)
    BY <1>1, <1>2, <1>5
  <2>3. (2 * d) % 2 = 0 /\ (2 * d + 1) \div 2 = d
    BY <1>2
  <2>4. AtRank(b, 2 * d) = t - d
    BY <2>2, <2>3 DEF AtRank, s, t
  <2> QED
    BY <1>2, <1>5, <1>1, <2>1, <2>2, <2>4
<1> QED
  BY <1>1, <1>2, <1>3, <1>4, <1>5

\* rank is the position in the key order, as its comment says: the shrinker lowers a
\* choice exactly when its rank falls.
THEOREM RanksFollowTheKeys ==
  ASSUME NEW lo \in Int, NEW hi \in Int, lo <= hi, NEW v \in lo .. hi, NEW w \in lo .. hi
  PROVE  LET b == IntegerBounds(lo, hi) IN
         Rank(b, v) < Rank(b, w) <=>
           \/ IntegerKey(b, v)[1] < IntegerKey(b, w)[1]
           \/ /\ IntegerKey(b, v)[1] = IntegerKey(b, w)[1]
              /\ IntegerKey(b, v)[2] < IntegerKey(b, w)[2]
<1> DEFINE b == IntegerBounds(lo, hi)
           t == b.target
           s == Shorter(b)
           dv == Abs(v - t)
           dw == Abs(w - t)
<1>1. /\ b.lo = lo /\ b.hi = hi /\ t \in Int /\ lo <= t /\ t <= hi
      /\ s \in Nat /\ (s = hi - t \/ s = t - lo) /\ s <= hi - t /\ s <= t - lo
  BY BoundsAreIntegers
<1>2. /\ dv \in Nat /\ (v >= t => v = t + dv) /\ (v < t => v = t - dv)
      /\ dw \in Nat /\ (w >= t => w = t + dw) /\ (w < t => w = t - dw)
  BY <1>1 DEF Abs
<1>3. /\ IntegerKey(b, v)[1] = dv /\ IntegerKey(b, v)[2] = IF v < t THEN 1 ELSE 0
      /\ IntegerKey(b, w)[1] = dw /\ IntegerKey(b, w)[2] = IF w < t THEN 1 ELSE 0
  BY DEF IntegerKey
<1>4. /\ Rank(b, v) = IF dv > s THEN s + dv ELSE IF v > t THEN 2 * dv - 1 ELSE 2 * dv
      /\ Rank(b, w) = IF dw > s THEN s + dw ELSE IF w > t THEN 2 * dw - 1 ELSE 2 * dw
  BY DEF Rank
<1> SUFFICES Rank(b, v) < Rank(b, w) <=>
               \/ IntegerKey(b, v)[1] < IntegerKey(b, w)[1]
               \/ /\ IntegerKey(b, v)[1] = IntegerKey(b, w)[1]
                  /\ IntegerKey(b, v)[2] < IntegerKey(b, w)[2]
  OBVIOUS
<1> HIDE DEF b, t, s, dv, dw
<1>5. CASE dv > s /\ dw > s
  BY <1>1, <1>2, <1>3, <1>4, <1>5
<1>6. CASE dv > s /\ dw <= s
  BY <1>1, <1>2, <1>3, <1>4, <1>6
<1>7. CASE dv <= s /\ dw > s
  BY <1>1, <1>2, <1>3, <1>4, <1>7
<1>8. CASE dv <= s /\ dw <= s
  BY <1>1, <1>2, <1>3, <1>4, <1>8
<1> QED
  BY <1>1, <1>2, <1>5, <1>6, <1>7, <1>8

\* A random integer is inside its bounds, whatever edge value or offset it takes.
THEOREM IntegerDrawsAreAdmitted ==
  ASSUME NEW lo \in Int, NEW hi \in Int, lo <= hi, NEW caps \in SUBSET (Nat \ {0})
  PROVE  \A v \in IntegerDraws(IntegerBounds(lo, hi), caps) :
           v \in Int /\ IntegerAdmits(IntegerBounds(lo, hi), v)
<1> DEFINE b == IntegerBounds(lo, hi)
<1>1. b.lo = lo /\ b.hi = hi /\ b.target \in Int /\ lo <= b.target /\ b.target <= hi
  BY BoundsAreIntegers
<1> HIDE DEF b
<1> SUFFICES ASSUME NEW v \in IntegerDraws(b, caps)
             PROVE  v \in Int /\ IntegerAdmits(b, v)
  BY DEF b
<1>2. \/ v = lo
      \/ v \in IntegerEdges(b)
      \/ \E cap \in caps : \E o \in 0 .. Lesser(hi - b.target, cap - 1) : v = b.target + o
      \/ \E cap \in caps : \E o \in 0 .. Lesser(b.target - lo, cap - 1) : v = b.target - o
  BY <1>1 DEF IntegerDraws
<1>3. CASE v = lo
  BY <1>1, <1>3 DEF IntegerAdmits
<1>4. CASE v \in IntegerEdges(b)
  BY <1>1, <1>4 DEF IntegerEdges, IntegerAdmits
<1>5. CASE \E cap \in caps : \E o \in 0 .. Lesser(hi - b.target, cap - 1) : v = b.target + o
  BY <1>1, <1>5 DEF Lesser, IntegerAdmits
<1>6. CASE \E cap \in caps : \E o \in 0 .. Lesser(b.target - lo, cap - 1) : v = b.target - o
  BY <1>1, <1>6 DEF Lesser, IntegerAdmits
<1> QED
  BY <1>2, <1>3, <1>4, <1>5, <1>6

\* When one cap is larger than both sides of the target, every value of the bounds is
\* drawn: a run never calls a value impossible that its bounds admit.
THEOREM EveryIntegerIsDrawn ==
  ASSUME NEW lo \in Int, NEW hi \in Int, lo <= hi, NEW caps \in SUBSET (Nat \ {0}),
         NEW cap \in caps, cap > hi - lo, NEW v \in lo .. hi
  PROVE  v \in IntegerDraws(IntegerBounds(lo, hi), caps)
<1> DEFINE b == IntegerBounds(lo, hi)
           up == {b.target + o : o \in 0 .. Lesser(b.hi - b.target, cap - 1)}
           down == {b.target - o : o \in 0 .. Lesser(b.target - b.lo, cap - 1)}
<1>1. b.lo = lo /\ b.hi = hi /\ b.target \in Int /\ lo <= b.target /\ b.target <= hi
  BY BoundsAreIntegers
<1> HIDE DEF b
<1>2. CASE lo = hi
  BY <1>1, <1>2 DEF IntegerDraws, b
<1>3. CASE lo # hi /\ v >= b.target
  <2>1. v - b.target \in 0 .. Lesser(b.hi - b.target, cap - 1)
    BY <1>1, <1>3 DEF Lesser
  <2>2. v = b.target + (v - b.target)
    BY <1>1
  <2>3. v \in up
    BY <2>1, <2>2
  <2> QED
    BY <1>1, <1>3, <2>3 DEF IntegerDraws, b
<1>4. CASE lo # hi /\ v < b.target
  <2>1. b.target - v \in 0 .. Lesser(b.target - b.lo, cap - 1)
    BY <1>1, <1>4 DEF Lesser
  <2>2. v = b.target - (b.target - v)
    BY <1>1
  <2>3. v \in down
    BY <2>1, <2>2
  <2> QED
    BY <1>1, <1>4, <2>3 DEF IntegerDraws, b
<1> QED
  BY <1>1, <1>2, <1>3, <1>4
=============================================================================
