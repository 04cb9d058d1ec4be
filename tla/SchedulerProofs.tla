--------------------------- MODULE SchedulerProofs ---------------------------
(***************************************************************************)
(* Proofs about Scheduler: where its tasks and calls are, and when.        *)
(***************************************************************************)
EXTENDS Scheduler, FiniteSetTheorems, TLAPS

-----------------------------------------------------------------------------
(***************************************************************************)
(* The inductive invariants.                                               *)
(***************************************************************************)

\* The sequence has an element in the set, and has at most one.
Has(s, A)  == \E i \in DOMAIN s : s[i] \in A
Once(s, A) == \A i, j \in DOMAIN s : s[i] \in A /\ s[j] \in A => i = j

WakesOf(t) == {e \in Entries : e.call = Wake(t)}

IsTask(t)    == Has(tasks, {t})
IsReady(t)   == Has(ready, {t})
IsWoken(t)   == Has(callbacks, WakesOf(t))
Waits(t, f)  == Has(future[f].waiters, {t})
Somewhere(t) == IsReady(t) \/ IsWoken(t) \/ \E f \in Futures : Waits(t, f)

OnceAtMost(t) == /\ Once(tasks, {t}) /\ Once(ready, {t}) /\ Once(callbacks, WakesOf(t))
                 /\ \A f \in Futures : Once(future[f].waiters, {t})

\* Only a task that runs or is closed has control.
HolderIsKnown ==
  /\ control \in {"task", "finally"} => current \in Tasks
  /\ control \notin {"task", "finally", "drop"} => current = Nobody

TimersAreCalls == IsFiniteSet(timers) /\ \A e \in timers : e.call \in UserCalls

\* What a list, a future or the loop knows was spawned.
KnownAreSpawned ==
  \A t \in Tasks : Somewhere(t) \/ t = current => task[t].state # "unspawned"

LevelsAreAboveTheLowest ==
  /\ lowest <= 0
  /\ \A t \in Tasks : /\ lowest <= task[t].level
                      /\ task[t].state = "unspawned" => task[t].level = 0

\* A future that is done has nobody to wake.
DoneWakesNobody == \A f \in Futures : future[f].done => future[f].waiters = <<>>

Kept ==
  /\ TypeOK /\ HolderIsKnown /\ TimersAreCalls
  /\ KnownAreSpawned /\ LevelsAreAboveTheLowest /\ DoneWakesNobody

\* Everything in the sequence beyond a place is in the set.
Rest(s, b, A) == \A j \in DOMAIN s : j > b => s[j] \in A

Untimed == {e \in Entries : e.when = NoTime}
ByCalls == {e \in Entries : e.from = "calls"}

\* The calls that the pass has left come first; what was scheduled since is no timer,
\* and what was scheduled in the pass was scheduled by a callback.
BatchComesFirst ==
  /\ Rest(callbacks, batch, Untimed)
  /\ control \notin {"calls", "drop"} => batch = 0
  /\ control \in {"calls", "release"} =>
       /\ Rest(callbacks, batch, ByCalls)
       /\ \A e \in timers : IsDue(e) => e.from = "calls"

\* TimersAreInOrder, of any callbacks and at any time.
InTime(s, time) ==
  \A j \in DOMAIN s :
    s[j].when # NoTime =>
      /\ s[j].when <= time
      /\ \A i \in 1 .. j - 1 :
           s[i].when # NoTime => ~ (s[j].order < s[i].order /\ s[j].when <= s[i].when)

\* While a pass goes on, no timer is left whose time has passed.
TimersAreAhead == control \in {"calls", "release"} => \A e \in timers : e.when >= now

\* A task that is open has one place, or control, until a run is dropped.
OnePlace(t) ==
  /\ OnceAtMost(t)
  /\ ~ (IsReady(t) /\ IsWoken(t))
  /\ \A f \in Futures : Waits(t, f) => ~ IsReady(t) /\ ~ IsWoken(t)
  /\ \A f, g \in Futures : Waits(t, f) /\ Waits(t, g) => f = g
  /\ Somewhere(t) <=> IsTask(t) /\ t # current
  /\ IsOpen(t) <=> IsTask(t)
  /\ t = current => IsTask(t)

\* What a run that is dropped has open is among its tasks, and then among those to close.
DropFindsTheOpen ==
  /\ control = "drop" => \A t \in Tasks : IsOpen(t) => IsTask(t)
  /\ control \in {"close", "finally"} =>
       /\ tasks = <<>> /\ ready = <<>> /\ callbacks = <<>> /\ timers = {}
       /\ \A t \in Tasks : IsOpen(t) => Open(t) /\ (Has(closing, {t}) \/ t = current)

\* The wakes that nobody may make: no handle of one leaves the scheduler.
LostWakes == {e \in Entries : e.cancelled /\ e.call \notin UserCalls}

Placed ==
  /\ control \notin {"drop", "close", "finally"} => \A t \in Tasks : OnePlace(t)
  /\ ~ Has(callbacks, LostWakes)
  /\ DropFindsTheOpen

-----------------------------------------------------------------------------
(***************************************************************************)
(* Has and Once, through the operations of sequences.                      *)
(***************************************************************************)
LEMMA HasAppend ==
  ASSUME NEW S, NEW s \in Seq(S), NEW x \in S, NEW A
  PROVE  /\ Has(Append(s, x), A) <=> Has(s, A) \/ x \in A
         /\ Once(s, A) /\ ~ (Has(s, A) /\ x \in A) => Once(Append(s, x), A)
  <1> DEFINE r == Append(s, x)
  <1>1. /\ Len(s) \in Nat /\ DOMAIN s = 1 .. Len(s) /\ DOMAIN r = 1 .. Len(s) + 1
        /\ \A j \in 1 .. Len(s) : r[j] = s[j]
        /\ r[Len(s) + 1] = x
    OBVIOUS
  <1> HIDE DEF r
  <1>2. Has(r, A) <=> Has(s, A) \/ x \in A
    BY <1>1 DEF Has
  <1>3. ASSUME Once(s, A), ~ (Has(s, A) /\ x \in A) PROVE Once(r, A)
    BY <1>1, <1>3 DEF Has, Once
  <1> QED
    BY <1>2, <1>3 DEF r

LEMMA HasConcat ==
  ASSUME NEW S, NEW s \in Seq(S), NEW q \in Seq(S), NEW A
  PROVE  /\ Has(s \o q, A) <=> Has(s, A) \/ Has(q, A)
         /\ Once(s, A) /\ Once(q, A) /\ ~ (Has(s, A) /\ Has(q, A)) => Once(s \o q, A)
  <1> DEFINE r == s \o q
  <1>1. /\ Len(s) \in Nat /\ DOMAIN s = 1 .. Len(s)
        /\ Len(q) \in Nat /\ DOMAIN q = 1 .. Len(q) /\ DOMAIN r = 1 .. Len(s) + Len(q)
        /\ \A j \in 1 .. Len(s) : r[j] = s[j]
        /\ \A j \in Len(s) + 1 .. Len(s) + Len(q) : r[j] = q[j - Len(s)]
    OBVIOUS
  <1> HIDE DEF r
  <1>2. ASSUME NEW j \in DOMAIN q PROVE j + Len(s) \in DOMAIN r /\ r[j + Len(s)] = q[j]
    BY <1>1
  <1>3. Has(r, A) <=> Has(s, A) \/ Has(q, A)
    <2>1. ASSUME Has(r, A) PROVE Has(s, A) \/ Has(q, A)
      <3>1. PICK k \in DOMAIN r : r[k] \in A
        BY <2>1 DEF Has
      <3>2. CASE k <= Len(s)
        BY <1>1, <3>1, <3>2 DEF Has
      <3>3. CASE k > Len(s)
        <4>1. k \in Len(s) + 1 .. Len(s) + Len(q) /\ k - Len(s) \in DOMAIN q
          BY <1>1, <3>3
        <4>2. r[k] = q[k - Len(s)]
          BY <1>1, <4>1
        <4> QED
          BY <3>1, <4>1, <4>2 DEF Has
      <3> QED
        BY <1>1, <3>2, <3>3
    <2>2. ASSUME Has(s, A) PROVE Has(r, A)
      BY <1>1, <2>2 DEF Has
    <2>3. ASSUME Has(q, A) PROVE Has(r, A)
      BY <1>2, <2>3 DEF Has
    <2> QED
      BY <2>1, <2>2, <2>3
  <1>4. ASSUME Once(s, A), Once(q, A), ~ (Has(s, A) /\ Has(q, A)) PROVE Once(r, A)
    <2> SUFFICES ASSUME NEW i \in DOMAIN r, NEW j \in DOMAIN r, r[i] \in A, r[j] \in A
                 PROVE  i = j
      BY DEF Once
    <2>1. CASE i <= Len(s) /\ j <= Len(s)
      BY <1>1, <1>4, <2>1 DEF Once
    <2>2. CASE i > Len(s) /\ j > Len(s)
      <3>1. PICK k \in DOMAIN q : k = i - Len(s) /\ r[i] = q[k]
        BY <1>1, <2>2
      <3>2. PICK l \in DOMAIN q : l = j - Len(s) /\ r[j] = q[l]
        BY <1>1, <2>2
      <3>3. k = l
        BY <1>4, <3>1, <3>2 DEF Once
      <3> QED
        BY <1>1, <2>2, <3>1, <3>2, <3>3
    <2>3. ASSUME NEW k \in DOMAIN r, r[k] \in A
          PROVE  (k <= Len(s) => Has(s, A)) /\ (k > Len(s) => Has(q, A))
      <3>1. CASE k <= Len(s)
        BY <1>1, <2>3, <3>1 DEF Has
      <3>2. CASE k > Len(s)
        <4>1. PICK l \in DOMAIN q : l = k - Len(s) /\ r[k] = q[l]
          BY <1>1, <3>2
        <4> QED
          BY <1>1, <2>3, <3>2, <4>1 DEF Has
      <3> QED
        BY <1>1, <3>1, <3>2
    <2>4. (i <= Len(s) /\ j <= Len(s)) \/ (i > Len(s) /\ j > Len(s))
      BY <1>1, <1>4, <2>3
    <2> QED
      BY <2>1, <2>2, <2>4
  <1> QED
    BY <1>3, <1>4 DEF r

LEMMA HasTail ==
  ASSUME NEW S, NEW s \in Seq(S), s # <<>>, NEW A
  PROVE  /\ Tail(s) \in Seq(S) /\ Head(s) \in S /\ Len(Tail(s)) = Len(s) - 1 /\ Len(s) > 0
         /\ Has(s, A) <=> Has(Tail(s), A) \/ Head(s) \in A
         /\ Once(s, A) => Once(Tail(s), A) /\ ~ (Has(Tail(s), A) /\ Head(s) \in A)
  <1> DEFINE r == Tail(s)
             h == Head(s)
  <1>1. /\ Len(s) \in Nat /\ Len(s) > 0 /\ DOMAIN s = 1 .. Len(s) /\ DOMAIN r = 1 .. Len(s) - 1
        /\ \A j \in 1 .. Len(s) - 1 : r[j] = s[j + 1]
        /\ h = s[1] /\ h \in S /\ r \in Seq(S) /\ Len(r) = Len(s) - 1
    OBVIOUS
  <1> HIDE DEF r, h
  <1>2. Has(s, A) <=> Has(r, A) \/ h \in A
    <2>1. ASSUME NEW j \in DOMAIN s, j # 1 PROVE j - 1 \in DOMAIN r /\ r[j - 1] = s[j]
      <3>1. j - 1 \in 1 .. Len(s) - 1 /\ (j - 1) + 1 = j
        BY <1>1, <2>1
      <3>2. r[j - 1] = s[(j - 1) + 1]
        BY <1>1, <3>1
      <3> QED
        BY <1>1, <3>1, <3>2
    <2>2. ASSUME NEW j \in DOMAIN r PROVE j + 1 \in DOMAIN s /\ r[j] = s[j + 1]
      BY <1>1
    <2>3. 1 \in DOMAIN s
      BY <1>1
    <2> QED
      BY <1>1, <2>1, <2>2, <2>3 DEF Has
  <1>3. ASSUME Once(s, A) PROVE Once(r, A) /\ ~ (Has(r, A) /\ h \in A)
    <2>1. ASSUME NEW j \in DOMAIN r PROVE j + 1 \in DOMAIN s /\ r[j] = s[j + 1] /\ j + 1 # 1
      BY <1>1
    <2>2. Once(r, A)
      <3> SUFFICES ASSUME NEW i \in DOMAIN r, NEW j \in DOMAIN r, r[i] \in A, r[j] \in A
                   PROVE  i = j
        BY DEF Once
      <3>1. i + 1 = j + 1
        BY <1>3, <2>1 DEF Once
      <3> QED
        BY <1>1, <3>1
    <2>3. 1 \in DOMAIN s
      BY <1>1
    <2> QED
      BY <1>1, <1>3, <2>1, <2>2, <2>3 DEF Has, Once
  <1> QED
    BY <1>1, <1>2, <1>3 DEF r, h

LEMMA HasRemoved ==
  ASSUME NEW S, NEW s \in Seq(S), NEW i \in DOMAIN s, NEW A
  PROVE  /\ RemoveAt(s, i) \in Seq(S) /\ s[i] \in S
         /\ Has(s, A) <=> Has(RemoveAt(s, i), A) \/ s[i] \in A
         /\ Once(s, A) => Once(RemoveAt(s, i), A) /\ ~ (Has(RemoveAt(s, i), A) /\ s[i] \in A)
  <1> DEFINE r == RemoveAt(s, i)
             n == Len(s)
  <1>1. n \in Nat /\ n > 0 /\ DOMAIN s = 1 .. n /\ i \in 1 .. n /\ s[i] \in S
    OBVIOUS
  <1>2. /\ r \in Seq(S) /\ Len(r) = n - 1 /\ DOMAIN r = 1 .. n - 1
        /\ \A j \in 1 .. i - 1 : r[j] = s[j]
        /\ \A j \in i .. n - 1 : r[j] = s[j + 1]
    <2> DEFINE a == SubSeq(s, 1, i - 1)
               b == SubSeq(s, i + 1, Len(s))
    <2>1. a \in Seq(S) /\ Len(a) = i - 1 /\ \A j \in 1 .. i - 1 : a[j] = s[j]
      BY <1>1
    <2>2. b \in Seq(S) /\ Len(b) = n - i /\ \A j \in 1 .. n - i : b[j] = s[j + i]
      <3>1. b \in Seq(S) /\ Len(b) = n - i
        BY <1>1
      <3>2. ASSUME NEW j \in 1 .. n - i PROVE b[j] = s[(i + 1) + j - 1] /\ (i + 1) + j - 1 = j + i
        BY <1>1
      <3> QED
        BY <3>1, <3>2
    <2>3. r = a \o b
      BY DEF RemoveAt
    <2> HIDE DEF a, b, r, n
    <2>4. r \in Seq(S) /\ Len(r) = n - 1 /\ DOMAIN r = 1 .. n - 1
      <3>0. a \in Seq(S) /\ b \in Seq(S)
        BY <2>1, <2>2
      <3>1. r \in Seq(S) /\ Len(r) = Len(a) + Len(b) /\ DOMAIN r = 1 .. Len(r)
        BY <2>3, <3>0
      <3>2. (i - 1) + (n - i) = n - 1
        BY <1>1
      <3> QED
        BY <2>1, <2>2, <3>1, <3>2
    <2>5. ASSUME NEW j \in 1 .. i - 1 PROVE r[j] = s[j]
      BY <1>1, <2>1, <2>2, <2>3
    <2>6. ASSUME NEW j \in i .. n - 1 PROVE r[j] = s[j + 1]
      <3>1. PICK k \in 1 .. n - i : k = j - (i - 1)
        BY <1>1
      <3>2. b[k] = s[k + i]
        BY <2>2
      <3>4. k + i = j + 1
        BY <1>1, <3>1
      <3>3. r[j] = b[k]
        BY <1>1, <2>1, <2>2, <2>3, <3>1
      <3> QED
        BY <3>2, <3>3, <3>4
    <2> QED
      BY <2>4, <2>5, <2>6
  <1> HIDE DEF r, n
  <1> DEFINE up(j) == IF j < i THEN j ELSE j + 1
             down(j) == IF j < i THEN j ELSE j - 1
  <1>3. ASSUME NEW j \in DOMAIN r
        PROVE  up(j) \in DOMAIN s /\ up(j) # i /\ r[j] = s[up(j)] /\ down(up(j)) = j
    BY <1>1, <1>2
  <1>4. ASSUME NEW j \in DOMAIN s, j # i PROVE down(j) \in DOMAIN r /\ r[down(j)] = s[j]
    <2>1. CASE j < i
      BY <1>1, <1>2, <2>1
    <2>2. CASE j > i
      <3>1. j - 1 \in i .. n - 1 /\ (j - 1) + 1 = j
        BY <1>1, <2>2
      <3>2. r[j - 1] = s[j]
        BY <1>2, <3>1
      <3> QED
        BY <1>1, <1>2, <2>2, <3>1, <3>2
    <2> QED
      BY <1>1, <1>4, <2>1, <2>2
  <1> HIDE DEF up, down
  <1>5. Has(s, A) <=> Has(r, A) \/ s[i] \in A
    <2>1. ASSUME Has(s, A) PROVE Has(r, A) \/ s[i] \in A
      BY <1>4, <2>1 DEF Has
    <2>2. ASSUME Has(r, A) PROVE Has(s, A)
      BY <1>3, <2>2 DEF Has
    <2> QED
      BY <2>1, <2>2 DEF Has
  <1>6. ASSUME Once(s, A) PROVE Once(r, A) /\ ~ (Has(r, A) /\ s[i] \in A)
    <2>1. Once(r, A)
      <3> SUFFICES ASSUME NEW j \in DOMAIN r, NEW k \in DOMAIN r, r[j] \in A, r[k] \in A
                   PROVE  j = k
        BY DEF Once
      <3>1. up(j) = up(k)
        BY <1>3, <1>6 DEF Once
      <3> QED
        BY <1>3, <3>1
    <2>2. ASSUME Has(r, A), s[i] \in A PROVE FALSE
      <3>1. PICK j \in DOMAIN r : r[j] \in A
        BY <2>2 DEF Has
      <3>2. up(j) \in DOMAIN s /\ up(j) # i /\ s[up(j)] \in A
        BY <1>3, <3>1
      <3> QED
        BY <1>6, <2>2, <3>2 DEF Once
    <2> QED
      BY <2>1, <2>2
  <1> QED
    BY <1>1, <1>2, <1>5, <1>6 DEF r, n

LEMMA HasNone == ASSUME NEW A PROVE ~ Has(<<>>, A) /\ Once(<<>>, A)
  BY DEF Has, Once

LEMMA HasIn == ASSUME NEW s, NEW t PROVE t \in ToSet(s) <=> Has(s, {t})
  BY DEF ToSet, Has

-----------------------------------------------------------------------------
(***************************************************************************)
(* Entries, and the wakes of a future that is made done.                   *)
(***************************************************************************)
Sources  == {"test", "task", "calls", "finally"}
Callable == {Wake(t) : t \in Tasks} \cup UserCalls

LEMMA CallablesAre ==
  /\ Entries = [call : Callable, when : Int, order : Nat, from : Sources, cancelled : BOOLEAN]
  /\ \A t \in Tasks : Wake(t) \in Callable
  /\ \A u \in UserCalls : u \in Callable
  /\ \A c \in Callable : (\E t \in Tasks : c = Wake(t)) \/ c \in UserCalls
  BY DEF Entries, Callable, Sources

LEMMA UserCallFacts ==
  ASSUME NEW u \in UserCalls
  PROVE  /\ u.do \in {"set", "raise", "later"}
         /\ u.do \in {"set", "later"} => u.of \in Futures
         /\ u.do = "later" => u.delay \in LateDelays
  BY DEF UserCalls

LEMMA CallsDiffer ==
  ASSUME NEW u \in UserCalls, NEW t \in Tasks
  PROVE  u # Wake(t)
  BY DEF UserCalls, Wake

LEMMA EntryFacts ==
  ASSUME TypeOK, NEW w \in Int, NEW from \in Sources,
         NEW c \in Callable
  PROVE  /\ Entry(c, w, from) \in Entries
         /\ Entry(c, w, from).call = c /\ Entry(c, w, from).when = w
         /\ Entry(c, w, from).order = spent /\ Entry(c, w, from).from = from
         /\ ~ Entry(c, w, from).cancelled
  BY CallablesAre DEF Entry, TypeOK

LEMMA SoonFacts ==
  ASSUME TypeOK, NEW from \in Sources, NEW c \in Callable
  PROVE  /\ Soon(c, from) \in Entries
         /\ Soon(c, from).call = c /\ Soon(c, from).when = NoTime
         /\ Soon(c, from).from = from /\ ~ Soon(c, from).cancelled
  <1>1. NoTime \in Int
    BY DEF NoTime
  <1>2. \A w \in Int : /\ Entry(c, w, from) \in Entries
         /\ Entry(c, w, from).call = c /\ Entry(c, w, from).when = w
         /\ Entry(c, w, from).from = from
         /\ ~ Entry(c, w, from).cancelled
    BY EntryFacts
  <1>3. /\ Entry(c, NoTime, from) \in Entries
        /\ Entry(c, NoTime, from).call = c /\ Entry(c, NoTime, from).when = NoTime
        /\ Entry(c, NoTime, from).from = from
        /\ ~ Entry(c, NoTime, from).cancelled
    BY <1>1, <1>2
  <1> QED
    BY <1>3 DEF Soon

LEMMA CancelledFacts ==
  ASSUME NEW e \in Entries
  PROVE  LET c == [e EXCEPT !.cancelled = TRUE]
         IN  /\ c \in Entries /\ c.call = e.call /\ c.when = e.when
             /\ c.order = e.order /\ c.from = e.from /\ c.cancelled
  BY CallablesAre

LEMMA EntryHasACall ==
  ASSUME NEW e \in Entries
  PROVE  /\ e.when \in Int /\ e.order \in Nat /\ e.cancelled \in BOOLEAN
         /\ (\E t \in Tasks : e.call = Wake(t)) \/ e.call \in UserCalls
         /\ \A t \in Tasks : e.call = Wake(t) <=> e \in WakesOf(t)
         /\ e.call.do = "wake" <=> e.call \notin UserCalls
         /\ e.call.do = "wake" => e.call.of \in Tasks /\ e.call = Wake(e.call.of)
  <1>1. /\ e.when \in Int /\ e.order \in Nat /\ e.cancelled \in BOOLEAN
        /\ (\E t \in Tasks : e.call = Wake(t)) \/ e.call \in UserCalls
    BY CallablesAre
  <1>2. \A t \in Tasks : e.call = Wake(t) <=> e \in WakesOf(t)
    BY DEF WakesOf
  <1>3. CASE e.call \in UserCalls
    BY <1>1, <1>2, <1>3 DEF UserCalls
  <1>4. CASE \E t \in Tasks : e.call = Wake(t)
    <2>1. PICK t \in Tasks : e.call = Wake(t)
      BY <1>4
    <2>2. e.call.do = "wake" /\ e.call.of = t
      BY <2>1 DEF Wake
    <2>3. e.call \notin UserCalls
      BY <2>1, CallsDiffer
    <2> QED
      BY <1>1, <1>2, <2>1, <2>2, <2>3
  <1> QED
    BY <1>1, <1>3, <1>4

LEMMA WakesFacts ==
  ASSUME TypeOK, NEW f \in Futures, NEW from \in Sources
  PROVE  /\ future[f].waiters \in Seq(Tasks) /\ future[f].done \in BOOLEAN
         /\ Wakes(f, from) \in Seq(Entries)
         /\ \A j \in DOMAIN Wakes(f, from) :
              /\ Wakes(f, from)[j].when = NoTime /\ Wakes(f, from)[j].from = from
              /\ Wakes(f, from)[j].call \notin UserCalls /\ ~ Wakes(f, from)[j].cancelled
         /\ \A t \in Tasks : /\ Has(Wakes(f, from), WakesOf(t)) <=> Waits(t, f)
                             /\ Once(future[f].waiters, {t}) => Once(Wakes(f, from), WakesOf(t))
  <1> DEFINE w == future[f].waiters
             q == Wakes(f, from)
  <1>1. w \in Seq(Tasks) /\ future[f].done \in BOOLEAN
    BY DEF TypeOK
  <1>2. DOMAIN q = DOMAIN w /\ \A j \in DOMAIN w : q[j] = Soon(Wake(w[j]), from)
    BY DEF Wakes
  <1>3. DOMAIN w = 1 .. Len(w) /\ Len(w) \in Nat /\ \A j \in DOMAIN w : w[j] \in Tasks
    BY <1>1
  <1> HIDE DEF w, q
  <1>4. ASSUME NEW j \in DOMAIN w
        PROVE  /\ q[j] \in Entries /\ q[j].when = NoTime /\ q[j].from = from
               /\ q[j].call = Wake(w[j]) /\ ~ q[j].cancelled
               /\ q[j].call \notin UserCalls
               /\ \A t \in Tasks : q[j] \in WakesOf(t) <=> w[j] = t
    <2>1. w[j] \in Tasks /\ q[j] = Soon(Wake(w[j]), from)
      BY <1>2, <1>3
    <2>2. /\ q[j] \in Entries /\ q[j].when = NoTime /\ q[j].from = from
          /\ q[j].call = Wake(w[j]) /\ ~ q[j].cancelled
      BY <2>1, SoonFacts, CallablesAre
    <2>3. \A t \in Tasks : q[j] \in WakesOf(t) <=> Wake(w[j]) = Wake(t)
      BY <2>2 DEF WakesOf
    <2>4. \A t \in Tasks : Wake(w[j]) = Wake(t) <=> w[j] = t
      BY DEF Wake
    <2> QED
      BY <2>1, <2>2, <2>3, <2>4, CallsDiffer
  <1>5. q \in Seq(Entries)
    <2>1. q = [j \in 1 .. Len(w) |-> Soon(Wake(w[j]), from)]
      BY <1>3 DEF q, w, Wakes
    <2>2. q \in [1 .. Len(w) -> Entries]
      BY <1>2, <1>3, <1>4, <2>1
    <2> QED
      BY <1>3, <2>2
  <1>6. ASSUME NEW t \in Tasks
        PROVE  (Has(q, WakesOf(t)) <=> Has(w, {t})) /\ (Once(w, {t}) => Once(q, WakesOf(t)))
    BY <1>2, <1>4 DEF Has, Once
  <1> QED
    BY <1>1, <1>2, <1>4, <1>5, <1>6 DEF q, w, Waits

-----------------------------------------------------------------------------
(***************************************************************************)
(* The types, for every operation and step.                                *)
(***************************************************************************)
LEMMA UserIsASource ==
  ASSUME TypeOK, User PROVE control \in Sources
  BY DEF User, Sources, TypeOK

LEMMA DoneTypes ==
  ASSUME TypeOK, NEW f \in Futures
  PROVE  /\ Done(f) \in [Futures -> [done : BOOLEAN, waiters : Seq(Tasks)]]
         /\ Done(f)[f].done /\ Done(f)[f].waiters = <<>>
         /\ \A g \in Futures \ {f} : Done(f)[g] = future[g]
  <1>1. [done |-> TRUE, waiters |-> <<>>] \in [done : BOOLEAN, waiters : Seq(Tasks)]
    OBVIOUS
  <1> QED
    BY <1>1 DEF Done, TypeOK

LEMMA OperationTypes ==
  ASSUME Kept, Operation
  PROVE  TypeOK' /\ TimersAreCalls'
  <1> USE SchedulerAssumption
  <1>1. TypeOK /\ TimersAreCalls
    BY DEF Kept
  <1>o. Operates
    BY DEF Operation, Spawn, SetResult, CallSoon, CallAt, CancelTimer, CancelCallback
  <1>2. control \in Sources /\ spent' \in Nat /\ spent' = spent + 1
        /\ UNCHANGED <<control, current, batch, clock, closing, error>>
    BY <1>1, <1>o, UserIsASource DEF Operates, TypeOK
  <1>b. batch \in 0 .. Len(callbacks) /\ callbacks \in Seq(Entries) /\ Len(callbacks) \in Nat
    BY <1>1 DEF TypeOK
  <1>3. ASSUME NEW t \in Tasks, NEW p \in Priorities, Spawn(t, p)
        PROVE  TypeOK' /\ TimersAreCalls'
    <2>1. /\ UNCHANGED <<callbacks, timers, future>>
          /\ tasks' \in Seq(Tasks) /\ ready' \in Seq(Tasks)
          /\ task' \in [Tasks -> [state : {"unspawned", "new", "suspended", "ended", "closed"},
                                  priority : Nat, level : Int]]
      BY <1>1, <1>3 DEF Spawn, TypeOK
    <2> QED
      BY <1>1, <1>2, <2>1 DEF TypeOK, clock, TimersAreCalls
  <1>4. ASSUME NEW f \in Futures, SetResult(f) PROVE TypeOK' /\ TimersAreCalls'
    <2>1. Wakes(f, control) \in Seq(Entries)
      BY <1>1, <1>2, WakesFacts
    <2>2. callbacks' = callbacks \o Wakes(f, control) /\ future' = Done(f)
          /\ UNCHANGED <<task, tasks, ready, timers>>
      BY <1>4 DEF SetResult
    <2>3. callbacks' \in Seq(Entries) /\ batch \in 0 .. Len(callbacks')
      BY <1>b, <2>1, <2>2
    <2> QED
      BY <1>1, <1>2, <2>2, <2>3, DoneTypes DEF TypeOK, clock, TimersAreCalls
  <1>5. ASSUME NEW c \in UserCalls, CallSoon(c) PROVE TypeOK' /\ TimersAreCalls'
    <2>1. Soon(c, control) \in Entries
      BY <1>1, <1>2, SoonFacts, CallablesAre
    <2>2. callbacks' = Append(callbacks, Soon(c, control))
          /\ UNCHANGED <<task, tasks, ready, timers, future>>
      BY <1>5 DEF CallSoon
    <2>3. callbacks' \in Seq(Entries) /\ batch \in 0 .. Len(callbacks')
      BY <1>b, <2>1, <2>2
    <2> QED
      BY <1>1, <1>2, <2>2, <2>3 DEF TypeOK, clock, TimersAreCalls
  <1>6. ASSUME NEW d \in Delays, NEW c \in UserCalls, CallAt(d, c)
        PROVE  TypeOK' /\ TimersAreCalls'
    <2>1. now + d \in Int
      BY <1>1 DEF TypeOK
    <2>2. PICK e \in Entries : e = Entry(c, now + d, control) /\ e.call = c
      BY <1>1, <1>2, <2>1, EntryFacts, CallablesAre
    <2>3. timers' = timers \cup {e} /\ UNCHANGED <<task, tasks, ready, callbacks, future>>
      BY <1>6, <2>2 DEF CallAt
    <2>4. TimersAreCalls'
      BY <1>1, <2>2, <2>3, FS_AddElement DEF TimersAreCalls
    <2> QED
      BY <1>1, <1>2, <2>3, <2>4 DEF TypeOK, clock
  <1>7. ASSUME NEW e \in timers, CancelTimer(e) PROVE TypeOK' /\ TimersAreCalls'
    <2>0. e \in Entries
      BY <1>1 DEF TypeOK
    <2>1. PICK c \in Entries : c = [e EXCEPT !.cancelled = TRUE] /\ c.call = e.call
      BY <2>0, CancelledFacts
    <2>2. timers' = (timers \ {e}) \cup {c} /\ UNCHANGED <<task, tasks, ready, callbacks, future>>
      BY <1>7, <2>1 DEF CancelTimer
    <2>3. IsFiniteSet(timers \ {e})
      BY <1>1, FS_RemoveElement DEF TimersAreCalls
    <2>4. TimersAreCalls'
      BY <1>1, <2>1, <2>2, <2>3, FS_AddElement DEF TimersAreCalls
    <2> QED
      BY <1>1, <1>2, <2>2, <2>4 DEF TypeOK, clock
  <1>8. ASSUME NEW i \in DOMAIN callbacks, CancelCallback(i) PROVE TypeOK' /\ TimersAreCalls'
    <2>0. callbacks[i] \in Entries
      BY <1>b
    <2>1. PICK c \in Entries : c = [callbacks[i] EXCEPT !.cancelled = TRUE]
      BY <2>0, CancelledFacts
    <2>2. callbacks' = [callbacks EXCEPT ![i] = c] /\ UNCHANGED <<task, tasks, ready, timers, future>>
      BY <1>8, <2>1 DEF CancelCallback
    <2>3. callbacks' \in Seq(Entries) /\ Len(callbacks') = Len(callbacks)
      BY <1>b, <2>2
    <2> QED
      BY <1>1, <1>2, <2>2, <2>3 DEF TypeOK, clock, TimersAreCalls
  <1> QED
    BY <1>3, <1>4, <1>5, <1>6, <1>7, <1>8 DEF Operation

(***************************************************************************)
(* What a pass queues, and what is left when one of its calls is made.     *)
(***************************************************************************)
LEMMA OrderedFacts ==
  ASSUME TypeOK, TimersAreCalls, NEW due, due \subseteq timers, NEW q \in Ordered(due)
  PROVE  /\ q \in Seq(Entries) /\ Len(q) \in Nat /\ DOMAIN q = 1 .. Len(q)
         /\ \A j \in DOMAIN q : q[j] \in due /\ q[j].call \in UserCalls
         /\ \A j \in DOMAIN q : \A i \in 1 .. j - 1 : Earlier(q[i], q[j])
         /\ \A t \in Tasks : ~ Has(q, WakesOf(t)) /\ Once(q, WakesOf(t))
  <1>1. IsFiniteSet(due) /\ due \subseteq Entries
    BY FS_Subset DEF TimersAreCalls, TypeOK
  <1>2. PICK n \in Nat : n = Cardinality(due)
    BY <1>1, FS_CardinalityType
  <1>3. q \in [1 .. n -> due] /\ \A j \in DOMAIN q : \A i \in 1 .. j - 1 : Earlier(q[i], q[j])
    BY <1>2 DEF Ordered
  <1>4. q \in Seq(Entries) /\ Len(q) = n /\ DOMAIN q = 1 .. n
    BY <1>1, <1>3
  <1>5. \A j \in DOMAIN q : q[j] \in due /\ q[j].call \in UserCalls /\ q[j] \in Entries
    BY <1>1, <1>3, <1>4 DEF TimersAreCalls
  <1>6. \A t \in Tasks : \A j \in DOMAIN q : q[j] \notin WakesOf(t)
    BY <1>5, CallsDiffer DEF WakesOf
  <1> QED
    BY <1>3, <1>4, <1>5, <1>6 DEF Has, Once

LEMMA PassFacts ==
  ASSUME TypeOK, TimersAreCalls, Pass
  PROVE  \E q \in Seq(Entries) :
           /\ callbacks' = callbacks \o q
           /\ Len(q) \in Nat /\ DOMAIN q = 1 .. Len(q)
           /\ \A j \in DOMAIN q : q[j] \in timers /\ IsDue(q[j])
           /\ \A j \in DOMAIN q : \A i \in 1 .. j - 1 : Earlier(q[i], q[j])
           /\ \A t \in Tasks : ~ Has(q, WakesOf(t)) /\ Once(q, WakesOf(t))
           /\ \A j \in DOMAIN q : q[j].call \in UserCalls
           /\ timers' = timers \ {e \in timers : IsDue(e)}
           /\ batch' = Len(callbacks) + Len(q) /\ Len(callbacks') = Len(callbacks) + Len(q)
  <1> DEFINE due == {e \in timers : IsDue(e)}
  <1>1. PICK q \in Ordered(due) : callbacks' = callbacks \o q
    BY DEF Pass
  <1>2. timers' = timers \ due /\ batch' = Len(callbacks')
    BY DEF Pass
  <1>3. due \subseteq timers /\ \A e \in due : IsDue(e)
    OBVIOUS
  <1> HIDE DEF due
  <1>4. /\ q \in Seq(Entries) /\ Len(q) \in Nat /\ DOMAIN q = 1 .. Len(q)
        /\ \A j \in DOMAIN q : q[j] \in due /\ q[j].call \in UserCalls
        /\ \A j \in DOMAIN q : \A i \in 1 .. j - 1 : Earlier(q[i], q[j])
        /\ \A t \in Tasks : ~ Has(q, WakesOf(t)) /\ Once(q, WakesOf(t))
    BY <1>3, OrderedFacts
  <1>5. callbacks \in Seq(Entries) /\ q \in Seq(Entries)
    BY <1>4 DEF TypeOK
  <1>6. Len(callbacks') = Len(callbacks) + Len(q)
    BY ONLY <1>1, <1>5
  <1>7. \A j \in DOMAIN q : q[j] \in timers /\ IsDue(q[j])
    BY <1>3, <1>4
  <1>8. timers' = timers \ {e \in timers : IsDue(e)}
    BY <1>2 DEF due
  <1> QED
    BY <1>1, <1>2, <1>4, <1>6, <1>7, <1>8

LEMMA TakesFacts ==
  ASSUME TypeOK, NEW entry, Takes(entry)
  PROVE  /\ entry \in Entries /\ entry = Head(callbacks) /\ callbacks # <<>>
         /\ Tail(callbacks) \in Seq(Entries) /\ Len(Tail(callbacks)) = Len(callbacks) - 1
         /\ Len(callbacks) \in Nat /\ Len(callbacks) > 0
         /\ batch \in Nat /\ batch > 0 /\ batch <= Len(callbacks)
         /\ batch' = batch - 1 /\ control = "calls"
         /\ UNCHANGED <<current, task, tasks, clock, closing>>
  <1>1. /\ callbacks \in Seq(Entries) /\ Len(callbacks) \in Nat /\ batch \in 0 .. Len(callbacks)
        /\ entry = Head(callbacks) /\ batch > 0 /\ batch' = batch - 1 /\ control = "calls"
        /\ UNCHANGED <<current, task, tasks, clock, closing>>
    BY DEF TypeOK, Takes
  <1>2. callbacks # <<>>
    BY <1>1
  <1> QED
    BY <1>1, <1>2

TaskStates == [state : {"unspawned", "new", "suspended", "ended", "closed"},
               priority : Nat, level : Int]

LEMMA CallTypes ==
  ASSUME Kept, Calls
  PROVE  TypeOK' /\ TimersAreCalls' /\ HolderIsKnown'
  <1> USE SchedulerAssumption
  <1>1. TypeOK /\ TimersAreCalls /\ HolderIsKnown
    BY DEF Kept
  <1>2. PICK entry \in Entries :
          /\ Takes(entry)
          /\ \/ /\ callbacks' = Tail(callbacks)
                /\ UNCHANGED <<control, ready, timers, future, error, spent>>
             \/ /\ entry.call.do = "wake"
                /\ callbacks' = Tail(callbacks)
                /\ ready' = Append(ready, entry.call.of)
                /\ UNCHANGED <<control, timers, future, error, spent>>
             \/ /\ entry.call.do = "set"
                /\ future' = Done(entry.call.of)
                /\ callbacks' = Tail(callbacks) \o Wakes(entry.call.of, control)
                /\ UNCHANGED <<control, ready, timers, error, spent>>
             \/ /\ entry.call.do = "later"
                /\ callbacks' = Tail(callbacks)
                /\ timers' = timers \cup {Entry([do |-> "set", of |-> entry.call.of, delay |-> 0],
                                                now + entry.call.delay, control)}
                /\ spent' = spent + 1
                /\ UNCHANGED <<control, ready, future, error>>
             \/ /\ callbacks' = Tail(callbacks)
                /\ error' = "raised" /\ control' = "drop"
                /\ UNCHANGED <<ready, timers, future, spent>>
    BY <1>1, TakesFacts DEF Calls, Skip, CallWake, CallSet, CallLater, CallRaises
  <1>3. /\ Tail(callbacks) \in Seq(Entries) /\ Len(Tail(callbacks)) = Len(callbacks) - 1
        /\ Len(callbacks) \in Nat /\ batch' \in 0 .. Len(callbacks) - 1
        /\ UNCHANGED <<current, task, tasks, now, lowest, points, release, closing>>
        /\ control = "calls" /\ control \in Sources
    BY <1>1, <1>2, TakesFacts DEF clock, Sources
  <1>4. CASE callbacks' = Tail(callbacks) /\ UNCHANGED <<control, ready, timers, future, error, spent>>
    BY <1>1, <1>3, <1>4 DEF TypeOK, TimersAreCalls, HolderIsKnown
  <1>5. CASE /\ entry.call.do = "wake"
             /\ callbacks' = Tail(callbacks)
             /\ ready' = Append(ready, entry.call.of)
             /\ UNCHANGED <<control, timers, future, error, spent>>
    <2>1. entry.call.of \in Tasks
      BY <1>5, EntryHasACall
    <2>2. ready' \in Seq(Tasks)
      BY <1>1, <1>5, <2>1 DEF TypeOK
    <2> QED
      BY <1>1, <1>3, <1>5, <2>2 DEF TypeOK, TimersAreCalls, HolderIsKnown
  <1>6. CASE /\ entry.call.do = "set"
             /\ future' = Done(entry.call.of)
             /\ callbacks' = Tail(callbacks) \o Wakes(entry.call.of, control)
             /\ UNCHANGED <<control, ready, timers, error, spent>>
    <2>1. entry.call \in UserCalls
      BY <1>6, EntryHasACall
    <2>2. PICK f \in Futures : f = entry.call.of
      BY <1>6, <2>1 DEF UserCalls
    <2>3. Wakes(f, control) \in Seq(Entries)
      BY <1>1, <1>3, WakesFacts
    <2>4. callbacks' \in Seq(Entries) /\ batch' \in 0 .. Len(callbacks')
      BY <1>3, <1>6, <2>2, <2>3
    <2> QED
      BY <1>1, <1>3, <1>6, <2>2, <2>4, DoneTypes DEF TypeOK, TimersAreCalls, HolderIsKnown
  <1>7. CASE /\ entry.call.do = "later"
             /\ callbacks' = Tail(callbacks)
             /\ timers' = timers \cup {Entry([do |-> "set", of |-> entry.call.of, delay |-> 0],
                                             now + entry.call.delay, control)}
             /\ spent' = spent + 1
             /\ UNCHANGED <<control, ready, future, error>>
    <2>1. entry.call \in UserCalls
      BY <1>7, EntryHasACall
    <2>2. entry.call.of \in Futures /\ entry.call.delay \in Int
      BY <1>7, <2>1, UserCallFacts
    <2>3. PICK u \in UserCalls : u = [do |-> "set", of |-> entry.call.of, delay |-> 0]
      BY <2>2 DEF UserCalls
    <2>4. now + entry.call.delay \in Int
      BY <1>1, <2>2 DEF TypeOK
    <2>5. PICK e \in Entries : e = Entry(u, now + entry.call.delay, control) /\ e.call = u
      BY <1>1, <1>3, <2>4, EntryFacts, CallablesAre
    <2>6. timers' = timers \cup {e}
      BY <1>7, <2>3, <2>5
    <2>7. TimersAreCalls'
      BY <1>1, <2>5, <2>6, FS_AddElement DEF TimersAreCalls
    <2>8. spent' \in Nat
      BY <1>1, <1>7 DEF TypeOK
    <2> QED
      BY <1>1, <1>3, <1>7, <2>5, <2>6, <2>7, <2>8 DEF TypeOK, HolderIsKnown
  <1>8. CASE /\ callbacks' = Tail(callbacks)
             /\ error' = "raised" /\ control' = "drop"
             /\ UNCHANGED <<ready, timers, future, spent>>
    BY <1>1, <1>3, <1>8 DEF TypeOK, TimersAreCalls, HolderIsKnown
  <1> QED
    BY <1>2, <1>4, <1>5, <1>6, <1>7, <1>8

(***************************************************************************)
(* A task whose state alone changes, and one that waits for a future.      *)
(***************************************************************************)
LEMMA StateFacts ==
  ASSUME TypeOK, NEW t \in Tasks,
         NEW s \in {"new", "suspended", "ended", "closed"},
         task' = [task EXCEPT ![t].state = s]
  PROVE  /\ task' \in [Tasks -> TaskStates]
         /\ task'[t].state = s /\ task'[t].level = task[t].level
         /\ \A u \in Tasks : u # t => task'[u] = task[u]
  <1>1. task \in [Tasks -> TaskStates] /\ task[t] \in TaskStates
    BY DEF TypeOK, TaskStates
  <1>2. PICK r \in TaskStates : r = [task[t] EXCEPT !.state = s] /\ r.state = s
                                /\ r.level = task[t].level
    BY <1>1 DEF TaskStates
  <1>3. task' = [task EXCEPT ![t] = r]
    BY <1>2
  <1> QED
    BY <1>1, <1>2, <1>3

LEMMA ReleaseFacts ==
  ASSUME TypeOK, NEW i \in DOMAIN ready, Release(i)
  PROVE  /\ ready[i] \in Tasks /\ ready \in Seq(Tasks)
         /\ task' \in [Tasks -> TaskStates] /\ ready' \in Seq(Tasks) /\ ready' = RemoveAt(ready, i)
         /\ current' = ready[i] /\ current' \in Tasks /\ release' = release + 1
         /\ control = "release" /\ control' \in {"task", "drop"}
         /\ control' = "task" <=> IsOpen(ready[i])
         /\ UNCHANGED <<tasks, callbacks, timers, batch, future, now, points, runs, closing, spent>>
         /\ \A u \in Tasks : u # ready[i] => task'[u] = task[u]
         /\ task'[ready[i]].state = IF task[ready[i]].state = "new" THEN "suspended"
                                                                   ELSE task[ready[i]].state
         /\ \E n \in Nat : /\ lowest' = lowest - n
                           /\ task'[ready[i]].level = IF n > 0 THEN lowest - n
                                                              ELSE task[ready[i]].level
  <1>1. PICK t \in Tasks : t = ready[i] /\ ready \in Seq(Tasks)
    BY DEF TypeOK
  <1>2. RemoveAt(ready, i) \in Seq(Tasks)
    BY <1>1, HasRemoved
  <1>3. PICK n \in Nat : n = Cardinality({k \in DOMAIN points : points[k] = release})
    <2>1. DOMAIN points = 1 .. Len(points) /\ Len(points) \in Nat
      BY DEF TypeOK
    <2>2. 1 \in Int /\ Len(points) \in Int
      BY <2>1
    <2>3. IsFiniteSet(1 .. Len(points))
      BY ONLY <2>2, FS_Interval
    <2>4. IsFiniteSet({k \in DOMAIN points : points[k] = release})
      BY <2>1, <2>3, FS_Subset
    <2> QED
      BY <2>4, FS_CardinalityType
  <1>4. task \in [Tasks -> TaskStates] /\ task[t] \in TaskStates /\ lowest \in Int
    BY DEF TypeOK, TaskStates
  <1>5. task[t].level \in Int
        /\ task[t].state \in {"unspawned", "new", "suspended", "ended", "closed"}
    BY <1>4 DEF TaskStates
  <1>6. PICK l \in Int : l = IF n > 0 THEN lowest - n ELSE task[t].level
    <2>1. lowest - n \in Int
      BY <1>4
    <2>2. CASE n > 0
      BY <2>1, <2>2
    <2>3. CASE ~ (n > 0)
      BY <1>5, <2>3
    <2> QED
      BY <2>2, <2>3
  <1>7. PICK s \in {"unspawned", "new", "suspended", "ended", "closed"} :
          s = IF task[t].state = "new" THEN "suspended" ELSE task[t].state
    BY <1>5
  <1> DEFINE new == [task[t] EXCEPT !.level = l, !.state = s]
  <1>14. new \in TaskStates
    BY <1>4 DEF TaskStates
  <1>15. new.level = l /\ new.state = s
    BY <1>4 DEF TaskStates
  <1>8. PICK r \in TaskStates : r = new /\ r.level = l /\ r.state = s
    BY <1>14, <1>15
  <1>9. task' = [task EXCEPT ![t].level = l, ![t].state = s]
    BY <1>1, <1>3, <1>4, <1>6, <1>7 DEF Release, Lowered
  <1>10. task' = [task EXCEPT ![t] = r]
    BY <1>4, <1>8, <1>9
  <1>11. /\ task' \in [Tasks -> TaskStates] /\ task'[t] = r
         /\ \A u \in Tasks : u # t => task'[u] = task[u]
    BY <1>4, <1>8, <1>10
  <1>12. lowest' = lowest - n
    BY <1>3 DEF Release, Lowered
  <1>13. /\ ready' = RemoveAt(ready, i) /\ current' = t /\ release' = release + 1
         /\ control = "release" /\ control' = (IF IsOpen(t) THEN "task" ELSE "drop")
         /\ UNCHANGED <<tasks, callbacks, timers, batch, future, now, points, runs, closing, spent>>
    BY <1>1 DEF Release
  <1> QED
    BY <1>1, <1>2, <1>6, <1>7, <1>8, <1>11, <1>12, <1>13

LEMMA AwaitFacts ==
  ASSUME TypeOK, HolderIsKnown, NEW f \in Futures, Await(f)
  PROVE  /\ future' \in [Futures -> [done : BOOLEAN, waiters : Seq(Tasks)]]
         /\ current \in Tasks /\ future[f].waiters \in Seq(Tasks)
         /\ future'[f].waiters = Append(future[f].waiters, current)
         /\ ~ future[f].done /\ ~ future'[f].done
         /\ \A g \in Futures : g # f => future'[g] = future[g]
  <1> DEFINE Kinds == [done : BOOLEAN, waiters : Seq(Tasks)]
  <1>1. /\ current \in Tasks /\ future \in [Futures -> Kinds] /\ ~ future[f].done
        /\ future' = [future EXCEPT ![f].waiters = Append(@, current)]
    BY DEF TypeOK, HolderIsKnown, Await
  <1>2. future[f] \in Kinds /\ future[f].waiters \in Seq(Tasks)
    BY <1>1
  <1>3. Append(future[f].waiters, current) \in Seq(Tasks)
    BY <1>1, <1>2
  <1> DEFINE q == [future[f] EXCEPT !.waiters = Append(future[f].waiters, current)]
  <1>6. q \in Kinds /\ q.waiters = Append(future[f].waiters, current)
    BY <1>2, <1>3
  <1>7. q.done = future[f].done
    BY <1>2
  <1>4. PICK r \in Kinds : r = q /\ r.waiters = Append(future[f].waiters, current) /\ ~ r.done
    BY <1>1, <1>6, <1>7
  <1>5. future' = [future EXCEPT ![f] = r]
    BY <1>1, <1>4
  <1> QED
    BY <1>1, <1>2, <1>4, <1>5

LEMMA StepTypes ==
  ASSUME Kept, Step
  PROVE  TypeOK' /\ TimersAreCalls' /\ HolderIsKnown'
  <1> USE SchedulerAssumption
  <1>1. TypeOK /\ TimersAreCalls /\ HolderIsKnown
    BY DEF Kept
  <1>t. task \in [Tasks -> TaskStates]
    BY <1>1 DEF TypeOK, TaskStates
  <1>2. ASSUME Return \/ Settled \/ Again \/ ChoiceStops \/ Misuse
        PROVE  TypeOK' /\ TimersAreCalls' /\ HolderIsKnown'
    BY <1>1, <1>2 DEF Return, Settled, Again, ChoiceStops, Misuse, lists, clock, TypeOK,
                      TimersAreCalls, HolderIsKnown
  <1>3. ASSUME Pass PROVE TypeOK' /\ TimersAreCalls' /\ HolderIsKnown'
    <2>1. PICK q \in Seq(Entries) : /\ callbacks' = callbacks \o q
                                    /\ batch' = Len(callbacks) + Len(q)
                                    /\ Len(callbacks') = Len(callbacks) + Len(q)
                                    /\ timers' \subseteq timers
      BY <1>1, <1>3, PassFacts
    <2>2. callbacks' \in Seq(Entries) /\ batch' \in 0 .. Len(callbacks')
      BY <1>1, <2>1 DEF TypeOK
    <2>3. TimersAreCalls'
      BY <1>1, <2>1, FS_Subset DEF TimersAreCalls
    <2>4. /\ control' = "calls" /\ control \in {"loop", "settle"}
          /\ UNCHANGED <<current, task, tasks, ready, future, clock, closing, error, spent>>
      BY <1>3 DEF Pass
    <2> QED
      BY <1>1, <2>1, <2>2, <2>3, <2>4 DEF TypeOK, HolderIsKnown, clock
  <1>4. ASSUME Calls PROVE TypeOK' /\ TimersAreCalls' /\ HolderIsKnown'
    BY <1>4, CallTypes
  <1>5. ASSUME Advance PROVE TypeOK' /\ TimersAreCalls' /\ HolderIsKnown'
    <2>1. timers' \subseteq timers
      BY <1>5 DEF Advance
    <2>2. TimersAreCalls'
      BY <1>1, <2>1, FS_Subset DEF TimersAreCalls
    <2>3. now' \in Int
      <3>1. PICK e \in timers : now' = e.when
        BY <1>5 DEF Advance, Uncancelled
      <3>2. e \in Entries
        BY <1>1 DEF TypeOK
      <3> QED
        BY <3>1, <3>2, EntryHasACall
    <2>4. /\ control' = "settle" /\ control = "calls"
          /\ UNCHANGED <<current, task, tasks, ready, callbacks, batch, future, lowest, points,
                         release, runs, closing, error, spent>>
      BY <1>5 DEF Advance, Idle
    <2> QED
      BY <1>1, <2>1, <2>2, <2>3, <2>4 DEF TypeOK, HolderIsKnown
  <1>6. ASSUME Deadlock PROVE TypeOK' /\ TimersAreCalls' /\ HolderIsKnown'
    <2>1. TimersAreCalls'
      BY <1>6, FS_EmptySet DEF Deadlock, TimersAreCalls
    <2> QED
      BY <1>1, <1>6, <2>1 DEF Deadlock, TypeOK, HolderIsKnown, clock
  <1>7. ASSUME NEW i \in DOMAIN ready, Release(i)
        PROVE  TypeOK' /\ TimersAreCalls' /\ HolderIsKnown'
    <2>1. PICK n \in Nat : lowest' = lowest - n
      BY <1>1, <1>7, ReleaseFacts
    <2>2. lowest' \in Int
      BY <1>1, <2>1 DEF TypeOK
    <2>3. /\ task' \in [Tasks -> TaskStates] /\ ready' \in Seq(Tasks) /\ current' \in Tasks
          /\ release' = release + 1 /\ control = "release" /\ control' \in {"task", "drop"}
          /\ UNCHANGED <<tasks, callbacks, timers, batch, future, now, points, runs, closing, spent>>
      BY <1>1, <1>7, ReleaseFacts
    <2>4. TypeOK'
      <3>1. release' \in Nat /\ current' \in Tasks \cup {Nobody}
            /\ control' \in {"test", "loop", "settle", "calls", "release", "task", "drop",
                            "close", "finally"}
        BY <1>1, <2>3 DEF TypeOK
      <3>2. batch' \in 0 .. Len(callbacks') /\ callbacks' \in Seq(Entries) /\ timers' \subseteq Entries
            /\ tasks' \in Seq(Tasks) /\ closing' \in Seq(Tasks)
            /\ now' \in Int /\ spent' \in Nat /\ points' \in Seq(Nat)
            /\ future' \in [Futures -> [done : BOOLEAN, waiters : Seq(Tasks)]]
        BY <1>1, <2>3 DEF TypeOK
      <3> QED
        BY <2>2, <2>3, <3>1, <3>2 DEF TypeOK, TaskStates
    <2> QED
      BY <1>1, <2>3, <2>4 DEF TimersAreCalls, HolderIsKnown
  <1>8. ASSUME Yield PROVE TypeOK' /\ TimersAreCalls' /\ HolderIsKnown'
    <2>1. current \in Tasks
      BY <1>1, <1>8 DEF Yield, HolderIsKnown
    <2> QED
      BY <1>1, <1>8, <2>1 DEF Yield, clock, TypeOK, TimersAreCalls, HolderIsKnown
  <1>9. ASSUME End PROVE TypeOK' /\ TimersAreCalls' /\ HolderIsKnown'
    <2>1. current \in Tasks
      BY <1>1, <1>9 DEF End, HolderIsKnown
    <2>2. PICK i \in DOMAIN tasks : tasks' = RemoveAt(tasks, i)
      BY <1>9 DEF End
    <2>3. tasks' \in Seq(Tasks)
      BY <1>1, <2>2, HasRemoved DEF TypeOK
    <2>4. task' \in [Tasks -> TaskStates]
      <3>1. task' = [task EXCEPT ![current].state = "ended"]
        BY <1>9 DEF End
      <3> QED
        BY <1>1, <2>1, <3>1, StateFacts
    <2> QED
      BY <1>1, <1>9, <2>3, <2>4 DEF End, clock, TypeOK, TimersAreCalls, HolderIsKnown, TaskStates
  <1>10. ASSUME Raise \/ Closed PROVE TypeOK' /\ TimersAreCalls' /\ HolderIsKnown'
    <2>1. current \in Tasks
      BY <1>1, <1>10 DEF Raise, Closed, HolderIsKnown
    <2>2. \/ task' = [task EXCEPT ![current].state = "ended"]
          \/ task' = [task EXCEPT ![current].state = "closed"]
      BY <1>10 DEF Raise, Closed
    <2>3. PICK s \in {"ended", "closed"} : task' = [task EXCEPT ![current].state = s]
      BY <2>2
    <2>4. task' \in [Tasks -> TaskStates]
      BY <1>1, <2>1, <2>3, StateFacts
    <2>5. CASE Raise
      BY <1>1, <2>5, <2>4 DEF Raise, lists, clock, TypeOK, TimersAreCalls, HolderIsKnown,
                              TaskStates
    <2>6. CASE Closed
      BY <1>1, <2>6, <2>4 DEF Closed, lists, clock, TypeOK, TimersAreCalls, HolderIsKnown,
                              TaskStates
    <2> QED
      BY <1>10, <2>5, <2>6
  <1>11. ASSUME NEW f \in Futures, Await(f) PROVE TypeOK' /\ TimersAreCalls' /\ HolderIsKnown'
    <2>2. future' \in [Futures -> [done : BOOLEAN, waiters : Seq(Tasks)]]
      BY <1>1, <1>11, AwaitFacts
    <2> QED
      BY <1>1, <1>11, <2>2 DEF Await, lists, clock, TypeOK, TimersAreCalls, HolderIsKnown
  <1>12. ASSUME Drop PROVE TypeOK' /\ TimersAreCalls' /\ HolderIsKnown'
    <2>1. task' \in [Tasks -> TaskStates]
      BY <1>t, <1>12 DEF Drop, TaskStates
    <2>2. TimersAreCalls'
      BY <1>12, FS_EmptySet DEF Drop, TimersAreCalls
    <2> QED
      BY <1>1, <1>12, <2>1, <2>2 DEF Drop, ToClose, clock, TypeOK, HolderIsKnown, TaskStates
  <1>13. ASSUME Close PROVE TypeOK' /\ TimersAreCalls' /\ HolderIsKnown'
    <2>1. closing \in Seq(Tasks) /\ closing # <<>> /\ closing' = Tail(closing)
          /\ control = "close" /\ UNCHANGED <<task, lists, batch, future, clock, error, spent>>
          /\ \/ current' = Head(closing) /\ control' = "finally"
             \/ UNCHANGED <<current, control>>
      BY <1>1, <1>13 DEF Close, TypeOK
    <2>2. closing' \in Seq(Tasks) /\ Head(closing) \in Tasks
      BY <2>1
    <2> QED
      BY <1>1, <2>1, <2>2 DEF lists, clock, TypeOK, TimersAreCalls, HolderIsKnown
  <1>14. Abandon => future' \in [Futures -> [done : BOOLEAN, waiters : Seq(Tasks)]]
    <2>1. [done |-> TRUE, waiters |-> <<>>] \in [done : BOOLEAN, waiters : Seq(Tasks)]
      OBVIOUS
    <2> QED
      BY <1>1, <2>1 DEF Abandon, TypeOK
  <1>15. ASSUME FinallyRaises PROVE TypeOK' /\ TimersAreCalls' /\ HolderIsKnown'
    <2>1. current \in Tasks
      BY <1>1, <1>15 DEF FinallyRaises, HolderIsKnown
    <2>2. task' \in [Tasks -> TaskStates]
      <3>1. task' = [task EXCEPT ![current].state = "closed"]
        BY <1>15 DEF FinallyRaises
      <3> QED
        BY <1>1, <2>1, <3>1, StateFacts
    <2> QED
      BY <1>1, <1>14, <1>15, <2>2 DEF FinallyRaises, lists, clock, TypeOK, TimersAreCalls,
                                      HolderIsKnown, TaskStates
  <1>16. ASSUME Dropped PROVE TypeOK' /\ TimersAreCalls' /\ HolderIsKnown'
    BY <1>1, <1>14, <1>16 DEF Dropped, lists, clock, TypeOK, TimersAreCalls, HolderIsKnown
  <1> QED
    BY <1>2, <1>3, <1>4, <1>5, <1>6, <1>7, <1>8, <1>9, <1>10, <1>11, <1>12, <1>13, <1>15, <1>16
       DEF Step

LEMMA RunTypes ==
  ASSUME Kept, NEW ps \in ChangePoints, Run(ps)
  PROVE  TypeOK' /\ TimersAreCalls' /\ HolderIsKnown'
  <1> USE SchedulerAssumption
  <1>1. ps \in Seq(Nat)
    <2>1. PICK n \in 0 .. (IF Depth > 0 THEN Depth - 1 ELSE 0) : ps \in [1 .. n -> Counts]
      BY DEF ChangePoints
    <2>2. n \in Nat
      OBVIOUS
    <2>3. ps \in [1 .. n -> Nat]
      BY <2>1
    <2> QED
      BY ONLY <2>2, <2>3
  <1> QED
    BY <1>1 DEF Kept, Run, lists, TypeOK, TimersAreCalls, HolderIsKnown

LEMMA TypesKept ==
  ASSUME Kept, [Next]_vars
  PROVE  TypeOK' /\ TimersAreCalls' /\ HolderIsKnown'
  <1>1. CASE Step
    BY <1>1, StepTypes
  <1>2. CASE Operation
    <2>1. UNCHANGED <<control, current>>
      BY <1>2 DEF Operation, Spawn, SetResult, CallSoon, CallAt, CancelTimer, CancelCallback,
                  Operates
    <2> QED
      BY <1>2, <2>1, OperationTypes DEF Kept, HolderIsKnown
  <1>3. CASE \E ps \in ChangePoints : Run(ps)
    BY <1>3, RunTypes
  <1>4. CASE UNCHANGED vars
    BY <1>4 DEF Kept, vars, lists, clock, TypeOK, TimersAreCalls, HolderIsKnown
  <1> QED
    BY <1>1, <1>2, <1>3, <1>4 DEF Next

-----------------------------------------------------------------------------
(***************************************************************************)
(* Where a task is after each operation and step.                          *)
(***************************************************************************)
LEMMA SamePlaces ==
  ASSUME UNCHANGED <<tasks, ready, callbacks, future>>, NEW t
  PROVE  /\ IsTask(t)' <=> IsTask(t)
         /\ IsReady(t)' <=> IsReady(t)
         /\ IsWoken(t)' <=> IsWoken(t)
         /\ \A f \in Futures : Waits(t, f)' <=> Waits(t, f)
         /\ Somewhere(t)' <=> Somewhere(t)
         /\ OnceAtMost(t)' <=> OnceAtMost(t)
  BY DEF IsTask, IsReady, IsWoken, Waits, Somewhere, OnceAtMost

LEMMA SpawnPlaces ==
  ASSUME TypeOK, NEW s \in Tasks, NEW p \in Priorities, Spawn(s, p), NEW t \in Tasks
  PROVE  /\ IsTask(t)' <=> IsTask(t) \/ t = s
         /\ IsReady(t)' <=> IsReady(t) \/ t = s
         /\ IsWoken(t)' <=> IsWoken(t)
         /\ \A f \in Futures : Waits(t, f)' <=> Waits(t, f)
         /\ OnceAtMost(t) /\ (t = s => ~ IsTask(t) /\ ~ IsReady(t)) => OnceAtMost(t)'
  <1>1. /\ tasks \in Seq(Tasks) /\ ready \in Seq(Tasks)
        /\ tasks' = Append(tasks, s) /\ ready' = Append(ready, s)
        /\ UNCHANGED <<callbacks, future>>
    BY DEF TypeOK, Spawn
  <1>2. IsTask(t)' <=> IsTask(t) \/ t = s
    BY <1>1, HasAppend DEF IsTask
  <1>3. IsReady(t)' <=> IsReady(t) \/ t = s
    BY <1>1, HasAppend DEF IsReady
  <1>4. ASSUME OnceAtMost(t), t = s => ~ IsTask(t) /\ ~ IsReady(t) PROVE OnceAtMost(t)'
    <2>1. Once(tasks', {t})
      BY <1>1, <1>4, HasAppend DEF IsTask, OnceAtMost
    <2>2. Once(ready', {t})
      BY <1>1, <1>4, HasAppend DEF IsReady, OnceAtMost
    <2> QED
      BY <1>1, <1>4, <2>1, <2>2 DEF OnceAtMost
  <1> QED
    BY <1>1, <1>2, <1>3, <1>4 DEF IsWoken, Waits

LEMMA DonePlaces ==
  ASSUME TypeOK, NEW f \in Futures, NEW from \in Sources, NEW s \in Seq(Entries),
         future' = Done(f), callbacks' = s \o Wakes(f, from),
         UNCHANGED <<tasks, ready>>, NEW t \in Tasks
  PROVE  /\ IsTask(t)' <=> IsTask(t)
         /\ IsReady(t)' <=> IsReady(t)
         /\ IsWoken(t)' <=> Has(s, WakesOf(t)) \/ Waits(t, f)
         /\ \A g \in Futures : Waits(t, g)' <=> Waits(t, g) /\ g # f
         /\ OnceAtMost(t) /\ Once(s, WakesOf(t)) /\ ~ (Has(s, WakesOf(t)) /\ Waits(t, f))
              => OnceAtMost(t)'
  <1>1. /\ Wakes(f, from) \in Seq(Entries)
        /\ Has(Wakes(f, from), WakesOf(t)) <=> Waits(t, f)
        /\ Once(future[f].waiters, {t}) => Once(Wakes(f, from), WakesOf(t))
    BY WakesFacts
  <1>2. future'[f].waiters = <<>> /\ \A g \in Futures : g # f => future'[g] = future[g]
    BY DoneTypes
  <1>3. IsWoken(t)' <=> Has(s, WakesOf(t)) \/ Waits(t, f)
    BY <1>1, HasConcat DEF IsWoken
  <1>4. \A g \in Futures : Waits(t, g)' <=> Waits(t, g) /\ g # f
    BY <1>2, HasNone DEF Waits
  <1>5. ASSUME OnceAtMost(t), Once(s, WakesOf(t)), ~ (Has(s, WakesOf(t)) /\ Waits(t, f))
        PROVE  OnceAtMost(t)'
    <2>1. Once(callbacks', WakesOf(t))
      BY <1>1, <1>5, HasConcat DEF OnceAtMost
    <2>2. \A g \in Futures : Once(future'[g].waiters, {t})
      BY <1>2, <1>5, HasNone DEF OnceAtMost
    <2> QED
      BY <1>5, <2>1, <2>2 DEF OnceAtMost
  <1> QED
    BY <1>3, <1>4, <1>5 DEF IsTask, IsReady

LEMMA CallPlaces ==
  ASSUME TypeOK, NEW e \in Entries, e.call \in UserCalls, callbacks' = Append(callbacks, e),
         UNCHANGED <<tasks, ready, future>>, NEW t \in Tasks
  PROVE  /\ IsTask(t)' <=> IsTask(t)
         /\ IsReady(t)' <=> IsReady(t)
         /\ IsWoken(t)' <=> IsWoken(t)
         /\ \A f \in Futures : Waits(t, f)' <=> Waits(t, f)
         /\ OnceAtMost(t) => OnceAtMost(t)'
  <1>1. e \notin WakesOf(t) /\ callbacks \in Seq(Entries)
    BY CallsDiffer DEF WakesOf, TypeOK
  <1>2. IsWoken(t)' <=> IsWoken(t)
    BY <1>1, HasAppend DEF IsWoken
  <1>3. OnceAtMost(t) => OnceAtMost(t)'
    BY <1>1, HasAppend DEF OnceAtMost
  <1> QED
    BY <1>2, <1>3 DEF IsTask, IsReady, Waits

LEMMA CancelPlaces ==
  ASSUME TypeOK, NEW i \in DOMAIN callbacks, CancelCallback(i), NEW t \in Tasks
  PROVE  /\ IsTask(t)' <=> IsTask(t)
         /\ IsReady(t)' <=> IsReady(t)
         /\ IsWoken(t)' <=> IsWoken(t)
         /\ \A f \in Futures : Waits(t, f)' <=> Waits(t, f)
         /\ OnceAtMost(t) => OnceAtMost(t)'
  <1>1. callbacks \in Seq(Entries) /\ callbacks[i] \in Entries
    BY DEF TypeOK
  <1>2. PICK c \in Entries : c = [callbacks[i] EXCEPT !.cancelled = TRUE]
                           /\ c.call = callbacks[i].call
    BY <1>1, CancelledFacts
  <1>3. callbacks' = [callbacks EXCEPT ![i] = c] /\ UNCHANGED <<tasks, ready, future>>
    BY <1>2 DEF CancelCallback
  <1>4. DOMAIN callbacks' = DOMAIN callbacks
        /\ \A j \in DOMAIN callbacks : callbacks'[j] \in WakesOf(t) <=> callbacks[j] \in WakesOf(t)
    BY <1>1, <1>2, <1>3 DEF WakesOf
  <1>5. IsWoken(t)' <=> IsWoken(t)
    BY <1>4 DEF IsWoken, Has
  <1>6. Once(callbacks, WakesOf(t)) => Once(callbacks', WakesOf(t))
    BY <1>4 DEF Once
  <1> QED
    BY <1>3, <1>5, <1>6 DEF IsTask, IsReady, Waits, OnceAtMost

LEMMA PassPlaces ==
  ASSUME TypeOK, TimersAreCalls, Pass, NEW t \in Tasks
  PROVE  /\ IsTask(t)' <=> IsTask(t)
         /\ IsReady(t)' <=> IsReady(t)
         /\ IsWoken(t)' <=> IsWoken(t)
         /\ \A f \in Futures : Waits(t, f)' <=> Waits(t, f)
         /\ OnceAtMost(t) => OnceAtMost(t)'
  <1>1. PICK q \in Seq(Entries) : /\ callbacks' = callbacks \o q
                                  /\ ~ Has(q, WakesOf(t)) /\ Once(q, WakesOf(t))
    BY PassFacts
  <1>2. callbacks \in Seq(Entries) /\ UNCHANGED <<tasks, ready, future>>
    BY DEF TypeOK, Pass
  <1>3. IsWoken(t)' <=> IsWoken(t)
    BY <1>1, <1>2, HasConcat DEF IsWoken
  <1>4. Once(callbacks, WakesOf(t)) => Once(callbacks', WakesOf(t))
    BY <1>1, <1>2, HasConcat
  <1> QED
    BY <1>2, <1>3, <1>4 DEF IsTask, IsReady, Waits, OnceAtMost

\* A call of the pass, whichever it is: entry leaves the callbacks.
LEMMA TakenPlaces ==
  ASSUME TypeOK, NEW entry, Takes(entry), NEW t \in Tasks
  PROVE  /\ IsWoken(t) <=> Has(Tail(callbacks), WakesOf(t)) \/ entry.call = Wake(t)
         /\ Once(callbacks, WakesOf(t)) =>
              /\ Once(Tail(callbacks), WakesOf(t))
              /\ ~ (Has(Tail(callbacks), WakesOf(t)) /\ entry.call = Wake(t))
         /\ IsTask(t)' <=> IsTask(t)
  <1>1. /\ entry \in Entries /\ entry = Head(callbacks) /\ callbacks # <<>>
        /\ UNCHANGED <<current, task, tasks, clock, closing>>
    BY TakesFacts
  <1>2. callbacks \in Seq(Entries)
    BY DEF TypeOK
  <1>3. entry \in WakesOf(t) <=> entry.call = Wake(t)
    BY <1>1 DEF WakesOf
  <1> QED
    BY <1>1, <1>2, <1>3, HasTail DEF IsWoken, IsTask

LEMMA LeavesPlaces ==
  ASSUME TypeOK, NEW entry, Takes(entry), callbacks' = Tail(callbacks), NEW t \in Tasks,
         UNCHANGED <<ready, future>>
  PROVE  /\ IsTask(t)' <=> IsTask(t)
         /\ IsReady(t)' <=> IsReady(t)
         /\ IsWoken(t) <=> IsWoken(t)' \/ entry.call = Wake(t)
         /\ \A f \in Futures : Waits(t, f)' <=> Waits(t, f)
         /\ OnceAtMost(t) => OnceAtMost(t)' /\ ~ (IsWoken(t)' /\ entry.call = Wake(t))
  <1>1. UNCHANGED tasks
    BY TakesFacts
  <1> QED
    BY <1>1, TakenPlaces DEF IsTask, IsReady, IsWoken, Waits, OnceAtMost

LEMMA CallWakePlaces ==
  ASSUME TypeOK, NEW w \in Tasks, NEW entry, Takes(entry), entry.call = Wake(w),
         callbacks' = Tail(callbacks), ready' = Append(ready, w), UNCHANGED future,
         NEW t \in Tasks
  PROVE  /\ IsTask(t)' <=> IsTask(t)
         /\ IsReady(t)' <=> IsReady(t) \/ t = w
         /\ IsWoken(t) <=> IsWoken(t)' \/ t = w
         /\ \A f \in Futures : Waits(t, f)' <=> Waits(t, f)
         /\ OnceAtMost(t) => ~ (IsWoken(t)' /\ t = w)
         /\ OnceAtMost(t) /\ ~ (IsReady(t) /\ t = w) => OnceAtMost(t)'
  <1>1. UNCHANGED tasks
    BY TakesFacts
  <1>2. entry.call = Wake(t) <=> t = w
    BY DEF Wake
  <1>3. ready \in Seq(Tasks)
    BY DEF TypeOK
  <1>4. IsReady(t)' <=> IsReady(t) \/ t = w
    BY <1>3, HasAppend DEF IsReady
  <1>5. Once(ready, {t}) /\ ~ (IsReady(t) /\ t = w) => Once(ready', {t})
    BY <1>3, HasAppend DEF IsReady
  <1> QED
    BY <1>1, <1>2, <1>4, <1>5, TakenPlaces DEF IsTask, IsWoken, Waits, OnceAtMost

LEMMA ReleasePlaces ==
  ASSUME TypeOK, NEW i \in DOMAIN ready, Release(i), NEW t \in Tasks
  PROVE  /\ IsTask(t)' <=> IsTask(t)
         /\ IsReady(t) <=> IsReady(t)' \/ t = ready[i]
         /\ IsWoken(t)' <=> IsWoken(t)
         /\ \A f \in Futures : Waits(t, f)' <=> Waits(t, f)
         /\ OnceAtMost(t) => OnceAtMost(t)' /\ ~ (IsReady(t)' /\ t = ready[i])
  <1>1. ready \in Seq(Tasks) /\ ready' = RemoveAt(ready, i) /\ UNCHANGED <<tasks, callbacks, future>>
    BY ReleaseFacts
  <1>2. IsReady(t) <=> IsReady(t)' \/ t = ready[i]
    BY <1>1, HasRemoved DEF IsReady
  <1>3. Once(ready, {t}) => Once(ready', {t}) /\ ~ (IsReady(t)' /\ t = ready[i])
    BY <1>1, HasRemoved DEF IsReady
  <1> QED
    BY <1>1, <1>2, <1>3 DEF IsTask, IsWoken, Waits, OnceAtMost

LEMMA YieldPlaces ==
  ASSUME TypeOK, HolderIsKnown, Yield, NEW t \in Tasks
  PROVE  /\ current \in Tasks
         /\ IsTask(t)' <=> IsTask(t)
         /\ IsReady(t)' <=> IsReady(t) \/ t = current
         /\ IsWoken(t)' <=> IsWoken(t)
         /\ \A f \in Futures : Waits(t, f)' <=> Waits(t, f)
         /\ OnceAtMost(t) /\ ~ (IsReady(t) /\ t = current) => OnceAtMost(t)'
  <1>1. ready \in Seq(Tasks) /\ ready' = Append(ready, current) /\ current \in Tasks
        /\ UNCHANGED <<tasks, callbacks, future>>
    BY DEF TypeOK, HolderIsKnown, Yield
  <1>2. IsReady(t)' <=> IsReady(t) \/ t = current
    BY <1>1, HasAppend DEF IsReady
  <1>3. Once(ready, {t}) /\ ~ (IsReady(t) /\ t = current) => Once(ready', {t})
    BY <1>1, HasAppend DEF IsReady
  <1> QED
    BY <1>1, <1>2, <1>3 DEF IsTask, IsWoken, Waits, OnceAtMost

LEMMA AwaitPlaces ==
  ASSUME TypeOK, HolderIsKnown, NEW f \in Futures, Await(f), NEW t \in Tasks
  PROVE  /\ current \in Tasks
         /\ IsTask(t)' <=> IsTask(t)
         /\ IsReady(t)' <=> IsReady(t)
         /\ IsWoken(t)' <=> IsWoken(t)
         /\ \A g \in Futures : Waits(t, g)' <=> Waits(t, g) \/ (g = f /\ t = current)
         /\ OnceAtMost(t) /\ ~ (Waits(t, f) /\ t = current) => OnceAtMost(t)'
  <1>1. /\ current \in Tasks /\ future[f].waiters \in Seq(Tasks)
        /\ future'[f].waiters = Append(future[f].waiters, current)
        /\ \A g \in Futures : g # f => future'[g] = future[g]
    BY AwaitFacts
  <1>2. UNCHANGED <<tasks, ready, callbacks>>
    BY DEF Await, lists
  <1>3. Waits(t, f)' <=> Waits(t, f) \/ t = current
    BY <1>1, HasAppend DEF Waits
  <1>4. Once(future[f].waiters, {t}) /\ ~ (Waits(t, f) /\ t = current) => Once(future'[f].waiters, {t})
    BY <1>1, HasAppend DEF Waits
  <1>5. \A g \in Futures : Waits(t, g)' <=> Waits(t, g) \/ (g = f /\ t = current)
    BY <1>1, <1>3 DEF Waits
  <1>6. OnceAtMost(t) /\ ~ (Waits(t, f) /\ t = current) => OnceAtMost(t)'
    BY <1>1, <1>2, <1>4 DEF OnceAtMost
  <1> QED
    BY <1>1, <1>2, <1>5, <1>6 DEF IsTask, IsReady, IsWoken

LEMMA EndPlaces ==
  ASSUME TypeOK, HolderIsKnown, End, NEW t \in Tasks
  PROVE  /\ current \in Tasks
         /\ IsTask(t) <=> IsTask(t)' \/ t = current
         /\ IsReady(t)' <=> IsReady(t)
         /\ IsWoken(t)' <=> IsWoken(t)
         /\ \A f \in Futures : Waits(t, f)' <=> Waits(t, f)
         /\ OnceAtMost(t) => OnceAtMost(t)' /\ ~ (IsTask(t)' /\ t = current)
  <1>1. tasks \in Seq(Tasks) /\ current \in Tasks /\ UNCHANGED <<ready, callbacks, future>>
    BY DEF TypeOK, HolderIsKnown, End
  <1>2. PICK i \in DOMAIN tasks : tasks[i] = current /\ tasks' = RemoveAt(tasks, i)
    BY DEF End
  <1>3. IsTask(t) <=> IsTask(t)' \/ t = current
    BY <1>1, <1>2, HasRemoved DEF IsTask
  <1>4. Once(tasks, {t}) => Once(tasks', {t}) /\ ~ (IsTask(t)' /\ t = current)
    BY <1>1, <1>2, HasRemoved DEF IsTask
  <1> QED
    BY <1>1, <1>3, <1>4 DEF IsReady, IsWoken, Waits, OnceAtMost

LEMMA AbandonPlaces ==
  ASSUME TypeOK, Abandon, NEW t \in Tasks, NEW f \in Futures
  PROVE  /\ Waits(t, f)' => Waits(t, f)
         /\ Outlive = FALSE => ~ Waits(t, f)' /\ future'[f].waiters = <<>>
         /\ Once(future[f].waiters, {t}) => Once(future'[f].waiters, {t})
         /\ future'[f].done => future[f].done \/ future'[f].waiters = <<>>
  <1>1. future'[f] = future[f] \/ future'[f].waiters = <<>>
    BY DEF Abandon
  <1>2. Outlive = FALSE => future'[f].waiters = <<>>
    BY DEF Abandon
  <1>3. future'[f].waiters = <<>> => ~ Waits(t, f)' /\ Once(future'[f].waiters, {t})
    BY HasNone DEF Waits
  <1> QED
    BY <1>1, <1>2, <1>3 DEF Waits

-----------------------------------------------------------------------------
(***************************************************************************)
(* What is known was spawned, and levels only fall.                        *)
(***************************************************************************)
LEMMA StatesStay ==
  ASSUME Kept, [Next]_vars, NEW t \in Tasks, task[t].state # "unspawned"
  PROVE  task'[t].state # "unspawned"
  <1>1. TypeOK /\ HolderIsKnown
    BY DEF Kept
  <1>2. CASE UNCHANGED task
    BY <1>2
  <1>3. CASE \E s \in Tasks, p \in Priorities : Spawn(s, p)
    BY <1>1, <1>3 DEF Spawn, TypeOK
  <1>4. CASE \E i \in DOMAIN ready : Release(i)
    <2>1. PICK i \in DOMAIN ready : Release(i)
      BY <1>4
    <2>2. CASE t = ready[i]
      BY <1>1, <2>1, <2>2, ReleaseFacts
    <2>3. CASE t # ready[i]
      BY <1>1, <2>1, <2>3, ReleaseFacts
    <2> QED
      BY <2>2, <2>3
  <1>5. CASE End \/ Raise \/ Closed \/ FinallyRaises
    <2>1. current \in Tasks /\ \E s \in {"ended", "closed"} : task' = [task EXCEPT ![current].state = s]
      BY <1>1, <1>5 DEF End, Raise, Closed, FinallyRaises, HolderIsKnown
    <2>2. PICK s \in {"ended", "closed"} : task' = [task EXCEPT ![current].state = s]
      BY <2>1
    <2> QED
      BY <1>1, <2>1, <2>2, StateFacts
  <1>6. CASE Drop
    BY <1>1, <1>6 DEF Drop, TypeOK
  <1>7. ASSUME Next PROVE \/ UNCHANGED task
                          \/ \E s \in Tasks, p \in Priorities : Spawn(s, p)
                          \/ \E i \in DOMAIN ready : Release(i)
                          \/ End \/ Raise \/ Closed \/ FinallyRaises \/ Drop
    <2>1. CASE Operation
      BY <2>1 DEF Operation, SetResult, CallSoon, CallAt, CancelTimer, CancelCallback
    <2>2. CASE Calls
      BY <2>2 DEF Calls, Skip, CallWake, CallSet, CallLater, CallRaises, Takes
    <2>3. CASE \E ps \in ChangePoints : Run(ps)
      BY <2>3 DEF Run
    <2>4. CASE Step /\ ~ Calls
      BY <2>4 DEF Step, Return, Pass, Settled, Again, Advance, Deadlock, ChoiceStops, Yield,
                  Await, Misuse, Close, Dropped
    <2> QED
      BY <1>7, <2>1, <2>2, <2>3, <2>4 DEF Next
  <1> QED
    BY <1>2, <1>3, <1>4, <1>5, <1>6, <1>7 DEF vars

LEMMA KnownKept ==
  ASSUME Kept, [Next]_vars
  PROVE  KnownAreSpawned'
  <1>1. TypeOK /\ HolderIsKnown /\ TimersAreCalls /\ KnownAreSpawned
    BY DEF Kept
  <1> SUFFICES ASSUME NEW t \in Tasks, Somewhere(t)' \/ t = current'
               PROVE  Somewhere(t) \/ t = current \/ task'[t].state # "unspawned"
    BY <1>1, StatesStay DEF KnownAreSpawned
  <1>2. Nobody \notin Tasks
    BY SchedulerAssumption
  <1>3. CASE UNCHANGED <<tasks, ready, callbacks, future>> /\ current' \in {current, Nobody}
    BY <1>2, <1>3, SamePlaces
  <1>4. CASE \E s \in Tasks, p \in Priorities : Spawn(s, p)
    <2>1. PICK s \in Tasks, p \in Priorities : Spawn(s, p)
      BY <1>4
    <2>2. UNCHANGED current /\ (t = s => task'[t].state = "new")
      BY <1>1, <2>1 DEF Spawn, Operates, TypeOK
    <2> QED
      BY <1>1, <2>1, <2>2, SpawnPlaces DEF Somewhere
  <1>5. CASE \E f \in Futures : SetResult(f)
    <2>1. PICK f \in Futures : SetResult(f)
      BY <1>5
    <2>2. /\ future' = Done(f) /\ callbacks' = callbacks \o Wakes(f, control)
          /\ UNCHANGED <<tasks, ready>> /\ UNCHANGED current /\ User
          /\ callbacks \in Seq(Entries)
      BY <1>1, <2>1 DEF SetResult, Operates, TypeOK
    <2>3. control \in Sources
      BY <1>1, <2>2, UserIsASource
    <2> QED
      BY <1>1, <2>2, <2>3, DonePlaces DEF Somewhere, IsWoken
  <1>6. CASE \E c \in UserCalls : CallSoon(c)
    <2>1. PICK c \in UserCalls : CallSoon(c)
      BY <1>6
    <2>2. control \in Sources /\ UNCHANGED current
      BY <1>1, <2>1, UserIsASource DEF CallSoon, Operates
    <2>3. PICK e \in Entries : e = Soon(c, control) /\ e.call = c
      BY <1>1, <2>2, SoonFacts, CallablesAre
    <2>4. callbacks' = Append(callbacks, e) /\ UNCHANGED <<tasks, ready, future>>
      BY <2>1, <2>3 DEF CallSoon
    <2> QED
      BY <1>1, <2>2, <2>3, <2>4, CallPlaces DEF Somewhere
  <1>7. CASE \E i \in DOMAIN callbacks : CancelCallback(i)
    <2>1. PICK i \in DOMAIN callbacks : CancelCallback(i)
      BY <1>7
    <2>2. UNCHANGED current
      BY <2>1 DEF CancelCallback, Operates
    <2> QED
      BY <1>1, <2>1, <2>2, CancelPlaces DEF Somewhere
  <1>8. CASE Pass
    <2>1. UNCHANGED current
      BY <1>8 DEF Pass
    <2> QED
      BY <1>1, <1>8, <2>1, PassPlaces DEF Somewhere
  <1>9. CASE Skip \/ CallLater \/ CallRaises
    <2>1. PICK entry : Takes(entry) /\ callbacks' = Tail(callbacks) /\ UNCHANGED <<ready, future>>
      BY <1>9 DEF Skip, CallLater, CallRaises
    <2>2. UNCHANGED current
      BY <1>1, <2>1, TakesFacts
    <2> QED
      BY <1>1, <2>1, <2>2, LeavesPlaces DEF Somewhere
  <1>10. CASE CallWake
    <2>1. PICK entry : /\ Takes(entry) /\ entry.call.do = "wake"
                       /\ callbacks' = Tail(callbacks) /\ ready' = Append(ready, entry.call.of)
                       /\ UNCHANGED future
      BY <1>10 DEF CallWake
    <2>2. UNCHANGED current /\ entry \in Entries
      BY <1>1, <2>1, TakesFacts
    <2>3. PICK w \in Tasks : w = entry.call.of /\ entry.call = Wake(w)
      BY <2>1, <2>2, EntryHasACall
    <2> QED
      BY <1>1, <2>1, <2>2, <2>3, CallWakePlaces DEF Somewhere
  <1>11. CASE CallSet
    <2>1. PICK entry : /\ Takes(entry) /\ entry.call.do = "set"
                       /\ future' = Done(entry.call.of)
                       /\ callbacks' = Tail(callbacks) \o Wakes(entry.call.of, control)
                       /\ UNCHANGED ready
      BY <1>11 DEF CallSet
    <2>2. UNCHANGED <<current, tasks>> /\ entry \in Entries /\ control \in Sources
          /\ Tail(callbacks) \in Seq(Entries)
      BY <1>1, <2>1, TakesFacts DEF Sources
    <2>3. PICK f \in Futures : f = entry.call.of
      BY <2>1, <2>2, EntryHasACall, UserCallFacts
    <2> QED
      BY <1>1, <2>1, <2>2, <2>3, DonePlaces, TakenPlaces DEF Somewhere
  <1>12. CASE \E i \in DOMAIN ready : Release(i)
    <2>1. PICK i \in DOMAIN ready : Release(i)
      BY <1>12
    <2>2. current' = ready[i]
      BY <1>1, <2>1, ReleaseFacts
    <2> QED
      BY <1>1, <2>1, <2>2, ReleasePlaces DEF Somewhere
  <1>13. CASE Yield
    BY <1>1, <1>2, <1>13, YieldPlaces DEF Somewhere, Yield
  <1>14. CASE \E f \in Futures : Await(f)
    <2>1. PICK f \in Futures : Await(f)
      BY <1>14
    <2>2. current' = Nobody
      BY <2>1 DEF Await
    <2> QED
      BY <1>1, <1>2, <2>1, <2>2, AwaitPlaces DEF Somewhere
  <1>15. CASE End
    BY <1>1, <1>2, <1>15, EndPlaces DEF Somewhere, End
  <1>16. CASE Drop
    <2>1. ready' = <<>> /\ callbacks' = <<>> /\ UNCHANGED future /\ current' = Nobody
      BY <1>16 DEF Drop
    <2> QED
      BY <1>2, <2>1, HasNone DEF Somewhere, IsReady, IsWoken, Waits
  <1>17. CASE Close
    <2>1. /\ UNCHANGED <<tasks, ready, callbacks, future, task>>
          /\ UNCHANGED current \/ (Open(Head(closing)) /\ current' = Head(closing))
      BY <1>17 DEF Close, lists
    <2>2. Open(t) => task'[t].state # "unspawned"
      BY <2>1 DEF Open
    <2> QED
      BY <2>1, <2>2, SamePlaces
  <1>18. CASE FinallyRaises \/ Dropped
    <2>1. Abandon /\ UNCHANGED <<ready, callbacks>> /\ current' \in {current, Nobody}
      BY <1>18 DEF FinallyRaises, Dropped, lists
    <2> QED
      BY <1>1, <1>2, <2>1, AbandonPlaces DEF Somewhere, IsReady, IsWoken
  <1>19. ASSUME Next
         PROVE  \/ UNCHANGED <<tasks, ready, callbacks, future>> /\ current' \in {current, Nobody}
                \/ \E s \in Tasks, p \in Priorities : Spawn(s, p)
                \/ \E f \in Futures : SetResult(f)
                \/ \E c \in UserCalls : CallSoon(c)
                \/ \E i \in DOMAIN callbacks : CancelCallback(i)
                \/ Pass \/ Skip \/ CallLater \/ CallRaises \/ CallWake \/ CallSet
                \/ \E i \in DOMAIN ready : Release(i)
                \/ Yield \/ (\E f \in Futures : Await(f)) \/ End
                \/ Drop \/ Close \/ FinallyRaises \/ Dropped
    <2>1. CASE Operation
      BY <2>1 DEF Operation, CallAt, CancelTimer, Operates
    <2>2. CASE \E ps \in ChangePoints : Run(ps)
      BY <2>2 DEF Run, lists
    <2>3. CASE Step
      BY <2>3 DEF Step, Calls, Return, Settled, Again, Advance, Deadlock, ChoiceStops, Raise,
                  Misuse, Closed, lists
    <2> QED
      BY <1>19, <2>1, <2>2, <2>3 DEF Next
  <1>20. CASE UNCHANGED vars
    BY <1>3, <1>20 DEF vars, lists
  <1> QED
    BY <1>3, <1>4, <1>5, <1>6, <1>7, <1>8, <1>9, <1>10, <1>11, <1>12, <1>13, <1>14, <1>15,
       <1>16, <1>17, <1>18, <1>19, <1>20

\* How a step may change the states and levels of the tasks.
LEMMA TaskChanges ==
  ASSUME [Next]_vars
  PROVE  \/ UNCHANGED <<task, lowest>>
         \/ (\E s \in Tasks, p \in Priorities : Spawn(s, p)) /\ UNCHANGED lowest
         \/ \E i \in DOMAIN ready : Release(i)
         \/ (End \/ Raise \/ Closed \/ FinallyRaises) /\ UNCHANGED lowest
         \/ Drop /\ UNCHANGED lowest
  <1>1. CASE Operation
    BY <1>1 DEF Operation, Operates, Spawn, SetResult, CallSoon, CallAt, CancelTimer,
                CancelCallback, clock
  <1>2. CASE Calls
    BY <1>2 DEF Calls, Skip, CallWake, CallSet, CallLater, CallRaises, Takes, clock
  <1>3. CASE \E ps \in ChangePoints : Run(ps)
    BY <1>3 DEF Run
  <1>4. CASE Step /\ ~ Calls
    BY <1>4 DEF Step, Return, Pass, Settled, Again, Advance, Deadlock, ChoiceStops, Yield, End,
                Raise, Closed, FinallyRaises, Drop, Await, Misuse, Close, Dropped, clock
  <1>5. CASE UNCHANGED vars
    BY <1>5 DEF vars, clock
  <1> QED
    BY <1>1, <1>2, <1>3, <1>4, <1>5 DEF Next

LEMMA LevelsKept ==
  ASSUME Kept, [Next]_vars
  PROVE  /\ LevelsAreAboveTheLowest'
         /\ \A t \in Tasks : task'[t].level # task[t].level =>
              \A u \in Tasks \ {t} : task'[t].level < task'[u].level
  <1>1. TypeOK /\ HolderIsKnown /\ LevelsAreAboveTheLowest /\ KnownAreSpawned
    BY DEF Kept
  <1>2. task \in [Tasks -> TaskStates] /\ lowest \in Int /\ lowest <= 0
        /\ \A t \in Tasks : /\ task[t].level \in Int /\ lowest <= task[t].level
                            /\ task[t].state = "unspawned" => task[t].level = 0
    BY <1>1 DEF TypeOK, TaskStates, LevelsAreAboveTheLowest
  <1>3. ASSUME UNCHANGED lowest,
               \A t \in Tasks : /\ task'[t].level = task[t].level
                                /\ task'[t].state = "unspawned" => task[t].state = "unspawned"
        PROVE  /\ LevelsAreAboveTheLowest'
               /\ \A t \in Tasks : task'[t].level # task[t].level =>
                    \A u \in Tasks \ {t} : task'[t].level < task'[u].level
    BY <1>2, <1>3 DEF LevelsAreAboveTheLowest
  <1>4. CASE UNCHANGED <<task, lowest>>
    BY <1>3, <1>4
  <1>5. CASE (\E s \in Tasks, p \in Priorities : Spawn(s, p)) /\ UNCHANGED lowest
    <2>1. PICK s \in Tasks, p \in Priorities : Spawn(s, p)
      BY <1>5
    <2>2. task[s].state = "unspawned" /\ task[s].level = 0
          /\ task' = [task EXCEPT ![s] = [state |-> "new", priority |-> p, level |-> 0]]
      BY <1>2, <2>1 DEF Spawn
    <2> QED
      BY <1>2, <1>3, <1>5, <2>2
  <1>6. CASE \E i \in DOMAIN ready : Release(i)
    <2>1. PICK i \in DOMAIN ready : Release(i)
      BY <1>6
    <2>2. PICK t \in Tasks : t = ready[i]
      BY <1>1, <2>1, ReleaseFacts
    <2>3. PICK n \in Nat : /\ lowest' = lowest - n
                           /\ task'[t].level = IF n > 0 THEN lowest - n ELSE task[t].level
      BY <1>1, <2>1, <2>2, ReleaseFacts
    <2>4. /\ \A u \in Tasks : u # t => task'[u] = task[u]
          /\ task'[t].state = IF task[t].state = "new" THEN "suspended" ELSE task[t].state
      BY <1>1, <2>1, <2>2, ReleaseFacts
    <2>5. task[t].state # "unspawned"
      <3>1. IsReady(t)
        BY <2>2 DEF IsReady, Has
      <3> QED
        BY <1>1, <3>1 DEF KnownAreSpawned, Somewhere
    <2>6. task'[t].state # "unspawned"
      BY <2>4, <2>5
    <2>7. lowest' <= 0 /\ lowest' <= lowest
      BY <1>2, <2>3
    <2>8. ASSUME NEW u \in Tasks, u # t
          PROVE  /\ task'[u] = task[u] /\ lowest' <= task'[u].level
                 /\ task'[u].state = "unspawned" => task'[u].level = 0
                 /\ n > 0 => task'[t].level < task'[u].level
      BY <1>2, <2>3, <2>4, <2>7, <2>8
    <2>9. lowest' <= task'[t].level /\ (n = 0 => task'[t].level = task[t].level)
      BY <1>2, <2>3
    <2>10. LevelsAreAboveTheLowest'
      BY <2>6, <2>7, <2>8, <2>9 DEF LevelsAreAboveTheLowest
    <2> QED
      BY <2>8, <2>9, <2>10
  <1>7. CASE (End \/ Raise \/ Closed \/ FinallyRaises) /\ UNCHANGED lowest
    <2>1. current \in Tasks /\ \E s \in {"ended", "closed"} : task' = [task EXCEPT ![current].state = s]
      BY <1>1, <1>7 DEF End, Raise, Closed, FinallyRaises, HolderIsKnown
    <2>2. PICK s \in {"ended", "closed"} : task' = [task EXCEPT ![current].state = s]
      BY <2>1
    <2>3. ASSUME NEW t \in Tasks
          PROVE  /\ task'[t].level = task[t].level
                 /\ task'[t].state = "unspawned" => task[t].state = "unspawned"
      BY <1>1, <2>1, <2>2, StateFacts
    <2> QED
      BY <1>3, <1>7, <2>3
  <1>8. CASE Drop /\ UNCHANGED lowest
    <2>1. ASSUME NEW t \in Tasks
          PROVE  /\ task'[t].level = task[t].level
                 /\ task'[t].state = "unspawned" => task[t].state = "unspawned"
      BY <1>2, <1>8 DEF Drop, TaskStates
    <2> QED
      BY <1>3, <1>8, <2>1
  <1> QED
    BY <1>4, <1>5, <1>6, <1>7, <1>8, TaskChanges

LEMMA DoneKept ==
  ASSUME Kept, [Next]_vars
  PROVE  DoneWakesNobody'
  <1>1. TypeOK /\ HolderIsKnown /\ DoneWakesNobody
    BY DEF Kept
  <1>2. CASE UNCHANGED future
    BY <1>1, <1>2 DEF DoneWakesNobody
  <1>3. ASSUME NEW f \in Futures, future' = Done(f) PROVE DoneWakesNobody'
    BY <1>1, <1>3, DoneTypes DEF DoneWakesNobody
  <1>4. CASE \E f \in Futures : SetResult(f)
    BY <1>3, <1>4 DEF SetResult
  <1>5. CASE CallSet
    <2>1. PICK entry : Takes(entry) /\ entry.call.do = "set" /\ future' = Done(entry.call.of)
      BY <1>5 DEF CallSet
    <2>2. entry \in Entries
      BY <1>1, <2>1, TakesFacts
    <2> QED
      BY <1>3, <2>1, <2>2, EntryHasACall, UserCallFacts
  <1>6. CASE \E f \in Futures : Await(f)
    BY <1>1, <1>6, AwaitFacts DEF DoneWakesNobody
  <1>7. CASE Abandon
    <2>1. \A f \in Futures : future'[f] = future[f] \/ future'[f].waiters = <<>>
      BY <1>7 DEF Abandon
    <2> QED
      BY <1>1, <2>1 DEF DoneWakesNobody
  <1>8. \/ UNCHANGED future
        \/ (\E f \in Futures : SetResult(f) \/ Await(f)) \/ CallSet \/ Abandon
    <2>1. CASE Operation
      BY <2>1 DEF Operation, Spawn, CallSoon, CallAt, CancelTimer, CancelCallback
    <2>2. CASE Calls
      BY <2>2 DEF Calls, Skip, CallWake, CallLater, CallRaises
    <2>3. CASE \E ps \in ChangePoints : Run(ps)
      BY <2>3 DEF Run
    <2>4. CASE Step /\ ~ Calls
      BY <2>4 DEF Step, Return, Pass, Settled, Again, Advance, Deadlock, Release, ChoiceStops,
                  Yield, End, Raise, Closed, FinallyRaises, Drop, Misuse, Close, Dropped
    <2>5. CASE UNCHANGED vars
      BY <2>5 DEF vars
    <2> QED
      BY <2>1, <2>2, <2>3, <2>4, <2>5 DEF Next
  <1> QED
    BY <1>2, <1>4, <1>5, <1>6, <1>7, <1>8

LEMMA InitKept == Init => Kept
  <1> SUFFICES ASSUME Init PROVE Kept
    OBVIOUS
  <1>1. TypeOK
    BY DEF Init, TypeOK
  <1>2. HolderIsKnown /\ TimersAreCalls
    BY FS_EmptySet DEF Init, HolderIsKnown, TimersAreCalls
  <1>3. \A t \in Tasks : ~ Somewhere(t) /\ t # current /\ ~ IsTask(t)
    BY HasNone, SchedulerAssumption DEF Init, Somewhere, IsReady, IsWoken, Waits, IsTask
  <1>4. KnownAreSpawned /\ LevelsAreAboveTheLowest /\ DoneWakesNobody
    BY <1>3 DEF Init, KnownAreSpawned, LevelsAreAboveTheLowest, DoneWakesNobody
  <1> QED
    BY <1>1, <1>2, <1>4 DEF Kept

(***************************************************************************)
(* The lists of the scheduler hold what they are for, in every run and     *)
(* between two: tasks that were spawned, timers that call what their       *)
(* caller may schedule, and waiters of futures that are not done           *)
(* (scheduler.py, run to _drop).                                           *)
(***************************************************************************)
THEOREM SchedulerIsKept == Spec => []Kept
  <1>1. Kept /\ [Next]_vars => Kept'
    <2> SUFFICES ASSUME Kept, [Next]_vars PROVE Kept'
      OBVIOUS
    <2> QED
      BY TypesKept, KnownKept, LevelsKept, DoneKept DEF Kept
  <1> QED
    BY InitKept, <1>1, PTL DEF Spec

(***************************************************************************)
(* A task of a change point falls below every other task, for every depth, *)
(* every choice of change points and every number of runs (scheduler.py,   *)
(* _lower).                                                                *)
(***************************************************************************)
THEOREM ChangePointsLower == Spec => LoweredBelowEveryTask
  <1>1. Kept /\ [Next]_vars =>
          [ \A t \in Tasks : task'[t].level # task[t].level =>
              \A u \in Tasks \ {t} : task'[t].level < task'[u].level ]_vars
    BY LevelsKept
  <1> QED
    BY <1>1, SchedulerIsKept, PTL DEF Spec, LoweredBelowEveryTask

-----------------------------------------------------------------------------
(***************************************************************************)
(* The calls of a pass, and the order of its timers.                       *)
(***************************************************************************)
LEMMA RestTail ==
  ASSUME NEW s \in Seq(Entries), s # <<>>, NEW b \in Nat, b > 0, NEW A, Rest(s, b, A)
  PROVE  Rest(Tail(s), b - 1, A)
  <1>1. /\ Len(s) \in Nat /\ DOMAIN s = 1 .. Len(s) /\ DOMAIN Tail(s) = 1 .. Len(s) - 1
        /\ \A j \in 1 .. Len(s) - 1 : Tail(s)[j] = s[j + 1]
    OBVIOUS
  <1> SUFFICES ASSUME NEW j \in DOMAIN Tail(s), j > b - 1 PROVE Tail(s)[j] \in A
    BY DEF Rest
  <1>2. j + 1 \in DOMAIN s /\ j + 1 > b
    BY <1>1
  <1> QED
    BY <1>1, <1>2 DEF Rest

LEMMA RestConcat ==
  ASSUME NEW s \in Seq(Entries), NEW q \in Seq(Entries), NEW b \in Nat, NEW A,
         Rest(s, b, A), \A j \in DOMAIN q : q[j] \in A
  PROVE  Rest(s \o q, b, A)
  <1> DEFINE r == s \o q
  <1>1. /\ Len(s) \in Nat /\ DOMAIN s = 1 .. Len(s) /\ Len(q) \in Nat /\ DOMAIN q = 1 .. Len(q)
        /\ DOMAIN r = 1 .. Len(s) + Len(q)
        /\ \A j \in 1 .. Len(s) : r[j] = s[j]
        /\ \A j \in Len(s) + 1 .. Len(s) + Len(q) : r[j] = q[j - Len(s)]
    OBVIOUS
  <1> HIDE DEF r
  <1> SUFFICES ASSUME NEW j \in DOMAIN r, j > b PROVE r[j] \in A
    BY DEF Rest, r
  <1>2. CASE j <= Len(s)
    BY <1>1, <1>2 DEF Rest
  <1>3. CASE j > Len(s)
    <2>1. j \in Len(s) + 1 .. Len(s) + Len(q) /\ j - Len(s) \in DOMAIN q
      BY <1>1, <1>3
    <2> QED
      BY <1>1, <2>1
  <1> QED
    BY <1>1, <1>2, <1>3

LEMMA RestNone ==
  ASSUME NEW s \in Seq(Entries), NEW A
  PROVE  Rest(s, Len(s), A) /\ (\A b \in Nat : b >= Len(s) => Rest(s, b, A))
  BY DEF Rest

LEMMA InTimeTail ==
  ASSUME NEW s \in Seq(Entries), s # <<>>, NEW time, InTime(s, time)
  PROVE  InTime(Tail(s), time)
  <1> DEFINE r == Tail(s)
  <1>1. /\ Len(s) \in Nat /\ DOMAIN s = 1 .. Len(s) /\ DOMAIN r = 1 .. Len(s) - 1
        /\ \A j \in 1 .. Len(s) - 1 : r[j] = s[j + 1]
    OBVIOUS
  <1> HIDE DEF r
  <1> SUFFICES ASSUME NEW j \in DOMAIN r, r[j].when # NoTime
               PROVE  /\ r[j].when <= time
                      /\ \A i \in 1 .. j - 1 : r[i].when # NoTime =>
                           ~ (r[j].order < r[i].order /\ r[j].when <= r[i].when)
    BY DEF InTime, r
  <1>2. j + 1 \in DOMAIN s /\ r[j] = s[j + 1]
    BY <1>1
  <1>3. ASSUME NEW i \in 1 .. j - 1 PROVE i + 1 \in 1 .. (j + 1) - 1 /\ r[i] = s[i + 1]
    BY <1>1
  <1> QED
    BY <1>2, <1>3 DEF InTime

LEMMA InTimeLater ==
  ASSUME NEW s \in Seq(Entries), NEW q \in Seq(Entries), NEW time, InTime(s, time),
         \A j \in DOMAIN q : q[j] \in Untimed
  PROVE  InTime(s \o q, time)
  <1> DEFINE r == s \o q
  <1>1. /\ Len(s) \in Nat /\ DOMAIN s = 1 .. Len(s) /\ Len(q) \in Nat /\ DOMAIN q = 1 .. Len(q)
        /\ DOMAIN r = 1 .. Len(s) + Len(q)
        /\ \A j \in 1 .. Len(s) : r[j] = s[j]
        /\ \A j \in Len(s) + 1 .. Len(s) + Len(q) : r[j] = q[j - Len(s)]
    OBVIOUS
  <1> HIDE DEF r
  <1> SUFFICES ASSUME NEW j \in DOMAIN r, r[j].when # NoTime
               PROVE  /\ r[j].when <= time
                      /\ \A i \in 1 .. j - 1 : r[i].when # NoTime =>
                           ~ (r[j].order < r[i].order /\ r[j].when <= r[i].when)
    BY DEF InTime, r
  <1>2. CASE j <= Len(s)
    <2>1. j \in DOMAIN s /\ r[j] = s[j] /\ \A i \in 1 .. j - 1 : r[i] = s[i]
      BY <1>1, <1>2
    <2> QED
      BY <2>1 DEF InTime
  <1>3. CASE j > Len(s)
    <2>1. j \in Len(s) + 1 .. Len(s) + Len(q) /\ j - Len(s) \in DOMAIN q
      BY <1>1, <1>3
    <2>2. r[j] \in Untimed
      BY <1>1, <2>1
    <2> QED
      BY <2>2 DEF Untimed
  <1> QED
    BY <1>1, <1>2, <1>3

LEMMA InTimePass ==
  ASSUME NEW s \in Seq(Entries), NEW q \in Seq(Entries), NEW time \in Int,
         Rest(s, 0, Untimed),
         \A j \in DOMAIN q : q[j].when <= time,
         \A j \in DOMAIN q : \A i \in 1 .. j - 1 : Earlier(q[i], q[j])
  PROVE  InTime(s \o q, time)
  <1> DEFINE r == s \o q
  <1>1. /\ Len(s) \in Nat /\ DOMAIN s = 1 .. Len(s) /\ Len(q) \in Nat /\ DOMAIN q = 1 .. Len(q)
        /\ DOMAIN r = 1 .. Len(s) + Len(q)
        /\ \A j \in 1 .. Len(s) : r[j] = s[j]
        /\ \A j \in Len(s) + 1 .. Len(s) + Len(q) : r[j] = q[j - Len(s)]
        /\ \A j \in DOMAIN q : q[j] \in Entries
    OBVIOUS
  <1> HIDE DEF r
  <1>2. ASSUME NEW j \in DOMAIN r, r[j].when # NoTime
        PROVE  j - Len(s) \in DOMAIN q /\ r[j] = q[j - Len(s)]
    <2>1. CASE j <= Len(s)
      <3>1. j \in DOMAIN s /\ j > 0 /\ r[j] = s[j]
        BY <1>1, <2>1
      <3> QED
        BY <1>2, <3>1 DEF Rest, Untimed
    <2>2. CASE j > Len(s)
      <3>1. j \in Len(s) + 1 .. Len(s) + Len(q) /\ j - Len(s) \in DOMAIN q
        BY <1>1, <2>2
      <3> QED
        BY <1>1, <3>1
    <2> QED
      BY <1>1, <2>1, <2>2
  <1> SUFFICES ASSUME NEW j \in DOMAIN r, r[j].when # NoTime
               PROVE  /\ r[j].when <= time
                      /\ \A i \in 1 .. j - 1 : r[i].when # NoTime =>
                           ~ (r[j].order < r[i].order /\ r[j].when <= r[i].when)
    BY DEF InTime, r
  <1>3. PICK k \in DOMAIN q : k = j - Len(s) /\ r[j] = q[k]
    BY <1>2
  <1>4. ASSUME NEW i \in 1 .. j - 1, r[i].when # NoTime
        PROVE  ~ (r[j].order < r[i].order /\ r[j].when <= r[i].when)
    <2>1. i \in DOMAIN r
      BY <1>1
    <2>2. PICK l \in DOMAIN q : l = i - Len(s) /\ r[i] = q[l]
      BY <1>2, <1>4, <2>1
    <2>3. l \in 1 .. k - 1
      BY <1>1, <1>3, <2>1, <2>2
    <2>4. Earlier(q[l], q[k])
      BY <2>3
    <2>5. /\ q[l].when \in Int /\ q[l].order \in Nat /\ q[k].when \in Int /\ q[k].order \in Nat
      BY <1>1, EntryHasACall
    <2> QED
      BY <1>3, <2>2, <2>4, <2>5 DEF Earlier
  <1> QED
    BY <1>3, <1>4

LEMMA InTimeIs == TimersAreInOrder <=> InTime(callbacks, now)
  BY DEF TimersAreInOrder, InTime

OrderHolds == BatchComesFirst /\ TimersAreInOrder

\* The steps that leave the calls and the timers alone.
LEMMA OrderStays ==
  ASSUME OrderHolds, UNCHANGED <<callbacks, batch, timers, now>>,
         control' \notin {"calls", "drop"} => control \notin {"calls", "drop"} \/ batch = 0,
         control' \in {"calls", "release"} => control \in {"calls", "release"}
  PROVE  OrderHolds'
  BY DEF OrderHolds, BatchComesFirst, TimersAreInOrder, IsDue

\* The test, a task or a finally block schedules calls, and no timer of a pass is left.
LEMMA OrderWithLater ==
  ASSUME Kept, OrderHolds, User, UNCHANGED <<control, batch, now>>,
         NEW q \in Seq(Entries), callbacks' = callbacks \o q, \A j \in DOMAIN q : q[j] \in Untimed
  PROVE  OrderHolds'
  <1>1. /\ callbacks \in Seq(Entries) /\ batch \in Nat
        /\ control \notin {"calls", "drop", "release"}
    BY DEF Kept, TypeOK, User
  <1>2. Rest(callbacks', batch, Untimed)
    BY <1>1, RestConcat DEF OrderHolds, BatchComesFirst
  <1>3. InTime(callbacks', now)
    BY <1>1, InTimeLater, InTimeIs DEF OrderHolds
  <1>4. TimersAreInOrder'
    BY <1>3 DEF TimersAreInOrder, InTime
  <1> QED
    BY <1>1, <1>2, <1>4 DEF OrderHolds, BatchComesFirst

LEMMA OperationOrder ==
  ASSUME Kept, OrderHolds, Operation
  PROVE  OrderHolds'
  <1>1. /\ TypeOK /\ TimersAreCalls /\ callbacks \in Seq(Entries) /\ batch \in Nat
    BY DEF Kept, TypeOK
  <1>2. User /\ UNCHANGED <<control, batch, now>>
    BY DEF Operation, Spawn, SetResult, CallSoon, CallAt, CancelTimer, CancelCallback, Operates, clock
  <1>3. control \in Sources /\ control \notin {"calls", "drop", "release"}
    BY <1>1, <1>2, UserIsASource DEF User
  <1>4. CASE UNCHANGED <<callbacks, timers>>
    BY <1>2, <1>4, OrderStays
  <1>5. ASSUME NEW f \in Futures, SetResult(f) PROVE OrderHolds'
    <2>1. /\ Wakes(f, control) \in Seq(Entries)
          /\ \A j \in DOMAIN Wakes(f, control) : Wakes(f, control)[j].when = NoTime
      BY <1>1, <1>3, WakesFacts
    <2>2. \A j \in DOMAIN Wakes(f, control) : Wakes(f, control)[j] \in Untimed
      BY <2>1 DEF Untimed
    <2>3. callbacks' = callbacks \o Wakes(f, control)
      BY <1>5 DEF SetResult
    <2> QED
      BY <1>2, <2>1, <2>2, <2>3, OrderWithLater
  <1>6. ASSUME NEW c \in UserCalls, CallSoon(c) PROVE OrderHolds'
    <2>1. PICK e \in Entries : e = Soon(c, control) /\ e.when = NoTime
      BY <1>1, <1>3, SoonFacts, CallablesAre
    <2>2. <<e>> \in Seq(Entries) /\ \A j \in DOMAIN <<e>> : <<e>>[j] \in Untimed
      BY <2>1 DEF Untimed
    <2>3. callbacks' = callbacks \o <<e>>
      <3>1. callbacks' = Append(callbacks, e)
        BY <1>6, <2>1 DEF CallSoon
      <3> QED
        BY <1>1, <3>1
    <2> QED
      BY <1>2, <2>2, <2>3, OrderWithLater
  <1>7. ASSUME UNCHANGED callbacks PROVE OrderHolds'
    BY <1>2, <1>3, <1>7 DEF OrderHolds, BatchComesFirst, TimersAreInOrder
  <1>8. ASSUME NEW i \in DOMAIN callbacks, CancelCallback(i) PROVE OrderHolds'
    <2>1. callbacks[i] \in Entries
      BY <1>1
    <2>2. PICK c \in Entries : /\ c = [callbacks[i] EXCEPT !.cancelled = TRUE]
                               /\ c.when = callbacks[i].when /\ c.order = callbacks[i].order
      BY <2>1, CancelledFacts
    <2>3. callbacks' = [callbacks EXCEPT ![i] = c]
      BY <1>8, <2>2 DEF CancelCallback
    <2>4. /\ DOMAIN callbacks' = DOMAIN callbacks
          /\ \A j \in DOMAIN callbacks : /\ callbacks'[j].when = callbacks[j].when
                                         /\ callbacks'[j].order = callbacks[j].order
                                         /\ callbacks'[j] \in Untimed <=> callbacks[j] \in Untimed
      BY <1>1, <2>1, <2>2, <2>3 DEF Untimed
    <2>5. Rest(callbacks', batch, Untimed)
      BY <2>4 DEF OrderHolds, BatchComesFirst, Rest
    <2>6. InTime(callbacks', now)
      <3>1. \A j \in DOMAIN callbacks : \A k \in 1 .. j - 1 : k \in DOMAIN callbacks
        BY <1>1
      <3>2. InTime(callbacks, now)
        BY InTimeIs DEF OrderHolds
      <3> QED
        BY <2>4, <3>1, <3>2 DEF InTime
    <2>7. TimersAreInOrder'
      BY <1>2, <2>6 DEF TimersAreInOrder, InTime
    <2> QED
      BY <1>2, <1>3, <2>5, <2>7 DEF OrderHolds, BatchComesFirst
  <1>9. \/ UNCHANGED callbacks
        \/ \E f \in Futures : SetResult(f)
        \/ \E c \in UserCalls : CallSoon(c)
        \/ \E i \in DOMAIN callbacks : CancelCallback(i)
    BY DEF Operation, Spawn, CallAt, CancelTimer
  <1> QED
    BY <1>5, <1>6, <1>7, <1>8, <1>9

LEMMA PassOrder ==
  ASSUME Kept, OrderHolds, Pass
  PROVE  OrderHolds'
  <1>1. /\ TypeOK /\ TimersAreCalls /\ callbacks \in Seq(Entries) /\ now \in Int
    BY DEF Kept, TypeOK
  <1>2. control' = "calls" /\ UNCHANGED now /\ control \in {"loop", "settle"}
    BY DEF Pass, clock
  <1>3. batch = 0 /\ Rest(callbacks, 0, Untimed)
    BY <1>2 DEF OrderHolds, BatchComesFirst
  <1>4. PICK q \in Seq(Entries) :
           /\ callbacks' = callbacks \o q
           /\ \A j \in DOMAIN q : IsDue(q[j])
           /\ \A j \in DOMAIN q : \A i \in 1 .. j - 1 : Earlier(q[i], q[j])
           /\ timers' = timers \ {e \in timers : IsDue(e)}
           /\ batch' = Len(callbacks')
    BY <1>1, PassFacts
  <1>5. callbacks' \in Seq(Entries)
    BY <1>1, <1>4
  <1>6. InTime(callbacks', now)
    BY <1>1, <1>3, <1>4, InTimePass DEF IsDue
  <1>7. TimersAreInOrder'
    BY <1>2, <1>6 DEF TimersAreInOrder, InTime
  <1>8. Rest(callbacks', batch', Untimed) /\ Rest(callbacks', batch', ByCalls)
    BY <1>4, <1>5, RestNone
  <1>9. \A e \in timers' : ~ IsDue(e)'
    BY <1>2, <1>4 DEF IsDue
  <1> QED
    BY <1>2, <1>7, <1>8, <1>9 DEF OrderHolds, BatchComesFirst

LEMMA CallsOrder ==
  ASSUME Kept, OrderHolds, Calls
  PROVE  OrderHolds'
  <1>1. TypeOK /\ TimersAreCalls /\ now \in Int
    BY DEF Kept, TypeOK
  <1>2. PICK entry : Takes(entry)
    BY DEF Calls, Skip, CallWake, CallSet, CallLater, CallRaises
  <1> DEFINE rest == Tail(callbacks)
  <1>3. /\ callbacks \in Seq(Entries) /\ callbacks # <<>> /\ rest \in Seq(Entries)
        /\ batch \in Nat /\ batch > 0 /\ batch' = batch - 1 /\ batch' \in Nat
        /\ control = "calls" /\ UNCHANGED now
    BY <1>1, <1>2, TakesFacts DEF TypeOK, clock
  <1>4. /\ Rest(callbacks, batch, Untimed) /\ Rest(callbacks, batch, ByCalls)
        /\ \A e \in timers : IsDue(e) => e.from = "calls"
        /\ InTime(callbacks, now)
    BY <1>3, InTimeIs DEF OrderHolds, BatchComesFirst
  <1>5. Rest(rest, batch', Untimed) /\ Rest(rest, batch', ByCalls) /\ InTime(rest, now)
    BY <1>3, <1>4, RestTail, InTimeTail
  <1> HIDE DEF rest
  <1>6. ASSUME Rest(callbacks', batch', Untimed), Rest(callbacks', batch', ByCalls),
               InTime(callbacks', now), control' \in {"calls", "drop"},
               \A e \in timers' : e \in timers \/ e.from = "calls"
        PROVE  OrderHolds'
    <2>1. TimersAreInOrder'
      BY <1>3, <1>6 DEF TimersAreInOrder, InTime
    <2>2. \A e \in timers' : IsDue(e)' => e.from = "calls"
      BY <1>3, <1>4, <1>6 DEF IsDue
    <2> QED
      BY <1>6, <2>1, <2>2 DEF OrderHolds, BatchComesFirst
  <1>7. CASE Skip \/ CallWake \/ CallRaises
    <2>1. callbacks' = rest /\ UNCHANGED timers /\ control' \in {"calls", "drop"}
      BY <1>3, <1>7 DEF Skip, CallWake, CallRaises, rest
    <2> QED
      BY <1>5, <1>6, <2>1
  <1>8. CASE CallLater
    <2>1. PICK e : /\ Takes(e) /\ e.call.do = "later" /\ callbacks' = rest
                   /\ timers' = timers \cup {Entry([do |-> "set", of |-> e.call.of, delay |-> 0],
                                                   now + e.call.delay, control)}
                   /\ UNCHANGED control
      BY <1>8 DEF CallLater, rest
    <2>2. Entry([do |-> "set", of |-> e.call.of, delay |-> 0], now + e.call.delay, control).from
            = "calls"
      BY <1>3 DEF Entry
    <2>3. \A d \in timers' : d \in timers \/ d.from = "calls"
      BY <2>1, <2>2
    <2> QED
      BY <1>3, <1>5, <1>6, <2>1, <2>3
  <1>9. CASE CallSet
    <2>1. PICK e : /\ Takes(e) /\ e.call.do = "set"
                   /\ callbacks' = rest \o Wakes(e.call.of, control)
                   /\ UNCHANGED <<control, timers>>
      BY <1>9 DEF CallSet, rest
    <2>2. e \in Entries
      BY <1>1, <2>1, TakesFacts
    <2>3. PICK f \in Futures : f = e.call.of
      BY <2>1, <2>2, EntryHasACall, UserCallFacts
    <2>4. control \in Sources
      BY <1>3 DEF Sources
    <2>5. PICK q \in Seq(Entries) : q = Wakes(f, control)
              /\ \A j \in DOMAIN q : q[j].when = NoTime /\ q[j].from = "calls"
      BY <1>1, <1>3, <2>4, WakesFacts
    <2>6. \A j \in DOMAIN q : q[j] \in Untimed /\ q[j] \in ByCalls
      BY <2>5 DEF Untimed, ByCalls
    <2>7. callbacks' = rest \o q
      BY <2>1, <2>3, <2>5
    <2>8. Rest(callbacks', batch', Untimed) /\ Rest(callbacks', batch', ByCalls)
      BY <1>3, <1>5, <2>6, <2>7, RestConcat
    <2>9. InTime(callbacks', now)
      BY <1>3, <1>5, <2>6, <2>7, InTimeLater
    <2> QED
      BY <1>3, <1>6, <2>1, <2>8, <2>9
  <1> QED
    BY <1>7, <1>8, <1>9 DEF Calls

LEMMA OrderKept ==
  ASSUME Kept, OrderHolds, [Next]_vars
  PROVE  OrderHolds'
  <1>1. TypeOK
    BY DEF Kept
  <1>2. CASE Operation
    BY <1>2, OperationOrder
  <1>3. CASE Pass
    BY <1>3, PassOrder
  <1>4. CASE Calls
    BY <1>4, CallsOrder
  <1>5. CASE Advance \/ Deadlock
    <2>1. callbacks = <<>> /\ UNCHANGED <<callbacks, batch>> /\ batch = 0
          /\ control' \in {"settle", "drop"}
      BY <1>5 DEF Advance, Deadlock, Idle
    <2>2. Rest(callbacks', batch', Untimed) /\ TimersAreInOrder'
      BY <2>1 DEF Rest, TimersAreInOrder
    <2> QED
      BY <2>1, <2>2 DEF OrderHolds, BatchComesFirst
  <1>6. CASE Drop
    <2>1. callbacks' = <<>> /\ batch' = 0 /\ control' = "close"
      BY <1>6 DEF Drop
    <2>2. Rest(callbacks', batch', Untimed) /\ TimersAreInOrder'
      BY <2>1 DEF Rest, TimersAreInOrder
    <2> QED
      BY <2>1, <2>2 DEF OrderHolds, BatchComesFirst
  <1>7. CASE \/ \E ps \in ChangePoints : Run(ps)
             \/ Return \/ Yield \/ End \/ (\E f \in Futures : Await(f))
             \/ Close \/ Closed \/ FinallyRaises \/ Dropped
    <2>1. /\ UNCHANGED <<callbacks, batch, timers, now>> /\ control \notin {"calls", "drop"}
          /\ control' \notin {"calls", "release"}
      BY <1>7 DEF Run, Return, Yield, End, Await, Close, Closed, FinallyRaises, Dropped, lists, clock
    <2> QED
      BY <2>1, OrderStays
  <1>8. CASE Settled \/ Again
    <2>1. /\ UNCHANGED <<callbacks, batch, timers, now>> /\ control = "calls" /\ batch = 0
          /\ control' \in {"release", "settle"}
      BY <1>8 DEF Settled, Again, lists, clock
    <2> QED
      BY <2>1, OrderStays
  <1>9. CASE ChoiceStops \/ Raise \/ Misuse
    <2>1. /\ UNCHANGED <<callbacks, batch, timers, now>> /\ control' = "drop"
      BY <1>9 DEF ChoiceStops, Raise, Misuse, lists, clock
    <2> QED
      BY <2>1, OrderStays
  <1>10. CASE \E i \in DOMAIN ready : Release(i)
    <2>1. /\ UNCHANGED <<callbacks, batch, timers, now>> /\ control' \in {"task", "drop"}
          /\ control = "release"
      BY <1>1, <1>10, ReleaseFacts
    <2> QED
      BY <2>1, OrderStays
  <1>11. CASE UNCHANGED vars
    <2>1. UNCHANGED <<callbacks, batch, timers, now, control>>
      BY <1>11 DEF vars, lists, clock
    <2> QED
      BY <2>1, OrderStays
  <1> QED
    BY <1>2, <1>3, <1>4, <1>5, <1>6, <1>7, <1>8, <1>9, <1>10, <1>11 DEF Next, Step

LEMMA InitOrder == Init => OrderHolds
  <1> SUFFICES ASSUME Init PROVE OrderHolds
    OBVIOUS
  <1>1. callbacks = <<>> /\ batch = 0 /\ control = "test"
    BY DEF Init
  <1> QED
    BY <1>1 DEF OrderHolds, BatchComesFirst, TimersAreInOrder, Rest

(***************************************************************************)
(* Every call of a task or of the test is made before the next release,    *)
(* and timers are called in their order and never early, whatever the      *)
(* finally blocks of a failed run do (scheduler.py, _settle).              *)
(***************************************************************************)
THEOREM CallsAreInOrder == Spec => [](CalledBeforeTheRelease /\ TimersAreInOrder)
  <1>1. Kept /\ OrderHolds /\ [Next]_vars => OrderHolds'
    BY OrderKept
  <1>2. Kept /\ OrderHolds => CalledBeforeTheRelease /\ TimersAreInOrder
    <2> SUFFICES ASSUME Kept, OrderHolds, control = "release"
                 PROVE  CalledBeforeTheRelease
      BY DEF OrderHolds, CalledBeforeTheRelease
    <2>1. batch = 0 /\ Rest(callbacks, batch, ByCalls) /\ callbacks \in Seq(Entries)
          /\ \A e \in timers : IsDue(e) => e.from = "calls"
      BY DEF OrderHolds, BatchComesFirst, Kept, TypeOK
    <2>2. \A j \in DOMAIN callbacks : callbacks[j].from = "calls"
      BY <2>1 DEF Rest, ByCalls
    <2> QED
      BY <2>1, <2>2 DEF CalledBeforeTheRelease
  <1> QED
    BY InitOrder, SchedulerIsKept, <1>1, <1>2, PTL DEF Spec

-----------------------------------------------------------------------------
(***************************************************************************)
(* The one place of a task.  Finally blocks that act on the loop while     *)
(* _drop closes their task, or that raise, leave tasks behind, and so does *)
(* a test that makes a future of a dropped run done.                       *)
(***************************************************************************)
Tame == Finally = {} /\ Outlive = FALSE

Free == control \notin {"drop", "close", "finally"}

LEMMA LostAppend ==
  ASSUME TypeOK, ~ Has(callbacks, LostWakes), NEW s \in Seq(Entries),
         s = callbacks \/ (callbacks # <<>> /\ s = Tail(callbacks)),
         NEW q \in Seq(Entries), \A j \in DOMAIN q : q[j] \notin LostWakes
  PROVE  ~ Has(s, LostWakes) /\ ~ Has(s \o q, LostWakes)
  <1>1. callbacks \in Seq(Entries)
    BY DEF TypeOK
  <1>2. ~ Has(s, LostWakes)
    BY <1>1, HasTail
  <1>3. ~ Has(q, LostWakes)
    BY DEF Has
  <1> QED
    BY <1>2, <1>3, HasConcat

\* A step that leaves the lists and the states alone.
LEMMA PlacesStay ==
  ASSUME Kept, Placed, Free, UNCHANGED <<tasks, ready, callbacks, future, task>>,
         \/ UNCHANGED current /\ control' \notin {"close", "finally"}
         \/ control' = "drop"
  PROVE  Placed'
  <1>1. \A t \in Tasks : OnePlace(t)
    BY DEF Placed, Free
  <1>2. ASSUME NEW t \in Tasks
        PROVE  /\ IsOpen(t)' => IsTask(t)'
               /\ UNCHANGED current => OnePlace(t)'
    <2>1. OnePlace(t)
      BY <1>1
    <2>2. /\ IsTask(t)' <=> IsTask(t)
          /\ IsReady(t)' <=> IsReady(t)
          /\ IsWoken(t)' <=> IsWoken(t)
          /\ \A f \in Futures : Waits(t, f)' <=> Waits(t, f)
          /\ Somewhere(t)' <=> Somewhere(t)
          /\ OnceAtMost(t)' <=> OnceAtMost(t)
      BY SamePlaces
    <2>3. IsOpen(t)' <=> IsOpen(t)
      BY DEF IsOpen
    <2>4. IsOpen(t)' => IsTask(t)'
      BY <2>1, <2>2, <2>3 DEF OnePlace
    <2>5. UNCHANGED current => OnePlace(t)'
      BY <2>1, <2>2, <2>3 DEF OnePlace
    <2> QED
      BY <2>4, <2>5
  <1>3. ~ Has(callbacks', LostWakes)
    BY DEF Placed
  <1> QED
    BY <1>2, <1>3 DEF Placed, DropFindsTheOpen

\* A step in a run that puts each task in one place again.
LEMMA PlacedAgain ==
  ASSUME ~ Has(callbacks', LostWakes), control' \notin {"drop", "close", "finally"},
         \A t \in Tasks : OnePlace(t)'
  PROVE  Placed'
  BY DEF Placed, DropFindsTheOpen

LEMMA OperationPlaces ==
  ASSUME Tame, Kept, Placed, Operation
  PROVE  Placed'
  <1>1. TypeOK /\ HolderIsKnown /\ TimersAreCalls /\ callbacks \in Seq(Entries)
        /\ ~ Has(callbacks, LostWakes)
    BY DEF Kept, TypeOK, Placed
  <1>2. User /\ UNCHANGED <<control, current>>
    BY DEF Operation, Spawn, SetResult, CallSoon, CallAt, CancelTimer, CancelCallback, Operates
  <1>3. Free /\ control' \notin {"drop", "close", "finally"} /\ control \in Sources
    BY <1>1, <1>2, UserIsASource DEF User, Tame, Free
  <1>4. \A t \in Tasks : OnePlace(t)
    BY <1>3 DEF Placed, Free
  <1>5. ASSUME NEW s \in Tasks, NEW p \in Priorities, Spawn(s, p) PROVE Placed'
    <2>1. /\ task[s].state = "unspawned" /\ UNCHANGED callbacks
          /\ task' = [task EXCEPT ![s] = [state |-> "new", priority |-> p, level |-> 0]]
      BY <1>5 DEF Spawn
    <2>2. ~ IsOpen(s) /\ IsOpen(s)' /\ \A t \in Tasks : t # s => (IsOpen(t)' <=> IsOpen(t))
      BY <1>1, <2>1 DEF IsOpen, TypeOK
    <2>3. ~ IsTask(s) /\ ~ Somewhere(s) /\ s # current
      BY <1>4, <2>2 DEF OnePlace
    <2> SUFFICES ASSUME NEW t \in Tasks PROVE OnePlace(t)'
      BY <1>1, <1>3, <2>1, PlacedAgain
    <2>4. /\ IsTask(t)' <=> IsTask(t) \/ t = s
          /\ IsReady(t)' <=> IsReady(t) \/ t = s
          /\ IsWoken(t)' <=> IsWoken(t)
          /\ \A f \in Futures : Waits(t, f)' <=> Waits(t, f)
          /\ OnceAtMost(t) /\ (t = s => ~ IsTask(t) /\ ~ IsReady(t)) => OnceAtMost(t)'
      BY <1>1, <1>5, SpawnPlaces
    <2>5. OnePlace(t)
      BY <1>4
    <2>6. CASE t = s
      BY <1>2, <2>2, <2>3, <2>4, <2>5, <2>6 DEF OnePlace, Somewhere
    <2>7. CASE t # s
      BY <1>2, <2>2, <2>4, <2>5, <2>7 DEF OnePlace, Somewhere
    <2> QED
      BY <2>6, <2>7
  <1>6. ASSUME NEW f \in Futures, SetResult(f) PROVE Placed'
    <2>1. /\ future' = Done(f) /\ callbacks' = callbacks \o Wakes(f, control)
          /\ UNCHANGED <<task, tasks, ready>>
      BY <1>6 DEF SetResult
    <2>2. Wakes(f, control) \in Seq(Entries)
          /\ \A j \in DOMAIN Wakes(f, control) : ~ Wakes(f, control)[j].cancelled
      BY <1>1, <1>3, WakesFacts
    <2>3. \A j \in DOMAIN Wakes(f, control) : Wakes(f, control)[j] \notin LostWakes
      BY <2>2 DEF LostWakes
    <2>4. ~ Has(callbacks', LostWakes)
      BY <1>1, <2>1, <2>2, <2>3, LostAppend
    <2> SUFFICES ASSUME NEW t \in Tasks PROVE OnePlace(t)'
      BY <1>3, <2>4, PlacedAgain
    <2>5. OnePlace(t) /\ OnceAtMost(t)
      BY <1>4 DEF OnePlace
    <2>6. /\ IsTask(t)' <=> IsTask(t)
          /\ IsReady(t)' <=> IsReady(t)
          /\ IsWoken(t)' <=> IsWoken(t) \/ Waits(t, f)
          /\ \A g \in Futures : Waits(t, g)' <=> Waits(t, g) /\ g # f
          /\ OnceAtMost(t) /\ ~ (IsWoken(t) /\ Waits(t, f)) => OnceAtMost(t)'
      BY <1>1, <1>3, <2>1, <2>5, DonePlaces DEF IsWoken, OnceAtMost
    <2>7. IsOpen(t)' <=> IsOpen(t)
      BY <2>1 DEF IsOpen
    <2> QED
      BY <1>2, <2>5, <2>6, <2>7 DEF OnePlace, Somewhere
  <1>7. ASSUME NEW c \in UserCalls, CallSoon(c) PROVE Placed'
    <2>1. PICK e \in Entries : e = Soon(c, control) /\ e.call = c
      BY <1>1, <1>3, SoonFacts, CallablesAre
    <2>2. callbacks' = Append(callbacks, e) /\ UNCHANGED <<task, tasks, ready, future>>
      BY <1>7, <2>1 DEF CallSoon
    <2>3. ~ Has(callbacks', LostWakes)
      BY <1>1, <2>1, <2>2, HasAppend DEF LostWakes
    <2> SUFFICES ASSUME NEW t \in Tasks PROVE OnePlace(t)'
      BY <1>3, <2>3, PlacedAgain
    <2>5. OnePlace(t)
      BY <1>4
    <2>6. /\ IsTask(t)' <=> IsTask(t)
          /\ IsReady(t)' <=> IsReady(t)
          /\ IsWoken(t)' <=> IsWoken(t)
          /\ \A f \in Futures : Waits(t, f)' <=> Waits(t, f)
          /\ OnceAtMost(t) => OnceAtMost(t)'
      BY <1>1, <2>1, <2>2, CallPlaces
    <2>7. IsOpen(t)' <=> IsOpen(t)
      BY <2>2 DEF IsOpen
    <2> QED
      BY <1>2, <2>5, <2>6, <2>7 DEF OnePlace, Somewhere
  <1>8. ASSUME NEW i \in DOMAIN callbacks, CancelCallback(i) PROVE Placed'
    <2>1. callbacks[i] \in Entries /\ callbacks[i].call.do # "wake" /\ UNCHANGED task
      BY <1>1, <1>8 DEF CancelCallback
    <2>2. PICK c \in Entries : /\ c = [callbacks[i] EXCEPT !.cancelled = TRUE]
                               /\ c.call = callbacks[i].call
      BY <2>1, CancelledFacts
    <2>3. callbacks' = [callbacks EXCEPT ![i] = c]
      BY <1>8, <2>2 DEF CancelCallback
    <2>4. c \notin LostWakes
      BY <2>1, <2>2, EntryHasACall DEF LostWakes
    <2>5. ~ Has(callbacks', LostWakes)
      BY <1>1, <2>3, <2>4 DEF Has
    <2> SUFFICES ASSUME NEW t \in Tasks PROVE OnePlace(t)'
      BY <1>3, <2>5, PlacedAgain
    <2>6. OnePlace(t)
      BY <1>4
    <2>7. /\ IsTask(t)' <=> IsTask(t)
          /\ IsReady(t)' <=> IsReady(t)
          /\ IsWoken(t)' <=> IsWoken(t)
          /\ \A f \in Futures : Waits(t, f)' <=> Waits(t, f)
          /\ OnceAtMost(t) => OnceAtMost(t)'
      BY <1>1, <1>8, CancelPlaces
    <2>8. IsOpen(t)' <=> IsOpen(t)
      BY <2>1 DEF IsOpen
    <2> QED
      BY <1>2, <2>6, <2>7, <2>8 DEF OnePlace, Somewhere
  <1>9. ASSUME UNCHANGED <<tasks, ready, callbacks, future, task>> PROVE Placed'
    BY <1>2, <1>3, <1>9, PlacesStay
  <1>10. \/ UNCHANGED <<tasks, ready, callbacks, future, task>>
         \/ \E s \in Tasks, p \in Priorities : Spawn(s, p)
         \/ \E f \in Futures : SetResult(f)
         \/ \E c \in UserCalls : CallSoon(c)
         \/ \E i \in DOMAIN callbacks : CancelCallback(i)
    BY DEF Operation, CallAt, CancelTimer
  <1> QED
    BY <1>5, <1>6, <1>7, <1>8, <1>9, <1>10

LEMMA PassPlaced ==
  ASSUME Kept, Placed, Pass
  PROVE  Placed'
  <1>1. TypeOK /\ TimersAreCalls /\ callbacks \in Seq(Entries) /\ ~ Has(callbacks, LostWakes)
    BY DEF Kept, TypeOK, Placed
  <1>2. Free /\ control' = "calls" /\ UNCHANGED <<current, task>>
    BY DEF Pass, Free
  <1>3. PICK q \in Seq(Entries) :
          callbacks' = callbacks \o q /\ \A j \in DOMAIN q : q[j].call \in UserCalls
    BY <1>1, PassFacts
  <1>4. \A j \in DOMAIN q : q[j] \notin LostWakes
    BY <1>3 DEF LostWakes
  <1>5. ~ Has(callbacks', LostWakes)
    BY <1>1, <1>3, <1>4, LostAppend
  <1> SUFFICES ASSUME NEW t \in Tasks PROVE OnePlace(t)'
    BY <1>2, <1>5, PlacedAgain
  <1>6. OnePlace(t)
    BY <1>2 DEF Placed, Free
  <1>7. /\ IsTask(t)' <=> IsTask(t)
        /\ IsReady(t)' <=> IsReady(t)
        /\ IsWoken(t)' <=> IsWoken(t)
        /\ \A f \in Futures : Waits(t, f)' <=> Waits(t, f)
        /\ OnceAtMost(t) => OnceAtMost(t)'
    BY <1>1, PassPlaces
  <1>8. IsOpen(t)' <=> IsOpen(t)
    BY <1>2 DEF IsOpen
  <1> QED
    BY <1>2, <1>6, <1>7, <1>8 DEF OnePlace, Somewhere

LEMMA CallsPlaced ==
  ASSUME Kept, Placed, Calls
  PROVE  Placed'
  <1>1. TypeOK /\ TimersAreCalls /\ callbacks \in Seq(Entries) /\ ~ Has(callbacks, LostWakes)
    BY DEF Kept, TypeOK, Placed
  <1>2. PICK entry \in Entries : Takes(entry)
    BY <1>1, TakesFacts DEF Calls, Skip, CallWake, CallSet, CallLater, CallRaises
  <1>3. /\ control = "calls" /\ Free /\ UNCHANGED <<current, task, tasks>>
        /\ entry = Head(callbacks) /\ callbacks # <<>> /\ Tail(callbacks) \in Seq(Entries)
    BY <1>1, <1>2, TakesFacts DEF Free
  <1>4. \A t \in Tasks : OnePlace(t) /\ (IsOpen(t)' <=> IsOpen(t))
    BY <1>3 DEF Placed, Free, IsOpen
  <1>5. ~ Has(Tail(callbacks), LostWakes) /\ entry \notin LostWakes
    BY <1>1, <1>3, HasTail
  <1>6. \A e \in Entries : Takes(e) => e = entry
    BY <1>3 DEF Takes
  <1>7. CASE Skip \/ CallLater \/ CallRaises
    <2>1. /\ callbacks' = Tail(callbacks) /\ UNCHANGED <<ready, future>>
          /\ \A t \in Tasks : entry.call # Wake(t)
          /\ control' = "calls" \/ control' = "drop"
      <3>1. CASE Skip
        <4>1. entry.cancelled \/ entry.call.do = "set"
          BY <1>2, <1>3, <3>1 DEF Skip, Takes
        <4>2. entry.call \in UserCalls
          BY <1>5, <4>1, EntryHasACall DEF LostWakes
        <4> QED
          BY <1>3, <3>1, <4>2, CallsDiffer DEF Skip
      <3>2. CASE CallLater \/ CallRaises
        <4>1. entry.call.do \in {"later", "raise"}
          BY <1>2, <1>3, <3>2 DEF CallLater, CallRaises, Takes
        <4>2. entry.call \in UserCalls
          BY <4>1, EntryHasACall
        <4> QED
          BY <1>3, <3>2, <4>2, CallsDiffer DEF CallLater, CallRaises
      <3> QED
        BY <1>7, <3>1, <3>2
    <2>2. ASSUME NEW t \in Tasks PROVE OnePlace(t)'
      <3>1. /\ IsTask(t)' <=> IsTask(t)
            /\ IsReady(t)' <=> IsReady(t)
            /\ IsWoken(t)' <=> IsWoken(t)
            /\ \A f \in Futures : Waits(t, f)' <=> Waits(t, f)
            /\ OnceAtMost(t) => OnceAtMost(t)'
        BY <1>1, <1>2, <2>1, LeavesPlaces
      <3>2. OnePlace(t) /\ (IsOpen(t)' <=> IsOpen(t))
        BY <1>4
      <3> QED
        BY <1>3, <3>1, <3>2 DEF OnePlace, Somewhere
    <2>3. \A t \in Tasks : IsOpen(t)' => IsTask(t)'
      BY <2>2 DEF OnePlace
    <2> QED
      BY <1>5, <2>1, <2>2, <2>3 DEF Placed, DropFindsTheOpen
  <1>8. CASE CallWake
    <2>1. entry.call.do = "wake" /\ callbacks' = Tail(callbacks) /\ UNCHANGED <<control, future>>
          /\ ready' = Append(ready, entry.call.of)
      BY <1>3, <1>8 DEF CallWake, Takes
    <2>2. PICK w \in Tasks : w = entry.call.of /\ entry.call = Wake(w)
      BY <2>1, EntryHasACall
    <2>3. IsWoken(w) /\ ~ IsReady(w)
      <3>1. IsWoken(w)
        BY <1>1, <1>2, <2>2, TakenPlaces
      <3> QED
        BY <1>4, <3>1 DEF OnePlace
    <2> SUFFICES ASSUME NEW t \in Tasks PROVE OnePlace(t)'
      BY <1>3, <1>5, <2>1, PlacedAgain
    <2>4. OnePlace(t) /\ (IsOpen(t)' <=> IsOpen(t)) /\ OnceAtMost(t)
      BY <1>4 DEF OnePlace
    <2>5. /\ IsTask(t)' <=> IsTask(t)
          /\ IsReady(t)' <=> IsReady(t) \/ t = w
          /\ IsWoken(t) <=> IsWoken(t)' \/ t = w
          /\ \A f \in Futures : Waits(t, f)' <=> Waits(t, f)
          /\ ~ (IsWoken(t)' /\ t = w)
          /\ OnceAtMost(t)'
      BY <1>1, <1>2, <2>1, <2>2, <2>3, <2>4, CallWakePlaces
    <2> QED
      BY <1>3, <2>3, <2>4, <2>5 DEF OnePlace, Somewhere
  <1>9. CASE CallSet
    <2>1. entry.call.do = "set" /\ future' = Done(entry.call.of) /\ UNCHANGED <<control, ready>>
          /\ callbacks' = Tail(callbacks) \o Wakes(entry.call.of, control)
      BY <1>3, <1>9 DEF CallSet, Takes
    <2>2. PICK f \in Futures : f = entry.call.of
      BY <2>1, EntryHasACall, UserCallFacts
    <2>3. control \in Sources
      BY <1>3 DEF Sources
    <2>4. /\ Wakes(f, control) \in Seq(Entries)
          /\ \A j \in DOMAIN Wakes(f, control) : ~ Wakes(f, control)[j].cancelled
      BY <1>1, <2>3, WakesFacts
    <2>5. \A j \in DOMAIN Wakes(f, control) : Wakes(f, control)[j] \notin LostWakes
      BY <2>4 DEF LostWakes
    <2>6. ~ Has(callbacks', LostWakes)
      BY <1>1, <1>3, <2>1, <2>2, <2>4, <2>5, LostAppend
    <2>7. \A t \in Tasks : entry.call # Wake(t)
      BY <2>1 DEF Wake
    <2> SUFFICES ASSUME NEW t \in Tasks PROVE OnePlace(t)'
      BY <1>3, <2>1, <2>6, PlacedAgain
    <2>8. OnePlace(t) /\ (IsOpen(t)' <=> IsOpen(t)) /\ OnceAtMost(t) /\ Once(callbacks, WakesOf(t))
      BY <1>4 DEF OnePlace, OnceAtMost
    <2>9. (IsWoken(t) <=> Has(Tail(callbacks), WakesOf(t))) /\ Once(Tail(callbacks), WakesOf(t))
      BY <1>1, <1>2, <2>7, <2>8, TakenPlaces
    <2>10. /\ IsTask(t)' <=> IsTask(t)
           /\ IsReady(t)' <=> IsReady(t)
           /\ IsWoken(t)' <=> IsWoken(t) \/ Waits(t, f)
           /\ \A g \in Futures : Waits(t, g)' <=> Waits(t, g) /\ g # f
           /\ ~ (IsWoken(t) /\ Waits(t, f)) => OnceAtMost(t)'
      BY <1>1, <1>3, <2>1, <2>2, <2>3, <2>8, <2>9, DonePlaces
    <2> QED
      BY <1>3, <2>8, <2>10 DEF OnePlace, Somewhere
  <1> QED
    BY <1>7, <1>8, <1>9 DEF Calls

LEMMA ReleasePlaced ==
  ASSUME Kept, Placed, NEW i \in DOMAIN ready, Release(i)
  PROVE  Placed'
  <1>1. TypeOK /\ HolderIsKnown /\ ~ Has(callbacks, LostWakes)
    BY DEF Kept, TypeOK, Placed
  <1>2. PICK w \in Tasks : w = ready[i]
    BY <1>1, ReleaseFacts
  <1>3. /\ control = "release" /\ current' = w /\ UNCHANGED callbacks
        /\ control' = "task" <=> IsOpen(w)
        /\ control' \in {"task", "drop"}
        /\ \A u \in Tasks : u # w => task'[u] = task[u]
        /\ task'[w].state = IF task[w].state = "new" THEN "suspended" ELSE task[w].state
    BY <1>1, <1>2, ReleaseFacts
  <1>4. Free /\ current = Nobody /\ Nobody \notin Tasks
    BY <1>1, <1>3, SchedulerAssumption DEF Free, HolderIsKnown
  <1>5. \A t \in Tasks : OnePlace(t)
    BY <1>4 DEF Placed, Free
  <1>6. \A t \in Tasks : IsOpen(t)' <=> IsOpen(t)
    <2>1. \A t \in Tasks : t # w => (IsOpen(t)' <=> IsOpen(t))
      BY <1>3 DEF IsOpen
    <2>2. IsOpen(w)' <=> IsOpen(w)
      BY <1>3 DEF IsOpen
    <2> QED
      BY <2>1, <2>2
  <1>7. IsReady(w)
    BY <1>2 DEF IsReady, Has
  <1>8. IsTask(w) /\ IsOpen(w) /\ ~ IsWoken(w) /\ \A f \in Futures : ~ Waits(w, f)
    BY <1>5, <1>7 DEF OnePlace, Somewhere
  <1> SUFFICES ASSUME NEW t \in Tasks PROVE OnePlace(t)'
    BY <1>1, <1>3, <1>8, PlacedAgain
  <1>9. OnePlace(t) /\ (IsOpen(t)' <=> IsOpen(t)) /\ OnceAtMost(t)
    BY <1>5, <1>6 DEF OnePlace
  <1>10. /\ IsTask(t)' <=> IsTask(t)
         /\ IsReady(t) <=> IsReady(t)' \/ t = w
         /\ IsWoken(t)' <=> IsWoken(t)
         /\ \A f \in Futures : Waits(t, f)' <=> Waits(t, f)
         /\ OnceAtMost(t)' /\ ~ (IsReady(t)' /\ t = w)
    BY <1>1, <1>2, <1>9, ReleasePlaces
  <1> QED
    BY <1>3, <1>4, <1>8, <1>9, <1>10 DEF OnePlace, Somewhere

\* What the task that has control does next.
LEMMA TaskPlaced ==
  ASSUME Kept, Placed, Yield \/ (\E f \in Futures : Await(f)) \/ End \/ Raise
  PROVE  Placed'
  <1>1. TypeOK /\ HolderIsKnown /\ ~ Has(callbacks, LostWakes)
    BY DEF Kept, TypeOK, Placed
  <1>2. /\ control = "task" /\ current \in Tasks /\ current' = Nobody /\ UNCHANGED callbacks
        /\ Free /\ Nobody \notin Tasks
    BY <1>1, SchedulerAssumption DEF Yield, Await, End, Raise, HolderIsKnown, lists, Free
  <1>3. \A t \in Tasks : OnePlace(t)
    BY <1>2 DEF Placed, Free
  <1>4. IsTask(current) /\ ~ Somewhere(current)
    BY <1>2, <1>3 DEF OnePlace
  <1>5. CASE Yield
    <2> SUFFICES ASSUME NEW t \in Tasks PROVE OnePlace(t)'
      BY <1>1, <1>2, <1>5, PlacedAgain DEF Yield
    <2>1. OnePlace(t) /\ (IsOpen(t)' <=> IsOpen(t))
      BY <1>3, <1>5 DEF Yield, IsOpen
    <2>2. /\ IsTask(t)' <=> IsTask(t)
          /\ IsReady(t)' <=> IsReady(t) \/ t = current
          /\ IsWoken(t)' <=> IsWoken(t)
          /\ \A f \in Futures : Waits(t, f)' <=> Waits(t, f)
          /\ OnceAtMost(t) /\ ~ (IsReady(t) /\ t = current) => OnceAtMost(t)'
      BY <1>1, <1>5, YieldPlaces
    <2> QED
      BY <1>2, <1>4, <2>1, <2>2 DEF OnePlace, Somewhere
  <1>6. ASSUME NEW f \in Futures, Await(f) PROVE Placed'
    <2> SUFFICES ASSUME NEW t \in Tasks PROVE OnePlace(t)'
      BY <1>1, <1>2, <1>6, PlacedAgain DEF Await
    <2>1. OnePlace(t) /\ (IsOpen(t)' <=> IsOpen(t))
      BY <1>3, <1>6 DEF Await, IsOpen
    <2>2. /\ IsTask(t)' <=> IsTask(t)
          /\ IsReady(t)' <=> IsReady(t)
          /\ IsWoken(t)' <=> IsWoken(t)
          /\ \A g \in Futures : Waits(t, g)' <=> Waits(t, g) \/ (g = f /\ t = current)
          /\ OnceAtMost(t) /\ ~ (Waits(t, f) /\ t = current) => OnceAtMost(t)'
      BY <1>1, <1>6, AwaitPlaces
    <2>3. CASE t = current
      BY <1>2, <1>4, <2>1, <2>2, <2>3 DEF OnePlace, Somewhere
    <2>4. CASE t # current
      BY <1>2, <2>1, <2>2, <2>4 DEF OnePlace, Somewhere
    <2> QED
      BY <2>3, <2>4
  <1>7. CASE End
    <2>1. task' = [task EXCEPT ![current].state = "ended"] /\ control' = "loop"
      BY <1>7 DEF End
    <2> SUFFICES ASSUME NEW t \in Tasks PROVE OnePlace(t)'
      BY <1>1, <1>2, <2>1, PlacedAgain
    <2>2. /\ t # current => (IsOpen(t)' <=> IsOpen(t))
          /\ t = current => ~ IsOpen(t)'
      <3>1. task'[current].state = "ended" /\ \A u \in Tasks : u # current => task'[u] = task[u]
        BY <1>1, <1>2, <2>1, StateFacts
      <3> QED
        BY <3>1 DEF IsOpen
    <2>3. OnePlace(t) /\ OnceAtMost(t)
      BY <1>3 DEF OnePlace
    <2>4. /\ IsTask(t) <=> IsTask(t)' \/ t = current
          /\ IsReady(t)' <=> IsReady(t)
          /\ IsWoken(t)' <=> IsWoken(t)
          /\ \A f \in Futures : Waits(t, f)' <=> Waits(t, f)
          /\ OnceAtMost(t)' /\ ~ (IsTask(t)' /\ t = current)
      BY <1>1, <1>7, <2>3, EndPlaces
    <2>5. CASE t = current
      BY <1>2, <1>4, <2>2, <2>3, <2>4, <2>5 DEF OnePlace, Somewhere
    <2>6. CASE t # current
      BY <1>2, <2>2, <2>3, <2>4, <2>6 DEF OnePlace, Somewhere
    <2> QED
      BY <2>5, <2>6
  <1>8. CASE Raise
    <2>1. task' = [task EXCEPT ![current].state = "ended"] /\ control' = "drop" /\ UNCHANGED tasks
      BY <1>8 DEF Raise, lists
    <2>2. task'[current].state = "ended" /\ \A u \in Tasks : u # current => task'[u] = task[u]
      BY <1>1, <1>2, <2>1, StateFacts
    <2>3. ASSUME NEW t \in Tasks, IsOpen(t)' PROVE IsTask(t)'
      <3>1. IsOpen(t)
        BY <2>2, <2>3 DEF IsOpen
      <3>2. IsTask(t)
        BY <1>3, <3>1 DEF OnePlace
      <3> QED
        BY <2>1, <3>2 DEF IsTask
    <2> QED
      BY <1>1, <1>2, <2>1, <2>3 DEF Placed, DropFindsTheOpen
  <1> QED
    BY <1>5, <1>6, <1>7, <1>8

\* A failed run: what is open is found, closed, and forgotten.
LEMMA DropPlaced ==
  ASSUME Tame, Kept, Placed, Drop \/ Close \/ Closed \/ Dropped
  PROVE  Placed'
  <1>1. TypeOK /\ HolderIsKnown /\ ~ Has(callbacks, LostWakes) /\ DropFindsTheOpen
        /\ Nobody \notin Tasks
    BY SchedulerAssumption DEF Kept, TypeOK, Placed
  <1>2. CASE Drop
    <2>1. /\ control = "drop" /\ control' = "close" /\ closing' = tasks
          /\ tasks' = <<>> /\ ready' = <<>> /\ callbacks' = <<>> /\ timers' = {}
          /\ task' = [t \in Tasks |-> IF task[t].state = "new" /\ t \in ToSet(tasks)
                                        THEN [task[t] EXCEPT !.state = "closed"] ELSE task[t]]
      BY <1>2 DEF Drop, ToClose
    <2>2. ASSUME NEW t \in Tasks, IsOpen(t)'
          PROVE  Open(t)' /\ Has(closing', {t})
      <3>0. task[t] \in TaskStates
        BY <1>1 DEF TypeOK, TaskStates
      <3>1. ~ (task[t].state = "new" /\ t \in ToSet(tasks))
        <4>1. SUFFICES ASSUME task[t].state = "new" /\ t \in ToSet(tasks) PROVE FALSE
          OBVIOUS
        <4>2. task'[t] = [task[t] EXCEPT !.state = "closed"]
          BY <2>1, <4>1
        <4>3. task'[t].state = "closed"
          BY <3>0, <4>2 DEF TaskStates
        <4> QED
          BY <2>2, <4>3 DEF IsOpen
      <3>2. task'[t] = task[t]
        BY <2>1, <3>1
      <3>3. IsOpen(t)
        BY <2>2, <3>2 DEF IsOpen
      <3>4. IsTask(t)
        BY <1>1, <2>1, <3>3 DEF DropFindsTheOpen
      <3>5. t \in ToSet(tasks)
        BY <3>4, HasIn DEF IsTask
      <3> QED
        BY <2>1, <3>1, <3>2, <3>3, <3>4, <3>5 DEF IsOpen, Open, IsTask
    <2>3. ~ Has(callbacks', LostWakes)
      BY <2>1, HasNone
    <2> QED
      BY <2>1, <2>2, <2>3 DEF Placed, DropFindsTheOpen
  <1>3. CASE Close \/ Closed \/ Dropped
    <2>1. /\ control \in {"close", "finally"} /\ UNCHANGED <<tasks, ready, callbacks, timers>>
          /\ tasks = <<>> /\ ready = <<>> /\ callbacks = <<>> /\ timers = {}
          /\ \A t \in Tasks : IsOpen(t) => Open(t) /\ (Has(closing, {t}) \/ t = current)
      BY <1>1, <1>3 DEF Close, Closed, Dropped, lists, DropFindsTheOpen
    <2>2. ~ Has(callbacks', LostWakes)
      BY <2>1, HasNone
    <2>3. CASE Close
      <3>1. /\ control = "close" /\ control' \in {"close", "finally"} /\ closing # <<>>
            /\ closing' = Tail(closing) /\ UNCHANGED task
            /\ \/ Open(Head(closing)) /\ current' = Head(closing)
               \/ ~ Open(Head(closing)) /\ UNCHANGED current
        BY <2>3 DEF Close
      <3>2. current = Nobody /\ closing \in Seq(Tasks)
        BY <1>1, <3>1 DEF HolderIsKnown, TypeOK
      <3>3. ASSUME NEW t \in Tasks, IsOpen(t)'
            PROVE  Open(t)' /\ (Has(closing', {t}) \/ t = current')
        <4>1. Open(t) /\ Has(closing, {t}) /\ Open(t)'
          BY <1>1, <2>1, <3>1, <3>2, <3>3 DEF IsOpen, Open
        <4>2. Has(closing', {t}) \/ Head(closing) = t
          BY <3>1, <3>2, <4>1, HasTail
        <4> QED
          BY <3>1, <4>1, <4>2
      <3> QED
        BY <2>1, <2>2, <3>1, <3>3 DEF Placed, DropFindsTheOpen
    <2>4. CASE Closed
      <3>1. /\ control = "finally" /\ control' = "close" /\ UNCHANGED closing
            /\ task' = [task EXCEPT ![current].state = "closed"]
        BY <2>4 DEF Closed
      <3>2. current \in Tasks
        BY <1>1, <3>1 DEF HolderIsKnown
      <3>3. task'[current].state = "closed" /\ \A u \in Tasks : u # current => task'[u] = task[u]
        BY <1>1, <3>1, <3>2, StateFacts
      <3>4. ASSUME NEW t \in Tasks, IsOpen(t)'
            PROVE  Open(t)' /\ Has(closing', {t})
        BY <2>1, <3>1, <3>3, <3>4 DEF IsOpen, Open
      <3> QED
        BY <2>1, <2>2, <3>1, <3>4 DEF Placed, DropFindsTheOpen
    <2>5. CASE Dropped
      <3>1. /\ control = "close" /\ closing = <<>> /\ control' = "test" /\ UNCHANGED <<current, task>>
            /\ Abandon
        BY <2>5 DEF Dropped
      <3>2. current = Nobody
        BY <1>1, <3>1 DEF HolderIsKnown
      <3>3. ASSUME NEW t \in Tasks PROVE OnePlace(t)'
        <4>1. ~ IsOpen(t)'
          BY <1>1, <2>1, <3>1, <3>2, HasNone DEF IsOpen
        <4>2. ~ IsTask(t)' /\ ~ IsReady(t)' /\ ~ IsWoken(t)'
              /\ Once(tasks', {t}) /\ Once(ready', {t}) /\ Once(callbacks', WakesOf(t))
          BY <2>1, HasNone DEF IsTask, IsReady, IsWoken
        <4>3. \A f \in Futures : ~ Waits(t, f)' /\ Once(future'[f].waiters, {t})
          BY <1>1, <3>1, AbandonPlaces, HasNone DEF Tame
        <4>4. OnceAtMost(t)'
          BY <4>2, <4>3 DEF OnceAtMost
        <4> QED
          BY <1>1, <3>1, <3>2, <4>1, <4>2, <4>3, <4>4 DEF OnePlace, Somewhere
      <3> QED
        BY <2>2, <3>1, <3>3, PlacedAgain
    <2> QED
      BY <1>3, <2>3, <2>4, <2>5
  <1> QED
    BY <1>2, <1>3

LEMMA PlacedKept ==
  ASSUME Tame, Kept, Placed, [Next]_vars
  PROVE  Placed'
  <1>1. HolderIsKnown
    BY DEF Kept
  <1>2. CASE Operation
    BY <1>2, OperationPlaces
  <1>3. CASE Pass
    BY <1>3, PassPlaced
  <1>4. CASE Calls
    BY <1>4, CallsPlaced
  <1>5. CASE \E i \in DOMAIN ready : Release(i)
    BY <1>5, ReleasePlaced
  <1>6. CASE Yield \/ (\E f \in Futures : Await(f)) \/ End \/ Raise
    BY <1>6, TaskPlaced
  <1>7. CASE Drop \/ Close \/ Closed \/ Dropped
    BY <1>7, DropPlaced
  <1>8. CASE FinallyRaises
    BY <1>8 DEF FinallyRaises, Tame
  <1>9. CASE \/ \E ps \in ChangePoints : Run(ps)
             \/ Return \/ Settled \/ Again \/ Advance \/ Deadlock \/ ChoiceStops \/ Misuse
    <2>1. /\ Free /\ UNCHANGED <<tasks, ready, callbacks, future, task>>
          /\ \/ UNCHANGED current /\ control' \notin {"close", "finally"}
             \/ control' = "drop"
      BY <1>9 DEF Run, Return, Settled, Again, Advance, Idle, Deadlock, ChoiceStops, Misuse, lists,
                  Free
    <2> QED
      BY <2>1, PlacesStay
  <1>10. CASE UNCHANGED vars
    <2>1. UNCHANGED <<tasks, ready, callbacks, timers, future, task, current, control, closing>>
      BY <1>10 DEF vars, lists
    <2>2. CASE Free
      <3>1. control' \notin {"drop", "close", "finally"}
        BY <2>1, <2>2 DEF Free
      <3> QED
        BY <2>1, <2>2, <3>1, PlacesStay
    <2>3. CASE ~ Free
      BY <2>1, <2>3 DEF Free, Placed, DropFindsTheOpen, IsOpen, Open, IsTask
    <2> QED
      BY <2>2, <2>3
  <1> QED
    BY <1>2, <1>3, <1>4, <1>5, <1>6, <1>7, <1>8, <1>9, <1>10 DEF Next, Step

LEMMA InitPlaced == Init => Placed
  <1> SUFFICES ASSUME Init PROVE Placed
    OBVIOUS
  <1>1. /\ tasks = <<>> /\ ready = <<>> /\ callbacks = <<>> /\ control = "test" /\ current = Nobody
        /\ \A f \in Futures : future[f].waiters = <<>>
        /\ \A t \in Tasks : task[t].state = "unspawned"
    BY DEF Init
  <1>2. ASSUME NEW t \in Tasks PROVE OnePlace(t)
    <2>1. ~ IsTask(t) /\ ~ IsReady(t) /\ ~ IsWoken(t) /\ OnceAtMost(t)
          /\ \A f \in Futures : ~ Waits(t, f)
      BY <1>1, HasNone DEF IsTask, IsReady, IsWoken, Waits, OnceAtMost
    <2>2. ~ IsOpen(t) /\ t # current
      BY <1>1, SchedulerAssumption DEF IsOpen
    <2> QED
      BY <2>1, <2>2 DEF OnePlace, Somewhere
  <1> QED
    BY <1>1, <1>2, HasNone DEF Placed, DropFindsTheOpen

-----------------------------------------------------------------------------
(***************************************************************************)
(* One place, counted.                                                     *)
(***************************************************************************)
LEMMA PlacesCounted ==
  ASSUME Kept, NEW t \in Tasks, OnePlace(t)
  PROVE  Cardinality(Places(t)) = IF IsTask(t) /\ t # current THEN 1 ELSE 0
  <1>1. /\ OnceAtMost(t)
        /\ ~ (IsReady(t) /\ IsWoken(t))
        /\ \A f \in Futures : Waits(t, f) => ~ IsReady(t) /\ ~ IsWoken(t)
        /\ \A f, g \in Futures : Waits(t, f) /\ Waits(t, g) => f = g
        /\ Somewhere(t) <=> IsTask(t) /\ t # current
    BY DEF OnePlace
  <1>2. callbacks \in Seq(Entries) /\ \A f \in Futures : future[f].done => future[f].waiters = <<>>
    BY DEF Kept, TypeOK, DoneWakesNobody
  <1>3. \A i \in DOMAIN callbacks : callbacks[i] \in WakesOf(t) <=> callbacks[i].call = Wake(t)
    BY <1>2 DEF WakesOf
  <1>4. \A x \in Places(t) :
           \/ \E i \in DOMAIN ready : x = <<"ready", i>> /\ ready[i] = t
           \/ \E i \in DOMAIN callbacks : x = <<"woken", i>> /\ callbacks[i] \in WakesOf(t)
           \/ \E f \in Futures : \E i \in DOMAIN future[f].waiters :
                x = <<"waits", f, i>> /\ future[f].waiters[i] = t
    BY <1>3 DEF Places
  <1>5. ASSUME NEW p \in Places(t), \A x \in Places(t) : x = p
        PROVE  Cardinality(Places(t)) = 1
    <2>1. Places(t) = {p}
      BY <1>5
    <2> QED
      BY <2>1, FS_Singleton
  <1>6. CASE IsReady(t)
    <2>1. PICK i \in DOMAIN ready : ready[i] = t
      BY <1>6 DEF IsReady, Has
    <2>2. <<"ready", i>> \in Places(t)
      BY <2>1 DEF Places
    <2>3. ASSUME NEW x \in Places(t) PROVE x = <<"ready", i>>
      <3>1. ~ \E j \in DOMAIN callbacks : callbacks[j] \in WakesOf(t)
        BY <1>1, <1>6 DEF IsWoken, Has
      <3>2. ~ \E f \in Futures : \E j \in DOMAIN future[f].waiters : future[f].waiters[j] = t
        BY <1>1, <1>6 DEF Waits, Has
      <3>3. PICK j \in DOMAIN ready : x = <<"ready", j>> /\ ready[j] = t
        BY <1>4, <3>1, <3>2
      <3>4. i = j
        BY <1>1, <2>1, <3>3 DEF OnceAtMost, Once
      <3> QED
        BY <3>3, <3>4
    <2>4. Cardinality(Places(t)) = 1
      BY <1>5, <2>2, <2>3
    <2> QED
      BY <1>1, <1>6, <2>4 DEF Somewhere
  <1>7. CASE IsWoken(t)
    <2>1. PICK i \in DOMAIN callbacks : callbacks[i] \in WakesOf(t)
      BY <1>7 DEF IsWoken, Has
    <2>2. <<"woken", i>> \in Places(t)
      BY <1>3, <2>1 DEF Places
    <2>3. ASSUME NEW x \in Places(t) PROVE x = <<"woken", i>>
      <3>1. ~ \E j \in DOMAIN ready : ready[j] = t
        BY <1>1, <1>7 DEF IsReady, Has
      <3>2. ~ \E f \in Futures : \E j \in DOMAIN future[f].waiters : future[f].waiters[j] = t
        BY <1>1, <1>7 DEF Waits, Has
      <3>3. PICK j \in DOMAIN callbacks : x = <<"woken", j>> /\ callbacks[j] \in WakesOf(t)
        BY <1>4, <3>1, <3>2
      <3>4. i = j
        BY <1>1, <2>1, <3>3 DEF OnceAtMost, Once
      <3> QED
        BY <3>3, <3>4
    <2>4. Cardinality(Places(t)) = 1
      BY <1>5, <2>2, <2>3
    <2> QED
      BY <1>1, <1>7, <2>4 DEF Somewhere
  <1>8. CASE \E f \in Futures : Waits(t, f)
    <2>1. PICK f \in Futures : Waits(t, f)
      BY <1>8
    <2>2. PICK i \in DOMAIN future[f].waiters : future[f].waiters[i] = t
      BY <2>1 DEF Waits, Has
    <2>3. ~ future[f].done
      BY <1>2, <2>2
    <2>4. <<"waits", f, i>> \in Places(t)
      BY <2>2, <2>3 DEF Places
    <2>5. ASSUME NEW x \in Places(t) PROVE x = <<"waits", f, i>>
      <3>1. ~ \E j \in DOMAIN ready : ready[j] = t
        BY <1>1, <2>1 DEF IsReady, Has
      <3>2. ~ \E j \in DOMAIN callbacks : callbacks[j] \in WakesOf(t)
        BY <1>1, <2>1 DEF IsWoken, Has
      <3>3. PICK g \in Futures : \E j \in DOMAIN future[g].waiters :
              x = <<"waits", g, j>> /\ future[g].waiters[j] = t
        BY <1>4, <3>1, <3>2
      <3>7. PICK j \in DOMAIN future[g].waiters :
              x = <<"waits", g, j>> /\ future[g].waiters[j] = t
        BY <3>3
      <3>4. g = f
        <4>1. Waits(t, g)
          BY <3>3 DEF Waits, Has
        <4> QED
          BY <1>1, <2>1, <4>1
      <3>5. i = j
        BY <1>1, <2>2, <3>4, <3>7 DEF OnceAtMost, Once
      <3> QED
        BY <3>4, <3>5, <3>7
    <2>6. Cardinality(Places(t)) = 1
      BY <1>5, <2>4, <2>5
    <2> QED
      BY <1>1, <1>8, <2>6 DEF Somewhere
  <1>9. CASE ~ Somewhere(t)
    <2>1. Places(t) = {}
      <3> SUFFICES ASSUME NEW x \in Places(t) PROVE FALSE
        OBVIOUS
      <3>1. /\ ~ \E j \in DOMAIN ready : ready[j] = t
            /\ ~ \E j \in DOMAIN callbacks : callbacks[j] \in WakesOf(t)
            /\ ~ \E f \in Futures : \E j \in DOMAIN future[f].waiters : future[f].waiters[j] = t
        BY <1>9 DEF Somewhere, IsReady, IsWoken, Waits, Has
      <3> QED
        BY <1>4, <3>1
    <2> QED
      BY <1>1, <1>9, <2>1, FS_EmptySet
  <1> QED
    BY <1>6, <1>7, <1>8, <1>9 DEF Somewhere

(***************************************************************************)
(* Nothing is lost, doubled or early, for any tasks, futures, delays,      *)
(* strategy and number of runs, as long as the finally blocks of a failed  *)
(* run leave the loop alone and nobody makes its futures done              *)
(* (scheduler.py, _settle to _drop).                                       *)
(***************************************************************************)
THEOREM NothingGoesAmiss ==
  ASSUME Finally = {}, Outlive = FALSE
  PROVE  Spec => []NothingIsLostOrEarly
  <1>1. Kept /\ Placed /\ [Next]_vars => Placed'
    BY PlacedKept DEF Tame
  <1>2. Kept /\ Placed => EveryTaskIsInOnePlace /\ NoCoroutineIsLeftOpen
    <2> SUFFICES ASSUME Kept, Placed PROVE EveryTaskIsInOnePlace /\ NoCoroutineIsLeftOpen
      OBVIOUS
    <2>1. Free => \A t \in Tasks : OnePlace(t)
      BY DEF Placed, Free
    <2>2. EveryTaskIsInOnePlace
      <3> SUFFICES ASSUME InRun, NEW t \in Tasks
                   PROVE  Cardinality(Places(t)) = IF t \in ToSet(tasks) /\ t # current THEN 1 ELSE 0
        BY DEF EveryTaskIsInOnePlace
      <3>1. OnePlace(t)
        BY <2>1 DEF InRun, Free
      <3>2. t \in ToSet(tasks) <=> IsTask(t)
        BY HasIn DEF IsTask
      <3> QED
        BY <3>1, <3>2, PlacesCounted
    <2>3. NoCoroutineIsLeftOpen
      <3> SUFFICES ASSUME control = "test", NEW t \in Tasks, Open(t) PROVE t \in ToSet(tasks)
        BY DEF NoCoroutineIsLeftOpen
      <3>1. OnePlace(t) /\ IsOpen(t)
        BY <2>1 DEF Free, Open, IsOpen
      <3> QED
        BY <3>1, HasIn DEF OnePlace, IsTask
    <2> QED
      BY <2>2, <2>3
  <1>3. CalledBeforeTheRelease /\ TimersAreInOrder /\ EveryTaskIsInOnePlace /\ NoCoroutineIsLeftOpen
          => NothingIsLostOrEarly
    BY DEF NothingIsLostOrEarly
  <1> QED
    BY InitPlaced, SchedulerIsKept, CallsAreInOrder, <1>1, <1>2, <1>3, PTL DEF Spec

-----------------------------------------------------------------------------
(***************************************************************************)
(* An idle loop.                                                           *)
(***************************************************************************)
LEMMA AheadKept ==
  ASSUME LateDelays \subseteq Nat, Kept, TimersAreAhead, [Next]_vars
  PROVE  TimersAreAhead'
  <1>1. /\ TypeOK /\ TimersAreCalls /\ HolderIsKnown /\ now \in Int
        /\ \A e \in timers : e.when \in Int
    <2>1. TypeOK /\ TimersAreCalls /\ HolderIsKnown /\ now \in Int
      BY DEF Kept, TypeOK
    <2>2. \A e \in timers : e \in Entries
      BY <2>1 DEF TypeOK
    <2> QED
      BY <2>1, <2>2, EntryHasACall
  <1>2. CASE Pass
    <2>1. timers' = timers \ {e \in timers : IsDue(e)} /\ UNCHANGED now
      BY <1>2 DEF Pass, clock
    <2>2. \A e \in timers' : e.when >= now'
      BY <1>1, <2>1 DEF IsDue
    <2> QED
      BY <2>2 DEF TimersAreAhead
  <1>3. CASE CallLater
    <2>1. PICK e : /\ Takes(e) /\ e.call.do = "later"
                   /\ timers' = timers \cup {Entry([do |-> "set", of |-> e.call.of, delay |-> 0],
                                                   now + e.call.delay, control)}
      BY <1>3 DEF CallLater
    <2>2. e \in Entries /\ control = "calls" /\ UNCHANGED now
      BY <1>1, <2>1, TakesFacts DEF clock
    <2>3. e.call.delay \in Nat
      BY <2>1, <2>2, EntryHasACall, UserCallFacts
    <2>4. Entry([do |-> "set", of |-> e.call.of, delay |-> 0], now + e.call.delay, control).when
            = now + e.call.delay
      BY DEF Entry
    <2>5. now + e.call.delay >= now
      BY <1>1, <2>3
    <2>6. \A d \in timers : d.when >= now
      BY <2>2 DEF TimersAreAhead
    <2>7. \A d \in timers' : d.when >= now'
      BY <2>1, <2>2, <2>4, <2>5, <2>6
    <2> QED
      BY <2>7 DEF TimersAreAhead
  <1>4. CASE UNCHANGED <<timers, now>> /\ (control' \in {"calls", "release"} => control = "calls")
    BY <1>4 DEF TimersAreAhead
  <1>5. CASE control' \notin {"calls", "release"}
    BY <1>5 DEF TimersAreAhead
  <1>6. CASE UNCHANGED vars
    BY <1>6 DEF vars, lists, clock, TimersAreAhead
  <1>7. ASSUME Next
        PROVE  \/ Pass \/ CallLater
               \/ UNCHANGED <<timers, now>> /\ (control' \in {"calls", "release"} => control = "calls")
               \/ control' \notin {"calls", "release"}
    <2>1. CASE Operation
      <3>1. User /\ UNCHANGED control
        BY <2>1 DEF Operation, Spawn, SetResult, CallSoon, CallAt, CancelTimer, CancelCallback,
                    Operates
      <3> QED
        BY <3>1 DEF User
    <2>2. CASE Calls
      BY <2>2 DEF Calls, Skip, CallWake, CallSet, CallRaises, Takes, clock
    <2>3. CASE \E ps \in ChangePoints : Run(ps)
      BY <2>3 DEF Run
    <2>4. CASE Settled
      BY <2>4 DEF Settled, lists, clock
    <2>5. CASE \E i \in DOMAIN ready : Release(i)
      BY <1>1, <2>5, ReleaseFacts
    <2>6. CASE Step /\ ~ Calls /\ ~ Settled /\ ~ \E i \in DOMAIN ready : Release(i)
      BY <2>6 DEF Step, Return, Again, Advance, Deadlock, ChoiceStops, Yield, End, Raise,
                  Misuse, Await, Drop, Close, Closed, FinallyRaises, Dropped
    <2> QED
      BY <1>7, <2>1, <2>2, <2>3, <2>4, <2>5, <2>6 DEF Next
  <1> QED
    BY <1>2, <1>3, <1>4, <1>5, <1>6, <1>7

\* Only an idle loop moves the clock, and only one gives up.
LEMMA IdleMoves ==
  ASSUME [Next]_vars
  PROVE  /\ error' = "deadlock" /\ error # "deadlock" => Deadlock
         /\ now' # now => Advance
  <1>1. CASE Operation
    BY <1>1 DEF Operation, Spawn, SetResult, CallSoon, CallAt, CancelTimer, CancelCallback,
                Operates, clock
  <1>2. CASE Calls
    BY <1>2 DEF Calls, Skip, CallWake, CallSet, CallLater, CallRaises, Takes, clock
  <1>3. CASE \E ps \in ChangePoints : Run(ps)
    BY <1>3 DEF Run
  <1>4. CASE \E i \in DOMAIN ready : Release(i)
    BY <1>4 DEF Release
  <1>5. CASE Deadlock
    BY <1>5 DEF Deadlock, clock
  <1>6. CASE Step /\ ~ Calls /\ ~ Deadlock /\ ~ \E i \in DOMAIN ready : Release(i)
    BY <1>6 DEF Step, Return, Pass, Settled, Again, Advance, ChoiceStops, Yield, End, Raise,
                Misuse, Await, Drop, Close, Closed, FinallyRaises, Dropped, clock
  <1>7. CASE UNCHANGED vars
    BY <1>7 DEF vars, clock
  <1> QED
    BY <1>1, <1>2, <1>3, <1>4, <1>5, <1>6, <1>7 DEF Next

LEMMA DeadlocksAreReal ==
  ASSUME Kept, Placed, Deadlock
  PROVE  \A t \in ToSet(tasks) : \E f \in Futures : ~ future[f].done /\ t \in ToSet(future[f].waiters)
  <1>1. /\ control = "calls" /\ ready = <<>> /\ callbacks = <<>> /\ current = Nobody
        /\ Nobody \notin Tasks
        /\ tasks \in Seq(Tasks)
    BY SchedulerAssumption DEF Deadlock, Idle, Kept, HolderIsKnown, TypeOK
  <1> SUFFICES ASSUME NEW t \in ToSet(tasks)
               PROVE  \E f \in Futures : ~ future[f].done /\ t \in ToSet(future[f].waiters)
    OBVIOUS
  <1>2. t \in Tasks /\ IsTask(t)
    <2>1. IsTask(t)
      BY HasIn DEF IsTask
    <2>2. PICK i \in DOMAIN tasks : tasks[i] = t
      BY <2>1 DEF IsTask, Has
    <2>3. tasks[i] \in Tasks
      BY <1>1
    <2> QED
      BY <2>1, <2>2, <2>3
  <1>3. OnePlace(t)
    BY <1>1, <1>2 DEF Placed
  <1>4. ~ IsReady(t) /\ ~ IsWoken(t)
    BY <1>1, HasNone DEF IsReady, IsWoken
  <1>5. PICK f \in Futures : Waits(t, f)
    BY <1>1, <1>2, <1>3, <1>4 DEF OnePlace, Somewhere
  <1>6. future[f].waiters # <<>>
    BY <1>5, HasNone DEF Waits
  <1> QED
    BY <1>5, <1>6, HasIn DEF Waits, Kept, DoneWakesNobody

LEMMA TheClockWaits ==
  ASSUME Kept, TimersAreAhead, Advance, now' # now
  PROVE  /\ ready = <<>> /\ callbacks = <<>> /\ now' > now
         /\ \E e \in Uncancelled : e.when = now'
         /\ \A e \in Uncancelled : e.when >= now'
  <1>1. /\ control = "calls" /\ ready = <<>> /\ callbacks = <<>> /\ now \in Int
        /\ \A e \in timers : e \in Entries
    BY DEF Advance, Idle, Kept, TypeOK
  <1>2. PICK e \in Uncancelled : now' = e.when /\ \A d \in Uncancelled \ {e} : Earlier(e, d)
    BY DEF Advance
  <1>3. \A d \in Uncancelled : d \in timers /\ d.when \in Int /\ d.when >= now
    BY <1>1, EntryHasACall DEF Uncancelled, TimersAreAhead
  <1>4. now' > now
    BY <1>1, <1>2, <1>3
  <1>5. \A d \in Uncancelled : d.when >= now'
    BY <1>2, <1>3 DEF Earlier
  <1> QED
    BY <1>1, <1>2, <1>4, <1>5

(***************************************************************************)
(* The loop gives up only when each task waits for a future that nothing   *)
(* will make done, and moves its clock only on, to the next timer that     *)
(* somebody wants: for any instance in which, besides, no callback         *)
(* schedules a timer for a time that has passed (scheduler.py, _settle and *)
(* _advance).                                                              *)
(***************************************************************************)
THEOREM IdleLoopsKnowWhy ==
  ASSUME Finally = {}, Outlive = FALSE, LateDelays \subseteq Nat
  PROVE  Spec => IdleLoopsAreToldApart
  <1>1. Kept /\ Placed /\ [Next]_vars => Placed'
    BY PlacedKept DEF Tame
  <1>2. Kept /\ TimersAreAhead /\ [Next]_vars => TimersAreAhead'
    BY AheadKept
  <1>3. Init => TimersAreAhead
    BY DEF Init, TimersAreAhead
  <1>4. Kept /\ Placed /\ TimersAreAhead /\ [Next]_vars => [DeadlockIsReal /\ ClockWaits]_vars
    <2> SUFFICES ASSUME Kept, Placed, TimersAreAhead, [Next]_vars
                 PROVE  DeadlockIsReal /\ ClockWaits
      OBVIOUS
    <2>1. DeadlockIsReal
      BY IdleMoves, DeadlocksAreReal DEF DeadlockIsReal
    <2>2. ClockWaits
      BY IdleMoves, TheClockWaits DEF ClockWaits
    <2> QED
      BY <2>1, <2>2
  <1> QED
    BY InitPlaced, SchedulerIsKept, <1>1, <1>2, <1>3, <1>4, PTL DEF Spec, IdleLoopsAreToldApart
=============================================================================
