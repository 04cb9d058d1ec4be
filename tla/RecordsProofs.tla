---------------------------- MODULE RecordsProofs ----------------------------
(***************************************************************************)
(* Proofs about the call records of a test (Records): for any number of    *)
(* calls and runs, whatever threads outlive the runs of their bodies.      *)
(***************************************************************************)
EXTENDS Records, FiniteSetTheorems, SequenceTheorems, WellFoundedInduction, TLAPS

EntryStages == {"open", "called", "to_test", "to_run", "ended", "gone"}

EntryType ==
  [call : BOOLEAN, parent : Nat, run : Nat, steps : Nat, seq : Nat, home : Int,
   told : {0, 1}, in : Nat, stage : EntryStages, missed : BOOLEAN]

RunType ==
  [slot : Nat, list : Seq(Nat), steps : Nat, stage : {"body", "ended", "emptied", "swapped", "taken"},
   number : Nat, home : Int]

RecordTypes ==
  /\ state \in {"off", "keeping", "writing"} /\ observed \in BOOLEAN /\ late \in BOOLEAN
  /\ next \in Nat /\ lock \in Nat
  /\ entries \in Seq(EntryType) /\ runs \in Seq(RunType)
  /\ lines \in Seq([seq : Nat, entry : Nat, run : Nat, parent : Nat])

\* The run has given up its calls, and has a number.
Swapped(run) == run.stage \in {"swapped", "taken"}

\* The homes that a call of a home may still come to: the least set that has it and, with
\* a run that gave up its calls, the home of that run.
Onward(rs, S) == \A q \in DOMAIN rs : q \in S /\ Swapped(rs[q]) => rs[q].home \in S
Way(rs, b) == {x \in Int : \A S \in SUBSET Int : b \in S /\ Onward(rs, S) => x \in S}

IsHome(h) == h # IF IsRecorded THEN Loose ELSE Test

\* A run belongs to a call that began before it and is open until the run is taken.
RunsFollow ==
  \A r \in DOMAIN runs :
    /\ runs[r].slot \in DOMAIN entries /\ entries[runs[r].slot].in < r
    /\ Swapped(runs[r]) <=> runs[r].number > 0
    /\ Swapped(runs[r]) => /\ Loose <= runs[r].home /\ runs[r].home < r /\ IsHome(runs[r].home)
                           /\ IF entries[runs[r].slot].in = Test THEN runs[r].home <= 0
                              ELSE runs[r].home \in Way(runs, entries[runs[r].slot].in)
    /\ runs[r].stage # "taken" => entries[runs[r].slot].stage = "open"

\* A call is where it was made until it moves, and then has its parent.
EntriesFollow ==
  \A e \in DOMAIN entries :
    /\ entries[e].in # Test => entries[e].in \in DOMAIN runs /\ runs[entries[e].in].slot < e
    /\ Loose <= entries[e].home /\ entries[e].home <= entries[e].in /\ IsHome(entries[e].home)
    /\ entries[e].in # Test => entries[e].home \in Way(runs, entries[e].in)
    /\ entries[e].in = Test => entries[e].parent = 0 /\ ~ entries[e].missed
    /\ entries[e].in # Test /\ entries[e].parent = 0 => entries[e].home = entries[e].in
    /\ entries[e].in # Test /\ entries[e].parent # 0 =>
         /\ entries[e].parent = runs[entries[e].in].slot
         /\ entries[e].run = runs[entries[e].in].number
         /\ Swapped(runs[entries[e].in]) /\ entries[e].home < entries[e].in
    /\ entries[e].call <=> entries[e].stage \notin {"open", "gone"}
    /\ entries[e].stage = "to_test" => entries[e].home = Test

\* A run keeps the calls that have it as their home, the one that moves now included.
ListsHold ==
  /\ \A r \in DOMAIN runs :
       /\ \A i \in DOMAIN runs[r].list :
            /\ runs[r].list[i] \in DOMAIN entries /\ entries[runs[r].list[i]].in # Test
            /\ entries[runs[r].list[i]].home = r \/ (lock = r /\ i = 1)
       /\ \A i, j \in DOMAIN runs[r].list : runs[r].list[i] = runs[r].list[j] => i = j
  /\ lock # 0 => /\ lock \in DOMAIN runs /\ runs[lock].stage = "swapped"
                 /\ runs[lock].list # <<>> /\ runs[lock].home = Test
                 /\ entries[Head(runs[lock].list)].home = Test
                 /\ lock \in Way(runs, entries[Head(runs[lock].list)].in)
  /\ \A e \in DOMAIN entries :
       ~ entries[e].missed /\ entries[e].home > 0 =>
         /\ runs[entries[e].home].stage # "taken"
         /\ \E i \in DOMAIN runs[entries[e].home].list : runs[entries[e].home].list[i] = e

\* The call that moves to the test now.
IsMoving(e) == lock # 0 /\ e = Head(runs[lock].list)

\* The calls that reached the test have the numbers up to the last.
NumbersCount ==
  /\ \A e \in DOMAIN entries : /\ entries[e].seq <= next
                               /\ entries[e].home # Test => entries[e].seq = 0
                               /\ entries[e].home = Test /\ ~ IsMoving(e) => entries[e].seq # 0
  /\ \A e, f \in DOMAIN entries : entries[e].seq = entries[f].seq /\ entries[e].seq # 0 => e = f
  /\ \A n \in 1 .. next : \E e \in DOMAIN entries : entries[e].seq = n

\* A parent is never behind its calls on their way to the test, unless it was cut.
ParentsGoAhead ==
  \A r \in DOMAIN runs :
    LET s == runs[r].slot
    IN  ~ entries[s].missed =>
          /\ Swapped(runs[r]) => entries[s].home \in Way(runs, runs[r].home)
          /\ \A e \in DOMAIN entries :
               entries[e].in = r =>
                 /\ entries[e].parent # 0 =>
                      /\ entries[s].home \in Way(runs, entries[e].home)
                      /\ \A q \in DOMAIN runs : \A i, j \in DOMAIN runs[q].list :
                           runs[q].list[i] = e /\ runs[q].list[j] = s => j < i
                 /\ entries[e].seq # 0 => entries[s].seq # 0 /\ entries[s].seq < entries[e].seq

\* A record says what its call is, and a call that ended and reached the test has one.
LinesTell ==
  /\ \A i \in DOMAIN lines :
       LET x == lines[i].entry
       IN  /\ x \in DOMAIN entries /\ lines[i].seq = entries[x].seq /\ entries[x].seq # 0
           /\ entries[x].in = Test => lines[i].parent = 0
           /\ entries[x].in # Test =>
                LET s == runs[entries[x].in].slot
                IN  /\ lines[i].run = runs[entries[x].in].number
                    /\ entries[s].missed \/ lines[i].parent = entries[s].seq
  /\ \A e \in DOMAIN entries :
       /\ entries[e].home = Test /\ ~ IsMoving(e) /\ entries[e].call
          /\ entries[e].stage \notin {"called", "to_test"} => \E i \in DOMAIN lines : lines[i].entry = e
       /\ observed /\ entries[e].home \in {Test, Loose} /\ ~ IsMoving(e)
          /\ entries[e].stage = "ended" => entries[e].told = 1
       /\ entries[e].told = 1 => entries[e].home \in {Test, Loose}

\* No thread outlives its run: the calls of a run are over before it ends, and what is
\* cut takes the calls within it along.
InTheirRuns ==
  /\ \A e \in DOMAIN entries :
       /\ entries[e].in # Test /\ runs[entries[e].in].stage # "body" => entries[e].stage \in {"ended", "gone"}
       /\ entries[e].in # Test => entries[e].stage # "to_test"
       /\ entries[e].missed => /\ entries[e].home > 0 /\ runs[entries[e].in].stage # "body"
                               /\ \A r \in DOMAIN runs : \A i \in DOMAIN runs[r].list : runs[r].list[i] # e
  /\ \A r \in DOMAIN runs :
       LET s == runs[r].slot
       IN  /\ Swapped(runs[r]) /\ entries[s].in # Test => runs[r].home = entries[s].in
           /\ \A i \in DOMAIN runs[r].list : entries[runs[r].list[i]].steps <= runs[r].steps
           /\ \A e \in DOMAIN entries :
                entries[e].in = r =>
                  /\ entries[s].missed => entries[e].missed
                  /\ entries[e].parent # 0 /\ entries[e].home = entries[s].home /\ entries[e].home > 0
                     /\ ~ entries[e].missed => entries[s].steps <= entries[e].steps

\* A record is written once.
OneLineEach ==
  /\ \A i, j \in DOMAIN lines : lines[i].entry = lines[j].entry => i = j
  /\ \A i \in DOMAIN lines :
       LET x == lines[i].entry
       IN  IF entries[x].in = Test THEN entries[x].stage = "ended" ELSE ~ IsMoving(x)

RecordsInductive ==
  /\ RecordTypes /\ RunsFollow /\ EntriesFollow /\ ListsHold /\ NumbersCount /\ ParentsGoAhead
  /\ LinesTell /\ (~ late => InTheirRuns /\ OneLineEach)

-----------------------------------------------------------------------------
(***************************************************************************)
(* The way of a call to the test.                                          *)
(***************************************************************************)
LEMMA WayBegins ==
  ASSUME NEW rs, NEW b \in Int
  PROVE  b \in Way(rs, b)
  BY DEF Way

LEMMA WayGoesOn ==
  ASSUME NEW rs, NEW b, NEW x \in Way(rs, b), x \in DOMAIN rs, Swapped(rs[x]), rs[x].home \in Int
  PROVE  rs[x].home \in Way(rs, b)
  BY DEF Way, Onward

\* A home whose calls do not move is the end of the way.
LEMMA WayEnds ==
  ASSUME NEW rs, NEW b \in Int, b \in DOMAIN rs => ~ Swapped(rs[b]), NEW x \in Way(rs, b)
  PROVE  x = b
  <1>1. {b} \in SUBSET Int /\ b \in {b} /\ Onward(rs, {b})
    BY DEF Onward
  <1> QED
    BY <1>1 DEF Way

\* A way goes on from the home of its first run.
LEMMA WayFromHome ==
  ASSUME NEW rs, NEW b \in Int, b \in DOMAIN rs, Swapped(rs[b]), rs[b].home \in Int,
         \A q \in DOMAIN rs : Swapped(rs[q]) => rs[q].home \in Int,
         NEW x \in Way(rs, b), x # b
  PROVE  x \in Way(rs, rs[b].home)
  <1> DEFINE h == rs[b].home
             S == {b} \cup Way(rs, h)
  <1>1. S \in SUBSET Int
    BY DEF Way
  <1>2. Onward(rs, S)
    <2> SUFFICES ASSUME NEW q \in DOMAIN rs, q \in S, Swapped(rs[q]) PROVE rs[q].home \in S
      BY DEF Onward
    <2>1. CASE q = b
      BY <2>1, WayBegins
    <2>2. CASE q \in Way(rs, h)
      BY <2>2, WayGoesOn
    <2> QED
      BY <2>1, <2>2
  <1> HIDE DEF S
  <1>3. x \in S
    BY <1>1, <1>2 DEF Way, S
  <1> QED
    BY <1>3 DEF S

\* A way from a place of a way is a part of it.
LEMMA WayIsAWay ==
  ASSUME NEW rs, NEW b, NEW x \in Way(rs, b), NEW y \in Way(rs, x)
  PROVE  y \in Way(rs, b)
  BY DEF Way

\* Homes go down on a way.
LEMMA WayGoesDown ==
  ASSUME NEW rs, NEW b \in Int, NEW x \in Way(rs, b),
         \A q \in DOMAIN rs : Swapped(rs[q]) => q \in Int /\ rs[q].home \in Int /\ rs[q].home < q
  PROVE  x <= b
  <1> DEFINE S == {y \in Int : y <= b}
  <1>1. S \in SUBSET Int /\ b \in S /\ Onward(rs, S)
    BY DEF Onward
  <1> QED
    BY <1>1 DEF Way

\* The runs of one state go on in another.
RunsGoOn(rs, qs) ==
  \A q \in DOMAIN rs :
    /\ q \in DOMAIN qs /\ qs[q].slot = rs[q].slot
    /\ Swapped(rs[q]) => Swapped(qs[q]) /\ qs[q].home = rs[q].home /\ qs[q].number = rs[q].number

LEMMA WayGrows ==
  ASSUME NEW rs, NEW qs, RunsGoOn(rs, qs), NEW b, NEW x \in Way(rs, b)
  PROVE  x \in Way(qs, b)
  <1>1. ASSUME NEW S \in SUBSET Int, Onward(qs, S) PROVE Onward(rs, S)
    BY <1>1 DEF Onward, RunsGoOn
  <1> QED
    BY <1>1 DEF Way

-----------------------------------------------------------------------------
(***************************************************************************)
(* The calls that a cut leaves.                                            *)
(***************************************************************************)

LEMMA SmallerIsRelatedNat ==
  ASSUME NEW x \in Nat, NEW y \in Nat, y < x
  PROVE  <<y, x>> \in OpToRel(<, Nat)
  <1>1. <<y, x>> \in Nat \X Nat
    OBVIOUS
  <1>2. <<y, x>>[1] = y /\ <<y, x>>[2] = x
    OBVIOUS
  <1>3. <<y, x>>[1] < <<y, x>>[2]
    BY <1>2
  <1> QED
    BY ONLY <1>1, <1>3, Zenon DEF OpToRel

LEMMA SetsHaveALeast ==
  ASSUME NEW S \in SUBSET Nat, S # {}
  PROVE  \E x \in S : \A y \in S : x <= y
  <1>1. \A x \in S, y \in S : y < x => <<y, x>> \in OpToRel(<, Nat)
    BY SmallerIsRelatedNat
  <1>2. \E x \in S : \A y \in S : ~ (<<y, x>> \in OpToRel(<, Nat))
    BY NatLessThanWellFounded, WFMin
  <1>3. \E x \in S : \A y \in S : ~ (y < x)
    BY <1>1, <1>2, Zenon
  <1> QED
    BY <1>3

\* The elements of a sequence at increasing places, which are all of the places
\* up to n that are in the set.
PartOf(part, list, n, A) ==
  \E place \in [1 .. Len(part) -> 1 .. n] :
    /\ \A i, j \in 1 .. Len(part) : i < j => place[i] < place[j]
    /\ \A i \in 1 .. Len(part) : part[i] = list[place[i]]
    /\ {place[i] : i \in 1 .. Len(part)} = A \cap (1 .. n)

LEMMA KeptIsAPart ==
  ASSUME NEW list \in Seq(Nat), NEW k \in Nat
  PROVE  /\ Kept(list, k) \in Seq(Nat)
         /\ PartOf(Kept(list, k), list, Len(list), {i \in DOMAIN list : entries[list[i]].steps < k})
  <1> DEFINE N == Len(list)
             A == {i \in DOMAIN list : entries[list[i]].steps < k}
             F == CHOOSE f : f = [n \in 0 .. N |->
                    IF n = 0 THEN <<>>
                    ELSE IF entries[list[n]].steps < k THEN Append(f[n - 1], list[n]) ELSE f[n - 1]]
             Upto(f, m) == f = [n \in 0 .. m |->
                    IF n = 0 THEN <<>>
                    ELSE IF entries[list[n]].steps < k THEN Append(f[n - 1], list[n]) ELSE f[n - 1]]
  <1>1. N \in Nat /\ DOMAIN list = 1 .. N /\ \A i \in 1 .. N : list[i] \in Nat
    OBVIOUS
  <1>2. Kept(list, k) = F[N]
    BY Zenon DEF Kept
  <1>3. \A m \in Nat : \E f : Upto(f, m)
    <2> DEFINE Bad == {m \in Nat : ~ \E f : Upto(f, m)}
    <2> SUFFICES ASSUME Bad # {} PROVE FALSE
      OBVIOUS
    <2>1. PICK m \in Bad : \A n \in Bad : m <= n
      BY SetsHaveALeast
    <2>2. CASE m = 0
      <3> DEFINE f == [n \in 0 .. 0 |-> <<>>]
      <3>1. Upto(f, 0)
        OBVIOUS
      <3> QED
        BY <2>2, <3>1
    <2>3. CASE m # 0
      <3>0. m \in Nat /\ m - 1 \in Nat /\ ~ (m <= m - 1)
        BY <2>1, <2>3
      <3>1. m \in Nat /\ m - 1 \in Nat /\ m - 1 \notin Bad
        <4> HIDE DEF Bad
        <4> QED
          BY <2>1, <3>0
      <3>2. PICK f : Upto(f, m - 1)
        BY <3>1
      <3> DEFINE g == [n \in 0 .. m |->
                        IF n < m THEN f[n]
                        ELSE IF entries[list[m]].steps < k THEN Append(f[m - 1], list[m]) ELSE f[m - 1]]
      <3>3. \A n \in 0 .. m : n < m => g[n] = f[n] /\ n \in 0 .. m - 1
        BY <3>1
      <3>4. \A n \in 0 .. m - 1 : f[n] = IF n = 0 THEN <<>>
                    ELSE IF entries[list[n]].steps < k THEN Append(f[n - 1], list[n]) ELSE f[n - 1]
        BY <3>2
      <3>5. \A n \in 0 .. m : g[n] = IF n = 0 THEN <<>>
                    ELSE IF entries[list[n]].steps < k THEN Append(g[n - 1], list[n]) ELSE g[n - 1]
        <4> TAKE n \in 0 .. m
        <4>1. CASE n = 0
          BY <2>3, <3>1, <3>3, <3>4, <4>1
        <4>2. CASE n # 0 /\ n < m
          <5>1. n - 1 \in 0 .. m - 1 /\ n \in 0 .. m - 1 /\ n - 1 \in 0 .. m /\ n - 1 < m
            BY <3>1, <4>2
          <5>2. g[n - 1] = f[n - 1] /\ g[n] = f[n]
            BY <3>3, <4>2, <5>1
          <5> HIDE DEF g
          <5> QED
            BY <3>4, <4>2, <5>1, <5>2
        <4>3. CASE n = m
          <5>1. m - 1 \in 0 .. m /\ m - 1 < m /\ g[m - 1] = f[m - 1]
            BY <3>1, <3>3
          <5> QED
            BY <2>3, <3>1, <4>3, <5>1
        <4> QED
          BY <3>1, <4>1, <4>2, <4>3
      <3>6. g = [n \in 0 .. m |-> g[n]]
        OBVIOUS
      <3> HIDE DEF g
      <3>7. Upto(g, m)
        BY <3>5, <3>6
      <3> QED
        BY <2>1, <3>7
    <2> QED
      BY <2>1, <2>2, <2>3
  <1>4. Upto(F, N)
    <2>1. \E f : Upto(f, N)
      BY <1>1, <1>3
    <2> QED
      BY <2>1
  <1>5. \A n \in 0 .. N : F[n] = IF n = 0 THEN <<>>
          ELSE IF entries[list[n]].steps < k THEN Append(F[n - 1], list[n]) ELSE F[n - 1]
    BY <1>4
  <1> HIDE DEF F, A
  <1>6. \A n \in 0 .. N : F[n] \in Seq(Nat) /\ PartOf(F[n], list, n, A)
    <2> DEFINE Good(n) == F[n] \in Seq(Nat) /\ PartOf(F[n], list, n, A)
               Bad == {n \in 0 .. N : ~ Good(n)}
    <2> SUFFICES ASSUME Bad # {} PROVE FALSE
      OBVIOUS
    <2> HIDE DEF Good
    <2>1. PICK m \in Bad : \A n \in Bad : m <= n
      <3>1. Bad \in SUBSET Nat
        BY <1>1
      <3> HIDE DEF Bad
      <3> QED
        BY <3>1, SetsHaveALeast
    <2>2. m \in 0 .. N
      BY <2>1
    <2>5. ~ Good(m)
      BY <2>1
    <2> USE DEF Good
    <2>3. CASE m = 0
      <3>1. F[0] = <<>>
        BY <1>1, <1>5
      <3>2. PartOf(<<>>, list, 0, A)
        <4> DEFINE place == [i \in 1 .. 0 |-> 0]
        <4>1. place \in [1 .. Len(<<>>) -> 1 .. 0] /\ {place[i] : i \in 1 .. Len(<<>>)} = {} /\ 1 .. 0 = {}
          OBVIOUS
        <4> QED
          BY <4>1 DEF PartOf
      <3>3. <<>> \in Seq(Nat)
        OBVIOUS
      <3> QED
        BY <2>1, <2>3, <3>1, <3>2, <3>3
    <2>4. CASE m # 0
      <3>0. m - 1 \in 0 .. N /\ m \in 1 .. N /\ ~ (m <= m - 1)
        BY <1>1, <2>2, <2>4
      <3>1. m - 1 \in 0 .. N /\ m \in 1 .. N /\ Good(m - 1)
        <4> HIDE DEF Good
        <4> QED
          BY <2>1, <3>0
      <3> DEFINE s == F[m - 1]
      <3>2. s \in Seq(Nat) /\ Len(s) \in Nat /\ PartOf(s, list, m - 1, A)
        BY <3>1
      <3>8. F[m] = IF entries[list[m]].steps < k THEN Append(s, list[m]) ELSE s
        BY <1>5, <2>2, <2>4
      <3>9. list[m] \in Nat
        BY <1>1, <3>1
      <3> HIDE DEF s
      <3>3. PICK place \in [1 .. Len(s) -> 1 .. m - 1] :
              /\ \A i, j \in 1 .. Len(s) : i < j => place[i] < place[j]
              /\ \A i \in 1 .. Len(s) : s[i] = list[place[i]]
              /\ {place[i] : i \in 1 .. Len(s)} = A \cap (1 .. m - 1)
        BY <3>2 DEF PartOf
      <3>4. m \in A <=> entries[list[m]].steps < k
        BY <1>1, <3>1 DEF A
      <3>5. CASE m \in A
        <4>1. F[m] = Append(s, list[m])
          BY <3>8, <3>4, <3>5
        <4> DEFINE more == [i \in 1 .. Len(s) + 1 |-> IF i = Len(s) + 1 THEN m ELSE place[i]]
                   r == Append(s, list[m])
        <4>2. r \in Seq(Nat) /\ Len(r) = Len(s) + 1 /\ r[Len(s) + 1] = list[m]
              /\ \A i \in 1 .. Len(s) : r[i] = s[i]
          BY <3>9, <3>2
        <4>3. /\ more \in [1 .. Len(s) + 1 -> 1 .. m]
              /\ more[Len(s) + 1] = m /\ \A i \in 1 .. Len(s) : more[i] = place[i] /\ more[i] < m
          <5>1. m \in Nat /\ m \in 1 .. m /\ \A x \in 1 .. m - 1 : x \in 1 .. m /\ x < m
            BY <1>1, <3>1
          <5>2. \A i \in 1 .. Len(s) + 1 : i = Len(s) + 1 \/ i \in 1 .. Len(s)
            BY <3>2
          <5>3. \A i \in 1 .. Len(s) : place[i] \in 1 .. m - 1 /\ i \in 1 .. Len(s) + 1 /\ i # Len(s) + 1
            BY <3>2, <3>3
          <5>4. Len(s) + 1 \in 1 .. Len(s) + 1
            BY <3>2
          <5> QED
            BY <5>1, <5>2, <5>3, <5>4
        <4>8. \A i \in 1 .. Len(s) + 1 : i = Len(s) + 1 \/ (i \in 1 .. Len(s) /\ i # Len(s) + 1)
          BY <3>2
        <4>9. \A i, j \in 1 .. Len(s) + 1 : i < j => i \in 1 .. Len(s)
          BY <3>2
        <4>10. Len(s) + 1 \in 1 .. Len(s) + 1 /\ \A i \in 1 .. Len(s) : i \in 1 .. Len(s) + 1
          BY <3>2
        <4> HIDE DEF more, r
        <4>4. \A i, j \in 1 .. Len(s) + 1 : i < j => more[i] < more[j]
          BY <3>3, <4>3, <4>8, <4>9
        <4>5. \A i \in 1 .. Len(s) + 1 : r[i] = list[more[i]]
          BY <3>3, <4>2, <4>3, <4>8
        <4>6. {more[i] : i \in 1 .. Len(s) + 1} = A \cap (1 .. m)
          <5>1. \A i \in 1 .. Len(s) + 1 : more[i] \in A \cap (1 .. m)
            <6>1. \A i \in 1 .. Len(s) : place[i] \in A
              BY <3>3
            <6>2. \A i \in 1 .. Len(s) + 1 : more[i] \in 1 .. m
              BY <4>3
            <6> QED
              BY <3>5, <4>3, <4>8, <6>1, <6>2
          <5>2. ASSUME NEW x \in A \cap (1 .. m) PROVE \E i \in 1 .. Len(s) + 1 : more[i] = x
            <6>1. CASE x = m
              BY <4>3, <4>10, <6>1
            <6>2. CASE x # m
              <7>1. x \in A \cap (1 .. m - 1)
                BY <2>2, <3>1, <6>2
              <7>2. \E i \in 1 .. Len(s) : place[i] = x
                BY <3>3, <7>1
              <7> QED
                BY <4>3, <4>10, <7>2
            <6> QED
              BY <6>1, <6>2
          <5> QED
            BY <5>1, <5>2
        <4>7. PartOf(r, list, m, A)
          <5>1. /\ more \in [1 .. Len(r) -> 1 .. m]
                /\ \A i, j \in 1 .. Len(r) : i < j => more[i] < more[j]
                /\ \A i \in 1 .. Len(r) : r[i] = list[more[i]]
                /\ {more[i] : i \in 1 .. Len(r)} = A \cap (1 .. m)
            BY <4>2, <4>3, <4>4, <4>5, <4>6
          <5> QED
            BY <5>1, Zenon DEF PartOf
        <4> QED
          BY <2>5, <4>1, <4>2, <4>7 DEF r
      <3>6. CASE m \notin A
        <4>1. F[m] = s
          BY <3>8, <3>4, <3>6
        <4>2. A \cap (1 .. m) = A \cap (1 .. m - 1)
          BY <2>2, <3>1, <3>6
        <4>3. place \in [1 .. Len(s) -> 1 .. m]
          BY <2>2, <3>1, <3>3
        <4>4. PartOf(s, list, m, A)
          BY <3>3, <4>2, <4>3 DEF PartOf
        <4> QED
          BY <2>5, <3>2, <4>1, <4>4
      <3> QED
        BY <3>5, <3>6
    <2> QED
      BY <2>3, <2>4
  <1>7. N \in 0 .. N
    BY <1>1
  <1> QED
    BY <1>2, <1>6, <1>7 DEF A

-----------------------------------------------------------------------------
(***************************************************************************)
(* What the types say.                                                     *)
(***************************************************************************)
LineType == [seq : Nat, entry : Nat, run : Nat, parent : Nat]

LEMMA RecordFacts ==
  ASSUME RecordTypes
  PROVE  /\ DOMAIN entries = 1 .. Len(entries) /\ Len(entries) \in Nat
         /\ DOMAIN runs = 1 .. Len(runs) /\ Len(runs) \in Nat
         /\ DOMAIN lines = 1 .. Len(lines) /\ Len(lines) \in Nat
         /\ \A e \in DOMAIN entries : entries[e] \in EntryType /\ e \in Nat /\ e # 0
         /\ \A r \in DOMAIN runs : runs[r] \in RunType /\ r \in Nat /\ r # 0
         /\ \A i \in DOMAIN lines : lines[i] \in LineType
  <1>1. entries \in Seq(EntryType) /\ runs \in Seq(RunType) /\ lines \in Seq(LineType)
    BY DEF RecordTypes, LineType
  <1>2. ASSUME NEW S, NEW q \in Seq(S)
        PROVE  /\ DOMAIN q = 1 .. Len(q) /\ Len(q) \in Nat
               /\ \A i \in DOMAIN q : q[i] \in S /\ i \in Nat /\ i # 0
    OBVIOUS
  <1> QED
    BY <1>1, <1>2

LEMMA UpdatesAreTyped ==
  ASSUME NEW S, NEW q \in Seq(S), NEW s \in DOMAIN q, NEW x \in S
  PROVE  [q EXCEPT ![s] = x] \in Seq(S)
  BY ExceptSeq

\* A run that is on is not one of those that a home goes on from.
LEMMA HomesAreNumbers ==
  ASSUME RecordTypes, RunsFollow
  PROVE  \A q \in DOMAIN runs :
           Swapped(runs[q]) => q \in Int /\ runs[q].home \in Int /\ runs[q].home < q
  BY RecordFacts DEF RunsFollow, RunType

\* A call of a run that keeps its calls is at that run.
LEMMA KeptCallsAreHome ==
  ASSUME RecordTypes, RunsFollow, EntriesFollow,
         NEW e \in DOMAIN entries, entries[e].in # Test, ~ Swapped(runs[entries[e].in])
  PROVE  entries[e].home = entries[e].in /\ entries[e].parent = 0
  <1>1. entries[e].in \in Int /\ entries[e].home \in Way(runs, entries[e].in)
    BY RecordFacts DEF EntriesFollow, EntryType
  <1>2. entries[e].home = entries[e].in
    BY <1>1, WayEnds
  <1> QED
    BY <1>2, RecordFacts DEF EntriesFollow, EntryType

LEMMA HomesAreRuns ==
  ASSUME RecordTypes, EntriesFollow, NEW e \in DOMAIN entries, entries[e].home > 0
  PROVE  entries[e].home \in DOMAIN runs /\ entries[e].in \in DOMAIN runs
  <1>1. entries[e].home <= entries[e].in /\ entries[e].home \in Int /\ entries[e].in \in Nat
    BY RecordFacts DEF EntriesFollow, EntryType
  <1>2. entries[e].in \in DOMAIN runs /\ DOMAIN runs = 1 .. Len(runs) /\ Len(runs) \in Nat
    BY <1>1, RecordFacts DEF EntriesFollow, Test
  <1> QED
    BY <1>1, <1>2

\* What a step of a thread leaves alone.
SamePlaces(es, fs) ==
  /\ DOMAIN fs = DOMAIN es
  /\ \A e \in DOMAIN es :
       /\ fs[e].in = es[e].in /\ fs[e].home = es[e].home /\ fs[e].seq = es[e].seq
       /\ fs[e].parent = es[e].parent /\ fs[e].run = es[e].run
       /\ fs[e].steps = es[e].steps /\ fs[e].missed = es[e].missed

LEMMA ThreadsKeepPlaces ==
  ASSUME RecordsInductive, UNCHANGED <<state, observed, late, next, runs, lock>>,
         SamePlaces(entries, entries'), RecordTypes',
         \A r \in DOMAIN runs : runs[r].stage # "taken" => entries'[runs[r].slot].stage = "open",
         \A e \in DOMAIN entries :
           /\ entries'[e].call <=> entries'[e].stage \notin {"open", "gone"}
           /\ entries'[e].stage = "to_test" => entries[e].home = Test
  PROVE  RunsFollow' /\ EntriesFollow' /\ ListsHold' /\ NumbersCount' /\ ParentsGoAhead'
  <1>0. /\ RecordTypes /\ RunsFollow /\ EntriesFollow /\ ListsHold /\ NumbersCount /\ ParentsGoAhead
        /\ DOMAIN entries' = DOMAIN entries
    BY DEF RecordsInductive, SamePlaces
  <1>1. IsHome(0)' <=> IsHome(0)
    BY DEF IsHome, IsRecorded
  <1>2. RunsFollow'
    BY <1>0 DEF RunsFollow, SamePlaces, IsHome, IsRecorded
  <1>3. EntriesFollow'
    BY <1>0 DEF EntriesFollow, SamePlaces, IsHome, IsRecorded
  <1>4. ListsHold'
    <2>1. lock # 0 => Head(runs[lock].list) \in DOMAIN entries
      <3>1. lock # 0 => runs[lock].list \in Seq(Nat) /\ runs[lock].list # <<>>
        BY <1>0, RecordFacts DEF ListsHold, RunType
      <3>2. lock # 0 => 1 \in DOMAIN runs[lock].list /\ Head(runs[lock].list) = runs[lock].list[1]
        BY <3>1
      <3> QED
        BY <1>0, <3>2 DEF ListsHold
    <2> QED
      BY <1>0, <2>1 DEF ListsHold, SamePlaces
  <1>5. NumbersCount'
    BY <1>0 DEF NumbersCount, SamePlaces, IsMoving
  <1>6. ParentsGoAhead'
    <2>1. \A r \in DOMAIN runs : runs[r].slot \in DOMAIN entries
      BY <1>0 DEF RunsFollow
    <2> QED
      BY <1>0, <2>1 DEF ParentsGoAhead, SamePlaces
  <1> QED
    BY <1>2, <1>3, <1>4, <1>5, <1>6

-----------------------------------------------------------------------------
(***************************************************************************)
(* The record of a call.                                                   *)
(***************************************************************************)
LineOf(all, e) ==
  [seq |-> all[e].seq, entry |-> e, run |-> all[e].run,
   parent |-> IF all[e].parent = 0 THEN 0 ELSE all[all[e].parent].seq]

LEMMA EmitTells ==
  ASSUME lines \in Seq(LineType), NEW all, NEW e, LineOf(all, e) \in LineType, NEW out,
         out = Emit(all, e),
         \A i \in DOMAIN lines : lines[i].seq = all[e].seq => lines[i].entry = e
  PROVE  /\ out \in Seq(LineType)
         /\ \A i \in DOMAIN lines : i \in DOMAIN out /\ out[i] = lines[i]
         /\ \A i \in DOMAIN out : i \in DOMAIN lines \/ (i = Len(lines) + 1 /\ out[i] = LineOf(all, e))
         /\ \E i \in DOMAIN out : out[i].entry = e
  <1>1. LineOf(all, e).entry = e /\ LineOf(all, e).seq = all[e].seq
    BY DEF LineOf
  <1>2. CASE out = lines /\ \E i \in DOMAIN lines : lines[i].seq = all[e].seq
    BY <1>2
  <1>3. CASE out = Append(lines, LineOf(all, e))
    <2>1. Len(lines) + 1 \in DOMAIN out /\ out[Len(lines) + 1] = LineOf(all, e)
      BY <1>3
    <2> QED
      BY <1>1, <1>3, <2>1
  <1>4. \/ out = lines /\ \E i \in DOMAIN lines : lines[i].seq = all[e].seq
        \/ out = Append(lines, LineOf(all, e))
    BY DEF Emit, LineOf
  <1> QED
    BY <1>2, <1>3, <1>4

LEMMA LinesAreTyped ==
  ASSUME RecordTypes, RunsFollow, EntriesFollow, NEW e \in DOMAIN entries
  PROVE  /\ LineOf(entries, e) \in LineType
         /\ entries[e].parent # 0 =>
              entries[e].parent = runs[entries[e].in].slot /\ entries[e].parent \in DOMAIN entries
  <1>1. entries[e].parent # 0 =>
          entries[e].parent = runs[entries[e].in].slot /\ entries[e].parent \in DOMAIN entries
    BY DEF EntriesFollow, RunsFollow
  <1>2. entries[e] \in EntryType /\ e \in Nat
        /\ (entries[e].parent # 0 => entries[entries[e].parent].seq \in Nat)
    BY <1>1, RecordFacts DEF EntryType
  <1> QED
    BY <1>1, <1>2 DEF LineOf, LineType, EntryType

-----------------------------------------------------------------------------
(***************************************************************************)
(* The steps of a thread that ends a slot.                                 *)
(***************************************************************************)

\* A step without a record, of a call that has not ended before or after it.
LEMMA QuietThreadsKeepLines ==
  ASSUME RecordsInductive, UNCHANGED <<state, observed, late, next, runs, lines, lock>>,
         SamePlaces(entries, entries'), RecordTypes', NEW s \in DOMAIN entries,
         \A e \in DOMAIN entries : e # s => entries'[e] = entries[e],
         entries'[s].told = entries[s].told, entries[s].stage # "ended", entries'[s].stage # "ended",
         ~ entries'[s].call \/ entries'[s].stage \in {"called", "to_test"} \/ entries[s].home # Test,
         ~ late /\ entries[s].in # Test =>
           \/ entries'[s].stage = "gone"
           \/ runs[entries[s].in].stage = "body" /\ entries'[s].stage # "to_test"
  PROVE  LinesTell' /\ (~ late => InTheirRuns /\ OneLineEach)'
  <1>0. /\ RecordTypes /\ RunsFollow /\ EntriesFollow /\ LinesTell /\ DOMAIN entries' = DOMAIN entries
        /\ (~ late => InTheirRuns /\ OneLineEach)
    BY DEF RecordsInductive, SamePlaces
  <1>1. \A r \in DOMAIN runs : runs[r].slot \in DOMAIN entries
    BY <1>0 DEF RunsFollow
  <1>2. \A e \in DOMAIN entries : entries[e].in # Test => entries[e].in \in DOMAIN runs
    BY <1>0 DEF EntriesFollow
  <1>3. \A e \in DOMAIN entries : IsMoving(e)' <=> IsMoving(e)
    BY DEF IsMoving
  <1>4. LinesTell'
    <2>1. \A i \in DOMAIN lines : lines[i].entry \in DOMAIN entries
      BY <1>0 DEF LinesTell
    <2>2. ASSUME NEW e \in DOMAIN entries
          PROVE  /\ entries'[e].home = Test /\ ~ IsMoving(e) /\ entries'[e].call
                    /\ entries'[e].stage \notin {"called", "to_test"} => \E i \in DOMAIN lines : lines[i].entry = e
                 /\ observed /\ entries'[e].home \in {Test, Loose} /\ ~ IsMoving(e)
                    /\ entries'[e].stage = "ended" => entries'[e].told = 1
                 /\ entries'[e].told = 1 => entries'[e].home \in {Test, Loose}
      <3>1. CASE e = s
        BY <1>0, <3>1 DEF LinesTell, SamePlaces
      <3>2. CASE e # s
        BY <1>0, <3>2 DEF LinesTell
      <3> QED
        BY <3>1, <3>2
    <2>3. ASSUME NEW i \in DOMAIN lines
          PROVE  LET x == lines[i].entry
                 IN  /\ x \in DOMAIN entries' /\ lines[i].seq = entries'[x].seq /\ entries'[x].seq # 0
                     /\ entries'[x].in = Test => lines[i].parent = 0
                     /\ entries'[x].in # Test =>
                          LET t == runs[entries'[x].in].slot
                          IN  /\ lines[i].run = runs[entries'[x].in].number
                              /\ entries'[t].missed \/ lines[i].parent = entries'[t].seq
      BY <1>0, <1>1, <1>2, <2>1 DEF LinesTell, SamePlaces
    <2> QED
      BY <1>0, <2>2, <2>3 DEF LinesTell, IsMoving
  <1>5. ASSUME ~ late PROVE InTheirRuns'
    <2>1. \A r \in DOMAIN runs : \A i \in DOMAIN runs[r].list : runs[r].list[i] \in DOMAIN entries
      BY DEF RecordsInductive, ListsHold
    <2>2. \A e \in DOMAIN entries : entries[e].missed => entries[e].in # Test
      BY <1>0 DEF EntriesFollow
    <2> QED
      BY <1>0, <1>1, <1>2, <1>5, <2>1, <2>2 DEF InTheirRuns, SamePlaces
  <1>6. ASSUME ~ late PROVE OneLineEach'
    <2>1. \A i \in DOMAIN lines : lines[i].entry \in DOMAIN entries
      BY <1>0 DEF LinesTell
    <2> QED
      BY <1>0, <1>3, <1>6, <2>1 DEF OneLineEach, SamePlaces
  <1> QED
    BY <1>4, <1>5, <1>6

LEMMA EndSlotKeeps ==
  ASSUME RecordsInductive, NEW s \in DOMAIN entries, EndSlot(s)
  PROVE  RecordsInductive'
  <1>0. RecordTypes /\ RunsFollow /\ EntriesFollow /\ (~ late => InTheirRuns)
    BY DEF RecordsInductive
  <1>1. /\ entries[s].stage = "open" /\ UNCHANGED <<state, observed, late, next, runs, lines, lock>>
        /\ \A r \in DOMAIN runs : runs[r].slot = s => runs[r].stage = "taken"
        /\ entries' = [entries EXCEPT ![s].call = TRUE, ![s].stage = "called"]
    BY DEF EndSlot
  <1>2. RecordTypes'
    <2>0. entries[s] \in EntryType
      BY <1>0, RecordFacts
    <2>1. [entries[s] EXCEPT !.call = TRUE, !.stage = "called"] \in EntryType
      <3>1. TRUE \in BOOLEAN /\ "called" \in EntryStages
        BY DEF EntryStages
      <3>2. \A x \in EntryType, b \in BOOLEAN, g \in EntryStages : [x EXCEPT !.call = b, !.stage = g] \in EntryType
        BY DEF EntryType
      <3> QED
        BY <2>0, <3>1, <3>2
    <2>2. entries' = [entries EXCEPT ![s] = [entries[s] EXCEPT !.call = TRUE, !.stage = "called"]]
      BY <1>1
    <2>3. entries' \in Seq(EntryType)
      BY <1>0, <2>1, <2>2, UpdatesAreTyped DEF RecordTypes
    <2> QED
      BY <1>0, <1>1, <2>3 DEF RecordTypes
  <1>3. /\ SamePlaces(entries, entries') /\ \A e \in DOMAIN entries : e # s => entries'[e] = entries[e]
        /\ entries'[s].call /\ entries'[s].stage = "called" /\ entries'[s].told = entries[s].told
    BY <1>0, <1>1, RecordFacts DEF SamePlaces, EntryType
  <1>4. RunsFollow' /\ EntriesFollow' /\ ListsHold' /\ NumbersCount' /\ ParentsGoAhead'
    <2>1. \A r \in DOMAIN runs : runs[r].stage # "taken" => entries'[runs[r].slot].stage = "open"
      BY <1>0, <1>1, <1>3 DEF RunsFollow
    <2>2. \A e \in DOMAIN entries :
            /\ entries'[e].call <=> entries'[e].stage \notin {"open", "gone"}
            /\ entries'[e].stage = "to_test" => entries[e].home = Test
      BY <1>0, <1>3 DEF EntriesFollow
    <2> QED
      BY <1>1, <1>2, <1>3, <2>1, <2>2, ThreadsKeepPlaces
  <1>5. LinesTell' /\ (~ late => InTheirRuns /\ OneLineEach)'
    <2>1. ~ late /\ entries[s].in # Test => runs[entries[s].in].stage = "body"
      BY <1>0, <1>1 DEF InTheirRuns
    <2> QED
      BY <1>1, <1>2, <1>3, <2>1, QuietThreadsKeepLines
  <1> QED
    BY <1>2, <1>4, <1>5 DEF RecordsInductive

LEMMA ReadHomeKeeps ==
  ASSUME RecordsInductive, NEW s \in DOMAIN entries, ReadHome(s)
  PROVE  RecordsInductive'
  <1>0. RecordTypes /\ RunsFollow /\ EntriesFollow /\ (~ late => InTheirRuns)
    BY DEF RecordsInductive
  <1> DEFINE to == IF entries[s].home = Test THEN "to_test" ELSE "to_run"
  <1>1. /\ entries[s].stage = "called" /\ UNCHANGED <<state, observed, late, next, runs, lines, lock>>
        /\ entries' = [entries EXCEPT ![s].stage = to]
    BY DEF ReadHome
  <1>2. RecordTypes'
    <2>1. [entries[s] EXCEPT !.stage = to] \in EntryType
      BY <1>0, RecordFacts DEF EntryType, EntryStages
    <2>2. entries' = [entries EXCEPT ![s] = [entries[s] EXCEPT !.stage = to]]
      BY <1>1
    <2>3. entries' \in Seq(EntryType)
      BY <1>0, <2>1, <2>2, UpdatesAreTyped DEF RecordTypes
    <2> QED
      BY <1>0, <1>1, <2>3 DEF RecordTypes
  <1>3. /\ SamePlaces(entries, entries') /\ \A e \in DOMAIN entries : e # s => entries'[e] = entries[e]
        /\ entries'[s].call = entries[s].call /\ entries'[s].stage = to
        /\ entries'[s].told = entries[s].told
    BY <1>0, <1>1, RecordFacts DEF SamePlaces, EntryType
  <1>4. RunsFollow' /\ EntriesFollow' /\ ListsHold' /\ NumbersCount' /\ ParentsGoAhead'
    <2>1. \A r \in DOMAIN runs : runs[r].stage # "taken" => entries'[runs[r].slot].stage = "open"
      BY <1>0, <1>1, <1>3 DEF RunsFollow
    <2>2. \A e \in DOMAIN entries :
            /\ entries'[e].call <=> entries'[e].stage \notin {"open", "gone"}
            /\ entries'[e].stage = "to_test" => entries[e].home = Test
      BY <1>0, <1>1, <1>3 DEF EntriesFollow
    <2> QED
      BY <1>1, <1>2, <1>3, <2>1, <2>2, ThreadsKeepPlaces
  <1>5. LinesTell' /\ (~ late => InTheirRuns /\ OneLineEach)'
    <2>1. ASSUME ~ late, entries[s].in # Test
          PROVE  runs[entries[s].in].stage = "body" /\ entries'[s].stage # "to_test"
      <3>1. runs[entries[s].in].stage = "body"
        BY <1>0, <1>1, <2>1 DEF InTheirRuns
      <3>2. entries[s].home = entries[s].in
        BY <1>0, <2>1, <3>1, KeptCallsAreHome DEF Swapped
      <3> QED
        BY <1>3, <2>1, <3>1, <3>2
    <2>2. entries'[s].stage \in {"called", "to_test"} \/ entries[s].home # Test
      BY <1>3
    <2> QED
      BY <1>1, <1>2, <1>3, <2>1, <2>2, QuietThreadsKeepLines
  <1> QED
    BY <1>2, <1>4, <1>5 DEF RecordsInductive

LEMMA AbandonKeeps ==
  ASSUME RecordsInductive, NEW s \in DOMAIN entries, Abandon(s)
  PROVE  RecordsInductive'
  <1>0. RecordTypes /\ RunsFollow /\ EntriesFollow /\ (~ late => InTheirRuns)
    BY DEF RecordsInductive
  <1>1. /\ entries[s].stage = "open" /\ UNCHANGED <<state, observed, late, next, runs, lines, lock>>
        /\ \A r \in DOMAIN runs : runs[r].slot = s => runs[r].stage = "taken"
        /\ entries' = [entries EXCEPT ![s].stage = "gone"]
    BY DEF Abandon
  <1>2. RecordTypes'
    <2>1. [entries[s] EXCEPT !.stage = "gone"] \in EntryType
      BY <1>0, RecordFacts DEF EntryType, EntryStages
    <2>2. entries' = [entries EXCEPT ![s] = [entries[s] EXCEPT !.stage = "gone"]]
      BY <1>1
    <2>3. entries' \in Seq(EntryType)
      BY <1>0, <2>1, <2>2, UpdatesAreTyped DEF RecordTypes
    <2> QED
      BY <1>0, <1>1, <2>3 DEF RecordTypes
  <1>3. /\ SamePlaces(entries, entries') /\ \A e \in DOMAIN entries : e # s => entries'[e] = entries[e]
        /\ entries'[s].call = entries[s].call /\ entries'[s].stage = "gone"
        /\ entries'[s].told = entries[s].told
    BY <1>0, <1>1, RecordFacts DEF SamePlaces, EntryType
  <1>4. ~ entries[s].call
    BY <1>0, <1>1 DEF EntriesFollow
  <1>5. RunsFollow' /\ EntriesFollow' /\ ListsHold' /\ NumbersCount' /\ ParentsGoAhead'
    <2>1. \A r \in DOMAIN runs : runs[r].stage # "taken" => entries'[runs[r].slot].stage = "open"
      BY <1>0, <1>1, <1>3 DEF RunsFollow
    <2>2. \A e \in DOMAIN entries :
            /\ entries'[e].call <=> entries'[e].stage \notin {"open", "gone"}
            /\ entries'[e].stage = "to_test" => entries[e].home = Test
      BY <1>0, <1>1, <1>3, <1>4 DEF EntriesFollow
    <2> QED
      BY <1>1, <1>2, <1>3, <2>1, <2>2, ThreadsKeepPlaces
  <1>6. LinesTell' /\ (~ late => InTheirRuns /\ OneLineEach)'
    BY <1>1, <1>2, <1>3, <1>4, QuietThreadsKeepLines
  <1> QED
    BY <1>2, <1>5, <1>6 DEF RecordsInductive

LEMMA WriteRecordKeeps ==
  ASSUME RecordsInductive, NEW s \in DOMAIN entries, WriteRecord(s)
  PROVE  RecordsInductive'
  <1>0. /\ RecordTypes /\ RunsFollow /\ EntriesFollow /\ ListsHold /\ NumbersCount /\ LinesTell
        /\ (~ late => InTheirRuns /\ OneLineEach)
    BY DEF RecordsInductive
  <1> DEFINE writes == entries[s].stage = "to_test" /\ entries[s].seq # 0
  <1>1. /\ entries[s].stage \in {"to_test", "to_run"} /\ UNCHANGED <<state, observed, late, next, runs, lock>>
        /\ writes => lock = 0
        /\ lines' = IF writes THEN Emit(entries, s) ELSE lines
        /\ entries' = [entries EXCEPT ![s].stage = "ended",
             ![s].told = IF entries[s].home \in {Test, Loose} THEN Told(entries[s]).told ELSE @]
    BY DEF WriteRecord
  <1>2. entries[s] \in EntryType /\ entries[s].call
    BY <1>0, <1>1, RecordFacts DEF EntriesFollow
  <1>3. /\ Told(entries[s]).told \in {0, 1} /\ (observed => Told(entries[s]).told = 1)
        /\ (~ observed => Told(entries[s]).told = entries[s].told)
    BY <1>2 DEF Told, EntryType
  <1>4. /\ SamePlaces(entries, entries') /\ \A e \in DOMAIN entries : e # s => entries'[e] = entries[e]
        /\ entries'[s].call = entries[s].call /\ entries'[s].stage = "ended"
        /\ entries'[s].told = IF entries[s].home \in {Test, Loose} THEN Told(entries[s]).told ELSE entries[s].told
    BY <1>0, <1>1, RecordFacts DEF SamePlaces, EntryType
  <1>5. entries' \in Seq(EntryType)
    <2> DEFINE t == IF entries[s].home \in {Test, Loose} THEN Told(entries[s]).told ELSE entries[s].told
    <2>1. [entries[s] EXCEPT !.stage = "ended", !.told = t] \in EntryType
      BY <1>2, <1>3 DEF EntryType, EntryStages
    <2>2. entries' = [entries EXCEPT ![s] = [entries[s] EXCEPT !.stage = "ended", !.told = t]]
      BY <1>1
    <2> HIDE DEF t
    <2> QED
      BY <1>0, <2>1, <2>2, UpdatesAreTyped DEF RecordTypes
  <1>6. \A i \in DOMAIN lines : lines[i].seq = entries[s].seq => lines[i].entry = s
    BY <1>0 DEF LinesTell, NumbersCount
  <1>7. /\ lines' \in Seq(LineType)
        /\ \A i \in DOMAIN lines : i \in DOMAIN lines' /\ lines'[i] = lines[i]
        /\ \A i \in DOMAIN lines' :
             \/ i \in DOMAIN lines
             \/ writes /\ i = Len(lines) + 1 /\ lines'[i] = LineOf(entries, s)
        /\ writes => \E i \in DOMAIN lines' : lines'[i].entry = s
    <2>1. lines \in Seq(LineType)
      BY <1>0 DEF RecordTypes, LineType
    <2>2. LineOf(entries, s) \in LineType
      BY <1>0, LinesAreTyped
    <2>3. CASE writes
      <3>1. lines' = Emit(entries, s)
        BY <1>1, <2>3
      <3> HIDE DEF writes
      <3> QED
        BY <1>6, <2>1, <2>2, <2>3, <3>1, EmitTells
    <2>4. CASE ~ writes
      BY <1>1, <2>1, <2>4
    <2> QED
      BY <2>3, <2>4
  <1>8. RecordTypes'
    BY <1>0, <1>1, <1>5, <1>7 DEF RecordTypes, LineType
  <1>9. RunsFollow' /\ EntriesFollow' /\ ListsHold' /\ NumbersCount' /\ ParentsGoAhead'
    <2>1. \A r \in DOMAIN runs : runs[r].stage # "taken" => entries'[runs[r].slot].stage = "open"
      BY <1>0, <1>1, <1>4 DEF RunsFollow
    <2>2. \A e \in DOMAIN entries :
            /\ entries'[e].call <=> entries'[e].stage \notin {"open", "gone"}
            /\ entries'[e].stage = "to_test" => entries[e].home = Test
      BY <1>0, <1>2, <1>4 DEF EntriesFollow
    <2> QED
      BY <1>1, <1>4, <1>8, <2>1, <2>2, ThreadsKeepPlaces
  <1>10. \A e \in DOMAIN entries : IsMoving(e)' <=> IsMoving(e)
    BY <1>1 DEF IsMoving
  <1>11. /\ \A r \in DOMAIN runs : runs[r].slot \in DOMAIN entries
         /\ \A e \in DOMAIN entries : entries[e].in # Test => entries[e].in \in DOMAIN runs
         /\ \A i \in DOMAIN lines : lines[i].entry \in DOMAIN entries
    BY <1>0 DEF RunsFollow, EntriesFollow, LinesTell
  <1>12. writes /\ entries[s].in # Test /\ ~ late => FALSE
    BY <1>0 DEF InTheirRuns
  <1>13. LineOf(entries, s).entry = s /\ LineOf(entries, s).seq = entries[s].seq
         /\ LineOf(entries, s).run = entries[s].run
         /\ LineOf(entries, s).parent = IF entries[s].parent = 0 THEN 0 ELSE entries[entries[s].parent].seq
    BY DEF LineOf
  <1> HIDE DEF writes
  <1>14. LinesTell'
    <2>1. ASSUME NEW i \in DOMAIN lines'
          PROVE  LET x == lines'[i].entry
                 IN  /\ x \in DOMAIN entries' /\ lines'[i].seq = entries'[x].seq /\ entries'[x].seq # 0
                     /\ entries'[x].in = Test => lines'[i].parent = 0
                     /\ entries'[x].in # Test =>
                          LET t == runs[entries'[x].in].slot
                          IN  /\ lines'[i].run = runs[entries'[x].in].number
                              /\ entries'[t].missed \/ lines'[i].parent = entries'[t].seq
      <3>1. CASE i \in DOMAIN lines
        <4>1. lines'[i] = lines[i] /\ lines[i].entry \in DOMAIN entries
          BY <1>7, <1>11, <3>1
        <4> QED
          BY <1>0, <1>4, <1>11, <3>1, <4>1 DEF LinesTell, SamePlaces
      <3>2. CASE writes /\ lines'[i] = LineOf(entries, s)
        <4>1. entries[s].seq # 0 /\ entries[s].home = Test
          BY <1>0, <1>2, <3>2, RecordFacts DEF NumbersCount, EntryType, writes
        <4>2. entries[s].in = Test => entries[s].parent = 0
          BY <1>0 DEF EntriesFollow
        <4>3. entries[s].in # Test => /\ entries[s].parent # 0 /\ entries[s].parent = runs[entries[s].in].slot
                                      /\ entries[s].run = runs[entries[s].in].number
          BY <1>0, <4>1 DEF EntriesFollow
        <4> QED
          BY <1>4, <1>11, <1>13, <3>2, <4>1, <4>2, <4>3 DEF SamePlaces
      <3> QED
        BY <1>7, <3>1, <3>2
    <2>2. ASSUME NEW e \in DOMAIN entries
          PROVE  /\ entries'[e].home = Test /\ ~ IsMoving(e) /\ entries'[e].call
                    /\ entries'[e].stage \notin {"called", "to_test"} => \E i \in DOMAIN lines' : lines'[i].entry = e
                 /\ observed /\ entries'[e].home \in {Test, Loose} /\ ~ IsMoving(e)
                    /\ entries'[e].stage = "ended" => entries'[e].told = 1
                 /\ entries'[e].told = 1 => entries'[e].home \in {Test, Loose}
      <3>1. /\ entries[e].home = Test /\ ~ IsMoving(e) /\ entries[e].call
               /\ entries[e].stage \notin {"called", "to_test"} => \E i \in DOMAIN lines' : lines'[i].entry = e
        BY <1>0, <1>7 DEF LinesTell
      <3>2. CASE e # s
        <4>1. entries'[e] = entries[e]
          BY <1>4, <3>2
        <4> QED
          BY <1>0, <3>1, <4>1 DEF LinesTell
      <3>3. CASE e = s
        <4>1. entries[s].home = Test /\ ~ IsMoving(s) => entries[s].seq # 0
          BY <1>0 DEF NumbersCount
        <4>2. entries'[s].home = entries[s].home
          BY <1>4 DEF SamePlaces
        <4>3. entries[s].told = 1 => entries[s].home \in {Test, Loose}
          BY <1>0 DEF LinesTell
        <4> QED
          BY <1>1, <1>2, <1>3, <1>4, <1>7, <3>1, <3>3, <4>1, <4>2, <4>3 DEF writes
      <3> QED
        BY <3>2, <3>3
    <2>3. DOMAIN entries' = DOMAIN entries
      BY <1>4 DEF SamePlaces
    <2>4. UNCHANGED <<observed, runs, lock>>
      BY <1>1
    <2> QED
      BY <2>1, <2>2, <2>3, <2>4 DEF LinesTell, IsMoving
  <1>15. ASSUME ~ late PROVE InTheirRuns'
    <2>1. \A r \in DOMAIN runs : \A i \in DOMAIN runs[r].list : runs[r].list[i] \in DOMAIN entries
      BY <1>0 DEF ListsHold
    <2>2. \A e \in DOMAIN entries : entries[e].missed => entries[e].in # Test
      BY <1>0 DEF EntriesFollow
    <2> QED
      BY <1>0, <1>1, <1>4, <1>11, <1>15, <2>1, <2>2 DEF InTheirRuns, SamePlaces
  <1>16. ASSUME ~ late PROVE OneLineEach'
    <2>1. \A i \in DOMAIN lines : writes => lines[i].entry # s
      <3>1. writes => entries[s].in = Test /\ entries[s].stage # "ended"
        BY <1>0, <1>1, <1>12, <1>16
      <3> QED
        BY <1>0, <1>16, <3>1 DEF OneLineEach
    <2>2. ASSUME NEW i \in DOMAIN lines', NEW j \in DOMAIN lines', lines'[i].entry = lines'[j].entry
          PROVE  i = j
      <3>1. i \in DOMAIN lines /\ j \in DOMAIN lines => i = j
        BY <1>0, <1>7, <1>16, <2>2 DEF OneLineEach
      <3>2. i \in DOMAIN lines /\ j \notin DOMAIN lines => FALSE
        BY <1>7, <1>13, <2>1, <2>2
      <3>3. j \in DOMAIN lines /\ i \notin DOMAIN lines => FALSE
        BY <1>7, <1>13, <2>1, <2>2
      <3> QED
        BY <1>7, <3>1, <3>2, <3>3
    <2>3. ASSUME NEW i \in DOMAIN lines'
          PROVE  LET x == lines'[i].entry
                 IN  IF entries'[x].in = Test THEN entries'[x].stage = "ended" ELSE ~ IsMoving(x)
      <3>1. CASE i \in DOMAIN lines
        <4>1. lines'[i] = lines[i] /\ lines[i].entry \in DOMAIN entries
          BY <1>7, <1>11, <3>1
        <4> QED
          BY <1>0, <1>4, <1>16, <3>1, <4>1 DEF OneLineEach, SamePlaces
      <3>2. CASE writes /\ lines'[i] = LineOf(entries, s)
        BY <1>4, <1>12, <1>13, <1>16, <3>2 DEF SamePlaces
      <3> QED
        BY <1>7, <3>1, <3>2
    <2> QED
      BY <1>1, <2>2, <2>3 DEF OneLineEach, IsMoving
  <1> QED
    BY <1>1, <1>8, <1>9, <1>14, <1>15, <1>16 DEF RecordsInductive

-----------------------------------------------------------------------------
(***************************************************************************)
(* The steps of a run that leave its calls.                                *)
(***************************************************************************)

\* A run has begun at most: its calls, and those of all others, stay where they are.
ListsStay ==
  /\ \A q \in DOMAIN runs : /\ runs'[q].list = runs[q].list /\ runs[q].steps <= runs'[q].steps
                            /\ runs'[q].stage = "body" <=> runs[q].stage = "body"
  /\ \A q \in DOMAIN runs' \ DOMAIN runs :
       /\ runs'[q].list = <<>> /\ ~ Swapped(runs'[q])
       /\ \A e \in DOMAIN entries : entries[e].in # q

LEMMA RunStepsKeep ==
  ASSUME RecordsInductive, UNCHANGED <<state, observed, late, next, entries, lines, lock>>,
         RecordTypes', RunsFollow', RunsGoOn(runs, runs'), ListsStay,
         lock # 0 => runs'[lock].stage = "swapped",
         \A e \in DOMAIN entries :
           ~ entries[e].missed /\ entries[e].home > 0 => runs'[entries[e].home].stage # "taken",
         \A q \in DOMAIN runs' :
           Swapped(runs'[q]) =>
             /\ ~ entries[runs'[q].slot].missed => entries[runs'[q].slot].home \in Way(runs', runs'[q].home)
             /\ ~ late /\ entries[runs'[q].slot].in # Test => runs'[q].home = entries[runs'[q].slot].in
  PROVE  RecordsInductive'
  <1>0. /\ RecordTypes /\ RunsFollow /\ EntriesFollow /\ ListsHold /\ NumbersCount /\ ParentsGoAhead /\ LinesTell
        /\ (~ late => InTheirRuns /\ OneLineEach)
    BY DEF RecordsInductive
  <1>1. \A b : \A x \in Way(runs, b) : x \in Way(runs', b)
    BY WayGrows
  <1>2. \A q \in DOMAIN runs : q \in DOMAIN runs' /\ runs'[q].slot = runs[q].slot /\ runs[q].slot \in DOMAIN entries
    BY <1>0 DEF RunsGoOn, RunsFollow
  <1>3. \A q \in DOMAIN runs : Swapped(runs[q]) =>
          Swapped(runs'[q]) /\ runs'[q].home = runs[q].home /\ runs'[q].number = runs[q].number
    BY DEF RunsGoOn
  <1>4. \A e \in DOMAIN entries : entries[e].in # Test => entries[e].in \in DOMAIN runs
    BY <1>0 DEF EntriesFollow
  <1>5. lock # 0 => lock \in DOMAIN runs /\ runs'[lock].list = runs[lock].list
    BY <1>0 DEF ListsHold, ListsStay
  <1>6. \A e \in DOMAIN entries : IsMoving(e)' <=> IsMoving(e)
    BY <1>5 DEF IsMoving
  <1>7. EntriesFollow'
    BY <1>0, <1>1, <1>2, <1>3, <1>4 DEF EntriesFollow, IsHome, IsRecorded
  <1>8. ListsHold'
    <2>1. ASSUME NEW r \in DOMAIN runs'
          PROVE  /\ \A i \in DOMAIN runs'[r].list :
                      /\ runs'[r].list[i] \in DOMAIN entries /\ entries[runs'[r].list[i]].in # Test
                      /\ entries[runs'[r].list[i]].home = r \/ (lock = r /\ i = 1)
                 /\ \A i, j \in DOMAIN runs'[r].list : runs'[r].list[i] = runs'[r].list[j] => i = j
      <3>1. CASE r \in DOMAIN runs
        BY <1>0, <3>1 DEF ListsHold, ListsStay
      <3>2. CASE r \notin DOMAIN runs
        BY <3>2 DEF ListsStay
      <3> QED
        BY <3>1, <3>2
    <2>2. lock # 0 => /\ Head(runs[lock].list) \in DOMAIN entries
                      /\ lock \in Way(runs', entries[Head(runs[lock].list)].in)
      <3>1. lock # 0 => runs[lock].list \in Seq(Nat) /\ runs[lock].list # <<>>
        BY <1>0, RecordFacts DEF ListsHold, RunType
      <3>2. lock # 0 => 1 \in DOMAIN runs[lock].list /\ Head(runs[lock].list) = runs[lock].list[1]
        BY <3>1
      <3> QED
        BY <1>0, <1>1, <1>5, <3>2 DEF ListsHold
    <2>3. ASSUME NEW e \in DOMAIN entries, ~ entries[e].missed, entries[e].home > 0
          PROVE  \E i \in DOMAIN runs'[entries[e].home].list : runs'[entries[e].home].list[i] = e
      <3>1. \E i \in DOMAIN runs[entries[e].home].list : runs[entries[e].home].list[i] = e
        BY <1>0, <2>3 DEF ListsHold
      <3>2. entries[e].home \in DOMAIN runs
        BY <1>0, <2>3, HomesAreRuns
      <3> QED
        BY <3>1, <3>2 DEF ListsStay
    <2>4. lock # 0 => /\ lock \in DOMAIN runs' /\ runs'[lock].list # <<>> /\ runs'[lock].home = Test
                      /\ entries[Head(runs'[lock].list)].home = Test
                      /\ lock \in Way(runs', entries[Head(runs'[lock].list)].in)
      BY <1>0, <1>2, <1>3, <1>5, <2>2 DEF ListsHold, Swapped
    <2> QED
      BY <2>1, <2>3, <2>4 DEF ListsHold
  <1>9. NumbersCount'
    BY <1>0, <1>5 DEF NumbersCount, IsMoving
  <1>10. ParentsGoAhead'
    <2> SUFFICES ASSUME NEW r \in DOMAIN runs', ~ entries[runs'[r].slot].missed
                 PROVE  /\ Swapped(runs'[r]) => entries[runs'[r].slot].home \in Way(runs', runs'[r].home)
                        /\ \A e \in DOMAIN entries :
                             entries[e].in = r =>
                               /\ entries[e].parent # 0 =>
                                    /\ entries[runs'[r].slot].home \in Way(runs', entries[e].home)
                                    /\ \A q \in DOMAIN runs' : \A i, j \in DOMAIN runs'[q].list :
                                         runs'[q].list[i] = e /\ runs'[q].list[j] = runs'[r].slot => j < i
                               /\ entries[e].seq # 0 =>
                                    entries[runs'[r].slot].seq # 0 /\ entries[runs'[r].slot].seq < entries[e].seq
      BY DEF ParentsGoAhead
    <2>1. Swapped(runs'[r]) => entries[runs'[r].slot].home \in Way(runs', runs'[r].home)
      OBVIOUS
    <2>2. ASSUME NEW e \in DOMAIN entries, entries[e].in = r
          PROVE  /\ entries[e].parent # 0 =>
                      /\ entries[runs'[r].slot].home \in Way(runs', entries[e].home)
                      /\ \A q \in DOMAIN runs' : \A i, j \in DOMAIN runs'[q].list :
                           runs'[q].list[i] = e /\ runs'[q].list[j] = runs'[r].slot => j < i
                 /\ entries[e].seq # 0 =>
                      entries[runs'[r].slot].seq # 0 /\ entries[runs'[r].slot].seq < entries[e].seq
      <3>1. r \in DOMAIN runs /\ runs'[r].slot = runs[r].slot
        BY <1>2, <2>2 DEF ListsStay
      <3>2. /\ entries[e].parent # 0 =>
                 /\ entries[runs[r].slot].home \in Way(runs, entries[e].home)
                 /\ \A q \in DOMAIN runs : \A i, j \in DOMAIN runs[q].list :
                      runs[q].list[i] = e /\ runs[q].list[j] = runs[r].slot => j < i
            /\ entries[e].seq # 0 =>
                 entries[runs[r].slot].seq # 0 /\ entries[runs[r].slot].seq < entries[e].seq
        BY <1>0, <2>2, <3>1 DEF ParentsGoAhead
      <3>3. ASSUME NEW q \in DOMAIN runs', entries[e].parent # 0
            PROVE  \A i, j \in DOMAIN runs'[q].list :
                     runs'[q].list[i] = e /\ runs'[q].list[j] = runs[r].slot => j < i
        BY <3>2, <3>3 DEF ListsStay
      <3> QED
        BY <1>1, <3>1, <3>2, <3>3
    <2> QED
      BY <2>1, <2>2
  <1>11. LinesTell'
    <2>1. \A e \in DOMAIN entries : entries[e].seq # 0 => entries[e].home = Test
      BY <1>0 DEF NumbersCount
    <2>2. \A e \in DOMAIN entries : entries[e].seq # 0 /\ entries[e].in # Test => Swapped(runs[entries[e].in])
      BY <1>0, <2>1, KeptCallsAreHome
    <2>3. \A i \in DOMAIN lines : lines[i].entry \in DOMAIN entries /\ entries[lines[i].entry].seq # 0
      BY <1>0 DEF LinesTell
    <2>4. \A i \in DOMAIN lines : entries[lines[i].entry].in # Test =>
            /\ runs'[entries[lines[i].entry].in].number = runs[entries[lines[i].entry].in].number
            /\ runs'[entries[lines[i].entry].in].slot = runs[entries[lines[i].entry].in].slot
      BY <1>2, <1>3, <1>4, <2>2, <2>3
    <2> QED
      BY <1>0, <1>5, <2>4 DEF LinesTell, IsMoving
  <1>12. ASSUME ~ late PROVE InTheirRuns' /\ OneLineEach'
    <2>1. OneLineEach'
      BY <1>0, <1>5, <1>12 DEF OneLineEach, IsMoving
    <2>2. ASSUME NEW e \in DOMAIN entries
          PROVE  /\ entries[e].in # Test /\ runs'[entries[e].in].stage # "body" => entries[e].stage \in {"ended", "gone"}
                 /\ entries[e].in # Test => entries[e].stage # "to_test"
                 /\ entries[e].missed =>
                      /\ entries[e].home > 0 /\ runs'[entries[e].in].stage # "body"
                      /\ \A r \in DOMAIN runs' : \A i \in DOMAIN runs'[r].list : runs'[r].list[i] # e
      <3>1. entries[e].missed => entries[e].in # Test
        BY <1>0 DEF EntriesFollow
      <3> QED
        BY <1>0, <1>4, <1>12, <3>1 DEF InTheirRuns, ListsStay
    <2>3. ASSUME NEW r \in DOMAIN runs'
          PROVE  /\ Swapped(runs'[r]) /\ entries[runs'[r].slot].in # Test => runs'[r].home = entries[runs'[r].slot].in
                 /\ \A i \in DOMAIN runs'[r].list : entries[runs'[r].list[i]].steps <= runs'[r].steps
                 /\ \A e \in DOMAIN entries :
                      entries[e].in = r =>
                        /\ entries[runs'[r].slot].missed => entries[e].missed
                        /\ entries[e].parent # 0 /\ entries[e].home = entries[runs'[r].slot].home /\ entries[e].home > 0
                           /\ ~ entries[e].missed => entries[runs'[r].slot].steps <= entries[e].steps
      <3>1. Swapped(runs'[r]) /\ entries[runs'[r].slot].in # Test => runs'[r].home = entries[runs'[r].slot].in
        BY <1>12
      <3>2. CASE r \in DOMAIN runs
        <4>1. \A i \in DOMAIN runs'[r].list : entries[runs'[r].list[i]].steps <= runs'[r].steps
          <5>1. ASSUME NEW i \in DOMAIN runs[r].list
                PROVE  entries[runs[r].list[i]].steps <= runs'[r].steps
            <6>1. entries[runs[r].list[i]].steps <= runs[r].steps /\ runs[r].list[i] \in DOMAIN entries
              BY <1>0, <1>12, <3>2 DEF InTheirRuns, ListsHold
            <6>2. entries[runs[r].list[i]].steps \in Nat /\ runs[r].steps \in Nat
              BY <1>0, <3>2, <6>1, RecordFacts DEF EntryType, RunType
            <6>3. runs'[r].steps \in Nat
              <7>1. RecordTypes' /\ r \in DOMAIN runs'
                OBVIOUS
              <7>2. runs' \in Seq(RunType)
                BY <7>1 DEF RecordTypes
              <7>3. runs'[r] \in RunType
                BY <7>1, <7>2, ElementOfSeq, LenProperties
              <7> QED
                BY <7>3 DEF RunType
            <6> QED
              BY <3>2, <6>1, <6>2, <6>3 DEF ListsStay
          <5> QED
            BY <3>2, <5>1 DEF ListsStay
        <4>2. runs'[r].slot = runs[r].slot
          BY <1>2, <3>2
        <4> QED
          BY <1>0, <1>12, <3>1, <3>2, <4>1, <4>2 DEF InTheirRuns
      <3>3. CASE r \notin DOMAIN runs
        BY <3>1, <3>3 DEF ListsStay
      <3> QED
        BY <3>2, <3>3
    <2>4. InTheirRuns'
      BY <2>2, <2>3 DEF InTheirRuns
    <2> QED
      BY <2>1, <2>4
  <1>13. late' = late
    OBVIOUS
  <1> QED
    BY <1>7, <1>8, <1>9, <1>10, <1>11, <1>12, <1>13 DEF RecordsInductive

LEMMA WalkKeeps ==
  ASSUME RecordsInductive, NEW r \in DOMAIN runs, Walk(r)
  PROVE  RecordsInductive'
  <1>0. RecordTypes /\ RunsFollow /\ EntriesFollow /\ ListsHold /\ ParentsGoAhead /\ (~ late => InTheirRuns)
    BY DEF RecordsInductive
  <1> DEFINE x == [runs[r] EXCEPT !.steps = 1]
  <1>1. /\ UNCHANGED <<state, observed, late, next, entries, lines, lock>>
        /\ runs[r].steps = 0 /\ runs' = [runs EXCEPT ![r] = x]
    BY DEF Walk
  <1>2. /\ x \in RunType /\ x.steps = 1 /\ x.slot = runs[r].slot /\ x.list = runs[r].list
        /\ x.stage = runs[r].stage /\ x.number = runs[r].number /\ x.home = runs[r].home
    BY <1>0, RecordFacts DEF RunType
  <1> HIDE DEF x
  <1>3. RecordTypes'
    BY <1>0, <1>1, <1>2, UpdatesAreTyped DEF RecordTypes
  <1>4. /\ DOMAIN runs' = DOMAIN runs
        /\ \A q \in DOMAIN runs :
             /\ runs'[q].slot = runs[q].slot /\ runs'[q].list = runs[q].list
             /\ runs'[q].stage = runs[q].stage /\ runs'[q].number = runs[q].number
             /\ runs'[q].home = runs[q].home /\ runs[q].steps <= runs'[q].steps
    <2>1. \A q \in DOMAIN runs : runs[q].steps <= runs[q].steps
      BY <1>0, RecordFacts DEF RunType
    <2> QED
      BY <1>1, <1>2, <2>1
  <1>5. RunsGoOn(runs, runs') /\ ListsStay
    BY <1>4 DEF RunsGoOn, ListsStay, Swapped
  <1>6. \A b : \A y \in Way(runs, b) : y \in Way(runs', b)
    BY <1>5, WayGrows
  <1>7. UNCHANGED <<state, entries>>
    BY <1>1
  <1>8. RunsFollow'
    BY <1>0, <1>4, <1>6, <1>7 DEF RunsFollow, Swapped, IsHome, IsRecorded
  <1>9. \A q \in DOMAIN runs' :
          Swapped(runs'[q]) =>
            /\ ~ entries[runs'[q].slot].missed => entries[runs'[q].slot].home \in Way(runs', runs'[q].home)
            /\ ~ late /\ entries[runs'[q].slot].in # Test => runs'[q].home = entries[runs'[q].slot].in
    BY <1>0, <1>4, <1>6 DEF ParentsGoAhead, InTheirRuns, Swapped
  <1>10. /\ lock # 0 => runs'[lock].stage = "swapped"
         /\ \A e \in DOMAIN entries :
              ~ entries[e].missed /\ entries[e].home > 0 => runs'[entries[e].home].stage # "taken"
    BY <1>0, <1>4, HomesAreRuns DEF ListsHold
  <1> QED
    BY <1>1, <1>3, <1>5, <1>8, <1>9, <1>10, RunStepsKeep

LEMMA TakenKeeps ==
  ASSUME RecordsInductive, NEW r \in DOMAIN runs, Taken(r)
  PROVE  RecordsInductive'
  <1>0. RecordTypes /\ RunsFollow /\ EntriesFollow /\ ListsHold /\ ParentsGoAhead /\ (~ late => InTheirRuns)
    BY DEF RecordsInductive
  <1> DEFINE x == [runs[r] EXCEPT !.stage = "taken"]
  <1>1. /\ UNCHANGED <<state, observed, late, next, entries, lines, lock>>
        /\ runs[r].stage = "swapped" /\ runs[r].list = <<>> /\ lock # r /\ runs' = [runs EXCEPT ![r] = x]
    BY DEF Taken
  <1>2. /\ x \in RunType /\ x.steps = runs[r].steps /\ x.slot = runs[r].slot /\ x.list = runs[r].list
        /\ x.stage = "taken" /\ x.number = runs[r].number /\ x.home = runs[r].home
    BY <1>0, RecordFacts DEF RunType
  <1> HIDE DEF x
  <1>3. RecordTypes'
    BY <1>0, <1>1, <1>2, UpdatesAreTyped DEF RecordTypes
  <1>4. /\ DOMAIN runs' = DOMAIN runs /\ \A q \in DOMAIN runs : q # r => runs'[q] = runs[q]
        /\ \A q \in DOMAIN runs :
             /\ runs'[q].slot = runs[q].slot /\ runs'[q].list = runs[q].list
             /\ Swapped(runs'[q]) <=> Swapped(runs[q])
             /\ runs'[q].stage = "body" <=> runs[q].stage = "body"
             /\ runs'[q].number = runs[q].number /\ runs'[q].home = runs[q].home
             /\ runs[q].steps <= runs'[q].steps
             /\ runs'[q].stage # "taken" => runs[q].stage # "taken"
    <2>1. \A q \in DOMAIN runs : runs[q].steps <= runs[q].steps
      BY <1>0, RecordFacts DEF RunType
    <2> QED
      BY <1>1, <1>2, <2>1 DEF Swapped
  <1>5. RunsGoOn(runs, runs') /\ ListsStay
    BY <1>4 DEF RunsGoOn, ListsStay
  <1>6. \A b : \A y \in Way(runs, b) : y \in Way(runs', b)
    BY <1>5, WayGrows
  <1>7. UNCHANGED <<state, entries>>
    BY <1>1
  <1>8. RunsFollow'
    BY <1>0, <1>4, <1>6, <1>7 DEF RunsFollow, IsHome, IsRecorded
  <1>9. \A q \in DOMAIN runs' :
          Swapped(runs'[q]) =>
            /\ ~ entries[runs'[q].slot].missed => entries[runs'[q].slot].home \in Way(runs', runs'[q].home)
            /\ ~ late /\ entries[runs'[q].slot].in # Test => runs'[q].home = entries[runs'[q].slot].in
    BY <1>0, <1>4, <1>6 DEF ParentsGoAhead, InTheirRuns
  <1>10. lock # 0 => runs'[lock].stage = "swapped"
    BY <1>0, <1>1, <1>4 DEF ListsHold
  <1>11. \A e \in DOMAIN entries :
              ~ entries[e].missed /\ entries[e].home > 0 => runs'[entries[e].home].stage # "taken"
    <2> SUFFICES ASSUME NEW e \in DOMAIN entries, ~ entries[e].missed, entries[e].home > 0
                 PROVE  runs'[entries[e].home].stage # "taken"
      OBVIOUS
    <2>1. entries[e].home \in DOMAIN runs /\ runs[entries[e].home].stage # "taken"
      BY <1>0, HomesAreRuns DEF ListsHold
    <2>2. \E i \in DOMAIN runs[entries[e].home].list : runs[entries[e].home].list[i] = e
      BY <1>0 DEF ListsHold
    <2>3. entries[e].home # r
      BY <1>1, <2>2
    <2> QED
      BY <1>4, <2>1, <2>3
  <1> QED
    BY <1>1, <1>3, <1>5, <1>8, <1>9, <1>10, <1>11, RunStepsKeep

LEMMA StartRunKeeps ==
  ASSUME RecordsInductive, NEW s \in DOMAIN entries, StartRun(s)
  PROVE  RecordsInductive'
  <1>0. RecordTypes /\ RunsFollow /\ EntriesFollow /\ ListsHold /\ ParentsGoAhead /\ (~ late => InTheirRuns)
    BY DEF RecordsInductive
  <1> DEFINE x == [slot |-> s, list |-> <<>>, steps |-> 0, stage |-> "body", number |-> 0, home |-> Test]
             N == Len(runs) + 1
  <1>1. /\ UNCHANGED <<state, observed, late, next, entries, lines, lock>>
        /\ entries[s].stage = "open" /\ runs' = Append(runs, x)
    BY DEF StartRun
  <1>2. /\ x \in RunType /\ x.steps = 0 /\ x.slot = s /\ x.list = <<>> /\ x.stage = "body" /\ x.number = 0
        /\ ~ Swapped(x)
    <2>1. <<>> \in Seq(Nat) /\ s \in Nat
      BY <1>0, RecordFacts
    <2> QED
      BY <2>1 DEF RunType, Swapped, Test
  <1> HIDE DEF x
  <1>3. /\ runs' \in Seq(RunType) /\ DOMAIN runs' = DOMAIN runs \cup {N} /\ N \notin DOMAIN runs
        /\ runs'[N] = x /\ \A q \in DOMAIN runs : runs'[q] = runs[q]
    <2>1. runs \in Seq(RunType)
      BY <1>0 DEF RecordTypes
    <2>2. /\ runs' \in Seq(RunType) /\ Len(runs') = Len(runs) + 1 /\ runs'[Len(runs) + 1] = x
          /\ \A q \in 1 .. Len(runs) : runs'[q] = runs[q]
      BY <1>1, <1>2, <2>1, AppendProperties
    <2>3. DOMAIN runs' = 1 .. Len(runs') /\ DOMAIN runs = 1 .. Len(runs) /\ Len(runs) \in Nat
      BY <2>1, <2>2, LenProperties
    <2> QED
      BY <2>2, <2>3
  <1>4. RecordTypes'
    BY <1>0, <1>1, <1>3 DEF RecordTypes
  <1>5. \A e \in DOMAIN entries : entries[e].in # N /\ entries[e].in < N
    <2>1. \A e \in DOMAIN entries : entries[e].in = 0 \/ entries[e].in \in 1 .. Len(runs)
      BY <1>0, RecordFacts DEF EntriesFollow, Test
    <2> QED
      BY <1>0, <2>1, RecordFacts
  <1>6. RunsGoOn(runs, runs')
    BY <1>3 DEF RunsGoOn
  <1>7. ListsStay
    <2>1. \A q \in DOMAIN runs : runs[q].steps <= runs[q].steps
      BY <1>0, RecordFacts DEF RunType
    <2>2. DOMAIN runs' \ DOMAIN runs = {N}
      BY <1>3
    <2> HIDE DEF N
    <2> QED
      BY <1>2, <1>3, <1>5, <2>1, <2>2 DEF ListsStay
  <1>8. \A b : \A y \in Way(runs, b) : y \in Way(runs', b)
    BY <1>6, WayGrows
  <1>9. UNCHANGED <<state, entries>>
    BY <1>1
  <1> HIDE DEF N
  <1>10. RunsFollow'
    <2>1. ASSUME NEW r \in DOMAIN runs
          PROVE  /\ runs'[r].slot \in DOMAIN entries /\ entries[runs'[r].slot].in < r
                 /\ Swapped(runs'[r]) <=> runs'[r].number > 0
                 /\ Swapped(runs'[r]) => /\ Loose <= runs'[r].home /\ runs'[r].home < r /\ IsHome(runs'[r].home)
                                         /\ IF entries[runs'[r].slot].in = Test THEN runs'[r].home <= 0
                                            ELSE runs'[r].home \in Way(runs', entries[runs'[r].slot].in)
                 /\ runs'[r].stage # "taken" => entries[runs'[r].slot].stage = "open"
      BY <1>0, <1>3, <1>8 DEF RunsFollow
    <2>2. /\ runs'[N].slot = s /\ entries[s].in < N /\ ~ Swapped(runs'[N]) /\ ~ (runs'[N].number > 0)
      BY <1>2, <1>3, <1>5
    <2> QED
      BY <1>1, <1>3, <1>9, <2>1, <2>2 DEF RunsFollow, IsHome, IsRecorded
  <1>11. \A q \in DOMAIN runs' :
          Swapped(runs'[q]) =>
            /\ ~ entries[runs'[q].slot].missed => entries[runs'[q].slot].home \in Way(runs', runs'[q].home)
            /\ ~ late /\ entries[runs'[q].slot].in # Test => runs'[q].home = entries[runs'[q].slot].in
    BY <1>0, <1>2, <1>3, <1>8 DEF ParentsGoAhead, InTheirRuns
  <1>12. /\ lock # 0 => runs'[lock].stage = "swapped"
         /\ \A e \in DOMAIN entries :
              ~ entries[e].missed /\ entries[e].home > 0 => runs'[entries[e].home].stage # "taken"
    BY <1>0, <1>3, HomesAreRuns DEF ListsHold
  <1> QED
    BY <1>1, <1>4, <1>6, <1>7, <1>10, <1>11, <1>12, RunStepsKeep

LEMMA SwapKeeps ==
  ASSUME RecordsInductive, NEW r \in DOMAIN runs, Swap(r)
  PROVE  RecordsInductive'
  <1>0. RecordTypes /\ RunsFollow /\ EntriesFollow /\ ListsHold /\ ParentsGoAhead /\ (~ late => InTheirRuns)
    BY DEF RecordsInductive
  <1> DEFINE x == [runs[r] EXCEPT !.stage = "emptied"]
  <1>1. /\ UNCHANGED <<state, observed, late, next, entries, lines, lock>>
        /\ runs[r].stage = "ended" /\ runs' = [runs EXCEPT ![r] = x]
    BY DEF Swap
  <1>2. /\ x \in RunType /\ x.steps = runs[r].steps /\ x.slot = runs[r].slot /\ x.list = runs[r].list
        /\ x.stage = "emptied" /\ x.number = runs[r].number /\ x.home = runs[r].home
    BY <1>0, RecordFacts DEF RunType
  <1> HIDE DEF x
  <1>3. RecordTypes'
    BY <1>0, <1>1, <1>2, UpdatesAreTyped DEF RecordTypes
  <1>4. /\ DOMAIN runs' = DOMAIN runs /\ \A q \in DOMAIN runs : q # r => runs'[q] = runs[q]
        /\ \A q \in DOMAIN runs :
             /\ runs'[q].slot = runs[q].slot /\ runs'[q].list = runs[q].list
             /\ Swapped(runs'[q]) <=> Swapped(runs[q])
             /\ runs'[q].stage = "body" <=> runs[q].stage = "body"
             /\ runs'[q].stage = "taken" <=> runs[q].stage = "taken"
             /\ runs'[q].number = runs[q].number /\ runs'[q].home = runs[q].home
             /\ runs[q].steps <= runs'[q].steps
    <2>1. \A q \in DOMAIN runs : runs[q].steps <= runs[q].steps
      BY <1>0, RecordFacts DEF RunType
    <2> QED
      BY <1>1, <1>2, <2>1 DEF Swapped
  <1>5. RunsGoOn(runs, runs') /\ ListsStay
    BY <1>4 DEF RunsGoOn, ListsStay
  <1>6. \A b : \A y \in Way(runs, b) : y \in Way(runs', b)
    BY <1>5, WayGrows
  <1>7. UNCHANGED <<state, entries>>
    BY <1>1
  <1>8. RunsFollow'
    BY <1>0, <1>4, <1>6, <1>7 DEF RunsFollow, IsHome, IsRecorded
  <1>9. \A q \in DOMAIN runs' :
          Swapped(runs'[q]) =>
            /\ ~ entries[runs'[q].slot].missed => entries[runs'[q].slot].home \in Way(runs', runs'[q].home)
            /\ ~ late /\ entries[runs'[q].slot].in # Test => runs'[q].home = entries[runs'[q].slot].in
    BY <1>0, <1>4, <1>6 DEF ParentsGoAhead, InTheirRuns
  <1>10. lock # 0 => runs'[lock].stage = "swapped"
    BY <1>0, <1>1, <1>4 DEF ListsHold
  <1>11. \A e \in DOMAIN entries :
              ~ entries[e].missed /\ entries[e].home > 0 => runs'[entries[e].home].stage # "taken"
    BY <1>0, <1>4, HomesAreRuns DEF ListsHold
  <1> QED
    BY <1>1, <1>3, <1>5, <1>8, <1>9, <1>10, <1>11, RunStepsKeep

LEMMA FindHomeKeeps ==
  ASSUME RecordsInductive, NEW r \in DOMAIN runs, FindHome(r)
  PROVE  RecordsInductive'
  <1>0. RecordTypes /\ RunsFollow /\ EntriesFollow /\ ListsHold /\ ParentsGoAhead /\ (~ late => InTheirRuns)
    BY DEF RecordsInductive
  <1> DEFINE Q == {q \in DOMAIN runs : runs[q].slot = runs[r].slot /\ runs[q].number > 0}
             x == [runs[r] EXCEPT !.stage = "swapped", !.home = entries[runs[r].slot].home,
                                  !.number = 1 + Cardinality(Q)]
             s == runs[r].slot
  <1>1. /\ UNCHANGED <<state, observed, late, next, entries, lines, lock>>
        /\ runs[r].stage = "emptied" /\ runs' = [runs EXCEPT ![r] = x]
    BY DEF FindHome
  <1>2. Cardinality(Q) \in Nat
    <2>1. IsFiniteSet(DOMAIN runs)
      BY <1>0, RecordFacts, FS_Interval
    <2>2. IsFiniteSet(Q)
      BY <2>1, FS_Subset
    <2> QED
      BY <2>2, FS_CardinalityType
  <1>3. s \in DOMAIN entries /\ entries[s] \in EntryType /\ runs[r] \in RunType /\ entries[s].in < r
    BY <1>0, RecordFacts DEF RunsFollow
  <1> HIDE DEF Q
  <1>4. /\ x \in RunType /\ x.steps = runs[r].steps /\ x.slot = s /\ x.list = runs[r].list
        /\ x.stage = "swapped" /\ x.number > 0 /\ x.home = entries[s].home
    <2> DEFINE n == 1 + Cardinality(Q)
    <2>1. n \in Nat /\ n > 0
      BY <1>2
    <2> HIDE DEF n
    <2>2. [runs[r] EXCEPT !.stage = "swapped", !.home = entries[s].home, !.number = n] \in RunType
      BY <1>3, <2>1 DEF RunType, EntryType
    <2>3. x = [runs[r] EXCEPT !.stage = "swapped", !.home = entries[s].home, !.number = n]
      BY DEF n
    <2> HIDE DEF x
    <2> QED
      BY <1>3, <2>1, <2>2, <2>3 DEF RunType
  <1> HIDE DEF x
  <1>5. RecordTypes'
    BY <1>0, <1>1, <1>4, UpdatesAreTyped DEF RecordTypes
  <1>6. /\ DOMAIN runs' = DOMAIN runs /\ runs'[r] = x /\ \A q \in DOMAIN runs : q # r => runs'[q] = runs[q]
        /\ \A q \in DOMAIN runs : runs'[q].slot = runs[q].slot /\ runs'[q].list = runs[q].list
    BY <1>1, <1>4
  <1>7. RunsGoOn(runs, runs')
    BY <1>1, <1>6 DEF RunsGoOn, Swapped
  <1>8. ListsStay
    <2>1. \A q \in DOMAIN runs : runs[q].steps <= runs[q].steps
      BY <1>0, RecordFacts DEF RunType
    <2> QED
      BY <1>1, <1>4, <1>6, <2>1 DEF ListsStay
  <1>9. \A b : \A y \in Way(runs, b) : y \in Way(runs', b)
    BY <1>7, WayGrows
  <1>10. UNCHANGED <<state, entries>>
    BY <1>1
  <1>11. RunsFollow'
    <2>1. /\ Loose <= x.home /\ x.home < r /\ IsHome(x.home)
          /\ IF entries[s].in = Test THEN x.home <= 0 ELSE x.home \in Way(runs', entries[s].in)
      <3>1. /\ Loose <= entries[s].home /\ entries[s].home <= entries[s].in /\ IsHome(entries[s].home)
            /\ entries[s].in # Test => entries[s].home \in Way(runs, entries[s].in)
        BY <1>0, <1>3 DEF EntriesFollow
      <3>2. r \in Nat
        BY <1>0, RecordFacts
      <3> QED
        BY <1>3, <1>4, <1>9, <3>1, <3>2 DEF EntryType, Test, Loose
    <2>2. Swapped(x) /\ entries[s].stage = "open"
      BY <1>0, <1>1, <1>4 DEF Swapped, RunsFollow
    <2>3. ASSUME NEW q \in DOMAIN runs, q # r
          PROVE  /\ runs'[q].slot \in DOMAIN entries /\ entries[runs'[q].slot].in < q
                 /\ Swapped(runs'[q]) <=> runs'[q].number > 0
                 /\ Swapped(runs'[q]) => /\ Loose <= runs'[q].home /\ runs'[q].home < q /\ IsHome(runs'[q].home)
                                         /\ IF entries[runs'[q].slot].in = Test THEN runs'[q].home <= 0
                                            ELSE runs'[q].home \in Way(runs', entries[runs'[q].slot].in)
                 /\ runs'[q].stage # "taken" => entries[runs'[q].slot].stage = "open"
      BY <1>0, <1>6, <1>9, <2>3 DEF RunsFollow
    <2> QED
      BY <1>3, <1>4, <1>6, <1>10, <2>1, <2>2, <2>3 DEF RunsFollow, IsHome, IsRecorded
  <1>12. \A q \in DOMAIN runs' :
          Swapped(runs'[q]) =>
            /\ ~ entries[runs'[q].slot].missed => entries[runs'[q].slot].home \in Way(runs', runs'[q].home)
            /\ ~ late /\ entries[runs'[q].slot].in # Test => runs'[q].home = entries[runs'[q].slot].in
    <2>1. entries[s].home \in Way(runs', entries[s].home)
      BY <1>3, WayBegins DEF EntryType
    <2>2. ASSUME ~ late, entries[s].in # Test PROVE entries[s].home = entries[s].in
      <3>1. entries[s].stage = "open"
        BY <1>0, <1>1 DEF RunsFollow
      <3>2. runs[entries[s].in].stage = "body"
        BY <1>0, <1>3, <2>2, <3>1 DEF InTheirRuns
      <3> QED
        BY <1>0, <1>3, <2>2, <3>2, KeptCallsAreHome DEF Swapped
    <2> QED
      BY <1>0, <1>4, <1>6, <1>9, <2>1, <2>2 DEF ParentsGoAhead, InTheirRuns
  <1>13. /\ lock # 0 => runs'[lock].stage = "swapped"
         /\ \A e \in DOMAIN entries :
              ~ entries[e].missed /\ entries[e].home > 0 => runs'[entries[e].home].stage # "taken"
    BY <1>0, <1>4, <1>6, HomesAreRuns DEF ListsHold
  <1> QED
    BY <1>1, <1>5, <1>7, <1>8, <1>11, <1>12, <1>13, RunStepsKeep

-----------------------------------------------------------------------------
(***************************************************************************)
(* A new call.                                                             *)
(***************************************************************************)
LEMMA NewCallsAreLast ==
  ASSUME RecordTypes, NEW x \in EntryType, entries' = Append(entries, x)
  PROVE  /\ entries' \in Seq(EntryType) /\ Len(entries') = Len(entries) + 1
         /\ DOMAIN entries' = DOMAIN entries \cup {Len(entries) + 1}
         /\ Len(entries) + 1 \notin DOMAIN entries /\ entries'[Len(entries) + 1] = x
         /\ \A e \in DOMAIN entries : entries'[e] = entries[e] /\ e < Len(entries) + 1
  <1>1. entries \in Seq(EntryType)
    BY DEF RecordTypes
  <1>2. /\ entries' \in Seq(EntryType) /\ Len(entries') = Len(entries) + 1 /\ entries'[Len(entries) + 1] = x
        /\ \A q \in 1 .. Len(entries) : entries'[q] = entries[q]
    BY <1>1, AppendProperties
  <1>3. DOMAIN entries' = 1 .. Len(entries') /\ DOMAIN entries = 1 .. Len(entries) /\ Len(entries) \in Nat
    BY <1>1, <1>2, LenProperties
  <1> QED
    BY <1>2, <1>3

LEMMA AddToTestKeeps ==
  ASSUME RecordsInductive, NEW ended \in BOOLEAN, Add(Test, ended)
  PROVE  RecordsInductive'
  <1>0. /\ RecordTypes /\ RunsFollow /\ EntriesFollow /\ ListsHold /\ NumbersCount /\ ParentsGoAhead /\ LinesTell
        /\ (~ late => InTheirRuns /\ OneLineEach)
    BY DEF RecordsInductive
  <1> DEFINE N == Len(entries) + 1
             x == NewEntry(Test, ended)
             writes == ended /\ IsRecorded
  <1>1. /\ UNCHANGED <<state, observed, late, runs, lock>> /\ lock = 0
        /\ entries' = Append(entries, x)
        /\ next' = next + (IF IsRecorded THEN 1 ELSE 0)
        /\ lines' = IF writes THEN Emit(entries', Len(entries')) ELSE lines
    BY DEF Add
  <1>2. UNCHANGED <<state, observed, late, runs, lock>>
    BY <1>1
  <1>3. /\ x.call = ended /\ x.parent = 0 /\ x.run = 0 /\ x.in = Test /\ ~ x.missed
        /\ x.seq = (IF IsRecorded THEN next + 1 ELSE 0) /\ x.home = (IF IsRecorded THEN Test ELSE Loose)
        /\ x.told = (IF observed /\ ended THEN 1 ELSE 0) /\ x.stage = (IF ended THEN "ended" ELSE "open")
        /\ x \in EntryType
    <2>1. next \in Nat /\ observed \in BOOLEAN /\ next + 1 \in Nat
      BY <1>0 DEF RecordTypes
    <2>2. /\ x.call = ended /\ x.parent = 0 /\ x.run = 0 /\ x.in = Test /\ ~ x.missed /\ x.steps = 0
          /\ x.seq = (IF IsRecorded THEN next + 1 ELSE 0) /\ x.home = (IF IsRecorded THEN Test ELSE Loose)
          /\ x.told = (IF observed /\ ended THEN 1 ELSE 0) /\ x.stage = (IF ended THEN "ended" ELSE "open")
      BY DEF NewEntry, Test
    <2>3. x = [call |-> x.call, parent |-> x.parent, run |-> x.run, steps |-> x.steps, seq |-> x.seq, home |-> x.home,
               told |-> x.told, in |-> x.in, stage |-> x.stage, missed |-> x.missed]
          /\ x.missed \in BOOLEAN
      BY DEF NewEntry
    <2>4. /\ x.seq \in Nat /\ x.home \in Int /\ x.told \in {0, 1} /\ x.stage \in EntryStages
          /\ x.call \in BOOLEAN /\ x.parent \in Nat /\ x.run \in Nat /\ x.steps \in Nat /\ x.in \in Nat
      BY <2>1, <2>2 DEF EntryStages, Test, Loose
    <2> HIDE DEF x
    <2> QED
      BY <2>2, <2>3, <2>4 DEF EntryType
  <1> HIDE DEF x
  <1>4. /\ entries' \in Seq(EntryType) /\ Len(entries') = N
        /\ DOMAIN entries' = DOMAIN entries \cup {N} /\ N \notin DOMAIN entries /\ entries'[N] = x
        /\ \A e \in DOMAIN entries : entries'[e] = entries[e] /\ e < N
    BY <1>0, <1>1, <1>3, NewCallsAreLast
  <1>5. /\ next' \in Nat /\ next <= next' /\ x.seq <= next' /\ next \in Nat
        /\ IsRecorded => next' = next + 1 /\ x.seq = next' /\ x.seq # 0
        /\ ~ IsRecorded => next' = next /\ x.seq = 0
    BY <1>0, <1>1, <1>3 DEF RecordTypes
  <1>6. N \in Nat
    BY <1>0, RecordFacts
  <1> HIDE DEF N
  <1>7. \A i \in DOMAIN lines : lines[i].entry \in DOMAIN entries /\ lines[i].seq <= next /\ lines[i].seq \in Nat
    BY <1>0, RecordFacts DEF LinesTell, NumbersCount, LineType
  <1>8. /\ LineOf(entries', N) \in LineType /\ LineOf(entries', N).entry = N
        /\ LineOf(entries', N).seq = x.seq /\ LineOf(entries', N).parent = 0
    BY <1>3, <1>4, <1>6 DEF LineOf, LineType, EntryType
  <1>9. /\ lines' \in Seq(LineType)
        /\ \A i \in DOMAIN lines : i \in DOMAIN lines' /\ lines'[i] = lines[i]
        /\ \A i \in DOMAIN lines' :
             \/ i \in DOMAIN lines
             \/ writes /\ i = Len(lines) + 1 /\ lines'[i] = LineOf(entries', N)
        /\ writes => \E i \in DOMAIN lines' : lines'[i].entry = N
    <2>1. lines \in Seq(LineType)
      BY <1>0 DEF RecordTypes, LineType
    <2>2. CASE writes
      <3>1. PICK out : out = lines'
        OBVIOUS
      <3>2. PICK all : all = entries'
        OBVIOUS
      <3>3. out = Emit(all, N)
        BY <1>1, <1>4, <2>2, <3>1, <3>2
      <3>4. \A i \in DOMAIN lines : lines[i].seq = all[N].seq => lines[i].entry = N
        BY <1>4, <1>5, <1>7, <2>2, <3>2
      <3>5. LineOf(all, N) \in LineType
        BY <1>8, <3>2
      <3> HIDE DEF writes
      <3>6. /\ out \in Seq(LineType)
            /\ \A i \in DOMAIN lines : i \in DOMAIN out /\ out[i] = lines[i]
            /\ \A i \in DOMAIN out : i \in DOMAIN lines \/ (i = Len(lines) + 1 /\ out[i] = LineOf(all, N))
            /\ \E i \in DOMAIN out : out[i].entry = N
        BY <2>1, <3>3, <3>4, <3>5, EmitTells
      <3> QED
        BY <2>2, <3>1, <3>2, <3>6
    <2>3. CASE ~ writes
      BY <1>1, <2>1, <2>3
    <2> QED
      BY <2>2, <2>3
  <1>10. RecordTypes'
    BY <1>0, <1>2, <1>4, <1>5, <1>9 DEF RecordTypes, LineType
  <1>11. /\ \A r \in DOMAIN runs : runs[r].slot \in DOMAIN entries
         /\ \A e \in DOMAIN entries : entries[e].in # Test => entries[e].in \in DOMAIN runs
         /\ \A r \in DOMAIN runs : \A i \in DOMAIN runs[r].list : runs[r].list[i] \in DOMAIN entries
    BY <1>0 DEF RunsFollow, EntriesFollow, ListsHold
  <1>12. RunsFollow'
    BY <1>0, <1>2, <1>4, <1>11 DEF RunsFollow, IsHome, IsRecorded
  <1>13. EntriesFollow'
    <2>1. /\ Loose <= x.home /\ x.home <= x.in /\ IsHome(x.home)
          /\ x.call <=> x.stage \notin {"open", "gone"}
          /\ x.stage # "to_test"
      BY <1>3 DEF IsHome, Test, Loose
    <2>2. ASSUME NEW e \in DOMAIN entries
          PROVE  /\ entries'[e].in # Test => entries'[e].in \in DOMAIN runs /\ runs[entries'[e].in].slot < e
                 /\ Loose <= entries'[e].home /\ entries'[e].home <= entries'[e].in /\ IsHome(entries'[e].home)
                 /\ entries'[e].in # Test => entries'[e].home \in Way(runs, entries'[e].in)
                 /\ entries'[e].in = Test => entries'[e].parent = 0 /\ ~ entries'[e].missed
                 /\ entries'[e].in # Test /\ entries'[e].parent = 0 => entries'[e].home = entries'[e].in
                 /\ entries'[e].in # Test /\ entries'[e].parent # 0 =>
                      /\ entries'[e].parent = runs[entries'[e].in].slot
                      /\ entries'[e].run = runs[entries'[e].in].number
                      /\ Swapped(runs[entries'[e].in]) /\ entries'[e].home < entries'[e].in
                 /\ entries'[e].call <=> entries'[e].stage \notin {"open", "gone"}
                 /\ entries'[e].stage = "to_test" => entries'[e].home = Test
      <3>1. entries'[e] = entries[e]
        BY <1>4
      <3> QED
        BY <1>0, <3>1 DEF EntriesFollow
    <2> QED
      BY <1>2, <1>3, <1>4, <2>1, <2>2 DEF EntriesFollow, IsHome, IsRecorded
  <1>14. ListsHold'
    <2>1. ~ x.missed /\ ~ (x.home > 0)
      BY <1>3 DEF Test, Loose
    <2>2. \A r \in DOMAIN runs :
            /\ \A i \in DOMAIN runs[r].list :
                 /\ runs[r].list[i] \in DOMAIN entries' /\ entries'[runs[r].list[i]].in # Test
                 /\ entries'[runs[r].list[i]].home = r \/ (lock = r /\ i = 1)
            /\ \A i, j \in DOMAIN runs[r].list : runs[r].list[i] = runs[r].list[j] => i = j
      BY <1>0, <1>4, <1>11 DEF ListsHold
    <2>3. \A e \in DOMAIN entries' :
            ~ entries'[e].missed /\ entries'[e].home > 0 =>
              /\ runs[entries'[e].home].stage # "taken"
              /\ \E i \in DOMAIN runs[entries'[e].home].list : runs[entries'[e].home].list[i] = e
      BY <1>0, <1>4, <2>1 DEF ListsHold
    <2>4. lock' = 0
      BY <1>1
    <2> QED
      BY <1>2, <2>2, <2>3, <2>4 DEF ListsHold
  <1>15. NumbersCount'
    <2>1. /\ x.home # Test => x.seq = 0
          /\ x.home = Test => x.seq # 0
      BY <1>3, <1>5 DEF Test, Loose
    <2>2. ASSUME NEW e \in DOMAIN entries
          PROVE  /\ entries[e].seq <= next' /\ entries[e].seq <= next /\ entries[e].seq \in Nat
                 /\ entries[e].home # Test => entries[e].seq = 0
                 /\ entries[e].home = Test => entries[e].seq # 0
      BY <1>0, <1>1, <1>5, RecordFacts DEF NumbersCount, IsMoving, EntryType
    <2>3. \A e \in DOMAIN entries : x.seq # 0 => entries[e].seq # x.seq
      BY <1>5, <2>2
    <2>4. \A n \in 1 .. next' : n \in 1 .. next \/ (n = x.seq /\ IsRecorded)
      BY <1>5
    <2>5. \A n \in 1 .. next' : \E e \in DOMAIN entries' : entries'[e].seq = n
      BY <1>0, <1>4, <2>4 DEF NumbersCount
    <2>6. \A e, f \in DOMAIN entries' : entries'[e].seq = entries'[f].seq /\ entries'[e].seq # 0 => e = f
      BY <1>0, <1>4, <2>3 DEF NumbersCount
    <2>7. \A e \in DOMAIN entries' : /\ entries'[e].seq <= next'
                                     /\ entries'[e].home # Test => entries'[e].seq = 0
                                     /\ entries'[e].home = Test => entries'[e].seq # 0
      BY <1>4, <1>5, <2>1, <2>2
    <2> QED
      BY <2>5, <2>6, <2>7 DEF NumbersCount
  <1>16. ParentsGoAhead'
    <2>1. x.in = Test /\ \A r \in DOMAIN runs : r # Test
      BY <1>0, <1>3, RecordFacts DEF Test
    <2> QED
      BY <1>0, <1>2, <1>4, <1>11, <2>1 DEF ParentsGoAhead
  <1> HIDE DEF writes
  <1>17. LinesTell'
    <2>1. ASSUME NEW i \in DOMAIN lines'
          PROVE  LET y == lines'[i].entry
                 IN  /\ y \in DOMAIN entries' /\ lines'[i].seq = entries'[y].seq /\ entries'[y].seq # 0
                     /\ entries'[y].in = Test => lines'[i].parent = 0
                     /\ entries'[y].in # Test =>
                          LET t == runs[entries'[y].in].slot
                          IN  /\ lines'[i].run = runs[entries'[y].in].number
                              /\ entries'[t].missed \/ lines'[i].parent = entries'[t].seq
      <3>1. CASE i \in DOMAIN lines
        <4>1. lines'[i] = lines[i] /\ lines[i].entry \in DOMAIN entries
          BY <1>7, <1>9, <3>1
        <4> DEFINE y == lines[i].entry
                   s == runs[entries[y].in].slot
        <4>2. /\ lines[i].seq = entries[y].seq /\ entries[y].seq # 0
              /\ entries[y].in = Test => lines[i].parent = 0
              /\ entries[y].in # Test =>
                   /\ lines[i].run = runs[entries[y].in].number
                   /\ entries[s].missed \/ lines[i].parent = entries[s].seq
          BY <1>0, <3>1 DEF LinesTell
        <4>3. /\ entries'[y] = entries[y] /\ y \in DOMAIN entries'
              /\ entries[y].in # Test => s \in DOMAIN entries /\ entries'[s] = entries[s]
          BY <1>4, <1>11, <4>1
        <4> QED
          BY <4>1, <4>2, <4>3
      <3>2. CASE writes /\ lines'[i] = LineOf(entries', N)
        BY <1>3, <1>4, <1>5, <1>8, <3>2 DEF writes
      <3> QED
        BY <1>9, <3>1, <3>2
    <2>2. ASSUME NEW e \in DOMAIN entries'
          PROVE  /\ entries'[e].home = Test /\ entries'[e].call
                    /\ entries'[e].stage \notin {"called", "to_test"} => \E i \in DOMAIN lines' : lines'[i].entry = e
                 /\ observed /\ entries'[e].home \in {Test, Loose}
                    /\ entries'[e].stage = "ended" => entries'[e].told = 1
                 /\ entries'[e].told = 1 => entries'[e].home \in {Test, Loose}
      <3>1. CASE e = N
        BY <1>3, <1>4, <1>9, <3>1 DEF writes, Test, Loose
      <3>2. CASE e \in DOMAIN entries
        <4>1. entries'[e] = entries[e] /\ ~ IsMoving(e)
          BY <1>1, <1>4, <3>2 DEF IsMoving
        <4> QED
          BY <1>0, <1>9, <3>2, <4>1 DEF LinesTell
      <3> QED
        BY <1>4, <3>1, <3>2
    <2> QED
      BY <1>2, <2>1, <2>2 DEF LinesTell
  <1>18. ASSUME ~ late PROVE InTheirRuns' /\ OneLineEach'
    <2>1. InTheirRuns'
      <3>1. \A r \in DOMAIN runs : r # Test
        BY <1>0, RecordFacts DEF Test
      <3>2. \A e \in DOMAIN entries : entries[e].missed => entries[e].in # Test
        BY <1>0 DEF EntriesFollow
      <3>3. ASSUME NEW e \in DOMAIN entries'
            PROVE  /\ entries'[e].in # Test /\ runs[entries'[e].in].stage # "body" => entries'[e].stage \in {"ended", "gone"}
                   /\ entries'[e].in # Test => entries'[e].stage # "to_test"
                   /\ entries'[e].missed =>
                        /\ entries'[e].home > 0 /\ runs[entries'[e].in].stage # "body"
                        /\ \A r \in DOMAIN runs : \A i \in DOMAIN runs[r].list : runs[r].list[i] # e
        BY <1>0, <1>3, <1>4, <1>18, <3>2 DEF InTheirRuns
      <3>4. ASSUME NEW r \in DOMAIN runs
            PROVE  LET t == runs[r].slot
                   IN  /\ Swapped(runs[r]) /\ entries'[t].in # Test => runs[r].home = entries'[t].in
                       /\ \A i \in DOMAIN runs[r].list : entries'[runs[r].list[i]].steps <= runs[r].steps
                       /\ \A e \in DOMAIN entries' :
                            entries'[e].in = r =>
                              /\ entries'[t].missed => entries'[e].missed
                              /\ entries'[e].parent # 0 /\ entries'[e].home = entries'[t].home /\ entries'[e].home > 0
                                 /\ ~ entries'[e].missed => entries'[t].steps <= entries'[e].steps
        BY <1>0, <1>3, <1>4, <1>11, <1>18, <3>1 DEF InTheirRuns
      <3> QED
        BY <1>2, <3>3, <3>4 DEF InTheirRuns
    <2>2. ASSUME NEW i \in DOMAIN lines', NEW j \in DOMAIN lines', lines'[i].entry = lines'[j].entry
          PROVE  i = j
      <3>1. i \in DOMAIN lines /\ j \in DOMAIN lines => i = j
        BY <1>0, <1>9, <1>18, <2>2 DEF OneLineEach
      <3>2. i \in DOMAIN lines /\ j \notin DOMAIN lines => FALSE
        BY <1>4, <1>7, <1>8, <1>9, <2>2
      <3>3. j \in DOMAIN lines /\ i \notin DOMAIN lines => FALSE
        BY <1>4, <1>7, <1>8, <1>9, <2>2
      <3> QED
        BY <1>9, <3>1, <3>2, <3>3
    <2>3. ASSUME NEW i \in DOMAIN lines'
          PROVE  LET y == lines'[i].entry
                 IN  IF entries'[y].in = Test THEN entries'[y].stage = "ended" ELSE TRUE
      <3>1. CASE i \in DOMAIN lines
        <4>1. lines'[i] = lines[i] /\ lines[i].entry \in DOMAIN entries
          BY <1>7, <1>9, <3>1
        <4> QED
          BY <1>0, <1>4, <1>18, <3>1, <4>1 DEF OneLineEach
      <3>2. CASE writes /\ lines'[i] = LineOf(entries', N)
        BY <1>3, <1>4, <1>8, <3>2 DEF writes
      <3> QED
        BY <1>9, <3>1, <3>2
    <2>4. lock' = 0
      BY <1>1
    <2> QED
      BY <2>1, <2>2, <2>3, <2>4 DEF OneLineEach, IsMoving
  <1> QED
    BY <1>2, <1>10, <1>12, <1>13, <1>14, <1>15, <1>16, <1>17, <1>18 DEF RecordsInductive

LEMMA AddToRunKeeps ==
  ASSUME RecordsInductive, NEW ended \in BOOLEAN, NEW h \in DOMAIN runs, runs[h].stage = "body" \/ late,
         Add(h, ended)
  PROVE  RecordsInductive'
  <1>0. /\ RecordTypes /\ RunsFollow /\ EntriesFollow /\ ListsHold /\ NumbersCount /\ ParentsGoAhead /\ LinesTell
        /\ (~ late => InTheirRuns /\ OneLineEach)
    BY DEF RecordsInductive
  <1> DEFINE N == Len(entries) + 1
             x == NewEntry(h, ended)
             y == [runs[h] EXCEPT !.list = IF Gathers(h) THEN Append(@, N) ELSE @]
  <1>1. h \in Nat /\ h # Test /\ h > 0 /\ runs[h] \in RunType /\ h \in Int
    BY <1>0, RecordFacts DEF Test
  <1>2. UNCHANGED <<state, observed, late, lock, next, lines>>
    BY <1>1 DEF Add
  <1>3. entries' = Append(entries, x)
    BY DEF Add
  <1>4. /\ x.call = ended /\ x.parent = 0 /\ x.in = h /\ x.seq = 0 /\ x.home = h /\ x.told = 0
        /\ x.steps = runs[h].steps /\ x.stage = (IF ended THEN "ended" ELSE "open")
        /\ ~ x.missed <=> Gathers(h)
        /\ x \in EntryType
    <2>2. /\ x.call = ended /\ x.parent = 0 /\ x.run = 0 /\ x.in = h /\ x.seq = 0 /\ x.home = h /\ x.told = 0
          /\ x.steps = runs[h].steps /\ x.stage = (IF ended THEN "ended" ELSE "open")
          /\ ~ x.missed <=> Gathers(h)
      BY <1>1 DEF NewEntry
    <2>3. x = [call |-> x.call, parent |-> x.parent, run |-> x.run, steps |-> x.steps, seq |-> x.seq, home |-> x.home,
               told |-> x.told, in |-> x.in, stage |-> x.stage, missed |-> x.missed]
          /\ x.missed \in BOOLEAN
      BY <1>1 DEF NewEntry
    <2>4. /\ x.seq \in Nat /\ x.home \in Int /\ x.told \in {0, 1} /\ x.stage \in EntryStages
          /\ x.call \in BOOLEAN /\ x.parent \in Nat /\ x.run \in Nat /\ x.steps \in Nat /\ x.in \in Nat
      BY <1>1, <2>2 DEF EntryStages, RunType
    <2> HIDE DEF x
    <2> QED
      BY <2>2, <2>3, <2>4 DEF EntryType
  <1> HIDE DEF x
  <1>5. /\ entries' \in Seq(EntryType) /\ Len(entries') = N
        /\ DOMAIN entries' = DOMAIN entries \cup {N} /\ N \notin DOMAIN entries /\ entries'[N] = x
        /\ \A e \in DOMAIN entries : entries'[e] = entries[e] /\ e < N
    BY <1>0, <1>3, <1>4, NewCallsAreLast
  <1>6. N \in Nat
    BY <1>0, RecordFacts
  <1>7. runs' = [runs EXCEPT ![h] = y]
    <2>1. runs' = IF Gathers(h) THEN [runs EXCEPT ![h].list = Append(@, N)] ELSE runs
      BY <1>1, <1>5 DEF Add
    <2>2. ~ Gathers(h) => y = runs[h]
      BY <1>1 DEF RunType
    <2>3. CASE Gathers(h)
      <3>1. y = [runs[h] EXCEPT !.list = Append(@, N)] /\ runs' = [runs EXCEPT ![h].list = Append(@, N)]
        BY <2>1, <2>3
      <3> HIDE DEF y
      <3> QED
        BY <3>1
    <2>4. CASE ~ Gathers(h)
      <3>1. y = runs[h] /\ runs' = runs
        BY <2>1, <2>2, <2>4
      <3>2. runs = [q \in DOMAIN runs |-> runs[q]]
        BY <1>0 DEF RecordTypes
      <3> HIDE DEF y
      <3> QED
        BY <3>1, <3>2
    <2> QED
      BY <2>3, <2>4
  <1> HIDE DEF N
  <1>8. /\ y \in RunType /\ y.steps = runs[h].steps /\ y.slot = runs[h].slot
        /\ y.stage = runs[h].stage /\ y.number = runs[h].number /\ y.home = runs[h].home
        /\ y.list \in Seq(Nat) /\ Len(runs[h].list) + 1 \notin DOMAIN runs[h].list
        /\ \A i \in DOMAIN y.list :
             i \in DOMAIN runs[h].list \/ (i = Len(runs[h].list) + 1 /\ y.list[i] = N)
        /\ Gathers(h) => Len(runs[h].list) + 1 \in DOMAIN y.list /\ y.list[Len(runs[h].list) + 1] = N
        /\ \A i \in DOMAIN runs[h].list : /\ i \in DOMAIN y.list /\ y.list[i] = runs[h].list[i]
                                         /\ i < Len(runs[h].list) + 1 /\ i >= 1
    <2>1. runs[h].list \in Seq(Nat) /\ Append(runs[h].list, N) \in Seq(Nat)
      BY <1>1, <1>6, AppendProperties DEF RunType
    <2> DEFINE list == IF Gathers(h) THEN Append(runs[h].list, N) ELSE runs[h].list
    <2>2. /\ y \in RunType /\ y.steps = runs[h].steps /\ y.slot = runs[h].slot
          /\ y.stage = runs[h].stage /\ y.number = runs[h].number /\ y.home = runs[h].home
          /\ y.list = list
      <3>1. list \in Seq(Nat) /\ y = [runs[h] EXCEPT !.list = list]
        BY <2>1
      <3> HIDE DEF list, y
      <3> QED
        BY <1>1, <3>1 DEF RunType
    <2>3. DOMAIN runs[h].list = 1 .. Len(runs[h].list) /\ Len(runs[h].list) \in Nat
      BY <2>1, LenProperties
    <2> HIDE DEF y
    <2>4. CASE Gathers(h)
      <3>1. y.list = Append(runs[h].list, N)
        BY <2>2, <2>4
      <3>2. /\ y.list \in Seq(Nat) /\ Len(y.list) = Len(runs[h].list) + 1 /\ y.list[Len(runs[h].list) + 1] = N
            /\ \A i \in 1 .. Len(runs[h].list) : y.list[i] = runs[h].list[i]
        BY <1>6, <2>1, <3>1, AppendProperties
      <3>3. DOMAIN y.list = 1 .. Len(y.list)
        BY <3>2, LenProperties
      <3> HIDE DEF list
      <3> QED
        BY <2>2, <2>3, <3>2, <3>3
    <2>5. CASE ~ Gathers(h)
      <3>1. y.list = runs[h].list
        BY <2>2, <2>5
      <3> HIDE DEF list
      <3> QED
        BY <2>1, <2>2, <2>3, <2>5, <3>1
    <2> QED
      BY <2>4, <2>5
  <1> HIDE DEF y
  <1>9. /\ DOMAIN runs' = DOMAIN runs /\ runs'[h] = y /\ \A q \in DOMAIN runs : q # h => runs'[q] = runs[q]
        /\ \A q \in DOMAIN runs :
             /\ runs'[q].slot = runs[q].slot /\ runs'[q].stage = runs[q].stage /\ runs'[q].number = runs[q].number
             /\ runs'[q].home = runs[q].home /\ runs'[q].steps = runs[q].steps
             /\ Swapped(runs'[q]) <=> Swapped(runs[q])
    BY <1>7, <1>8 DEF Swapped
  \* The places of the lists before the last place of the list of the run.
  <1>10. \A q \in DOMAIN runs :
           /\ \A i \in DOMAIN runs[q].list : i \in DOMAIN runs'[q].list /\ runs'[q].list[i] = runs[q].list[i]
           /\ \A i \in DOMAIN runs'[q].list :
                \/ i \in DOMAIN runs[q].list
                \/ q = h /\ i = Len(runs[h].list) + 1 /\ runs'[q].list[i] = N
    BY <1>8, <1>9
  <1>11. /\ \A r \in DOMAIN runs : runs[r].slot \in DOMAIN entries
         /\ \A e \in DOMAIN entries : entries[e].in # Test => entries[e].in \in DOMAIN runs
         /\ \A r \in DOMAIN runs : \A i \in DOMAIN runs[r].list : runs[r].list[i] \in DOMAIN entries
         /\ \A i \in DOMAIN lines : lines[i].entry \in DOMAIN entries
    BY <1>0 DEF RunsFollow, EntriesFollow, ListsHold, LinesTell
  <1>12. RunsGoOn(runs, runs') /\ \A b : \A z \in Way(runs, b) : z \in Way(runs', b)
    <2>1. RunsGoOn(runs, runs')
      BY <1>9 DEF RunsGoOn
    <2> QED
      BY <2>1, WayGrows
  <1>13. lock # 0 => /\ lock \in DOMAIN runs /\ runs[lock].list \in Seq(Nat) /\ runs[lock].list # <<>>
                     /\ 1 \in DOMAIN runs[lock].list /\ Head(runs[lock].list) = runs[lock].list[1]
                     /\ Head(runs'[lock].list) = runs[lock].list[1] /\ runs'[lock].list # <<>>
                     /\ runs[lock].list[1] \in DOMAIN entries
    <2>1. lock # 0 => lock \in DOMAIN runs /\ runs[lock].list \in Seq(Nat) /\ runs[lock].list # <<>>
      BY <1>0, RecordFacts DEF ListsHold, RunType
    <2>2. lock # 0 => 1 \in DOMAIN runs[lock].list /\ Head(runs[lock].list) = runs[lock].list[1]
      BY <2>1
    <2>3. lock # 0 => 1 \in DOMAIN runs'[lock].list /\ runs'[lock].list \in Seq(Nat)
      BY <1>8, <1>9, <1>10, <2>1, <2>2
    <2>4. lock # 0 => Head(runs'[lock].list) = runs'[lock].list[1] /\ runs'[lock].list # <<>>
      BY <2>3
    <2> QED
      BY <1>10, <1>11, <2>1, <2>2, <2>4
  <1>14. /\ \A e \in DOMAIN entries : IsMoving(e)' <=> IsMoving(e)
         /\ \A e \in {N} : ~ IsMoving(e)'
    BY <1>2, <1>5, <1>13 DEF IsMoving
  <1>15. RecordTypes'
    <2>1. runs' \in Seq(RunType)
      BY <1>0, <1>7, <1>8, UpdatesAreTyped DEF RecordTypes
    <2> QED
      BY <1>0, <1>2, <1>5, <2>1 DEF RecordTypes
  <1>16. RunsFollow'
    BY <1>0, <1>2, <1>5, <1>9, <1>11, <1>12 DEF RunsFollow, IsHome, IsRecorded
  <1>17. EntriesFollow'
    <2>1. /\ x.in # Test /\ x.in \in DOMAIN runs /\ runs[h].slot < N
          /\ Loose <= x.home /\ x.home <= x.in /\ IsHome(x.home) /\ x.home \in Way(runs, x.in)
          /\ x.call <=> x.stage \notin {"open", "gone"}
          /\ x.stage # "to_test"
      BY <1>1, <1>4, <1>5, <1>11, WayBegins DEF IsHome, Test, Loose
    <2>2. ASSUME NEW e \in DOMAIN entries
          PROVE  /\ entries'[e].in # Test => entries'[e].in \in DOMAIN runs /\ runs'[entries'[e].in].slot < e
                 /\ Loose <= entries'[e].home /\ entries'[e].home <= entries'[e].in /\ IsHome(entries'[e].home)
                 /\ entries'[e].in # Test => entries'[e].home \in Way(runs', entries'[e].in)
                 /\ entries'[e].in = Test => entries'[e].parent = 0 /\ ~ entries'[e].missed
                 /\ entries'[e].in # Test /\ entries'[e].parent = 0 => entries'[e].home = entries'[e].in
                 /\ entries'[e].in # Test /\ entries'[e].parent # 0 =>
                      /\ entries'[e].parent = runs'[entries'[e].in].slot
                      /\ entries'[e].run = runs'[entries'[e].in].number
                      /\ Swapped(runs'[entries'[e].in]) /\ entries'[e].home < entries'[e].in
                 /\ entries'[e].call <=> entries'[e].stage \notin {"open", "gone"}
                 /\ entries'[e].stage = "to_test" => entries'[e].home = Test
      <3>1. entries'[e] = entries[e]
        BY <1>5
      <3> QED
        BY <1>0, <1>9, <1>12, <3>1 DEF EntriesFollow
    <2> QED
      BY <1>2, <1>4, <1>5, <1>9, <1>12, <2>1, <2>2 DEF EntriesFollow, IsHome, IsRecorded
  <1>18. ListsHold'
    <2>1. ASSUME NEW r \in DOMAIN runs
          PROVE  /\ \A i \in DOMAIN runs'[r].list :
                      /\ runs'[r].list[i] \in DOMAIN entries' /\ entries'[runs'[r].list[i]].in # Test
                      /\ entries'[runs'[r].list[i]].home = r \/ (lock = r /\ i = 1)
                 /\ \A i, j \in DOMAIN runs'[r].list : runs'[r].list[i] = runs'[r].list[j] => i = j
      <3>1. ASSUME NEW i \in DOMAIN runs'[r].list
            PROVE  /\ runs'[r].list[i] \in DOMAIN entries' /\ entries'[runs'[r].list[i]].in # Test
                   /\ entries'[runs'[r].list[i]].home = r \/ (lock = r /\ i = 1)
        <4>1. CASE i \in DOMAIN runs[r].list
          BY <1>0, <1>5, <1>10, <1>11, <4>1 DEF ListsHold
        <4>2. CASE r = h /\ runs'[r].list[i] = N
          BY <1>1, <1>4, <1>5, <4>2
        <4> QED
          BY <1>10, <4>1, <4>2
      <3>2. ASSUME NEW i \in DOMAIN runs'[r].list, NEW j \in DOMAIN runs'[r].list, runs'[r].list[i] = runs'[r].list[j]
            PROVE  i = j
        <4>1. i \in DOMAIN runs[r].list /\ j \in DOMAIN runs[r].list => i = j
          BY <1>0, <1>10, <3>2 DEF ListsHold
        <4> QED
          BY <1>5, <1>10, <1>11, <3>2, <4>1
      <3> QED
        BY <3>1, <3>2
    <2>2. ASSUME NEW e \in DOMAIN entries', ~ entries'[e].missed, entries'[e].home > 0
          PROVE  /\ runs'[entries'[e].home].stage # "taken"
                 /\ \E i \in DOMAIN runs'[entries'[e].home].list : runs'[entries'[e].home].list[i] = e
      <3>1. CASE e = N
        <4>1. entries'[e].home = h /\ Gathers(h)
          BY <1>4, <1>5, <2>2, <3>1
        <4>2. Len(runs[h].list) + 1 \in DOMAIN runs'[h].list /\ runs'[h].list[Len(runs[h].list) + 1] = N
          BY <1>8, <1>9, <4>1
        <4>3. runs[h].stage # "taken"
          BY <4>1 DEF Gathers
        <4> QED
          BY <1>9, <3>1, <4>1, <4>2, <4>3
      <3>2. CASE e \in DOMAIN entries
        <4>1. entries'[e] = entries[e] /\ entries[e].home \in DOMAIN runs
          BY <1>0, <1>5, <2>2, <3>2, HomesAreRuns
        <4> QED
          BY <1>0, <1>9, <1>10, <2>2, <3>2, <4>1 DEF ListsHold
      <3> QED
        BY <1>5, <3>1, <3>2
    <2>3. lock # 0 => /\ lock \in DOMAIN runs' /\ runs'[lock].stage = "swapped"
                      /\ runs'[lock].list # <<>> /\ runs'[lock].home = Test
                      /\ entries'[Head(runs'[lock].list)].home = Test
                      /\ lock \in Way(runs', entries'[Head(runs'[lock].list)].in)
      BY <1>0, <1>5, <1>9, <1>12, <1>13 DEF ListsHold
    <2> QED
      BY <1>2, <1>9, <2>1, <2>2, <2>3 DEF ListsHold
  <1>19. NumbersCount'
    <2>1. ASSUME NEW e \in DOMAIN entries'
          PROVE  /\ entries'[e].seq <= next
                 /\ entries'[e].home # Test => entries'[e].seq = 0
                 /\ entries'[e].home = Test /\ ~ IsMoving(e)' => entries'[e].seq # 0
      <3>1. CASE e = N
        <4>1. next \in Nat
          BY <1>0 DEF RecordTypes
        <4> QED
          BY <1>1, <1>4, <1>5, <3>1, <4>1
      <3>2. CASE e \in DOMAIN entries
        BY <1>0, <1>5, <1>14, <3>2 DEF NumbersCount
      <3> QED
        BY <1>5, <3>1, <3>2
    <2>2. \A e, f \in DOMAIN entries' : entries'[e].seq = entries'[f].seq /\ entries'[e].seq # 0 => e = f
      BY <1>0, <1>4, <1>5 DEF NumbersCount
    <2>3. \A n \in 1 .. next : \E e \in DOMAIN entries' : entries'[e].seq = n
      BY <1>0, <1>5 DEF NumbersCount
    <2> QED
      BY <1>2, <2>1, <2>2, <2>3 DEF NumbersCount
  <1>20. ParentsGoAhead'
    <2> SUFFICES ASSUME NEW r \in DOMAIN runs, ~ entries[runs[r].slot].missed
                 PROVE  /\ Swapped(runs'[r]) => entries[runs[r].slot].home \in Way(runs', runs'[r].home)
                        /\ \A e \in DOMAIN entries' :
                             entries'[e].in = r =>
                               /\ entries'[e].parent # 0 =>
                                    /\ entries[runs[r].slot].home \in Way(runs', entries'[e].home)
                                    /\ \A q \in DOMAIN runs' : \A i, j \in DOMAIN runs'[q].list :
                                         runs'[q].list[i] = e /\ runs'[q].list[j] = runs[r].slot => j < i
                               /\ entries'[e].seq # 0 =>
                                    entries[runs[r].slot].seq # 0 /\ entries[runs[r].slot].seq < entries'[e].seq
      BY <1>5, <1>9, <1>11 DEF ParentsGoAhead
    <2>1. Swapped(runs'[r]) => entries[runs[r].slot].home \in Way(runs', runs'[r].home)
      BY <1>0, <1>9, <1>12 DEF ParentsGoAhead
    <2>2. ASSUME NEW e \in DOMAIN entries', entries'[e].in = r
          PROVE  /\ entries'[e].parent # 0 =>
                      /\ entries[runs[r].slot].home \in Way(runs', entries'[e].home)
                      /\ \A q \in DOMAIN runs' : \A i, j \in DOMAIN runs'[q].list :
                           runs'[q].list[i] = e /\ runs'[q].list[j] = runs[r].slot => j < i
                 /\ entries'[e].seq # 0 =>
                      entries[runs[r].slot].seq # 0 /\ entries[runs[r].slot].seq < entries'[e].seq
      <3>1. CASE e = N
        BY <1>4, <1>5, <3>1
      <3>2. CASE e \in DOMAIN entries
        <4>1. entries'[e] = entries[e] /\ e # N /\ runs[r].slot # N
          BY <1>5, <1>11, <3>2
        <4>2. /\ entries[e].parent # 0 =>
                   /\ entries[runs[r].slot].home \in Way(runs, entries[e].home)
                   /\ \A q \in DOMAIN runs : \A i, j \in DOMAIN runs[q].list :
                        runs[q].list[i] = e /\ runs[q].list[j] = runs[r].slot => j < i
              /\ entries[e].seq # 0 =>
                   entries[runs[r].slot].seq # 0 /\ entries[runs[r].slot].seq < entries[e].seq
          BY <1>0, <2>2, <3>2, <4>1 DEF ParentsGoAhead
        <4>3. ASSUME NEW q \in DOMAIN runs', NEW i \in DOMAIN runs'[q].list, NEW j \in DOMAIN runs'[q].list,
                     runs'[q].list[i] = e, runs'[q].list[j] = runs[r].slot, entries[e].parent # 0
              PROVE  j < i
          <5>1. i \in DOMAIN runs[q].list /\ j \in DOMAIN runs[q].list /\ q \in DOMAIN runs
            BY <1>9, <1>10, <4>1, <4>3
          <5> QED
            BY <1>10, <4>2, <4>3, <5>1
        <4> QED
          BY <1>12, <4>1, <4>2, <4>3
      <3> QED
        BY <1>5, <3>1, <3>2
    <2> QED
      BY <2>1, <2>2
  <1>21. LinesTell'
    <2>1. ASSUME NEW i \in DOMAIN lines
          PROVE  LET z == lines[i].entry
                 IN  /\ z \in DOMAIN entries' /\ lines[i].seq = entries'[z].seq /\ entries'[z].seq # 0
                     /\ entries'[z].in = Test => lines[i].parent = 0
                     /\ entries'[z].in # Test =>
                          LET t == runs'[entries'[z].in].slot
                          IN  /\ lines[i].run = runs'[entries'[z].in].number
                              /\ entries'[t].missed \/ lines[i].parent = entries'[t].seq
      <3> DEFINE z == lines[i].entry
                 s == runs[entries[z].in].slot
      <3>1. /\ lines[i].seq = entries[z].seq /\ entries[z].seq # 0
            /\ entries[z].in = Test => lines[i].parent = 0
            /\ entries[z].in # Test =>
                 /\ lines[i].run = runs[entries[z].in].number
                 /\ entries[s].missed \/ lines[i].parent = entries[s].seq
        BY <1>0 DEF LinesTell
      <3>2. /\ entries'[z] = entries[z] /\ z \in DOMAIN entries'
            /\ entries[z].in # Test =>
                 /\ s \in DOMAIN entries /\ entries'[s] = entries[s]
                 /\ runs'[entries[z].in].slot = s /\ runs'[entries[z].in].number = runs[entries[z].in].number
        BY <1>5, <1>9, <1>11
      <3> QED
        BY <3>1, <3>2
    <2>2. ASSUME NEW e \in DOMAIN entries'
          PROVE  /\ entries'[e].home = Test /\ ~ IsMoving(e)' /\ entries'[e].call
                    /\ entries'[e].stage \notin {"called", "to_test"} => \E i \in DOMAIN lines : lines[i].entry = e
                 /\ observed /\ entries'[e].home \in {Test, Loose} /\ ~ IsMoving(e)'
                    /\ entries'[e].stage = "ended" => entries'[e].told = 1
                 /\ entries'[e].told = 1 => entries'[e].home \in {Test, Loose}
      <3>1. CASE e = N
        BY <1>1, <1>4, <1>5, <3>1 DEF Loose
      <3>2. CASE e \in DOMAIN entries
        BY <1>0, <1>5, <1>14, <3>2 DEF LinesTell
      <3> QED
        BY <1>5, <3>1, <3>2
    <2> QED
      BY <1>2, <2>1, <2>2 DEF LinesTell
  <1>22. ASSUME ~ late PROVE InTheirRuns' /\ OneLineEach'
    <2>0. runs[h].stage = "body" /\ ~ x.missed
      BY <1>4, <1>22 DEF Gathers
    <2>1. OneLineEach'
      BY <1>0, <1>2, <1>5, <1>11, <1>14, <1>22 DEF OneLineEach
    <2>2. ASSUME NEW e \in DOMAIN entries'
          PROVE  /\ entries'[e].in # Test /\ runs'[entries'[e].in].stage # "body" => entries'[e].stage \in {"ended", "gone"}
                 /\ entries'[e].in # Test => entries'[e].stage # "to_test"
                 /\ entries'[e].missed =>
                      /\ entries'[e].home > 0 /\ runs'[entries'[e].in].stage # "body"
                      /\ \A r \in DOMAIN runs' : \A i \in DOMAIN runs'[r].list : runs'[r].list[i] # e
      <3>1. CASE e = N
        BY <1>4, <1>5, <1>9, <2>0, <3>1
      <3>2. CASE e \in DOMAIN entries
        <4>1. entries[e].missed => entries[e].in # Test
          BY <1>0, <3>2 DEF EntriesFollow
        <4>2. entries'[e] = entries[e] /\ e # N
          BY <1>5, <3>2
        <4> QED
          BY <1>0, <1>9, <1>10, <1>11, <1>22, <3>2, <4>1, <4>2 DEF InTheirRuns
      <3> QED
        BY <1>5, <3>1, <3>2
    <2>3. ASSUME NEW r \in DOMAIN runs'
          PROVE  LET t == runs'[r].slot
                 IN  /\ Swapped(runs'[r]) /\ entries'[t].in # Test => runs'[r].home = entries'[t].in
                     /\ \A i \in DOMAIN runs'[r].list : entries'[runs'[r].list[i]].steps <= runs'[r].steps
                     /\ \A e \in DOMAIN entries' :
                          entries'[e].in = r =>
                            /\ entries'[t].missed => entries'[e].missed
                            /\ entries'[e].parent # 0 /\ entries'[e].home = entries'[t].home /\ entries'[e].home > 0
                               /\ ~ entries'[e].missed => entries'[t].steps <= entries'[e].steps
      <3>0. r \in DOMAIN runs /\ runs'[r].slot = runs[r].slot /\ runs[r].slot \in DOMAIN entries
            /\ entries'[runs[r].slot] = entries[runs[r].slot]
        BY <1>5, <1>9, <1>11
      <3>1. Swapped(runs'[r]) /\ entries[runs[r].slot].in # Test => runs'[r].home = entries[runs[r].slot].in
        BY <1>0, <1>9, <1>22, <3>0 DEF InTheirRuns
      <3>2. ASSUME NEW i \in DOMAIN runs'[r].list PROVE entries'[runs'[r].list[i]].steps <= runs'[r].steps
        <4>1. CASE i \in DOMAIN runs[r].list
          BY <1>0, <1>5, <1>9, <1>10, <1>11, <1>22, <3>0, <4>1 DEF InTheirRuns
        <4>2. CASE r = h /\ runs'[r].list[i] = N
          <5>1. runs[h].steps \in Nat
            BY <1>1 DEF RunType
          <5> QED
            BY <1>4, <1>5, <1>9, <4>2, <5>1
        <4> QED
          BY <1>10, <3>0, <4>1, <4>2
      <3>3. ASSUME NEW e \in DOMAIN entries', entries'[e].in = r
            PROVE  /\ entries[runs[r].slot].missed => entries'[e].missed
                   /\ entries'[e].parent # 0 /\ entries'[e].home = entries[runs[r].slot].home /\ entries'[e].home > 0
                      /\ ~ entries'[e].missed => entries[runs[r].slot].steps <= entries'[e].steps
        <4>1. CASE e = N
          <5>1. r = h /\ entries'[e].parent = 0
            BY <1>4, <1>5, <3>3, <4>1
          <5>2. entries[runs[h].slot].stage = "open" /\ runs[h].slot \in DOMAIN entries
            BY <1>0, <2>0 DEF RunsFollow
          <5>3. entries[runs[h].slot].missed => entries[runs[h].slot].in # Test
            BY <1>0, <5>2 DEF EntriesFollow
          <5>4. ~ entries[runs[h].slot].missed
            BY <1>0, <1>22, <5>2, <5>3 DEF InTheirRuns
          <5> QED
            BY <5>1, <5>4
        <4>2. CASE e \in DOMAIN entries
          BY <1>0, <1>5, <1>22, <3>0, <3>3, <4>2 DEF InTheirRuns
        <4> QED
          BY <1>5, <4>1, <4>2
      <3> QED
        BY <3>0, <3>1, <3>2, <3>3
    <2>4. InTheirRuns'
      BY <2>2, <2>3 DEF InTheirRuns
    <2> QED
      BY <2>1, <2>4
  <1> QED
    BY <1>2, <1>15, <1>16, <1>17, <1>18, <1>19, <1>20, <1>21, <1>22 DEF RecordsInductive

-----------------------------------------------------------------------------
(***************************************************************************)
(* The end of a run.                                                       *)
(***************************************************************************)
LEMMA KeptIsInOrder ==
  ASSUME NEW list \in Seq(Nat), NEW k \in Nat,
         \A i, j \in DOMAIN list : list[i] = list[j] => i = j,
         NEW rest, rest = Kept(list, k)
  PROVE  /\ rest \in Seq(Nat)
         /\ \A i \in DOMAIN rest : \E j \in DOMAIN list : list[j] = rest[i] /\ entries[list[j]].steps < k
         /\ \A j \in DOMAIN list : entries[list[j]].steps < k => \E i \in DOMAIN rest : rest[i] = list[j]
         /\ \A i, j \in DOMAIN rest : rest[i] = rest[j] => i = j
         /\ \A i, j \in DOMAIN rest : \A m, n \in DOMAIN list :
              rest[i] = list[m] /\ rest[j] = list[n] /\ n < m => j < i
  <1> DEFINE A == {i \in DOMAIN list : entries[list[i]].steps < k}
             N == Len(list)
  <1>1. rest \in Seq(Nat) /\ PartOf(rest, list, N, A)
    BY KeptIsAPart
  <1>2. /\ DOMAIN rest = 1 .. Len(rest) /\ Len(rest) \in Nat /\ DOMAIN list = 1 .. N /\ N \in Nat
    BY <1>1, LenProperties
  <1> HIDE DEF N
  <1>3. PICK place \in [1 .. Len(rest) -> 1 .. N] :
          /\ \A i, j \in 1 .. Len(rest) : i < j => place[i] < place[j]
          /\ \A i \in 1 .. Len(rest) : rest[i] = list[place[i]]
          /\ {place[i] : i \in 1 .. Len(rest)} = A \cap (1 .. N)
    BY <1>1 DEF PartOf
  <1>4. \A i \in DOMAIN rest : place[i] \in DOMAIN list /\ rest[i] = list[place[i]] /\ place[i] \in A
    BY <1>2, <1>3
  <1>5. \A j \in A : \E i \in DOMAIN rest : place[i] = j
    BY <1>2, <1>3
  <1>6. \A i, j \in DOMAIN rest : place[i] = place[j] => i = j
    <2>1. \A i, j \in DOMAIN rest : i < j \/ j < i \/ i = j
      BY <1>2
    <2>2. \A i, j \in DOMAIN rest : place[i] \in Nat /\ (i < j => place[i] < place[j])
      BY <1>2, <1>3
    <2> QED
      BY <2>1, <2>2
  <1>7. \A i, j \in DOMAIN rest : rest[i] = rest[j] => i = j
    BY <1>4, <1>6
  <1>8. ASSUME NEW i \in DOMAIN rest, NEW j \in DOMAIN rest, NEW m \in DOMAIN list, NEW n \in DOMAIN list,
               rest[i] = list[m], rest[j] = list[n], n < m
        PROVE  j < i
    <2>1. place[i] = m /\ place[j] = n
      BY <1>4, <1>8
    <2>2. i < j => place[i] < place[j]
      BY <1>2, <1>3
    <2>3. i \in Nat /\ j \in Nat /\ m \in Nat /\ n \in Nat
      BY <1>2
    <2> QED
      BY <1>8, <2>1, <2>2, <2>3
  <1>9. \A i \in DOMAIN rest : \E j \in DOMAIN list : list[j] = rest[i] /\ entries[list[j]].steps < k
    BY <1>4
  <1>10. \A j \in DOMAIN list : entries[list[j]].steps < k => \E i \in DOMAIN rest : rest[i] = list[j]
    <2> SUFFICES ASSUME NEW j \in DOMAIN list, entries[list[j]].steps < k
                 PROVE  \E i \in DOMAIN rest : rest[i] = list[j]
      OBVIOUS
    <2>1. j \in A
      OBVIOUS
    <2> HIDE DEF A
    <2> QED
      BY <1>4, <1>5, <2>1
  <1> QED
    BY <1>1, <1>7, <1>8, <1>9, <1>10

\* When no thread outlives its run, a run that ends has no run within it that is going on.
LEMMA RunsWithinAreOver ==
  ASSUME RecordTypes, RunsFollow, EntriesFollow, InTheirRuns,
         NEW r \in DOMAIN runs, runs[r].stage = "body", OpenIn(r) = {},
         NEW b \in DOMAIN runs, runs[b].stage # "taken", r \in Way(runs, b)
  PROVE  b = r
  <1> SUFFICES ASSUME b # r PROVE FALSE
    OBVIOUS
  <1> DEFINE s == runs[b].slot
             c == runs[b].home
  <1>1. b \in Int /\ r \in Int /\ r > 0 /\ c \in Int /\ s \in DOMAIN entries /\ entries[s].stage = "open"
        /\ entries[s].in \in Nat
    <2>1. runs[b] \in RunType /\ b \in Nat /\ r \in Nat /\ r # 0
      BY RecordFacts
    <2>2. s \in DOMAIN entries /\ entries[s].stage = "open"
      BY DEF RunsFollow
    <2>3. entries[s] \in EntryType
      BY <2>2, RecordFacts
    <2> QED
      BY <2>1, <2>2, <2>3 DEF RunType, EntryType
  <1>2. Swapped(runs[b])
    BY <1>1, WayEnds
  <1>3. r \in Way(runs, c)
    <2>1. \A q \in DOMAIN runs : Swapped(runs[q]) => runs[q].home \in Int
      BY HomesAreNumbers
    <2> QED
      BY <1>1, <1>2, <2>1, WayFromHome
  <1>4. entries[s].in # Test
    <2> SUFFICES ASSUME entries[s].in = Test PROVE FALSE
      OBVIOUS
    <2>1. c <= 0
      BY <1>2 DEF RunsFollow
    <2>2. c \notin DOMAIN runs
      BY <1>1, <2>1, RecordFacts
    <2>3. r = c
      BY <1>1, <1>3, <2>2, WayEnds
    <2> QED
      BY <1>1, <2>1, <2>3
  <1>5. c = entries[s].in /\ c \in DOMAIN runs /\ runs[c].stage = "body"
    BY <1>1, <1>2, <1>4 DEF InTheirRuns, EntriesFollow
  <1>6. r = c
    BY <1>1, <1>3, <1>5, WayEnds DEF Swapped
  <1>7. s \in OpenIn(r)
    BY <1>1, <1>5, <1>6 DEF OpenIn, Within
  <1> QED
    BY <1>7

LEMMA EndRunKeeps ==
  ASSUME RecordsInductive, NEW r \in DOMAIN runs, EndRun(r)
  PROVE  RecordsInductive'
  <1>0. /\ RecordTypes /\ RunsFollow /\ EntriesFollow /\ ListsHold /\ NumbersCount /\ ParentsGoAhead /\ LinesTell
        /\ (~ late => InTheirRuns /\ OneLineEach)
    BY DEF RecordsInductive
  <1>1. /\ runs[r].stage = "body" /\ (late \/ OpenIn(r) = {})
        /\ UNCHANGED <<state, observed, late, next, lines, lock>>
    BY DEF EndRun
  <1>2. PICK k \in 1 .. 2 :
          /\ runs' = [runs EXCEPT ![r].stage = "ended", ![r].list = Kept(runs[r].list, k)]
          /\ entries' = [e \in DOMAIN entries |->
               [entries[e] EXCEPT !.missed = @ \/ e \in Range(runs[r].list) \ Range(Kept(runs[r].list, k))]]
    BY DEF EndRun
  <1> DEFINE list == runs[r].list
             rest == Kept(list, k)
             D == Range(list) \ Range(rest)
             y == [runs[r] EXCEPT !.stage = "ended", !.list = rest]
  <1>3. runs[r] \in RunType /\ list \in Seq(Nat) /\ r # Test /\ r > 0 /\ r \in Int
    BY <1>0, RecordFacts DEF RunType, Test
  <1>4. /\ rest \in Seq(Nat)
        /\ \A i \in DOMAIN rest : \E j \in DOMAIN list : list[j] = rest[i] /\ entries[list[j]].steps < k
        /\ \A j \in DOMAIN list : entries[list[j]].steps < k => \E i \in DOMAIN rest : rest[i] = list[j]
        /\ \A i, j \in DOMAIN rest : rest[i] = rest[j] => i = j
        /\ \A i, j \in DOMAIN rest : \A m, n \in DOMAIN list :
             rest[i] = list[m] /\ rest[j] = list[n] /\ n < m => j < i
    <2>1. \A i, j \in DOMAIN list : list[i] = list[j] => i = j
      BY <1>0 DEF ListsHold
    <2>2. k \in Nat
      OBVIOUS
    <2> HIDE DEF list
    <2> QED
      BY <1>3, <2>1, <2>2, KeptIsInOrder
  <1> HIDE DEF rest
  <1>5. /\ \A e \in D : (\E i \in DOMAIN list : list[i] = e) /\ \A i \in DOMAIN rest : rest[i] # e
        /\ \A i \in DOMAIN list : list[i] \in D \/ \E j \in DOMAIN rest : rest[j] = list[i]
    BY DEF Range
  <1> HIDE DEF D
  <1>6. /\ y \in RunType /\ y.steps = runs[r].steps /\ y.slot = runs[r].slot /\ y.list = rest
        /\ y.stage = "ended" /\ y.number = runs[r].number /\ y.home = runs[r].home
    BY <1>3, <1>4 DEF RunType
  <1>7. runs' = [runs EXCEPT ![r] = y]
    BY <1>2 DEF rest
  <1> HIDE DEF y
  <1>8. /\ DOMAIN runs' = DOMAIN runs /\ runs'[r].list = rest /\ runs'[r].stage = "ended"
        /\ \A q \in DOMAIN runs : q # r => runs'[q] = runs[q]
        /\ \A q \in DOMAIN runs :
             /\ runs'[q].slot = runs[q].slot /\ runs'[q].number = runs[q].number
             /\ runs'[q].home = runs[q].home /\ runs'[q].steps = runs[q].steps
             /\ Swapped(runs'[q]) <=> Swapped(runs[q])
             /\ runs'[q].stage = "taken" <=> runs[q].stage = "taken"
             /\ runs'[q].stage # "body" <=> (runs[q].stage # "body" \/ q = r)
    BY <1>1, <1>6, <1>7 DEF Swapped
  <1>9. /\ entries' = [e \in DOMAIN entries |-> entries'[e]] /\ DOMAIN entries' = DOMAIN entries
        /\ \A e \in DOMAIN entries : entries'[e] = [entries[e] EXCEPT !.missed = @ \/ e \in D]
    BY <1>2 DEF D, rest
  <1>10. \A e \in DOMAIN entries :
           /\ entries'[e].in = entries[e].in /\ entries'[e].home = entries[e].home /\ entries'[e].seq = entries[e].seq
           /\ entries'[e].parent = entries[e].parent /\ entries'[e].run = entries[e].run
           /\ entries'[e].steps = entries[e].steps /\ entries'[e].call = entries[e].call
           /\ entries'[e].told = entries[e].told /\ entries'[e].stage = entries[e].stage
           /\ entries'[e].missed <=> (entries[e].missed \/ e \in D)
           /\ entries'[e] \in EntryType
    <2> SUFFICES ASSUME NEW e \in DOMAIN entries
                 PROVE  /\ entries'[e].in = entries[e].in /\ entries'[e].home = entries[e].home
                        /\ entries'[e].seq = entries[e].seq /\ entries'[e].parent = entries[e].parent
                        /\ entries'[e].run = entries[e].run /\ entries'[e].steps = entries[e].steps
                        /\ entries'[e].call = entries[e].call /\ entries'[e].told = entries[e].told
                        /\ entries'[e].stage = entries[e].stage
                        /\ entries'[e].missed <=> (entries[e].missed \/ e \in D)
                        /\ entries'[e] \in EntryType
      OBVIOUS
    <2> DEFINE m == entries[e].missed \/ e \in D
    <2>1. entries'[e] = [entries[e] EXCEPT !.missed = m] /\ entries[e] \in EntryType
      BY <1>0, <1>9, RecordFacts
    <2>2. m \in BOOLEAN /\ (m <=> entries[e].missed \/ e \in D)
      OBVIOUS
    <2> HIDE DEF m
    <2> QED
      BY <2>1, <2>2 DEF EntryType
  <1>11. /\ \A q \in DOMAIN runs : runs[q].slot \in DOMAIN entries
         /\ \A e \in DOMAIN entries : entries[e].in # Test => entries[e].in \in DOMAIN runs
         /\ \A q \in DOMAIN runs : \A i \in DOMAIN runs[q].list : runs[q].list[i] \in DOMAIN entries
         /\ \A i \in DOMAIN lines : lines[i].entry \in DOMAIN entries
         /\ lock # r /\ (lock # 0 => lock \in DOMAIN runs /\ runs'[lock] = runs[lock])
    <2>1. lock # 0 => lock # r /\ lock \in DOMAIN runs
      BY <1>0, <1>1 DEF ListsHold
    <2> QED
      BY <1>0, <1>3, <1>8, <2>1 DEF RunsFollow, EntriesFollow, ListsHold, LinesTell, Test
  <1>12. \A e \in D : e \in DOMAIN entries /\ entries[e].in # Test /\ entries[e].home = r
    BY <1>0, <1>5, <1>11 DEF ListsHold
  <1>13. \A b : \A z \in Way(runs, b) : z \in Way(runs', b)
    <2>1. RunsGoOn(runs, runs')
      BY <1>8 DEF RunsGoOn
    <2> QED
      BY <2>1, WayGrows
  <1>14. lock # 0 => Head(runs[lock].list) \in DOMAIN entries
    <2>1. lock # 0 => runs[lock].list \in Seq(Nat) /\ runs[lock].list # <<>>
      BY <1>0, RecordFacts DEF ListsHold, RunType
    <2>2. lock # 0 => 1 \in DOMAIN runs[lock].list /\ Head(runs[lock].list) = runs[lock].list[1]
      BY <2>1
    <2> QED
      BY <1>11, <2>2
  <1>15. \A e \in DOMAIN entries : IsMoving(e)' <=> IsMoving(e)
    BY <1>1, <1>11 DEF IsMoving
  <1>16. RecordTypes'
    <2>1. runs' \in Seq(RunType)
      BY <1>0, <1>6, <1>7, UpdatesAreTyped DEF RecordTypes
    <2>2. entries' \in Seq(EntryType)
      <3>1. DOMAIN entries = 1 .. Len(entries) /\ Len(entries) \in Nat
        BY <1>0, RecordFacts
      <3>2. entries' \in [1 .. Len(entries) -> EntryType]
        BY <1>9, <1>10, <3>1
      <3> QED
        BY <3>1, <3>2, SeqDef
    <2> QED
      BY <1>0, <1>1, <2>1, <2>2 DEF RecordTypes
  <1>17. UNCHANGED <<state, observed, late, next, lines, lock>>
    BY <1>1
  <1>18. RunsFollow'
    BY <1>0, <1>8, <1>9, <1>10, <1>11, <1>13, <1>17 DEF RunsFollow, IsHome, IsRecorded
  <1>19. EntriesFollow'
    <2>1. ASSUME NEW e \in DOMAIN entries
          PROVE  /\ entries[e].in # Test => entries[e].in \in DOMAIN runs' /\ runs'[entries[e].in].slot < e
                 /\ Loose <= entries[e].home /\ entries[e].home <= entries[e].in /\ IsHome(entries[e].home)
                 /\ entries[e].in # Test => entries[e].home \in Way(runs', entries[e].in)
                 /\ entries[e].in = Test => entries[e].parent = 0 /\ ~ entries'[e].missed
                 /\ entries[e].in # Test /\ entries[e].parent = 0 => entries[e].home = entries[e].in
                 /\ entries[e].in # Test /\ entries[e].parent # 0 =>
                      /\ entries[e].parent = runs'[entries[e].in].slot
                      /\ entries[e].run = runs'[entries[e].in].number
                      /\ Swapped(runs'[entries[e].in]) /\ entries[e].home < entries[e].in
                 /\ entries[e].call <=> entries[e].stage \notin {"open", "gone"}
                 /\ entries[e].stage = "to_test" => entries[e].home = Test
      BY <1>0, <1>8, <1>10, <1>12, <1>13 DEF EntriesFollow
    <2> QED
      BY <1>9, <1>10, <1>17, <2>1 DEF EntriesFollow, IsHome, IsRecorded
  <1>20. ListsHold'
    <2>1. ASSUME NEW q \in DOMAIN runs
          PROVE  /\ \A i \in DOMAIN runs'[q].list :
                      /\ runs'[q].list[i] \in DOMAIN entries' /\ entries'[runs'[q].list[i]].in # Test
                      /\ entries'[runs'[q].list[i]].home = q \/ (lock = q /\ i = 1)
                 /\ \A i, j \in DOMAIN runs'[q].list : runs'[q].list[i] = runs'[q].list[j] => i = j
      <3>1. CASE q = r
        <4>1. ASSUME NEW i \in DOMAIN rest
              PROVE  rest[i] \in DOMAIN entries /\ entries[rest[i]].in # Test /\ entries[rest[i]].home = r
          <5>1. PICK j \in DOMAIN list : list[j] = rest[i]
            BY <1>4
          <5> QED
            BY <1>0, <1>11, <5>1 DEF ListsHold
        <4> QED
          BY <1>4, <1>8, <1>9, <1>10, <3>1, <4>1
      <3>2. CASE q # r
        BY <1>0, <1>8, <1>9, <1>10, <1>11, <3>2 DEF ListsHold
      <3> QED
        BY <3>1, <3>2
    <2>2. ASSUME NEW e \in DOMAIN entries, ~ entries'[e].missed, entries'[e].home > 0
          PROVE  /\ runs'[entries'[e].home].stage # "taken"
                 /\ \E i \in DOMAIN runs'[entries'[e].home].list : runs'[entries'[e].home].list[i] = e
      <3>1. ~ entries[e].missed /\ entries[e].home > 0 /\ e \notin D /\ entries[e].home \in DOMAIN runs
        BY <1>0, <1>10, <2>2, HomesAreRuns
      <3>2. /\ runs[entries[e].home].stage # "taken"
            /\ \E i \in DOMAIN runs[entries[e].home].list : runs[entries[e].home].list[i] = e
        BY <1>0, <3>1 DEF ListsHold
      <3>3. CASE entries[e].home = r
        BY <1>5, <1>8, <1>10, <3>1, <3>2, <3>3
      <3>4. CASE entries[e].home # r
        BY <1>8, <1>10, <3>1, <3>2, <3>4
      <3> QED
        BY <3>3, <3>4
    <2>3. lock # 0 => /\ lock \in DOMAIN runs' /\ runs'[lock].stage = "swapped"
                      /\ runs'[lock].list # <<>> /\ runs'[lock].home = Test
                      /\ entries'[Head(runs'[lock].list)].home = Test
                      /\ lock \in Way(runs', entries'[Head(runs'[lock].list)].in)
      BY <1>0, <1>8, <1>10, <1>11, <1>13, <1>14 DEF ListsHold
    <2> QED
      BY <1>8, <1>9, <1>17, <2>1, <2>2, <2>3 DEF ListsHold
  <1>21. NumbersCount'
    BY <1>0, <1>9, <1>10, <1>11, <1>17 DEF NumbersCount, IsMoving
  <1>22. ParentsGoAhead'
    <2> SUFFICES ASSUME NEW p \in DOMAIN runs, ~ entries'[runs[p].slot].missed
                 PROVE  /\ Swapped(runs'[p]) => entries[runs[p].slot].home \in Way(runs', runs'[p].home)
                        /\ \A e \in DOMAIN entries :
                             entries[e].in = p =>
                               /\ entries[e].parent # 0 =>
                                    /\ entries[runs[p].slot].home \in Way(runs', entries[e].home)
                                    /\ \A q \in DOMAIN runs' : \A i, j \in DOMAIN runs'[q].list :
                                         runs'[q].list[i] = e /\ runs'[q].list[j] = runs[p].slot => j < i
                               /\ entries[e].seq # 0 =>
                                    entries[runs[p].slot].seq # 0 /\ entries[runs[p].slot].seq < entries[e].seq
      BY <1>8, <1>9, <1>10, <1>11 DEF ParentsGoAhead
    <2>0. ~ entries[runs[p].slot].missed
      BY <1>10, <1>11
    <2>1. Swapped(runs'[p]) => entries[runs[p].slot].home \in Way(runs', runs'[p].home)
      BY <1>0, <1>8, <1>13, <2>0 DEF ParentsGoAhead
    <2>2. ASSUME NEW e \in DOMAIN entries, entries[e].in = p
          PROVE  /\ entries[e].parent # 0 =>
                      /\ entries[runs[p].slot].home \in Way(runs', entries[e].home)
                      /\ \A q \in DOMAIN runs' : \A i, j \in DOMAIN runs'[q].list :
                           runs'[q].list[i] = e /\ runs'[q].list[j] = runs[p].slot => j < i
                 /\ entries[e].seq # 0 =>
                      entries[runs[p].slot].seq # 0 /\ entries[runs[p].slot].seq < entries[e].seq
      <3>1. /\ entries[e].parent # 0 =>
                 /\ entries[runs[p].slot].home \in Way(runs, entries[e].home)
                 /\ \A q \in DOMAIN runs : \A i, j \in DOMAIN runs[q].list :
                      runs[q].list[i] = e /\ runs[q].list[j] = runs[p].slot => j < i
            /\ entries[e].seq # 0 =>
                 entries[runs[p].slot].seq # 0 /\ entries[runs[p].slot].seq < entries[e].seq
        BY <1>0, <2>0, <2>2 DEF ParentsGoAhead
      <3>2. ASSUME NEW q \in DOMAIN runs, NEW i \in DOMAIN runs'[q].list, NEW j \in DOMAIN runs'[q].list,
                   runs'[q].list[i] = e, runs'[q].list[j] = runs[p].slot, entries[e].parent # 0
            PROVE  j < i
        <4>1. CASE q = r
          <5>1. i \in DOMAIN rest /\ j \in DOMAIN rest /\ rest[i] = e /\ rest[j] = runs[p].slot
            BY <1>8, <3>2, <4>1
          <5>2. PICK m \in DOMAIN list : list[m] = rest[i]
            BY <1>4, <5>1
          <5>3. PICK n \in DOMAIN list : list[n] = rest[j]
            BY <1>4, <5>1
          <5>4. n < m
            BY <3>1, <3>2, <5>1, <5>2, <5>3
          <5> QED
            BY <1>4, <5>1, <5>2, <5>3, <5>4
        <4>2. CASE q # r
          BY <1>8, <3>1, <3>2, <4>2
        <4> QED
          BY <4>1, <4>2
      <3> QED
        BY <1>8, <1>13, <3>1, <3>2
    <2> QED
      BY <2>1, <2>2
  <1>23. LinesTell'
    <2>1. ASSUME NEW i \in DOMAIN lines
          PROVE  LET z == lines[i].entry
                 IN  /\ z \in DOMAIN entries' /\ lines[i].seq = entries'[z].seq /\ entries'[z].seq # 0
                     /\ entries'[z].in = Test => lines[i].parent = 0
                     /\ entries'[z].in # Test =>
                          LET t == runs'[entries'[z].in].slot
                          IN  /\ lines[i].run = runs'[entries'[z].in].number
                              /\ entries'[t].missed \/ lines[i].parent = entries'[t].seq
      BY <1>0, <1>8, <1>9, <1>10, <1>11 DEF LinesTell
    <2>2. ASSUME NEW e \in DOMAIN entries
          PROVE  /\ entries'[e].home = Test /\ ~ IsMoving(e)' /\ entries'[e].call
                    /\ entries'[e].stage \notin {"called", "to_test"} => \E i \in DOMAIN lines : lines[i].entry = e
                 /\ observed /\ entries'[e].home \in {Test, Loose} /\ ~ IsMoving(e)'
                    /\ entries'[e].stage = "ended" => entries'[e].told = 1
                 /\ entries'[e].told = 1 => entries'[e].home \in {Test, Loose}
      BY <1>0, <1>10, <1>15 DEF LinesTell
    <2> QED
      BY <1>9, <1>17, <2>1, <2>2 DEF LinesTell
  <1>24. ASSUME ~ late PROVE InTheirRuns' /\ OneLineEach'
    <2>0. InTheirRuns /\ OneLineEach /\ OpenIn(r) = {}
      BY <1>0, <1>1, <1>24
    <2>1. OneLineEach'
      BY <1>9, <1>10, <1>11, <1>15, <1>17, <2>0 DEF OneLineEach
    <2>2. \A e \in DOMAIN entries :
            entries[e].in # Test /\ (runs[entries[e].in].stage # "body" \/ entries[e].in = r) =>
              entries[e].stage \in {"ended", "gone"}
      BY <2>0 DEF InTheirRuns, OpenIn, Within
    <2>3. ASSUME NEW e \in D
          PROVE  /\ runs'[entries[e].in].stage # "body"
                 /\ \A q \in DOMAIN runs' : \A i \in DOMAIN runs'[q].list : runs'[q].list[i] # e
      <3>1. entries[e].in \in DOMAIN runs
        BY <1>11, <1>12
      <3>2. runs'[entries[e].in].stage # "body"
        <4>1. CASE entries[e].in = r
          BY <1>8, <4>1
        <4>2. CASE entries[e].in # r
          <5>1. Swapped(runs[entries[e].in])
            BY <1>0, <1>12, <4>2, KeptCallsAreHome
          <5> QED
            BY <1>8, <3>1, <5>1 DEF Swapped
        <4> QED
          BY <4>1, <4>2
      <3>3. ASSUME NEW q \in DOMAIN runs, q # r, NEW i \in DOMAIN runs[q].list, runs[q].list[i] = e PROVE FALSE
        <4>1. lock = q /\ i = 1
          BY <1>0, <1>12, <3>3 DEF ListsHold
        <4>2. lock # 0 /\ Head(runs[lock].list) = runs[lock].list[1]
          <5>1. q # 0 /\ runs[q].list \in Seq(Nat)
            BY <1>0, RecordFacts DEF RunType
          <5> QED
            BY <3>3, <4>1, <5>1
        <4>3. entries[e].home = Test
          BY <1>0, <3>3, <4>1, <4>2 DEF ListsHold
        <4> QED
          BY <1>3, <1>12, <4>3
      <3> QED
        BY <1>5, <1>8, <3>2, <3>3
    <2>4. ASSUME NEW e \in DOMAIN entries
          PROVE  /\ entries'[e].in # Test /\ runs'[entries'[e].in].stage # "body" => entries'[e].stage \in {"ended", "gone"}
                 /\ entries'[e].in # Test => entries'[e].stage # "to_test"
                 /\ entries'[e].missed =>
                      /\ entries'[e].home > 0 /\ runs'[entries'[e].in].stage # "body"
                      /\ \A q \in DOMAIN runs' : \A i \in DOMAIN runs'[q].list : runs'[q].list[i] # e
      <3>1. /\ entries'[e].in # Test /\ runs'[entries'[e].in].stage # "body" => entries'[e].stage \in {"ended", "gone"}
            /\ entries'[e].in # Test => entries'[e].stage # "to_test"
        BY <1>8, <1>10, <1>11, <2>0, <2>2 DEF InTheirRuns
      <3>2. CASE e \in D
        BY <1>3, <1>10, <1>12, <2>3, <3>1, <3>2
      <3>3. CASE entries[e].missed
        <4>1. entries[e].in # Test
          BY <1>0, <3>3 DEF EntriesFollow
        <4>2. entries[e].home > 0 /\ runs[entries[e].in].stage # "body"
              /\ \A q \in DOMAIN runs : \A i \in DOMAIN runs[q].list : runs[q].list[i] # e
          BY <2>0, <3>3 DEF InTheirRuns
        <4>3. \A q \in DOMAIN runs' : \A i \in DOMAIN runs'[q].list : runs'[q].list[i] # e
          BY <1>4, <1>8, <4>2
        <4> QED
          BY <1>8, <1>10, <1>11, <3>1, <4>1, <4>2, <4>3
      <3> QED
        BY <1>10, <3>1, <3>2, <3>3
    <2>5. ASSUME NEW p \in DOMAIN runs
          PROVE  LET t == runs'[p].slot
                 IN  /\ Swapped(runs'[p]) /\ entries'[t].in # Test => runs'[p].home = entries'[t].in
                     /\ \A i \in DOMAIN runs'[p].list : entries'[runs'[p].list[i]].steps <= runs'[p].steps
                     /\ \A e \in DOMAIN entries' :
                          entries'[e].in = p =>
                            /\ entries'[t].missed => entries'[e].missed
                            /\ entries'[e].parent # 0 /\ entries'[e].home = entries'[t].home /\ entries'[e].home > 0
                               /\ ~ entries'[e].missed => entries'[t].steps <= entries'[e].steps
      <3>1. Swapped(runs'[p]) /\ entries'[runs[p].slot].in # Test => runs'[p].home = entries'[runs[p].slot].in
        BY <1>8, <1>10, <1>11, <2>0 DEF InTheirRuns
      <3>2. ASSUME NEW i \in DOMAIN runs'[p].list PROVE entries'[runs'[p].list[i]].steps <= runs'[p].steps
        <4>1. PICK j \in DOMAIN runs[p].list : runs[p].list[j] = runs'[p].list[i]
          BY <1>4, <1>8, <3>2
        <4> QED
          BY <1>8, <1>10, <1>11, <2>0, <4>1 DEF InTheirRuns
      <3>3. ASSUME NEW e \in DOMAIN entries, entries[e].in = p, entries'[runs[p].slot].missed, ~ entries[e].missed
            PROVE  e \in D
        <4> DEFINE t == runs[p].slot
        <4>1. ~ entries[t].missed /\ t \in D /\ t \in DOMAIN entries
          BY <1>10, <1>11, <2>0, <3>3 DEF InTheirRuns
        <4>2. entries[t].home = r /\ entries[t].in \in DOMAIN runs /\ entries[t].in # Test
          BY <1>11, <1>12, <4>1
        <4>3. entries[t].stage # "open"
          <5>1. entries[t].in = r \/ runs[entries[t].in].stage # "body"
            BY <1>8, <2>3, <4>1, <4>2
          <5> QED
            BY <2>2, <4>1, <4>2, <5>1
        <4>4. runs[p].stage = "taken"
          BY <1>0, <4>3 DEF RunsFollow
        <4>5. entries[e].parent # 0 /\ entries[e].in # Test
          <5>1. entries[e].in # Test
            BY <1>0, <3>3, RecordFacts DEF Test
          <5>2. ASSUME entries[e].parent = 0 PROVE FALSE
            <6>1. entries[e].home = p /\ p > 0
              BY <1>0, <3>3, <5>1, <5>2, RecordFacts DEF EntriesFollow
            <6> QED
              BY <1>0, <3>3, <4>4, <6>1 DEF ListsHold
          <5> QED
            BY <5>1, <5>2
        <4>6. r \in Way(runs, entries[e].home)
          BY <1>0, <3>3, <4>1, <4>2, <4>5 DEF ParentsGoAhead
        <4>7. entries[e].home > 0
          <5>1. entries[e].home \in Int
            BY <1>0, RecordFacts DEF EntryType
          <5>2. r <= entries[e].home
            BY <1>0, <4>6, <5>1, WayGoesDown, HomesAreNumbers
          <5> QED
            BY <1>3, <5>1, <5>2
        <4>8. entries[e].home = r
          <5>1. entries[e].home \in DOMAIN runs /\ runs[entries[e].home].stage # "taken"
            BY <1>0, <3>3, <4>7, HomesAreRuns DEF ListsHold
          <5> QED
            BY <1>0, <1>1, <2>0, <4>6, <5>1, RunsWithinAreOver
        <4>9. entries[t].steps <= entries[e].steps
          BY <2>0, <3>3, <4>2, <4>5, <4>7, <4>8 DEF InTheirRuns
        <4>10. PICK i \in DOMAIN list : list[i] = e
          BY <1>0, <3>3, <4>7, <4>8 DEF ListsHold
        <4>11. PICK j \in DOMAIN list : list[j] = t
          BY <1>5, <4>1
        <4>12. ~ (entries[t].steps < k)
          BY <1>4, <1>5, <4>1, <4>11
        <4>13. ~ (entries[e].steps < k)
          <5>1. entries[t].steps \in Nat /\ entries[e].steps \in Nat /\ k \in Nat
            BY <1>0, <4>1, RecordFacts DEF EntryType
          <5> QED
            BY <4>9, <4>12, <5>1
        <4>14. ASSUME NEW i2 \in DOMAIN rest, rest[i2] = e PROVE FALSE
          <5>1. \E j2 \in DOMAIN list : list[j2] = e /\ entries[list[j2]].steps < k
            BY <1>4, <4>14
          <5> QED
            BY <4>13, <5>1
        <4> QED
          BY <1>5, <4>10, <4>14
      <3>4. ASSUME NEW e \in DOMAIN entries, entries[e].in = p
            PROVE  /\ entries'[runs[p].slot].missed => entries'[e].missed
                   /\ entries'[e].parent # 0 /\ entries'[e].home = entries'[runs[p].slot].home /\ entries'[e].home > 0
                      /\ ~ entries'[e].missed => entries'[runs[p].slot].steps <= entries'[e].steps
        BY <1>10, <1>11, <2>0, <3>3, <3>4 DEF InTheirRuns
      <3>5. runs'[p].slot = runs[p].slot
        BY <1>8
      <3> QED
        BY <1>9, <1>10, <3>1, <3>2, <3>4, <3>5
    <2>6. InTheirRuns'
      BY <1>8, <1>9, <2>4, <2>5 DEF InTheirRuns
    <2> QED
      BY <2>1, <2>6
  <1> QED
    BY <1>16, <1>17, <1>18, <1>19, <1>20, <1>21, <1>22, <1>23, <1>24 DEF RecordsInductive

-----------------------------------------------------------------------------
(***************************************************************************)
(* A call that moves.                                                      *)
(***************************************************************************)
LEMMA NextToMove ==
  ASSUME RecordsInductive, NEW r \in DOMAIN runs, runs[r].stage = "swapped", runs[r].list # <<>>, lock # r,
         NEW e, e = Head(runs[r].list)
  PROVE  /\ runs[r].list \in Seq(Nat) /\ 1 \in DOMAIN runs[r].list /\ runs[r].list[1] = e
         /\ e \in DOMAIN entries /\ entries[e] \in EntryType /\ r \in Int /\ r > 0
         /\ entries[e].in # Test /\ entries[e].in \in DOMAIN runs /\ entries[e].in \in Int
         /\ entries[e].home = r /\ r <= entries[e].in
         /\ entries[e].seq = 0 /\ entries[e].told = 0 /\ entries[e].stage # "to_test" /\ ~ IsMoving(e)
         /\ \A q \in DOMAIN runs : \A i \in DOMAIN runs[q].list : runs[q].list[i] = e => q = r /\ i = 1
         /\ Swapped(runs[entries[e].in]) /\ runs[entries[e].in].slot \in DOMAIN entries
         /\ runs[entries[e].in].slot < e /\ runs[entries[e].in].slot # 0
         /\ runs[r].home \in Int /\ runs[r].home < r /\ Loose <= runs[r].home /\ IsHome(runs[r].home)
         /\ runs[r].home \in Way(runs, entries[e].in)
         /\ Moved(e, r) \in EntryType /\ Moved(e, r).home = runs[r].home
         /\ Moved(e, r).parent = runs[entries[e].in].slot /\ Moved(e, r).run = runs[entries[e].in].number
         /\ Moved(e, r).in = entries[e].in /\ Moved(e, r).seq = entries[e].seq /\ Moved(e, r).steps = entries[e].steps
         /\ Moved(e, r).call = entries[e].call /\ Moved(e, r).told = entries[e].told
         /\ Moved(e, r).stage = entries[e].stage /\ Moved(e, r).missed = entries[e].missed
  <1>0. /\ RecordTypes /\ RunsFollow /\ EntriesFollow /\ ListsHold /\ NumbersCount /\ LinesTell
    BY DEF RecordsInductive
  <1>1. runs[r] \in RunType /\ r \in Nat /\ r > 0 /\ r \in Int
    BY <1>0, RecordFacts
  <1>2. runs[r].list \in Seq(Nat) /\ 1 \in DOMAIN runs[r].list /\ runs[r].list[1] = e
    <2>1. runs[r].list \in Seq(Nat)
      BY <1>1 DEF RunType
    <2> QED
      BY <2>1
  <1>3. e \in DOMAIN entries /\ entries[e].in # Test /\ entries[e].home = r
    BY <1>0, <1>2 DEF ListsHold
  <1>4. entries[e].in \in DOMAIN runs /\ runs[entries[e].in].slot < e /\ r <= entries[e].in
        /\ r \in Way(runs, entries[e].in)
    BY <1>0, <1>3 DEF EntriesFollow
  <1>5. entries[e] \in EntryType /\ entries[e].in \in Int /\ runs[entries[e].in] \in RunType
    BY <1>0, <1>3, <1>4, RecordFacts DEF EntryType
  <1>6. entries[e].seq = 0 /\ entries[e].told = 0 /\ entries[e].stage # "to_test"
    <2>1. entries[e].home # Test /\ entries[e].home # Loose
      BY <1>1, <1>3 DEF Test, Loose
    <2> QED
      BY <1>0, <1>3, <1>5, <2>1 DEF NumbersCount, EntriesFollow, LinesTell, EntryType
  <1>7. ~ IsMoving(e)
    <2>1. entries[e].home # Test
      BY <1>1, <1>3 DEF Test
    <2> QED
      BY <1>0, <1>3, <2>1 DEF ListsHold, IsMoving
  <1>8. ASSUME NEW q \in DOMAIN runs, NEW i \in DOMAIN runs[q].list, runs[q].list[i] = e
        PROVE  q = r /\ i = 1
    <2>1. CASE q = r
      BY <1>0, <1>2, <1>8, <2>1 DEF ListsHold
    <2>2. CASE q # r
      <3>1. lock = q /\ i = 1
        BY <1>0, <1>3, <1>8, <2>2 DEF ListsHold
      <3>2. q # 0 /\ runs[q].list \in Seq(Nat)
        BY <1>0, RecordFacts DEF RunType
      <3>3. Head(runs[q].list) = e
        BY <1>8, <3>1, <3>2
      <3> QED
        BY <1>7, <3>1, <3>2, <3>3 DEF IsMoving
    <2> QED
      BY <2>1, <2>2
  <1>9. Swapped(runs[r])
    BY DEF Swapped
  <1>10. Swapped(runs[entries[e].in])
    BY <1>0, <1>3, <1>9, KeptCallsAreHome
  <1>11. runs[entries[e].in].slot \in DOMAIN entries /\ runs[entries[e].in].slot # 0
    <2>1. runs[entries[e].in].slot \in DOMAIN entries
      BY <1>0, <1>4 DEF RunsFollow
    <2> QED
      BY <1>0, <2>1, RecordFacts
  <1>12. runs[r].home \in Int /\ runs[r].home < r /\ Loose <= runs[r].home /\ IsHome(runs[r].home)
    BY <1>0, <1>1, <1>9 DEF RunsFollow, RunType
  <1>13. runs[r].home \in Way(runs, entries[e].in)
    BY <1>4, <1>9, <1>12, WayGoesOn
  <1>14. /\ entries[e].parent = 0 => entries[e].in = r
         /\ entries[e].parent # 0 => /\ entries[e].parent = runs[entries[e].in].slot
                                     /\ entries[e].run = runs[entries[e].in].number
    BY <1>0, <1>3 DEF EntriesFollow
  <1>15. /\ Moved(e, r).parent = runs[entries[e].in].slot /\ Moved(e, r).run = runs[entries[e].in].number
         /\ Moved(e, r).home = runs[r].home
         /\ Moved(e, r).in = entries[e].in /\ Moved(e, r).seq = entries[e].seq /\ Moved(e, r).steps = entries[e].steps
         /\ Moved(e, r).call = entries[e].call /\ Moved(e, r).told = entries[e].told
         /\ Moved(e, r).stage = entries[e].stage /\ Moved(e, r).missed = entries[e].missed
    <2> DEFINE pa == IF entries[e].parent = 0 THEN runs[r].slot ELSE entries[e].parent
               ru == IF entries[e].parent = 0 THEN runs[r].number ELSE entries[e].run
    <2>1. pa = runs[entries[e].in].slot /\ ru = runs[entries[e].in].number
      BY <1>14
    <2>2. Moved(e, r) = [entries[e] EXCEPT !.parent = pa, !.run = ru, !.home = runs[r].home]
      BY DEF Moved
    <2> HIDE DEF pa, ru
    <2> QED
      BY <1>5, <2>1, <2>2 DEF EntryType
  <1>16. Moved(e, r) \in EntryType
    <2> DEFINE pa == IF entries[e].parent = 0 THEN runs[r].slot ELSE entries[e].parent
               ru == IF entries[e].parent = 0 THEN runs[r].number ELSE entries[e].run
    <2>1. pa \in Nat /\ ru \in Nat
      BY <1>1, <1>5 DEF RunType, EntryType
    <2>2. Moved(e, r) = [entries[e] EXCEPT !.parent = pa, !.run = ru, !.home = runs[r].home]
      BY DEF Moved
    <2> HIDE DEF pa, ru
    <2> QED
      BY <1>5, <1>12, <2>1, <2>2 DEF EntryType
  <1> QED
    BY <1>1, <1>2, <1>3, <1>4, <1>5, <1>6, <1>7, <1>8, <1>10, <1>11, <1>12, <1>13, <1>15, <1>16

\* The homes of the calls and of their parents after a call has moved.
LEMMA ParentsStayAhead ==
  ASSUME RecordsInductive, NEW r \in DOMAIN runs, runs[r].stage = "swapped", runs[r].list # <<>>, lock # r,
         NEW e, e = Head(runs[r].list), NEW p \in DOMAIN runs, NEW s, s = runs[p].slot, ~ entries[s].missed,
         NEW homes, \A f \in DOMAIN entries : homes[f] = IF f = e THEN runs[r].home ELSE entries[f].home
  PROVE  /\ Swapped(runs[p]) => homes[s] \in Way(runs, runs[p].home)
         /\ \A f \in DOMAIN entries :
              entries[f].in = p /\ (entries[f].parent # 0 \/ f = e) => homes[s] \in Way(runs, homes[f])
  <1>0. /\ RecordTypes /\ RunsFollow /\ EntriesFollow /\ ListsHold /\ ParentsGoAhead
    BY DEF RecordsInductive
  <1>1. /\ runs[r].list[1] = e /\ 1 \in DOMAIN runs[r].list /\ e \in DOMAIN entries
        /\ entries[e].home = r /\ r \in Int /\ r > 0
        /\ runs[r].home \in Int /\ Swapped(runs[r]) /\ runs[entries[e].in].slot < e
        /\ \A i \in DOMAIN runs[r].list : i >= 1
    <2>1. runs[r].list \in Seq(Nat)
      BY NextToMove
    <2> QED
      BY <2>1, NextToMove DEF Swapped
  <1>2. s \in DOMAIN entries
    BY <1>0 DEF RunsFollow
  <1>3. \A z : r \in Way(runs, z) => runs[r].home \in Way(runs, z)
    BY <1>1, WayGoesOn
  <1>4. /\ Swapped(runs[p]) => entries[s].home \in Way(runs, runs[p].home)
        /\ \A f \in DOMAIN entries :
             entries[f].in = p /\ entries[f].parent # 0 =>
               /\ entries[s].home \in Way(runs, entries[f].home)
               /\ \A q \in DOMAIN runs : \A i, j \in DOMAIN runs[q].list :
                    runs[q].list[i] = f /\ runs[q].list[j] = s => j < i
    BY <1>0 DEF ParentsGoAhead
  <1>5. ASSUME NEW z, entries[s].home \in Way(runs, z) PROVE homes[s] \in Way(runs, z)
    BY <1>1, <1>2, <1>3, <1>5
  <1>6. ASSUME entries[e].in = p PROVE homes[s] \in Way(runs, runs[r].home)
    <2>1. s # e /\ homes[s] = entries[s].home
      <3>1. s < e
        BY <1>1, <1>6
      <3>2. s \in Int /\ e \in Int
        BY <1>0, <1>1, <1>2, RecordFacts
      <3> QED
        BY <1>2, <3>1, <3>2
    <2>2. CASE entries[e].parent = 0
      <3>1. p = r
        BY <1>0, <1>1, <1>6, <2>2, NextToMove DEF EntriesFollow
      <3> QED
        BY <1>1, <1>4, <2>1, <3>1
    <2>3. CASE entries[e].parent # 0
      <3>1. entries[s].home \in Way(runs, r)
        BY <1>1, <1>4, <1>6, <2>3
      <3>2. entries[s].home # r
        <4> SUFFICES ASSUME entries[s].home = r PROVE FALSE
          OBVIOUS
        <4>1. PICK j \in DOMAIN runs[r].list : runs[r].list[j] = s
          BY <1>0, <1>1, <1>2 DEF ListsHold
        <4>2. j < 1
          BY <1>1, <1>4, <1>6, <2>3, <4>1
        <4>3. runs[r].list \in Seq(Nat)
          BY NextToMove
        <4> QED
          BY <4>1, <4>2, <4>3
      <3>3. \A q \in DOMAIN runs : Swapped(runs[q]) => runs[q].home \in Int
        BY <1>0, HomesAreNumbers
      <3> QED
        BY <1>1, <2>1, <3>1, <3>2, <3>3, WayFromHome
    <2> QED
      BY <2>2, <2>3
  <1>7. ASSUME NEW f \in DOMAIN entries, entries[f].in = p, entries[f].parent # 0 \/ f = e
        PROVE  homes[s] \in Way(runs, homes[f])
    <2>1. CASE f = e
      BY <1>1, <1>6, <1>7, <2>1
    <2>2. CASE f # e
      BY <1>4, <1>5, <1>7, <2>2
    <2> QED
      BY <2>1, <2>2
  <1> QED
    BY <1>4, <1>5, <1>7

LEMMA MoveToRunKeeps ==
  ASSUME RecordsInductive, NEW r \in DOMAIN runs, MoveToRun(r)
  PROVE  RecordsInductive'
  <1>0. /\ RecordTypes /\ RunsFollow /\ EntriesFollow /\ ListsHold /\ NumbersCount /\ ParentsGoAhead /\ LinesTell
        /\ (~ late => InTheirRuns /\ OneLineEach)
    BY DEF RecordsInductive
  <1>1. PICK e : e = Head(runs[r].list)
    OBVIOUS
  <1>2. PICK h : h = runs[r].home
    OBVIOUS
  <1>3. /\ runs[r].stage = "swapped" /\ runs[r].list # <<>> /\ h # Test /\ lock # r
        /\ UNCHANGED <<state, observed, late, next, lines, lock>>
    <2>1. /\ runs[r].stage = "swapped" /\ runs[r].list # <<>> /\ runs[r].home # Test
          /\ UNCHANGED <<state, observed, late, next, lines, lock>>
      BY DEF MoveToRun
    <2>2. r # 0
      BY <1>0, RecordFacts
    <2> QED
      BY <1>0, <1>2, <2>1, <2>2 DEF ListsHold
  <1>4. /\ runs[r].list \in Seq(Nat) /\ 1 \in DOMAIN runs[r].list /\ runs[r].list[1] = e
        /\ e \in DOMAIN entries /\ entries[e] \in EntryType /\ r \in Int /\ r > 0
        /\ entries[e].in # Test /\ entries[e].in \in DOMAIN runs /\ entries[e].in \in Int
        /\ entries[e].home = r /\ r <= entries[e].in
        /\ entries[e].seq = 0 /\ entries[e].told = 0 /\ entries[e].stage # "to_test" /\ ~ IsMoving(e)
        /\ \A q \in DOMAIN runs : \A i \in DOMAIN runs[q].list : runs[q].list[i] = e => q = r /\ i = 1
        /\ Swapped(runs[entries[e].in]) /\ runs[entries[e].in].slot \in DOMAIN entries
        /\ runs[entries[e].in].slot < e /\ runs[entries[e].in].slot # 0
        /\ h \in Int /\ h < r /\ Loose <= h /\ IsHome(h)
        /\ h \in Way(runs, entries[e].in)
    BY <1>1, <1>2, <1>3, NextToMove
  <1>5. /\ Moved(e, r) \in EntryType /\ Moved(e, r).home = h
        /\ Moved(e, r).parent = runs[entries[e].in].slot /\ Moved(e, r).run = runs[entries[e].in].number
        /\ Moved(e, r).in = entries[e].in /\ Moved(e, r).seq = 0 /\ Moved(e, r).steps = entries[e].steps
        /\ Moved(e, r).call = entries[e].call /\ Moved(e, r).told = 0
        /\ Moved(e, r).stage = entries[e].stage /\ Moved(e, r).missed = entries[e].missed
    BY <1>1, <1>2, <1>3, <1>4, NextToMove
  <1>6. h = Loose \/ (h > 0 /\ h \in DOMAIN runs /\ h # r /\ runs[h] \in RunType)
    <2>1. h # Loose => h > 0
      BY <1>3, <1>4 DEF Test, Loose
    <2>2. h > 0 => h \in DOMAIN runs /\ h # r
      BY <1>0, <1>4, RecordFacts
    <2> QED
      BY <1>0, <2>1, <2>2, RecordFacts
  <1> DEFINE m == Moved(e, r).missed \/ ~ Gathers(h)
             z == IF h = Loose THEN Told(Moved(e, r)) ELSE [Moved(e, r) EXCEPT !.steps = runs[h].steps, !.missed = m]
  <1>7. entries' = [entries EXCEPT ![e] = z]
    BY <1>1, <1>2, <1>3 DEF MoveToRun
  <1>8. /\ z \in EntryType /\ z.in = entries[e].in /\ z.seq = 0 /\ z.call = entries[e].call
        /\ z.stage = entries[e].stage /\ z.home = h /\ z.parent = runs[entries[e].in].slot
        /\ z.run = runs[entries[e].in].number /\ (entries[e].missed => z.missed)
        /\ h = Loose => /\ z.missed <=> entries[e].missed
                        /\ observed /\ entries[e].call => z.told = 1
        /\ h # Loose => /\ z.told = 0 /\ z.steps = runs[h].steps
                        /\ z.missed <=> (entries[e].missed \/ ~ Gathers(h))
    <2>1. CASE h = Loose
      <3>1. z = Told(Moved(e, r))
        BY <2>1
      <3> HIDE DEF z
      <3>2. PICK w \in EntryType : w = Moved(e, r)
        BY <1>5
      <3>3. z = IF observed /\ w.call /\ w.told = 0 THEN [w EXCEPT !.told = 1] ELSE w
        BY <3>1, <3>2 DEF Told
      <3>4. /\ z \in EntryType /\ z.in = w.in /\ z.seq = w.seq /\ z.call = w.call /\ z.stage = w.stage
            /\ z.home = w.home /\ z.parent = w.parent /\ z.run = w.run /\ z.missed = w.missed
            /\ observed /\ w.call /\ w.told = 0 => z.told = 1
        BY <3>3 DEF EntryType
      <3> QED
        BY <1>5, <2>1, <3>2, <3>4
    <2>2. CASE h # Loose
      <3>1. z = [Moved(e, r) EXCEPT !.steps = runs[h].steps, !.missed = m]
        BY <2>2
      <3>2. m \in BOOLEAN /\ (m <=> (entries[e].missed \/ ~ Gathers(h)))
        BY <1>5
      <3>3. runs[h].steps \in Nat
        BY <1>6, <2>2 DEF RunType
      <3> HIDE DEF z, m
      <3>4. PICK w \in EntryType : w = Moved(e, r)
        BY <1>5
      <3>5. z = [w EXCEPT !.steps = runs[h].steps, !.missed = m]
        BY <3>1, <3>4
      <3>6. /\ z \in EntryType /\ z.in = w.in /\ z.seq = w.seq /\ z.call = w.call /\ z.stage = w.stage
            /\ z.home = w.home /\ z.parent = w.parent /\ z.run = w.run /\ z.told = w.told
            /\ z.steps = runs[h].steps /\ (z.missed <=> m)
        BY <3>2, <3>3, <3>5 DEF EntryType
      <3> QED
        BY <1>5, <2>2, <3>2, <3>4, <3>6
    <2> QED
      BY <2>1, <2>2
  <1> HIDE DEF z, m
  <1>9. /\ DOMAIN entries' = DOMAIN entries /\ entries'[e] = z /\ \A f \in DOMAIN entries : f # e => entries'[f] = entries[f]
        /\ \A f \in DOMAIN entries :
             /\ entries'[f].in = entries[f].in /\ entries'[f].seq = entries[f].seq /\ entries'[f].call = entries[f].call
             /\ entries'[f].stage = entries[f].stage /\ (entries[f].missed => entries'[f].missed)
             /\ entries'[f].home = IF f = e THEN h ELSE entries[f].home
    BY <1>4, <1>7, <1>8
  <1> DEFINE pos(q, i) == IF q = r THEN i + 1 ELSE i
  <1>10. /\ runs' \in Seq(RunType) /\ DOMAIN runs' = DOMAIN runs
         /\ \A q \in DOMAIN runs :
              /\ runs'[q].slot = runs[q].slot /\ runs'[q].stage = runs[q].stage /\ runs'[q].number = runs[q].number
              /\ runs'[q].home = runs[q].home /\ runs'[q].steps = runs[q].steps
              /\ runs'[q].list = (IF q = r THEN Tail(runs[r].list)
                                  ELSE IF q = h /\ Gathers(h) THEN Append(runs[q].list, e)
                                  ELSE runs[q].list)
    <2>1. Tail(runs[r].list) \in Seq(Nat)
      BY <1>3, <1>4, HeadTailProperties
    <2>2. runs[r] \in RunType /\ runs \in Seq(RunType)
      BY <1>0, RecordFacts DEF RecordTypes
    <2>3. [runs[r] EXCEPT !.list = Tail(@)] \in RunType
      BY <2>1, <2>2 DEF RunType
    <2> DEFINE rs == [runs EXCEPT ![r] = [runs[r] EXCEPT !.list = Tail(@)]]
    <2>4. rs \in Seq(RunType) /\ rs[r] \in RunType /\ DOMAIN rs = DOMAIN runs
      BY <2>2, <2>3, UpdatesAreTyped
    <2>5. /\ rs[r].slot = runs[r].slot /\ rs[r].stage = runs[r].stage /\ rs[r].number = runs[r].number
          /\ rs[r].home = runs[r].home /\ rs[r].steps = runs[r].steps /\ rs[r].list = Tail(runs[r].list)
          /\ \A q \in DOMAIN runs : q # r => rs[q] = runs[q]
      BY <2>2 DEF RunType
    <2>6. CASE h = Loose
      <3>1. runs' = rs
        BY <1>2, <1>3, <2>6 DEF MoveToRun
      <3> HIDE DEF rs
      <3>2. h \notin DOMAIN runs
        BY <1>0, <2>6, RecordFacts DEF Loose
      <3> QED
        BY <2>4, <2>5, <3>1, <3>2
    <2>8. CASE h # Loose /\ ~ Gathers(h)
      <3>1. runs' = [runs EXCEPT ![r].list = Tail(@), ![h].list = @]
        BY <1>1, <1>2, <1>3, <2>8 DEF MoveToRun
      <3>2. h \in DOMAIN runs /\ h # r
        BY <1>6, <2>8
      <3>3. runs' = rs
        <4>1. ASSUME NEW q \in DOMAIN runs PROVE runs'[q] = rs[q]
          <5>1. CASE q = h
            <6>1. runs'[h] = [runs[h] EXCEPT !.list = @]
              BY <3>1, <3>2
            <6>2. [runs[h] EXCEPT !.list = @] = runs[h]
              BY <1>6, <2>8 DEF RunType
            <6> QED
              BY <3>2, <5>1, <6>1, <6>2
          <5>2. CASE q # h
            BY <3>1, <5>2
          <5> QED
            BY <5>1, <5>2
        <4>2. runs' = [q \in DOMAIN runs |-> runs'[q]] /\ rs = [q \in DOMAIN runs |-> rs[q]]
          BY <3>1
        <4> HIDE DEF rs
        <4> QED
          BY <4>1, <4>2
      <3> HIDE DEF rs
      <3> QED
        BY <2>4, <2>5, <2>8, <3>2, <3>3
    <2>7. CASE h # Loose /\ Gathers(h)
      <3>1. runs' = [rs EXCEPT ![h] = [rs[h] EXCEPT !.list = Append(@, e)]]
        <4>1. runs' = [runs EXCEPT ![r].list = Tail(@), ![h].list = Append(@, e)]
          <5>1. runs' = [runs EXCEPT ![r].list = Tail(@), ![h].list = IF Gathers(h) THEN Append(@, e) ELSE @]
            BY <1>1, <1>2, <1>3, <2>7 DEF MoveToRun
          <5> QED
            BY <2>7, <5>1
        <4>2. h \in DOMAIN runs /\ h # r
          BY <1>6, <2>7
        <4>3. \A q \in DOMAIN runs : runs'[q] = [rs EXCEPT ![h] = [rs[h] EXCEPT !.list = Append(@, e)]][q]
          BY <4>1, <4>2
        <4> QED
          BY <4>1, <4>3
      <3> HIDE DEF rs
      <3>2. rs[h] = runs[h] /\ h \in DOMAIN rs /\ h # r /\ runs[h] \in RunType
        BY <1>6, <2>4, <2>5, <2>7
      <3>3. Append(runs[h].list, e) \in Seq(Nat)
        <4>1. runs[h].list \in Seq(Nat) /\ e \in Nat
          BY <1>0, <1>4, <3>2, RecordFacts DEF RunType
        <4> QED
          BY <4>1, AppendProperties
      <3>4. [rs[h] EXCEPT !.list = Append(@, e)] \in RunType
        BY <3>2, <3>3 DEF RunType
      <3>5. runs' \in Seq(RunType)
        BY <2>4, <3>1, <3>2, <3>4, UpdatesAreTyped
      <3>6. /\ runs'[h].slot = runs[h].slot /\ runs'[h].stage = runs[h].stage /\ runs'[h].number = runs[h].number
            /\ runs'[h].home = runs[h].home /\ runs'[h].steps = runs[h].steps /\ runs'[h].list = Append(runs[h].list, e)
            /\ DOMAIN runs' = DOMAIN rs /\ \A q \in DOMAIN rs : q # h => runs'[q] = rs[q]
        BY <3>1, <3>2 DEF RunType
      <3> QED
        BY <2>4, <2>5, <2>7, <3>2, <3>5, <3>6
    <2> QED
      BY <2>6, <2>7, <2>8
  <1>11. /\ \A q \in DOMAIN runs : \A i \in DOMAIN runs'[q].list :
              \/ /\ pos(q, i) \in DOMAIN runs[q].list /\ runs'[q].list[i] = runs[q].list[pos(q, i)]
                 /\ runs'[q].list[i] # e
              \/ h > 0 /\ q = h /\ runs'[q].list[i] = e /\ i = Len(runs[h].list) + 1
         /\ \A q \in DOMAIN runs : \A j \in DOMAIN runs[q].list :
              runs[q].list[j] # e => \E i \in DOMAIN runs'[q].list : runs'[q].list[i] = runs[q].list[j]
         /\ h > 0 /\ Gathers(h) => \E i \in DOMAIN runs'[h].list : runs'[h].list[i] = e
         /\ \A q \in DOMAIN runs : \A i, j \in DOMAIN runs'[q].list : pos(q, i) < pos(q, j) => i < j
         /\ \A q \in DOMAIN runs : \A i \in DOMAIN runs'[q].list : i \in Nat
    <2>0. \A q \in DOMAIN runs : runs[q].list \in Seq(Nat)
      BY <1>0, RecordFacts DEF RunType
    <2>1. ASSUME NEW q \in DOMAIN runs
          PROVE  /\ \A i \in DOMAIN runs'[q].list :
                      /\ i \in Nat
                      /\ \/ /\ pos(q, i) \in DOMAIN runs[q].list /\ runs'[q].list[i] = runs[q].list[pos(q, i)]
                            /\ runs'[q].list[i] # e
                         \/ h > 0 /\ q = h /\ runs'[q].list[i] = e /\ i = Len(runs[h].list) + 1
                 /\ \A j \in DOMAIN runs[q].list :
                      runs[q].list[j] # e => \E i \in DOMAIN runs'[q].list : runs'[q].list[i] = runs[q].list[j]
      <3>1. CASE q = r
        <4>1. /\ runs'[q].list \in Seq(Nat) /\ Len(runs'[q].list) = Len(runs[r].list) - 1
              /\ \A i \in 1 .. Len(runs'[q].list) : runs'[q].list[i] = runs[r].list[i + 1]
          <5>1. runs'[q].list = Tail(runs[r].list)
            BY <1>10, <3>1
          <5> QED
            BY <1>3, <1>4, <5>1, HeadTailProperties
        <4>2. /\ DOMAIN runs'[q].list = 1 .. Len(runs'[q].list) /\ DOMAIN runs[r].list = 1 .. Len(runs[r].list)
              /\ Len(runs[r].list) \in Nat
          BY <1>4, <4>1, LenProperties
        <4>3. ASSUME NEW i \in DOMAIN runs'[q].list
              PROVE  i \in Nat /\ i + 1 \in DOMAIN runs[r].list /\ i + 1 # 1 /\ runs'[q].list[i] = runs[r].list[i + 1]
          BY <4>1, <4>2
        <4>4. ASSUME NEW j \in DOMAIN runs[r].list, j # 1
              PROVE  j - 1 \in DOMAIN runs'[q].list /\ runs'[q].list[j - 1] = runs[r].list[j]
          BY <4>1, <4>2, <4>4
        <4> QED
          BY <1>4, <3>1, <4>3, <4>4
      <3>2. CASE q # r /\ q = h /\ Gathers(h)
        <4>1. h > 0 /\ e \in Nat
          BY <1>0, <1>4, <1>6, <3>2, RecordFacts DEF Loose
        <4>2. /\ runs'[q].list \in Seq(Nat) /\ Len(runs'[q].list) = Len(runs[q].list) + 1
              /\ \A i \in 1 .. Len(runs[q].list) : runs'[q].list[i] = runs[q].list[i]
              /\ runs'[q].list[Len(runs[q].list) + 1] = e
          <5>1. runs'[q].list = Append(runs[q].list, e)
            BY <1>10, <3>2
          <5> QED
            BY <2>0, <4>1, <5>1, AppendProperties
        <4>3. /\ DOMAIN runs'[q].list = 1 .. Len(runs[q].list) + 1 /\ DOMAIN runs[q].list = 1 .. Len(runs[q].list)
              /\ Len(runs[q].list) \in Nat
          BY <2>0, <4>2, LenProperties
        <4>4. \A i \in DOMAIN runs'[q].list : i \in Nat /\ (i \in DOMAIN runs[q].list \/ i = Len(runs[q].list) + 1)
          BY <4>3
        <4>5. \A i \in DOMAIN runs[q].list : runs[q].list[i] # e
          BY <1>4, <3>2
        <4>6. \A i \in DOMAIN runs[q].list : i \in DOMAIN runs'[q].list
          BY <4>3
        <4> QED
          BY <3>2, <4>1, <4>2, <4>3, <4>4, <4>5, <4>6
      <3>3. CASE q # r /\ ~ (q = h /\ Gathers(h))
        <4>1. runs'[q].list = runs[q].list
          BY <1>10, <3>3
        <4>2. \A i \in DOMAIN runs[q].list : i \in Nat /\ runs[q].list[i] # e
          <5>1. DOMAIN runs[q].list = 1 .. Len(runs[q].list)
            BY <2>0, LenProperties
          <5> QED
            BY <1>4, <3>3, <5>1
        <4> QED
          BY <3>3, <4>1, <4>2
      <3> QED
        BY <3>1, <3>2, <3>3
    <2>2. h > 0 /\ Gathers(h) => \E i \in DOMAIN runs'[h].list : runs'[h].list[i] = e
      <3> SUFFICES ASSUME h > 0, Gathers(h) PROVE \E i \in DOMAIN runs'[h].list : runs'[h].list[i] = e
        OBVIOUS
      <3>1. h \in DOMAIN runs /\ h # r /\ e \in Nat
        BY <1>0, <1>4, <1>6, RecordFacts DEF Loose
      <3>2. runs'[h].list = Append(runs[h].list, e)
        BY <1>10, <3>1
      <3>3. runs'[h].list \in Seq(Nat) /\ Len(runs'[h].list) = Len(runs[h].list) + 1
            /\ runs'[h].list[Len(runs[h].list) + 1] = e /\ Len(runs[h].list) \in Nat
        BY <2>0, <3>1, <3>2, AppendProperties, LenProperties
      <3>4. Len(runs[h].list) + 1 \in DOMAIN runs'[h].list
        BY <3>3
      <3> QED
        BY <3>3, <3>4
    <2>3. \A q \in DOMAIN runs : \A i, j \in DOMAIN runs'[q].list : pos(q, i) < pos(q, j) => i < j
      BY <2>1
    <2> QED
      BY <2>1, <2>2, <2>3
  <1> HIDE DEF pos
  <1>12. /\ \A q \in DOMAIN runs : runs[q].slot \in DOMAIN entries
         /\ \A f \in DOMAIN entries : entries[f].in # Test => entries[f].in \in DOMAIN runs
         /\ \A q \in DOMAIN runs : \A i \in DOMAIN runs[q].list : runs[q].list[i] \in DOMAIN entries
         /\ \A i \in DOMAIN lines : lines[i].entry \in DOMAIN entries
         /\ lock # 0 => lock \in DOMAIN runs
    BY <1>0 DEF RunsFollow, EntriesFollow, ListsHold, LinesTell
  <1>13. /\ \A q \in DOMAIN runs : Swapped(runs'[q]) <=> Swapped(runs[q])
         /\ \A b : \A x \in Way(runs, b) : x \in Way(runs', b)
    <2>1. \A q \in DOMAIN runs : Swapped(runs'[q]) <=> Swapped(runs[q])
      BY <1>10 DEF Swapped
    <2>2. RunsGoOn(runs, runs')
      BY <1>10, <2>1 DEF RunsGoOn
    <2> QED
      BY <2>1, <2>2, WayGrows
  <1>14. UNCHANGED <<state, observed, late, next, lines, lock>>
    BY <1>3
  <1>15. lock # 0 => /\ runs[lock].list \in Seq(Nat) /\ Head(runs[lock].list) \in DOMAIN entries
                     /\ Head(runs[lock].list) # e /\ runs'[lock].list # <<>>
                     /\ Head(runs'[lock].list) = Head(runs[lock].list)
    <2> SUFFICES ASSUME lock # 0
                 PROVE  /\ runs[lock].list \in Seq(Nat) /\ Head(runs[lock].list) \in DOMAIN entries
                        /\ Head(runs[lock].list) # e /\ runs'[lock].list # <<>>
                        /\ Head(runs'[lock].list) = Head(runs[lock].list)
      OBVIOUS
    <2>1. lock \in DOMAIN runs /\ runs[lock].list \in Seq(Nat) /\ runs[lock].list # <<>>
      BY <1>0, <1>12, RecordFacts DEF ListsHold, RunType
    <2>2. 1 \in DOMAIN runs[lock].list /\ Head(runs[lock].list) = runs[lock].list[1]
      BY <2>1
    <2>3. Head(runs[lock].list) # e
      BY <1>4 DEF IsMoving
    <2>4. runs'[lock].list # <<>> /\ Head(runs'[lock].list) = Head(runs[lock].list)
      <3>1. CASE lock = h /\ Gathers(h)
        <4>1. runs'[lock].list = Append(runs[lock].list, e)
          BY <1>3, <1>10, <2>1, <3>1
        <4>2. e \in Nat
          BY <1>0, <1>4, RecordFacts
        <4> QED
          BY <2>1, <4>1, <4>2, HeadTailAppend, AppendProperties
      <3>2. CASE ~ (lock = h /\ Gathers(h))
        BY <1>3, <1>10, <2>1, <3>2
      <3> QED
        BY <3>1, <3>2
    <2> QED
      BY <1>12, <2>1, <2>2, <2>3, <2>4
  <1>16. \A f \in DOMAIN entries : IsMoving(f)' <=> IsMoving(f)
    BY <1>14, <1>15 DEF IsMoving
  <1>17. RecordTypes'
    <2>1. entries' \in Seq(EntryType)
      BY <1>0, <1>4, <1>7, <1>8, UpdatesAreTyped DEF RecordTypes
    <2> QED
      BY <1>0, <1>10, <1>14, <2>1 DEF RecordTypes
  <1>18. RunsFollow'
    BY <1>0, <1>9, <1>10, <1>12, <1>13, <1>14 DEF RunsFollow, IsHome, IsRecorded
  <1>19. EntriesFollow'
    <2>1. ASSUME NEW f \in DOMAIN entries
          PROVE  /\ entries'[f].in # Test => entries'[f].in \in DOMAIN runs /\ runs'[entries'[f].in].slot < f
                 /\ Loose <= entries'[f].home /\ entries'[f].home <= entries'[f].in /\ IsHome(entries'[f].home)
                 /\ entries'[f].in # Test => entries'[f].home \in Way(runs', entries'[f].in)
                 /\ entries'[f].in = Test => entries'[f].parent = 0 /\ ~ entries'[f].missed
                 /\ entries'[f].in # Test /\ entries'[f].parent = 0 => entries'[f].home = entries'[f].in
                 /\ entries'[f].in # Test /\ entries'[f].parent # 0 =>
                      /\ entries'[f].parent = runs'[entries'[f].in].slot
                      /\ entries'[f].run = runs'[entries'[f].in].number
                      /\ Swapped(runs'[entries'[f].in]) /\ entries'[f].home < entries'[f].in
                 /\ entries'[f].call <=> entries'[f].stage \notin {"open", "gone"}
                 /\ entries'[f].stage = "to_test" => entries'[f].home = Test
      <3>1. CASE f = e
        <4>1. h <= entries[e].in /\ h < entries[e].in
          BY <1>4
        <4>2. entries[e].call <=> entries[e].stage \notin {"open", "gone"}
          BY <1>0, <1>4 DEF EntriesFollow
        <4> QED
          BY <1>4, <1>8, <1>9, <1>10, <1>13, <3>1, <4>1, <4>2
      <3>2. CASE f # e
        <4>1. entries'[f] = entries[f]
          BY <1>9, <3>2
        <4> QED
          BY <1>0, <1>10, <1>12, <1>13, <4>1 DEF EntriesFollow
      <3> QED
        BY <3>1, <3>2
    <2> QED
      BY <1>9, <1>10, <1>14, <2>1 DEF EntriesFollow, IsHome, IsRecorded
  <1>20. ListsHold'
    <2>1. ASSUME NEW q \in DOMAIN runs
          PROVE  /\ \A i \in DOMAIN runs'[q].list :
                      /\ runs'[q].list[i] \in DOMAIN entries /\ entries'[runs'[q].list[i]].in # Test
                      /\ entries'[runs'[q].list[i]].home = q \/ (lock = q /\ i = 1)
                 /\ \A i, j \in DOMAIN runs'[q].list : runs'[q].list[i] = runs'[q].list[j] => i = j
      <3>1. ASSUME NEW i \in DOMAIN runs'[q].list
            PROVE  /\ runs'[q].list[i] \in DOMAIN entries /\ entries'[runs'[q].list[i]].in # Test
                   /\ entries'[runs'[q].list[i]].home = q \/ (lock = q /\ i = 1)
        <4>1. CASE pos(q, i) \in DOMAIN runs[q].list /\ runs'[q].list[i] = runs[q].list[pos(q, i)] /\ runs'[q].list[i] # e
          <5>1. entries'[runs'[q].list[i]] = entries[runs[q].list[pos(q, i)]]
            BY <1>9, <1>12, <4>1
          <5>2. /\ runs[q].list[pos(q, i)] \in DOMAIN entries /\ entries[runs[q].list[pos(q, i)]].in # Test
                /\ entries[runs[q].list[pos(q, i)]].home = q \/ (lock = q /\ pos(q, i) = 1)
            BY <1>0, <4>1 DEF ListsHold
          <5>3. lock = q /\ pos(q, i) = 1 => i = 1
            BY <1>3 DEF pos
          <5> QED
            BY <4>1, <5>1, <5>2, <5>3
        <4>2. CASE q = h /\ runs'[q].list[i] = e
          BY <1>4, <1>8, <1>9, <4>2
        <4> QED
          BY <1>11, <4>1, <4>2
      <3>2. ASSUME NEW i \in DOMAIN runs'[q].list, NEW j \in DOMAIN runs'[q].list, runs'[q].list[i] = runs'[q].list[j]
            PROVE  i = j
        <4>1. CASE runs'[q].list[i] = e
          <5>1. i = Len(runs[h].list) + 1
            BY <1>11, <4>1
          <5>2. runs'[q].list[j] = e
            BY <3>2, <4>1
          <5>3. j = Len(runs[h].list) + 1
            BY <1>11, <5>2
          <5> QED
            BY <5>1, <5>3
        <4>2. CASE runs'[q].list[i] # e
          <5>1. pos(q, i) \in DOMAIN runs[q].list /\ pos(q, j) \in DOMAIN runs[q].list
                /\ runs[q].list[pos(q, i)] = runs[q].list[pos(q, j)]
            BY <1>11, <3>2, <4>2
          <5>2. pos(q, i) = pos(q, j)
            BY <1>0, <5>1 DEF ListsHold
          <5>3. i \in Nat /\ j \in Nat
            BY <1>11
          <5> QED
            BY <5>2, <5>3 DEF pos
        <4> QED
          BY <4>1, <4>2
      <3> QED
        BY <3>1, <3>2
    <2>2. ASSUME NEW f \in DOMAIN entries, ~ entries'[f].missed, entries'[f].home > 0
          PROVE  /\ runs'[entries'[f].home].stage # "taken"
                 /\ \E i \in DOMAIN runs'[entries'[f].home].list : runs'[entries'[f].home].list[i] = f
      <3>1. CASE f = e
        <4>1. h > 0 /\ h # Loose /\ h \in DOMAIN runs /\ ~ z.missed
          BY <1>6, <1>9, <2>2, <3>1, <1>4 DEF Loose
        <4>2. runs[h].stage # "taken" /\ Gathers(h)
          BY <1>8, <4>1 DEF Gathers
        <4> QED
          BY <1>9, <1>10, <1>11, <3>1, <4>1, <4>2
      <3>2. CASE f # e
        <4>1. entries'[f] = entries[f] /\ entries[f].home \in DOMAIN runs
          BY <1>0, <1>9, <2>2, <3>2, HomesAreRuns
        <4>2. /\ runs[entries[f].home].stage # "taken"
              /\ \E i \in DOMAIN runs[entries[f].home].list : runs[entries[f].home].list[i] = f
          BY <1>0, <2>2, <4>1 DEF ListsHold
        <4> QED
          BY <1>10, <1>11, <3>2, <4>1, <4>2
      <3> QED
        BY <3>1, <3>2
    <2>3. lock # 0 => /\ lock \in DOMAIN runs' /\ runs'[lock].stage = "swapped"
                      /\ runs'[lock].list # <<>> /\ runs'[lock].home = Test
                      /\ entries'[Head(runs'[lock].list)].home = Test
                      /\ lock \in Way(runs', entries'[Head(runs'[lock].list)].in)
      BY <1>0, <1>9, <1>10, <1>12, <1>13, <1>15 DEF ListsHold
    <2> QED
      BY <1>9, <1>10, <1>14, <2>1, <2>2, <2>3 DEF ListsHold
  <1>21. NumbersCount'
    <2>1. ASSUME NEW f \in DOMAIN entries
          PROVE  /\ entries'[f].seq <= next /\ (entries'[f].home # Test => entries'[f].seq = 0)
                 /\ entries'[f].home = Test /\ ~ IsMoving(f)' => entries'[f].seq # 0
      BY <1>0, <1>3, <1>4, <1>9, <1>16 DEF NumbersCount
    <2> QED
      BY <1>0, <1>9, <1>14, <2>1 DEF NumbersCount
  <1>22. ParentsGoAhead'
    <2> SUFFICES ASSUME NEW p \in DOMAIN runs, ~ entries'[runs[p].slot].missed
                 PROVE  /\ Swapped(runs'[p]) => entries'[runs[p].slot].home \in Way(runs', runs'[p].home)
                        /\ \A f \in DOMAIN entries :
                             entries[f].in = p =>
                               /\ entries'[f].parent # 0 =>
                                    /\ entries'[runs[p].slot].home \in Way(runs', entries'[f].home)
                                    /\ \A q \in DOMAIN runs : \A i, j \in DOMAIN runs'[q].list :
                                         runs'[q].list[i] = f /\ runs'[q].list[j] = runs[p].slot => j < i
                               /\ entries'[f].seq # 0 =>
                                    entries'[runs[p].slot].seq # 0 /\ entries'[runs[p].slot].seq < entries'[f].seq
      BY <1>9, <1>10, <1>12 DEF ParentsGoAhead
    <2>0. ~ entries[runs[p].slot].missed
      BY <1>9, <1>12
    <2> DEFINE homes == [f \in DOMAIN entries |-> entries'[f].home]
    <2>1. /\ Swapped(runs[p]) => homes[runs[p].slot] \in Way(runs, runs[p].home)
          /\ \A f \in DOMAIN entries :
               entries[f].in = p /\ (entries[f].parent # 0 \/ f = e) => homes[runs[p].slot] \in Way(runs, homes[f])
      <3>1. \A f \in DOMAIN entries : homes[f] = IF f = e THEN runs[r].home ELSE entries[f].home
        BY <1>2, <1>9
      <3> HIDE DEF homes
      <3> QED
        BY <1>1, <1>3, <2>0, <3>1, ParentsStayAhead
    <2>2. Swapped(runs'[p]) => entries'[runs[p].slot].home \in Way(runs', runs'[p].home)
      BY <1>10, <1>12, <1>13, <2>1
    <2>3. ASSUME NEW f \in DOMAIN entries, entries[f].in = p
          PROVE  /\ entries'[f].parent # 0 =>
                      /\ entries'[runs[p].slot].home \in Way(runs', entries'[f].home)
                      /\ \A q \in DOMAIN runs : \A i, j \in DOMAIN runs'[q].list :
                           runs'[q].list[i] = f /\ runs'[q].list[j] = runs[p].slot => j < i
                 /\ entries'[f].seq # 0 =>
                      entries'[runs[p].slot].seq # 0 /\ entries'[runs[p].slot].seq < entries'[f].seq
      <3>1. entries'[f].parent # 0 => entries[f].parent # 0 \/ f = e
        BY <1>9
      <3>2. entries'[f].parent # 0 => entries'[runs[p].slot].home \in Way(runs', entries'[f].home)
        BY <1>12, <1>13, <2>1, <2>3, <3>1
      <3>3. /\ entries[f].parent # 0 =>
                 /\ entries[runs[p].slot].home \in Way(runs, entries[f].home)
                 /\ \A q \in DOMAIN runs : \A i, j \in DOMAIN runs[q].list :
                      runs[q].list[i] = f /\ runs[q].list[j] = runs[p].slot => j < i
            /\ entries[f].seq # 0 =>
                 entries[runs[p].slot].seq # 0 /\ entries[runs[p].slot].seq < entries[f].seq
        BY <1>0, <2>0, <2>3 DEF ParentsGoAhead
      <3>4. ASSUME NEW q \in DOMAIN runs, NEW i \in DOMAIN runs'[q].list, NEW j \in DOMAIN runs'[q].list,
                   runs'[q].list[i] = f, runs'[q].list[j] = runs[p].slot, entries'[f].parent # 0
            PROVE  j < i
        <4>0. i \in Nat /\ j \in Nat
          BY <1>11
        <4>1. CASE f = e
          <5>1. runs[p].slot # e
            <6>1. runs[p].slot < e /\ e \in Nat
              BY <1>0, <1>4, <2>3, <4>1, RecordFacts
            <6> QED
              BY <6>1
          <5>2. h > 0 /\ q = h /\ i = Len(runs[h].list) + 1
            BY <1>11, <3>4, <4>1
          <5>3. pos(q, j) \in DOMAIN runs[q].list
            BY <1>11, <3>4, <5>1
          <5>4. pos(q, j) = j /\ runs[h].list \in Seq(Nat)
            <6>1. h # r /\ h \in DOMAIN runs
              BY <1>4, <1>6, <5>2 DEF Loose
            <6> QED
              BY <1>0, <5>2, <6>1, RecordFacts DEF pos, RunType
          <5> QED
            BY <4>0, <5>2, <5>3, <5>4
        <4>2. CASE f # e /\ runs[p].slot = e
          <5>1. entries[f].parent # 0 /\ r \in Way(runs, entries[f].home)
            BY <1>4, <3>1, <3>3, <3>4, <4>2
          <5>2. entries[f].home \in Int
            BY <1>0, RecordFacts DEF EntryType
          <5>3. r <= entries[f].home
            BY <1>0, <5>1, <5>2, WayGoesDown, HomesAreNumbers
          <5>4. h > 0 /\ q = h
            BY <1>11, <3>4, <4>2
          <5>5. pos(q, i) \in DOMAIN runs[q].list /\ runs[q].list[pos(q, i)] = f
            BY <1>11, <3>4, <4>2
          <5>6. entries[f].home = q \/ (lock = q /\ pos(q, i) = 1)
            BY <1>0, <5>5 DEF ListsHold
          <5>7. lock = q /\ pos(q, i) = 1 => entries[f].home = Test
            <6>1. ASSUME lock = q, pos(q, i) = 1 PROVE entries[f].home = Test
              <7>1. lock # 0 /\ runs[q].list \in Seq(Nat)
                BY <1>0, <5>4, <6>1, RecordFacts DEF RunType
              <7>2. Head(runs[lock].list) = f
                BY <5>5, <6>1, <7>1
              <7> QED
                BY <1>0, <7>1, <7>2 DEF ListsHold
            <6> QED
              BY <6>1
          <5> QED
            BY <1>4, <5>2, <5>3, <5>4, <5>6, <5>7 DEF Test
        <4>3. CASE f # e /\ runs[p].slot # e
          <5>1. /\ pos(q, i) \in DOMAIN runs[q].list /\ runs[q].list[pos(q, i)] = f
                /\ pos(q, j) \in DOMAIN runs[q].list /\ runs[q].list[pos(q, j)] = runs[p].slot
            BY <1>11, <3>4, <4>3
          <5>2. pos(q, j) < pos(q, i)
            BY <3>1, <3>3, <3>4, <4>3, <5>1
          <5> QED
            BY <1>11, <5>2
        <4> QED
          BY <4>1, <4>2, <4>3
      <3>5. entries'[f].seq = entries[f].seq /\ entries'[runs[p].slot].seq = entries[runs[p].slot].seq
        BY <1>9, <1>12
      <3> QED
        BY <3>2, <3>3, <3>4, <3>5
    <2> QED
      BY <2>2, <2>3
  <1>23. LinesTell'
    <2>1. ASSUME NEW i \in DOMAIN lines
          PROVE  LET x == lines[i].entry
                 IN  /\ x \in DOMAIN entries' /\ lines[i].seq = entries'[x].seq /\ entries'[x].seq # 0
                     /\ entries'[x].in = Test => lines[i].parent = 0
                     /\ entries'[x].in # Test =>
                          LET t == runs'[entries'[x].in].slot
                          IN  /\ lines[i].run = runs'[entries'[x].in].number
                              /\ entries'[t].missed \/ lines[i].parent = entries'[t].seq
      BY <1>0, <1>9, <1>10, <1>12 DEF LinesTell
    <2>2. ASSUME NEW f \in DOMAIN entries
          PROVE  /\ entries'[f].home = Test /\ ~ IsMoving(f)' /\ entries'[f].call
                    /\ entries'[f].stage \notin {"called", "to_test"} => \E i \in DOMAIN lines : lines[i].entry = f
                 /\ observed /\ entries'[f].home \in {Test, Loose} /\ ~ IsMoving(f)'
                    /\ entries'[f].stage = "ended" => entries'[f].told = 1
                 /\ entries'[f].told = 1 => entries'[f].home \in {Test, Loose}
      <3>1. CASE f = e
        <4>1. entries[e].stage = "ended" => entries[e].call
          BY <1>0, <1>4 DEF EntriesFollow
        <4>2. h = Loose => h \in {Test, Loose}
          OBVIOUS
        <4>3. h # Loose => h \notin {Test, Loose} /\ z.told # 1
          BY <1>3, <1>8
        <4> QED
          BY <1>3, <1>8, <1>9, <3>1, <4>1, <4>2, <4>3
      <3>2. CASE f # e
        BY <1>0, <1>9, <1>16, <3>2 DEF LinesTell
      <3> QED
        BY <3>1, <3>2
    <2> QED
      BY <1>9, <1>14, <2>1, <2>2 DEF LinesTell
  <1>24. ASSUME ~ late PROVE InTheirRuns' /\ OneLineEach'
    <2>0. InTheirRuns /\ OneLineEach
      BY <1>0, <1>24
    <2>1. OneLineEach'
      BY <1>9, <1>12, <1>14, <1>16, <2>0 DEF OneLineEach
    <2>2. ~ entries[e].missed
      BY <1>4, <2>0 DEF InTheirRuns
    <2>3. ~ z.missed
      <3>1. CASE h = Loose
        BY <1>8, <2>2, <3>1
      <3>2. CASE h # Loose
        <4>1. h > 0 /\ h \in DOMAIN runs
          BY <1>6, <3>2
        <4> DEFINE s == runs[r].slot
        <4>2. s \in DOMAIN entries /\ entries[s].stage = "open" /\ Swapped(runs[r])
          BY <1>0, <1>3 DEF RunsFollow, Swapped
        <4>3. entries[s].in # Test
          <5>1. entries[s].in = Test => h <= 0
            BY <1>0, <1>2, <4>2 DEF RunsFollow
          <5> QED
            BY <1>4, <4>1, <5>1
        <4>4. h = entries[s].in
          BY <1>2, <2>0, <4>2, <4>3 DEF InTheirRuns
        <4>5. runs[h].stage = "body"
          BY <2>0, <4>2, <4>3, <4>4 DEF InTheirRuns
        <4> QED
          BY <1>8, <2>2, <3>2, <4>5 DEF Gathers
      <3> QED
        BY <3>1, <3>2
    <2>4. \A f \in DOMAIN entries : entries'[f].missed <=> entries[f].missed
      BY <1>9, <2>2, <2>3
    <2>5. ASSUME NEW f \in DOMAIN entries
          PROVE  /\ entries'[f].in # Test /\ runs'[entries'[f].in].stage # "body" => entries'[f].stage \in {"ended", "gone"}
                 /\ entries'[f].in # Test => entries'[f].stage # "to_test"
                 /\ entries'[f].missed =>
                      /\ entries'[f].home > 0 /\ runs'[entries'[f].in].stage # "body"
                      /\ \A q \in DOMAIN runs' : \A i \in DOMAIN runs'[q].list : runs'[q].list[i] # f
      <3>1. /\ entries'[f].in # Test /\ runs'[entries'[f].in].stage # "body" => entries'[f].stage \in {"ended", "gone"}
            /\ entries'[f].in # Test => entries'[f].stage # "to_test"
        BY <1>9, <1>10, <1>12, <2>0 DEF InTheirRuns
      <3>2. ASSUME entries'[f].missed
            PROVE  /\ entries'[f].home > 0 /\ runs'[entries'[f].in].stage # "body"
                   /\ \A q \in DOMAIN runs' : \A i \in DOMAIN runs'[q].list : runs'[q].list[i] # f
        <4>1. entries[f].missed /\ f # e /\ entries[f].in # Test
          BY <1>0, <2>2, <2>4, <3>2 DEF EntriesFollow
        <4>2. /\ entries[f].home > 0 /\ runs[entries[f].in].stage # "body"
              /\ \A q \in DOMAIN runs : \A i \in DOMAIN runs[q].list : runs[q].list[i] # f
          BY <2>0, <4>1 DEF InTheirRuns
        <4>3. \A q \in DOMAIN runs' : \A i \in DOMAIN runs'[q].list : runs'[q].list[i] # f
          BY <1>10, <1>11, <4>1, <4>2
        <4> QED
          BY <1>9, <1>10, <1>12, <4>1, <4>2, <4>3
      <3> QED
        BY <3>1, <3>2
    <2>6. ASSUME NEW p \in DOMAIN runs
          PROVE  LET t == runs'[p].slot
                 IN  /\ Swapped(runs'[p]) /\ entries'[t].in # Test => runs'[p].home = entries'[t].in
                     /\ \A i \in DOMAIN runs'[p].list : entries'[runs'[p].list[i]].steps <= runs'[p].steps
                     /\ \A f \in DOMAIN entries' :
                          entries'[f].in = p =>
                            /\ entries'[t].missed => entries'[f].missed
                            /\ entries'[f].parent # 0 /\ entries'[f].home = entries'[t].home /\ entries'[f].home > 0
                               /\ ~ entries'[f].missed => entries'[t].steps <= entries'[f].steps
      <3> DEFINE t == runs[p].slot
      <3>1. runs'[p].slot = t /\ t \in DOMAIN entries
        BY <1>10, <1>12
      <3>2. Swapped(runs'[p]) /\ entries'[t].in # Test => runs'[p].home = entries'[t].in
        BY <1>9, <1>10, <1>13, <2>0, <3>1 DEF InTheirRuns
      <3>3. ASSUME NEW i \in DOMAIN runs'[p].list PROVE entries'[runs'[p].list[i]].steps <= runs'[p].steps
        <4>1. CASE pos(p, i) \in DOMAIN runs[p].list /\ runs'[p].list[i] = runs[p].list[pos(p, i)] /\ runs'[p].list[i] # e
          BY <1>9, <1>10, <1>12, <2>0, <4>1 DEF InTheirRuns
        <4>2. CASE h > 0 /\ p = h /\ runs'[p].list[i] = e
          <5>1. h # Loose /\ runs[h].steps \in Nat
            BY <1>4, <1>6, <4>2 DEF Loose, RunType
          <5> QED
            BY <1>8, <1>9, <1>10, <4>2, <5>1
        <4> QED
          BY <1>11, <4>1, <4>2
      <3>4. ASSUME NEW f \in DOMAIN entries, entries[f].in = p
            PROVE  /\ entries'[t].missed => entries'[f].missed
                   /\ entries'[f].parent # 0 /\ entries'[f].home = entries'[t].home /\ entries'[f].home > 0
                      /\ ~ entries'[f].missed => entries'[t].steps <= entries'[f].steps
        <4>1. entries'[t].missed => entries'[f].missed
          BY <2>0, <2>4, <3>1, <3>4 DEF InTheirRuns
        <4>2. ASSUME entries'[f].parent # 0, entries'[f].home = entries'[t].home, entries'[f].home > 0,
                     ~ entries'[f].missed
              PROVE  entries'[t].steps <= entries'[f].steps
          <5>0. ~ entries[t].missed /\ ~ entries[f].missed
            BY <2>4, <3>1, <4>1, <4>2
          <5>1. CASE f = e
            <6>1. t # e /\ entries'[t] = entries[t] /\ entries[t].home = h /\ h > 0 /\ h # Loose
              <7>1. t < e /\ e \in Nat
                BY <1>0, <1>4, <3>4, <5>1, RecordFacts
              <7> QED
                BY <1>4, <1>9, <3>1, <4>2, <5>1, <7>1 DEF Loose
            <6>2. PICK j \in DOMAIN runs[h].list : runs[h].list[j] = t
              BY <1>0, <3>1, <5>0, <6>1 DEF ListsHold
            <6>3. entries[t].steps <= runs[h].steps
              BY <1>6, <2>0, <6>1, <6>2 DEF InTheirRuns
            <6> QED
              BY <1>8, <1>9, <5>1, <6>1, <6>3
          <5>2. CASE f # e /\ t = e
            <6>1. entries[f].parent # 0 /\ entries[f].home = h
              BY <1>4, <1>9, <4>2, <5>2
            <6>2. r \in Way(runs, h)
              BY <1>0, <1>4, <3>4, <5>0, <5>2, <6>1 DEF ParentsGoAhead
            <6>3. r <= h
              BY <1>0, <1>4, <6>2, WayGoesDown, HomesAreNumbers
            <6> QED
              BY <1>4, <6>3
          <5>3. CASE f # e /\ t # e
            <6>1. entries'[f] = entries[f] /\ entries'[t] = entries[t]
              BY <1>9, <3>1, <5>3
            <6> QED
              BY <2>0, <3>4, <4>2, <6>1 DEF InTheirRuns
          <5> QED
            BY <5>1, <5>2, <5>3
        <4> QED
          BY <4>1, <4>2
      <3> QED
        BY <1>9, <3>1, <3>2, <3>3, <3>4
    <2>7. InTheirRuns'
      BY <1>9, <1>10, <2>5, <2>6 DEF InTheirRuns
    <2> QED
      BY <2>1, <2>7
  <1> QED
    BY <1>14, <1>17, <1>18, <1>19, <1>20, <1>21, <1>22, <1>23, <1>24 DEF RecordsInductive

LEMMA MoveHomeKeeps ==
  ASSUME RecordsInductive, NEW r \in DOMAIN runs, MoveHome(r)
  PROVE  RecordsInductive'
  <1>0. /\ RecordTypes /\ RunsFollow /\ EntriesFollow /\ ListsHold /\ NumbersCount /\ ParentsGoAhead /\ LinesTell
        /\ (~ late => InTheirRuns /\ OneLineEach)
    BY DEF RecordsInductive
  <1>1. PICK e : e = Head(runs[r].list)
    OBVIOUS
  <1>2. PICK z : z = Moved(e, r)
    OBVIOUS
  <1>3. /\ runs[r].stage = "swapped" /\ runs[r].list # <<>> /\ runs[r].home = Test /\ lock = 0 /\ lock # r
        /\ UNCHANGED <<state, observed, late, next, runs, lines>> /\ lock' = r
        /\ entries' = [entries EXCEPT ![e] = z]
    <2>1. r # 0
      BY <1>0, RecordFacts
    <2> QED
      BY <1>1, <1>2, <2>1 DEF MoveHome
  <1>4. /\ runs[r].list \in Seq(Nat) /\ 1 \in DOMAIN runs[r].list /\ runs[r].list[1] = e
        /\ e \in DOMAIN entries /\ entries[e] \in EntryType /\ r \in Int /\ r > 0
        /\ entries[e].in # Test /\ entries[e].in \in DOMAIN runs /\ entries[e].in \in Int
        /\ entries[e].home = r /\ r <= entries[e].in
        /\ entries[e].seq = 0 /\ entries[e].told = 0 /\ entries[e].stage # "to_test"
        /\ \A q \in DOMAIN runs : \A i \in DOMAIN runs[q].list : runs[q].list[i] = e => q = r /\ i = 1
        /\ Swapped(runs[entries[e].in]) /\ runs[entries[e].in].slot \in DOMAIN entries
        /\ runs[entries[e].in].slot < e /\ runs[entries[e].in].slot # 0
        /\ IsHome(Test) /\ Test \in Way(runs, entries[e].in)
    BY <1>1, <1>3, NextToMove
  <1>5. /\ z \in EntryType /\ z.home = Test
        /\ z.parent = runs[entries[e].in].slot /\ z.run = runs[entries[e].in].number
        /\ z.in = entries[e].in /\ z.seq = 0 /\ z.steps = entries[e].steps
        /\ z.call = entries[e].call /\ z.told = 0
        /\ z.stage = entries[e].stage /\ z.missed = entries[e].missed
    BY <1>1, <1>2, <1>3, <1>4, NextToMove
  <1>6. /\ DOMAIN entries' = DOMAIN entries /\ entries'[e] = z /\ \A f \in DOMAIN entries : f # e => entries'[f] = entries[f]
        /\ \A f \in DOMAIN entries :
             /\ entries'[f].in = entries[f].in /\ entries'[f].seq = entries[f].seq /\ entries'[f].call = entries[f].call
             /\ entries'[f].stage = entries[f].stage /\ entries'[f].missed = entries[f].missed
             /\ entries'[f].steps = entries[f].steps /\ entries'[f].told = entries[f].told
             /\ entries'[f].home = IF f = e THEN Test ELSE entries[f].home
    BY <1>3, <1>4, <1>5
  <1>7. /\ \A q \in DOMAIN runs : runs[q].slot \in DOMAIN entries
        /\ \A f \in DOMAIN entries : entries[f].in # Test => entries[f].in \in DOMAIN runs
        /\ \A q \in DOMAIN runs : \A i \in DOMAIN runs[q].list : runs[q].list[i] \in DOMAIN entries
        /\ \A i \in DOMAIN lines : lines[i].entry \in DOMAIN entries /\ lines[i].entry # e
    BY <1>0, <1>4 DEF RunsFollow, EntriesFollow, ListsHold, LinesTell
  <1>8. UNCHANGED <<state, observed, late, next, runs, lines>>
    BY <1>3
  <1>9. \A f \in DOMAIN entries : ~ IsMoving(f) /\ (IsMoving(f)' <=> f = e)
    BY <1>1, <1>3, <1>4 DEF IsMoving
  <1>10. RecordTypes'
    <2>1. entries' \in Seq(EntryType) /\ r \in Nat
      BY <1>0, <1>3, <1>4, <1>5, UpdatesAreTyped, RecordFacts DEF RecordTypes
    <2> QED
      BY <1>0, <1>3, <2>1 DEF RecordTypes
  <1>11. RunsFollow'
    BY <1>0, <1>6, <1>7, <1>8 DEF RunsFollow, IsHome, IsRecorded
  <1>12. EntriesFollow'
    <2>1. ASSUME NEW f \in DOMAIN entries
          PROVE  /\ entries'[f].in # Test => entries'[f].in \in DOMAIN runs /\ runs[entries'[f].in].slot < f
                 /\ Loose <= entries'[f].home /\ entries'[f].home <= entries'[f].in /\ IsHome(entries'[f].home)
                 /\ entries'[f].in # Test => entries'[f].home \in Way(runs, entries'[f].in)
                 /\ entries'[f].in = Test => entries'[f].parent = 0 /\ ~ entries'[f].missed
                 /\ entries'[f].in # Test /\ entries'[f].parent = 0 => entries'[f].home = entries'[f].in
                 /\ entries'[f].in # Test /\ entries'[f].parent # 0 =>
                      /\ entries'[f].parent = runs[entries'[f].in].slot
                      /\ entries'[f].run = runs[entries'[f].in].number
                      /\ Swapped(runs[entries'[f].in]) /\ entries'[f].home < entries'[f].in
                 /\ entries'[f].call <=> entries'[f].stage \notin {"open", "gone"}
                 /\ entries'[f].stage = "to_test" => entries'[f].home = Test
      <3>1. CASE f = e
        <4>1. Test <= entries[e].in /\ Test < entries[e].in /\ Loose <= Test
          BY <1>4 DEF Test, Loose
        <4>2. entries[e].call <=> entries[e].stage \notin {"open", "gone"}
          BY <1>0, <1>4 DEF EntriesFollow
        <4> QED
          BY <1>4, <1>5, <1>6, <3>1, <4>1, <4>2
      <3>2. CASE f # e
        <4>1. entries'[f] = entries[f]
          BY <1>6, <3>2
        <4> QED
          BY <1>0, <4>1 DEF EntriesFollow
      <3> QED
        BY <3>1, <3>2
    <2> QED
      BY <1>6, <1>8, <2>1 DEF EntriesFollow, IsHome, IsRecorded
  <1>13. ListsHold'
    <2>1. ASSUME NEW q \in DOMAIN runs
          PROVE  /\ \A i \in DOMAIN runs[q].list :
                      /\ runs[q].list[i] \in DOMAIN entries /\ entries'[runs[q].list[i]].in # Test
                      /\ entries'[runs[q].list[i]].home = q \/ (r = q /\ i = 1)
                 /\ \A i, j \in DOMAIN runs[q].list : runs[q].list[i] = runs[q].list[j] => i = j
      <3>1. lock # q
        BY <1>0, <1>3, RecordFacts
      <3> QED
        BY <1>0, <1>4, <1>6, <1>7, <3>1 DEF ListsHold
    <2>2. ASSUME NEW f \in DOMAIN entries, ~ entries'[f].missed, entries'[f].home > 0
          PROVE  /\ runs[entries'[f].home].stage # "taken"
                 /\ \E i \in DOMAIN runs[entries'[f].home].list : runs[entries'[f].home].list[i] = f
      <3>1. f # e
        BY <1>6, <2>2 DEF Test
      <3> QED
        BY <1>0, <1>6, <2>2, <3>1 DEF ListsHold
    <2>3. r \in Way(runs, entries'[e].in)
      BY <1>0, <1>4, <1>6 DEF EntriesFollow
    <2>4. /\ r \in DOMAIN runs /\ runs[r].stage = "swapped" /\ runs[r].list # <<>> /\ runs[r].home = Test
          /\ Head(runs[r].list) = e /\ entries'[e].home = Test
      BY <1>1, <1>3, <1>4, <1>5, <1>6
    <2>5. UNCHANGED runs /\ lock' = r /\ DOMAIN entries' = DOMAIN entries
      BY <1>3, <1>6
    <2>6. /\ lock' \in DOMAIN runs' /\ runs'[lock'].stage = "swapped"
          /\ runs'[lock'].list # <<>> /\ runs'[lock'].home = Test
          /\ entries'[Head(runs'[lock'].list)].home = Test
          /\ lock' \in Way(runs', entries'[Head(runs'[lock'].list)].in)
      BY <2>3, <2>4, <2>5
    <2> QED
      BY <2>1, <2>2, <2>5, <2>6 DEF ListsHold
  <1>14. NumbersCount'
    <2>1. ASSUME NEW f \in DOMAIN entries
          PROVE  /\ entries'[f].seq <= next /\ (entries'[f].home # Test => entries'[f].seq = 0)
                 /\ entries'[f].home = Test /\ ~ IsMoving(f)' => entries'[f].seq # 0
      BY <1>0, <1>4, <1>6, <1>9 DEF NumbersCount
    <2> QED
      BY <1>0, <1>6, <1>8, <2>1 DEF NumbersCount
  <1>15. ParentsGoAhead'
    <2> SUFFICES ASSUME NEW p \in DOMAIN runs, ~ entries[runs[p].slot].missed
                 PROVE  /\ Swapped(runs[p]) => entries'[runs[p].slot].home \in Way(runs, runs[p].home)
                        /\ \A f \in DOMAIN entries :
                             entries[f].in = p =>
                               /\ entries'[f].parent # 0 =>
                                    /\ entries'[runs[p].slot].home \in Way(runs, entries'[f].home)
                                    /\ \A q \in DOMAIN runs : \A i, j \in DOMAIN runs[q].list :
                                         runs[q].list[i] = f /\ runs[q].list[j] = runs[p].slot => j < i
                               /\ entries[f].seq # 0 =>
                                    entries[runs[p].slot].seq # 0 /\ entries[runs[p].slot].seq < entries[f].seq
      BY <1>6, <1>7, <1>8 DEF ParentsGoAhead
    <2> DEFINE homes == [f \in DOMAIN entries |-> entries'[f].home]
    <2>1. /\ Swapped(runs[p]) => homes[runs[p].slot] \in Way(runs, runs[p].home)
          /\ \A f \in DOMAIN entries :
               entries[f].in = p /\ (entries[f].parent # 0 \/ f = e) => homes[runs[p].slot] \in Way(runs, homes[f])
      <3>1. \A f \in DOMAIN entries : homes[f] = IF f = e THEN runs[r].home ELSE entries[f].home
        BY <1>3, <1>6
      <3> HIDE DEF homes
      <3> QED
        BY <1>1, <1>3, <3>1, ParentsStayAhead
    <2>2. ASSUME NEW f \in DOMAIN entries, entries[f].in = p
          PROVE  /\ entries'[f].parent # 0 =>
                      /\ entries'[runs[p].slot].home \in Way(runs, entries'[f].home)
                      /\ \A q \in DOMAIN runs : \A i, j \in DOMAIN runs[q].list :
                           runs[q].list[i] = f /\ runs[q].list[j] = runs[p].slot => j < i
                 /\ entries[f].seq # 0 =>
                      entries[runs[p].slot].seq # 0 /\ entries[runs[p].slot].seq < entries[f].seq
      <3>1. entries'[f].parent # 0 => entries[f].parent # 0 \/ f = e
        BY <1>6
      <3>2. entries'[f].parent # 0 => entries'[runs[p].slot].home \in Way(runs, entries'[f].home)
        BY <1>7, <2>1, <2>2, <3>1
      <3>3. /\ entries[f].parent # 0 =>
                 \A q \in DOMAIN runs : \A i, j \in DOMAIN runs[q].list :
                      runs[q].list[i] = f /\ runs[q].list[j] = runs[p].slot => j < i
            /\ entries[f].seq # 0 =>
                 entries[runs[p].slot].seq # 0 /\ entries[runs[p].slot].seq < entries[f].seq
        BY <1>0, <2>2 DEF ParentsGoAhead
      <3>4. ASSUME f = e, entries[e].parent = 0, NEW q \in DOMAIN runs, NEW i \in DOMAIN runs[q].list,
                   NEW j \in DOMAIN runs[q].list, runs[q].list[i] = f, runs[q].list[j] = runs[p].slot
            PROVE  FALSE
        <4>1. q = r /\ p = r
          BY <1>0, <1>4, <2>2, <3>4 DEF EntriesFollow
        <4>2. lock # r
          BY <1>3
        <4>3. entries[runs[r].slot].home = r
          BY <1>0, <3>4, <4>1, <4>2 DEF ListsHold
        <4>4. entries[runs[r].slot].home <= entries[runs[r].slot].in /\ entries[runs[r].slot].in < r
          BY <1>0, <1>7 DEF EntriesFollow, RunsFollow
        <4>5. entries[runs[r].slot].in \in Int
          <5>1. runs[r].slot \in DOMAIN entries
            BY <1>7
          <5>2. entries[runs[r].slot] \in EntryType
            BY <1>0, <5>1, RecordFacts
          <5> QED
            BY <5>2 DEF EntryType
        <4> QED
          BY <1>4, <4>3, <4>4, <4>5
      <3> QED
        BY <3>1, <3>2, <3>3, <3>4
    <2> QED
      BY <1>7, <2>1, <2>2
  <1>16. LinesTell'
    <2>1. ASSUME NEW i \in DOMAIN lines
          PROVE  LET x == lines[i].entry
                 IN  /\ x \in DOMAIN entries' /\ lines[i].seq = entries'[x].seq /\ entries'[x].seq # 0
                     /\ entries'[x].in = Test => lines[i].parent = 0
                     /\ entries'[x].in # Test =>
                          LET t == runs[entries'[x].in].slot
                          IN  /\ lines[i].run = runs[entries'[x].in].number
                              /\ entries'[t].missed \/ lines[i].parent = entries'[t].seq
      BY <1>0, <1>6, <1>7 DEF LinesTell
    <2>2. ASSUME NEW f \in DOMAIN entries
          PROVE  /\ entries'[f].home = Test /\ ~ IsMoving(f)' /\ entries'[f].call
                    /\ entries'[f].stage \notin {"called", "to_test"} => \E i \in DOMAIN lines : lines[i].entry = f
                 /\ observed /\ entries'[f].home \in {Test, Loose} /\ ~ IsMoving(f)'
                    /\ entries'[f].stage = "ended" => entries'[f].told = 1
                 /\ entries'[f].told = 1 => entries'[f].home \in {Test, Loose}
      BY <1>0, <1>6, <1>9 DEF LinesTell
    <2> QED
      BY <1>6, <1>8, <2>1, <2>2 DEF LinesTell
  <1>17. ASSUME ~ late PROVE InTheirRuns' /\ OneLineEach'
    <2>1. ASSUME NEW f \in DOMAIN entries
          PROVE  /\ entries'[f].in # Test /\ runs[entries'[f].in].stage # "body" => entries'[f].stage \in {"ended", "gone"}
                 /\ entries'[f].in # Test => entries'[f].stage # "to_test"
                 /\ entries'[f].missed =>
                      /\ entries'[f].home > 0 /\ runs[entries'[f].in].stage # "body"
                      /\ \A q \in DOMAIN runs : \A i \in DOMAIN runs[q].list : runs[q].list[i] # f
      BY <1>0, <1>4, <1>6, <1>17 DEF InTheirRuns
    <2>2. ASSUME NEW p \in DOMAIN runs
          PROVE  LET t == runs[p].slot
                 IN  /\ Swapped(runs[p]) /\ entries'[t].in # Test => runs[p].home = entries'[t].in
                     /\ \A i \in DOMAIN runs[p].list : entries'[runs[p].list[i]].steps <= runs[p].steps
                     /\ \A f \in DOMAIN entries' :
                          entries'[f].in = p =>
                            /\ entries'[t].missed => entries'[f].missed
                            /\ entries'[f].parent # 0 /\ entries'[f].home = entries'[t].home /\ entries'[f].home > 0
                               /\ ~ entries'[f].missed => entries'[t].steps <= entries'[f].steps
      <3>1. InTheirRuns /\ runs[p].slot \in DOMAIN entries
        BY <1>0, <1>7, <1>17
      <3>2. ASSUME NEW f \in DOMAIN entries, entries[f].in = p, entries'[f].parent # 0,
                   entries'[f].home = entries'[runs[p].slot].home, entries'[f].home > 0, ~ entries[f].missed
            PROVE  entries[runs[p].slot].steps <= entries[f].steps
        <4>1. f # e /\ runs[p].slot # e
          BY <1>6, <3>1, <3>2 DEF Test
        <4> QED
          BY <1>6, <3>1, <3>2, <4>1 DEF InTheirRuns
      <3> QED
        BY <1>6, <1>7, <3>1, <3>2 DEF InTheirRuns
    <2>3. InTheirRuns'
      BY <1>6, <1>8, <2>1, <2>2 DEF InTheirRuns
    <2>4. OneLineEach'
      BY <1>0, <1>6, <1>7, <1>8, <1>9, <1>17 DEF OneLineEach
    <2> QED
      BY <2>3, <2>4
  <1> QED
    BY <1>8, <1>10, <1>11, <1>12, <1>13, <1>14, <1>15, <1>16, <1>17 DEF RecordsInductive

\* The call whose move to the test has begun.
LEMMA TheCallThatMoves ==
  ASSUME RecordsInductive, NEW r \in DOMAIN runs, lock = r, NEW e, e = Head(runs[r].list)
  PROVE  /\ runs[r].list \in Seq(Nat) /\ runs[r].list # <<>> /\ 1 \in DOMAIN runs[r].list /\ runs[r].list[1] = e
         /\ e \in DOMAIN entries /\ entries[e] \in EntryType /\ r # 0 /\ lock # 0
         /\ entries[e].in # Test /\ entries[e].in \in DOMAIN runs /\ entries[e].home = Test
         /\ entries[e].parent = runs[entries[e].in].slot /\ entries[e].parent # 0
         /\ entries[e].parent \in DOMAIN entries /\ entries[e].parent < e
         /\ entries[e].run = runs[entries[e].in].number
         /\ \A q \in DOMAIN runs : \A i \in DOMAIN runs[q].list : runs[q].list[i] = e => q = r /\ i = 1
  <1>0. /\ RecordTypes /\ RunsFollow /\ EntriesFollow /\ ListsHold
    BY DEF RecordsInductive
  <1>1. runs[r] \in RunType /\ r # 0 /\ lock # 0
    BY <1>0, RecordFacts
  <1>2. runs[r].list \in Seq(Nat) /\ runs[r].list # <<>> /\ 1 \in DOMAIN runs[r].list /\ runs[r].list[1] = e
    <2>1. runs[r].list \in Seq(Nat) /\ runs[r].list # <<>>
      BY <1>0, <1>1 DEF RunType, ListsHold
    <2> QED
      BY <2>1
  <1>3. e \in DOMAIN entries /\ entries[e].in # Test /\ entries[e].home = Test
    BY <1>0, <1>1, <1>2 DEF ListsHold
  <1>4. /\ entries[e].in \in DOMAIN runs /\ entries[e].parent # 0
        /\ entries[e].parent = runs[entries[e].in].slot /\ entries[e].run = runs[entries[e].in].number
        /\ entries[e].parent < e /\ entries[e].parent \in DOMAIN entries
    BY <1>0, <1>3 DEF EntriesFollow, RunsFollow
  <1>5. \A q \in DOMAIN runs : \A i \in DOMAIN runs[q].list : runs[q].list[i] = e => q = r /\ i = 1
    <2>1. \A q \in DOMAIN runs : q # Test
      BY <1>0, RecordFacts DEF Test
    <2> QED
      BY <1>0, <1>3, <2>1 DEF ListsHold
  <1> QED
    BY <1>0, <1>1, <1>2, <1>3, <1>4, <1>5, RecordFacts

LEMMA MoveNumberKeeps ==
  ASSUME RecordsInductive, NEW r \in DOMAIN runs, MoveNumber(r)
  PROVE  RecordsInductive'
  <1>0. /\ RecordTypes /\ RunsFollow /\ EntriesFollow /\ ListsHold /\ NumbersCount /\ ParentsGoAhead /\ LinesTell
        /\ (~ late => InTheirRuns /\ OneLineEach)
    BY DEF RecordsInductive
  <1>1. PICK e : e = Head(runs[r].list)
    OBVIOUS
  <1>2. PICK n \in Nat : n = next + 1
    BY <1>0 DEF RecordTypes
  <1>3. /\ lock = r /\ entries[e].seq = 0 /\ next' = n
        /\ entries' = [entries EXCEPT ![e].seq = n]
    BY <1>1, <1>2 DEF MoveNumber
  <1>4. UNCHANGED <<state, observed, late, runs, lines, lock>>
    BY DEF MoveNumber
  <1>5. /\ e \in DOMAIN entries /\ entries[e] \in EntryType /\ lock # 0
        /\ entries[e].in # Test /\ entries[e].in \in DOMAIN runs /\ entries[e].home = Test
        /\ entries[e].parent = runs[entries[e].in].slot /\ entries[e].parent # 0
        /\ entries[e].parent \in DOMAIN entries /\ entries[e].parent < e /\ runs[r].list # <<>>
    BY <1>1, <1>3, TheCallThatMoves
  <1>6. PICK z : z = [entries[e] EXCEPT !.seq = n]
    OBVIOUS
  <1>7. z \in EntryType
    BY <1>2, <1>5, <1>6 DEF EntryType
  <1>8. entries' = [entries EXCEPT ![e] = z]
    BY <1>3, <1>6
  <1>9. /\ DOMAIN entries' = DOMAIN entries /\ \A f \in DOMAIN entries : f # e => entries'[f] = entries[f]
        /\ \A f \in DOMAIN entries :
             /\ entries'[f].in = entries[f].in /\ entries'[f].home = entries[f].home /\ entries'[f].call = entries[f].call
             /\ entries'[f].stage = entries[f].stage /\ entries'[f].missed = entries[f].missed
             /\ entries'[f].steps = entries[f].steps /\ entries'[f].told = entries[f].told
             /\ entries'[f].parent = entries[f].parent /\ entries'[f].run = entries[f].run
             /\ entries'[f].seq = IF f = e THEN n ELSE entries[f].seq
    <2>1. /\ z.in = entries[e].in /\ z.home = entries[e].home /\ z.call = entries[e].call
          /\ z.stage = entries[e].stage /\ z.missed = entries[e].missed
          /\ z.steps = entries[e].steps /\ z.told = entries[e].told
          /\ z.parent = entries[e].parent /\ z.run = entries[e].run /\ z.seq = n
      BY <1>5, <1>6 DEF EntryType
    <2> QED
      BY <1>5, <1>8, <2>1
  <1>10. /\ \A q \in DOMAIN runs : runs[q].slot \in DOMAIN entries
         /\ \A f \in DOMAIN entries : entries[f].in # Test => entries[f].in \in DOMAIN runs
         /\ \A q \in DOMAIN runs : \A i \in DOMAIN runs[q].list : runs[q].list[i] \in DOMAIN entries
         /\ \A i \in DOMAIN lines : lines[i].entry \in DOMAIN entries /\ lines[i].entry # e
    BY <1>0, <1>3 DEF RunsFollow, EntriesFollow, ListsHold, LinesTell
  <1>11. \A f \in DOMAIN entries : (IsMoving(f) <=> f = e) /\ (IsMoving(f)' <=> f = e)
    BY <1>1, <1>3, <1>4, <1>5 DEF IsMoving
  <1>12. RecordTypes'
    <2>1. entries' \in Seq(EntryType)
      BY <1>0, <1>5, <1>7, <1>8, UpdatesAreTyped DEF RecordTypes
    <2> QED
      BY <1>0, <1>2, <1>3, <1>4, <2>1 DEF RecordTypes
  <1>13. RunsFollow'
    BY <1>0, <1>4, <1>9, <1>10 DEF RunsFollow, IsHome, IsRecorded
  <1>14. EntriesFollow'
    BY <1>0, <1>4, <1>9, <1>10 DEF EntriesFollow, IsHome, IsRecorded
  <1>15. ListsHold'
    <2>1. Head(runs[lock].list) = e
      BY <1>1, <1>3
    <2> QED
      BY <1>0, <1>4, <1>5, <1>9, <1>10, <2>1 DEF ListsHold
  <1>16. /\ \A f \in DOMAIN entries : entries[f].seq \in Nat /\ entries[f].seq <= next
         /\ next \in Nat /\ n > next /\ n # 0
    <2>1. next \in Nat
      BY <1>0 DEF RecordTypes
    <2>2. \A f \in DOMAIN entries : entries[f].seq \in Nat
      BY <1>0, RecordFacts DEF EntryType
    <2> QED
      BY <1>0, <1>2, <2>1, <2>2 DEF NumbersCount
  <1>17. NumbersCount'
    <2>1. ASSUME NEW f \in DOMAIN entries
          PROVE  /\ entries'[f].seq <= n /\ (entries'[f].home # Test => entries'[f].seq = 0)
                 /\ entries'[f].home = Test /\ ~ IsMoving(f)' => entries'[f].seq # 0
      <3>1. entries[f].seq <= n /\ n <= n
        BY <1>16, <1>2
      <3> QED
        BY <1>0, <1>5, <1>9, <1>11, <1>16, <3>1 DEF NumbersCount
    <2>2. ASSUME NEW f \in DOMAIN entries, NEW g \in DOMAIN entries, entries'[f].seq = entries'[g].seq, entries'[f].seq # 0
          PROVE  f = g
      <3>1. entries[f].seq # n /\ entries[g].seq # n
        BY <1>16
      <3> QED
        BY <1>0, <1>9, <2>2, <3>1 DEF NumbersCount
    <2>3. ASSUME NEW m \in 1 .. n
          PROVE  \E f \in DOMAIN entries : entries'[f].seq = m
      <3>1. CASE m = n
        BY <1>5, <1>9, <3>1
      <3>2. CASE m # n
        <4>1. m \in 1 .. next /\ m # 0
          BY <1>2, <1>16, <3>2
        <4>2. PICK f \in DOMAIN entries : entries[f].seq = m
          BY <1>0, <4>1 DEF NumbersCount
        <4> QED
          BY <1>3, <1>9, <4>1, <4>2
      <3> QED
        BY <3>1, <3>2
    <2> QED
      BY <1>3, <1>9, <2>1, <2>2, <2>3 DEF NumbersCount
  <1>18. ASSUME NEW p \in DOMAIN runs, ~ entries[runs[p].slot].missed, NEW f \in DOMAIN entries, entries[f].in = p,
                entries'[f].seq # 0
         PROVE  entries'[runs[p].slot].seq # 0 /\ entries'[runs[p].slot].seq < entries'[f].seq
    <2> DEFINE s == runs[p].slot
    <2>0. s \in DOMAIN entries
      BY <1>10
    <2>1. CASE f = e
      <3>1. s # e
        <4>1. s < e /\ s \in Nat /\ e \in Nat
          BY <1>0, <1>5, <1>18, <2>0, <2>1, RecordFacts
        <4> QED
          BY <4>1
      <3>2. entries[s].home \in Way(runs, Test)
        BY <1>0, <1>5, <1>18, <2>1 DEF ParentsGoAhead
      <3>3. Test \in Int /\ Test \notin DOMAIN runs
        BY <1>0, RecordFacts DEF Test
      <3>4. entries[s].home = Test
        BY <3>2, <3>3, WayEnds
      <3>5. entries[s].seq # 0
        BY <1>0, <1>11, <2>0, <3>1, <3>4 DEF NumbersCount
      <3>6. entries'[s].seq = entries[s].seq /\ entries'[f].seq = n
        BY <1>9, <2>0, <2>1, <3>1
      <3> QED
        BY <1>2, <1>16, <2>0, <3>5, <3>6
    <2>2. CASE f # e
      <3>1. entries'[f].seq = entries[f].seq
        BY <1>9, <2>2
      <3>2. entries[s].seq # 0 /\ entries[s].seq < entries[f].seq
        BY <1>0, <1>18, <3>1 DEF ParentsGoAhead
      <3>3. s # e
        BY <1>3, <3>2
      <3> QED
        BY <1>9, <2>0, <3>1, <3>2, <3>3
    <2> QED
      BY <2>1, <2>2
  <1>19. ParentsGoAhead'
    <2>1. ASSUME NEW p \in DOMAIN runs, ~ entries[runs[p].slot].missed
          PROVE  /\ Swapped(runs[p]) => entries[runs[p].slot].home \in Way(runs, runs[p].home)
                 /\ \A f \in DOMAIN entries :
                      entries[f].in = p /\ entries[f].parent # 0 =>
                             /\ entries[runs[p].slot].home \in Way(runs, entries[f].home)
                             /\ \A q \in DOMAIN runs : \A i, j \in DOMAIN runs[q].list :
                                  runs[q].list[i] = f /\ runs[q].list[j] = runs[p].slot => j < i
      BY <1>0, <2>1 DEF ParentsGoAhead
    <2> QED
      BY <1>4, <1>9, <1>10, <1>18, <2>1 DEF ParentsGoAhead
  <1>20. LinesTell'
    <2>1. ASSUME NEW i \in DOMAIN lines
          PROVE  LET x == lines[i].entry
                 IN  /\ x \in DOMAIN entries' /\ lines[i].seq = entries'[x].seq /\ entries'[x].seq # 0
                     /\ entries'[x].in = Test => lines[i].parent = 0
                     /\ entries'[x].in # Test =>
                          LET t == runs[entries'[x].in].slot
                          IN  /\ lines[i].run = runs[entries'[x].in].number
                              /\ entries'[t].missed \/ lines[i].parent = entries'[t].seq
      <3> DEFINE x == lines[i].entry
      <3>1. /\ x \in DOMAIN entries /\ x # e /\ lines[i].seq = entries[x].seq /\ entries[x].seq # 0
            /\ entries[x].in = Test => lines[i].parent = 0
        BY <1>0, <1>10 DEF LinesTell
      <3>2. ASSUME entries[x].in # Test
            PROVE  LET t == runs[entries[x].in].slot
                   IN  /\ lines[i].run = runs[entries[x].in].number
                       /\ entries'[t].missed \/ lines[i].parent = entries'[t].seq
        <4> DEFINE t == runs[entries[x].in].slot
        <4>1. t \in DOMAIN entries /\ entries[x].in \in DOMAIN runs
          BY <1>10, <3>1, <3>2
        <4>2. lines[i].run = runs[entries[x].in].number /\ (entries[t].missed \/ lines[i].parent = entries[t].seq)
          BY <1>0, <3>2 DEF LinesTell
        <4>3. entries[t].missed \/ t # e
          BY <1>0, <1>3, <3>1, <4>1 DEF ParentsGoAhead
        <4> QED
          BY <1>9, <4>1, <4>2, <4>3
      <3> QED
        BY <1>9, <3>1, <3>2
    <2>2. ASSUME NEW f \in DOMAIN entries
          PROVE  /\ entries'[f].home = Test /\ ~ IsMoving(f)' /\ entries'[f].call
                    /\ entries'[f].stage \notin {"called", "to_test"} => \E i \in DOMAIN lines : lines[i].entry = f
                 /\ observed /\ entries'[f].home \in {Test, Loose} /\ ~ IsMoving(f)'
                    /\ entries'[f].stage = "ended" => entries'[f].told = 1
                 /\ entries'[f].told = 1 => entries'[f].home \in {Test, Loose}
      BY <1>0, <1>9, <1>11 DEF LinesTell
    <2> QED
      BY <1>4, <1>9, <2>1, <2>2 DEF LinesTell
  <1>21. ASSUME ~ late PROVE InTheirRuns' /\ OneLineEach'
    <2>1. InTheirRuns'
      BY <1>0, <1>4, <1>9, <1>10, <1>21 DEF InTheirRuns
    <2>2. OneLineEach'
      BY <1>0, <1>4, <1>9, <1>10, <1>11, <1>21 DEF OneLineEach
    <2> QED
      BY <2>1, <2>2
  <1> QED
    BY <1>4, <1>12, <1>13, <1>14, <1>15, <1>17, <1>19, <1>20, <1>21 DEF RecordsInductive

LEMMA MoveRecordKeeps ==
  ASSUME RecordsInductive, NEW r \in DOMAIN runs, MoveRecord(r)
  PROVE  RecordsInductive'
  <1>0. /\ RecordTypes /\ RunsFollow /\ EntriesFollow /\ ListsHold /\ NumbersCount /\ ParentsGoAhead /\ LinesTell
        /\ (~ late => InTheirRuns /\ OneLineEach)
    BY DEF RecordsInductive
  <1>1. PICK e : e = Head(runs[r].list)
    OBVIOUS
  <1>2. PICK z : z = Told(entries[e])
    OBVIOUS
  <1>3. /\ lock = r /\ entries[e].seq # 0 /\ lock' = 0
        /\ lines' = IF entries[e].call THEN Emit(entries, e) ELSE lines
        /\ entries' = [entries EXCEPT ![e] = z]
        /\ runs' = [runs EXCEPT ![r].list = Tail(@)]
    BY <1>1, <1>2 DEF MoveRecord
  <1>4. UNCHANGED <<state, observed, late, next>>
    BY DEF MoveRecord
  <1>5. /\ runs[r].list \in Seq(Nat) /\ runs[r].list # <<>> /\ 1 \in DOMAIN runs[r].list /\ runs[r].list[1] = e
        /\ e \in DOMAIN entries /\ entries[e] \in EntryType /\ lock # 0
        /\ entries[e].in # Test /\ entries[e].in \in DOMAIN runs /\ entries[e].home = Test
        /\ entries[e].parent = runs[entries[e].in].slot /\ entries[e].parent # 0
        /\ entries[e].parent \in DOMAIN entries /\ entries[e].run = runs[entries[e].in].number
        /\ \A q \in DOMAIN runs : \A i \in DOMAIN runs[q].list : runs[q].list[i] = e => q = r /\ i = 1
    BY <1>1, <1>3, TheCallThatMoves
  <1>6. /\ z \in EntryType /\ z.in = entries[e].in /\ z.seq = entries[e].seq /\ z.call = entries[e].call
        /\ z.stage = entries[e].stage /\ z.home = entries[e].home /\ z.parent = entries[e].parent
        /\ z.run = entries[e].run /\ z.missed = entries[e].missed /\ z.steps = entries[e].steps
        /\ (observed /\ z.call => z.told = 1)
    <2>1. z = IF observed /\ entries[e].call /\ entries[e].told = 0 THEN [entries[e] EXCEPT !.told = 1] ELSE entries[e]
      BY <1>2 DEF Told
    <2> QED
      BY <1>5, <2>1 DEF EntryType
  <1>7. /\ DOMAIN entries' = DOMAIN entries /\ \A f \in DOMAIN entries : f # e => entries'[f] = entries[f]
        /\ entries'[e] = z
        /\ \A f \in DOMAIN entries :
             /\ entries'[f].in = entries[f].in /\ entries'[f].home = entries[f].home /\ entries'[f].call = entries[f].call
             /\ entries'[f].stage = entries[f].stage /\ entries'[f].missed = entries[f].missed
             /\ entries'[f].steps = entries[f].steps /\ entries'[f].seq = entries[f].seq
             /\ entries'[f].parent = entries[f].parent /\ entries'[f].run = entries[f].run
    BY <1>3, <1>5, <1>6
  <1>8. /\ runs' \in Seq(RunType) /\ DOMAIN runs' = DOMAIN runs
        /\ \A q \in DOMAIN runs :
             /\ runs'[q].slot = runs[q].slot /\ runs'[q].stage = runs[q].stage /\ runs'[q].number = runs[q].number
             /\ runs'[q].home = runs[q].home /\ runs'[q].steps = runs[q].steps
             /\ runs'[q].list = (IF q = r THEN Tail(runs[r].list) ELSE runs[q].list)
    <2>1. Tail(runs[r].list) \in Seq(Nat)
      BY <1>5, HeadTailProperties
    <2>2. runs[r] \in RunType /\ runs \in Seq(RunType)
      BY <1>0, RecordFacts DEF RecordTypes
    <2>3. [runs[r] EXCEPT !.list = Tail(@)] \in RunType
      BY <2>1, <2>2 DEF RunType
    <2>4. runs' = [runs EXCEPT ![r] = [runs[r] EXCEPT !.list = Tail(@)]]
      BY <1>3
    <2>5. runs' \in Seq(RunType) /\ DOMAIN runs' = DOMAIN runs
      BY <2>2, <2>3, <2>4, UpdatesAreTyped
    <2> QED
      BY <2>2, <2>4, <2>5 DEF RunType
  <1> DEFINE pos(q, i) == IF q = r THEN i + 1 ELSE i
  <1>9. /\ \A q \in DOMAIN runs : \A i \in DOMAIN runs'[q].list :
              /\ i \in Nat /\ pos(q, i) \in DOMAIN runs[q].list /\ runs'[q].list[i] = runs[q].list[pos(q, i)]
              /\ runs'[q].list[i] # e
        /\ \A q \in DOMAIN runs : \A j \in DOMAIN runs[q].list :
              runs[q].list[j] # e => \E i \in DOMAIN runs'[q].list : runs'[q].list[i] = runs[q].list[j]
    <2>1. ASSUME NEW q \in DOMAIN runs
          PROVE  /\ \A i \in DOMAIN runs'[q].list :
                      /\ i \in Nat /\ pos(q, i) \in DOMAIN runs[q].list /\ runs'[q].list[i] = runs[q].list[pos(q, i)]
                      /\ runs'[q].list[i] # e
                 /\ \A j \in DOMAIN runs[q].list :
                      runs[q].list[j] # e => \E i \in DOMAIN runs'[q].list : runs'[q].list[i] = runs[q].list[j]
      <3>1. CASE q = r
        <4>1. /\ runs'[q].list \in Seq(Nat) /\ Len(runs'[q].list) = Len(runs[r].list) - 1
              /\ \A i \in 1 .. Len(runs'[q].list) : runs'[q].list[i] = runs[r].list[i + 1]
          <5>1. runs'[q].list = Tail(runs[r].list)
            BY <1>8, <3>1
          <5> QED
            BY <1>5, <5>1, HeadTailProperties
        <4>2. /\ DOMAIN runs'[q].list = 1 .. Len(runs'[q].list) /\ DOMAIN runs[r].list = 1 .. Len(runs[r].list)
              /\ Len(runs[r].list) \in Nat
          BY <1>5, <4>1, LenProperties
        <4>3. ASSUME NEW i \in DOMAIN runs'[q].list
              PROVE  i \in Nat /\ i + 1 \in DOMAIN runs[r].list /\ i + 1 # 1 /\ runs'[q].list[i] = runs[r].list[i + 1]
          BY <4>1, <4>2
        <4>4. ASSUME NEW j \in DOMAIN runs[r].list, j # 1
              PROVE  j - 1 \in DOMAIN runs'[q].list /\ runs'[q].list[j - 1] = runs[r].list[j]
          BY <4>1, <4>2, <4>4
        <4>5. \A i \in DOMAIN runs'[q].list : runs'[q].list[i] # e
          BY <1>5, <4>3
        <4>6. \A j \in DOMAIN runs[r].list : runs[r].list[j] # e => j # 1
          BY <1>5
        <4>7. \A j \in DOMAIN runs[q].list :
                runs[q].list[j] # e => \E i \in DOMAIN runs'[q].list : runs'[q].list[i] = runs[q].list[j]
          BY <3>1, <4>4, <4>6
        <4> QED
          BY <3>1, <4>3, <4>5, <4>7
      <3>2. CASE q # r
        <4>1. runs'[q].list = runs[q].list
          BY <1>8, <3>2
        <4>2. \A i \in DOMAIN runs[q].list : i \in Nat /\ runs[q].list[i] # e
          <5>1. runs[q].list \in Seq(Nat)
            BY <1>0, RecordFacts DEF RunType
          <5>2. DOMAIN runs[q].list = 1 .. Len(runs[q].list)
            BY <5>1, LenProperties
          <5> QED
            BY <1>5, <3>2, <5>2
        <4> QED
          BY <3>2, <4>1, <4>2
      <3> QED
        BY <3>1, <3>2
    <2> QED
      BY <2>1
  <1>10. \A q \in DOMAIN runs : \A i, j \in DOMAIN runs'[q].list : (pos(q, i) < pos(q, j) => i < j) /\ (pos(q, i) = pos(q, j) => i = j)
    BY <1>9
  <1>11. \A q, i : lock = q /\ i \in Nat /\ pos(q, i) = 1 => i = 0
    BY <1>3
  <1> HIDE DEF pos
  <1>12. /\ \A q \in DOMAIN runs : runs[q].slot \in DOMAIN entries
         /\ \A f \in DOMAIN entries : entries[f].in # Test => entries[f].in \in DOMAIN runs
         /\ \A q \in DOMAIN runs : \A i \in DOMAIN runs[q].list : runs[q].list[i] \in DOMAIN entries
         /\ \A i \in DOMAIN lines : lines[i].entry \in DOMAIN entries
    BY <1>0 DEF RunsFollow, EntriesFollow, ListsHold, LinesTell
  <1>13. /\ \A q \in DOMAIN runs : Swapped(runs'[q]) <=> Swapped(runs[q])
         /\ \A b : \A x \in Way(runs, b) : x \in Way(runs', b)
    <2>1. \A q \in DOMAIN runs : Swapped(runs'[q]) <=> Swapped(runs[q])
      BY <1>8 DEF Swapped
    <2>2. RunsGoOn(runs, runs')
      BY <1>8, <2>1 DEF RunsGoOn
    <2> QED
      BY <2>1, <2>2, WayGrows
  <1>14. \A f \in DOMAIN entries : (IsMoving(f) <=> f = e) /\ ~ IsMoving(f)'
    BY <1>1, <1>3, <1>5 DEF IsMoving
  <1>15. \A i \in DOMAIN lines : lines[i].seq = entries[e].seq => lines[i].entry = e
    BY <1>0, <1>5 DEF LinesTell, NumbersCount
  <1>16. /\ lines' \in Seq(LineType)
         /\ \A i \in DOMAIN lines : i \in DOMAIN lines' /\ lines'[i] = lines[i]
         /\ \A i \in DOMAIN lines' :
              \/ i \in DOMAIN lines
              \/ i = Len(lines) + 1 /\ lines'[i] = LineOf(entries, e)
         /\ entries[e].call => \E i \in DOMAIN lines' : lines'[i].entry = e
    <2>1. lines \in Seq(LineType)
      BY <1>0 DEF RecordTypes, LineType
    <2>2. LineOf(entries, e) \in LineType
      BY <1>0, <1>5, LinesAreTyped
    <2>3. CASE entries[e].call
      <3>1. lines' = Emit(entries, e)
        BY <1>3, <2>3
      <3> QED
        BY <1>15, <2>1, <2>2, <3>1, EmitTells
    <2>4. CASE ~ entries[e].call
      BY <1>3, <2>1, <2>4
    <2> QED
      BY <2>3, <2>4
  <1>17. RecordTypes'
    <2>1. entries' \in Seq(EntryType)
      BY <1>0, <1>3, <1>5, <1>6, UpdatesAreTyped DEF RecordTypes
    <2>2. lock' \in Nat
      BY <1>3
    <2> QED
      BY <1>0, <1>4, <1>8, <1>16, <2>1, <2>2 DEF RecordTypes, LineType
  <1>18. RunsFollow'
    BY <1>0, <1>4, <1>7, <1>8, <1>12, <1>13 DEF RunsFollow, IsHome, IsRecorded
  <1>19. EntriesFollow'
    <2>1. ASSUME NEW f \in DOMAIN entries
          PROVE  /\ entries'[f].in # Test => entries'[f].in \in DOMAIN runs /\ runs'[entries'[f].in].slot < f
                 /\ Loose <= entries'[f].home /\ entries'[f].home <= entries'[f].in /\ IsHome(entries'[f].home)
                 /\ entries'[f].in # Test => entries'[f].home \in Way(runs', entries'[f].in)
                 /\ entries'[f].in = Test => entries'[f].parent = 0 /\ ~ entries'[f].missed
                 /\ entries'[f].in # Test /\ entries'[f].parent = 0 => entries'[f].home = entries'[f].in
                 /\ entries'[f].in # Test /\ entries'[f].parent # 0 =>
                      /\ entries'[f].parent = runs'[entries'[f].in].slot
                      /\ entries'[f].run = runs'[entries'[f].in].number
                      /\ Swapped(runs'[entries'[f].in]) /\ entries'[f].home < entries'[f].in
                 /\ entries'[f].call <=> entries'[f].stage \notin {"open", "gone"}
                 /\ entries'[f].stage = "to_test" => entries'[f].home = Test
      BY <1>0, <1>7, <1>8, <1>12, <1>13 DEF EntriesFollow
    <2> QED
      BY <1>4, <1>7, <1>8, <2>1 DEF EntriesFollow, IsHome, IsRecorded
  <1>20. ListsHold'
    <2>1. ASSUME NEW q \in DOMAIN runs
          PROVE  /\ \A i \in DOMAIN runs'[q].list :
                      /\ runs'[q].list[i] \in DOMAIN entries /\ entries'[runs'[q].list[i]].in # Test
                      /\ entries'[runs'[q].list[i]].home = q
                 /\ \A i, j \in DOMAIN runs'[q].list : runs'[q].list[i] = runs'[q].list[j] => i = j
      <3>1. ASSUME NEW i \in DOMAIN runs'[q].list
            PROVE  /\ runs'[q].list[i] \in DOMAIN entries /\ entries'[runs'[q].list[i]].in # Test
                   /\ entries'[runs'[q].list[i]].home = q
        <4>1. pos(q, i) \in DOMAIN runs[q].list /\ runs'[q].list[i] = runs[q].list[pos(q, i)] /\ runs'[q].list[i] # e
          BY <1>9
        <4>2. lock = q /\ pos(q, i) = 1 => runs[q].list[pos(q, i)] = e
          BY <1>3, <1>5
        <4> QED
          BY <1>0, <1>7, <4>1, <4>2 DEF ListsHold
      <3>2. ASSUME NEW i \in DOMAIN runs'[q].list, NEW j \in DOMAIN runs'[q].list, runs'[q].list[i] = runs'[q].list[j]
            PROVE  i = j
        <4>1. pos(q, i) \in DOMAIN runs[q].list /\ pos(q, j) \in DOMAIN runs[q].list
              /\ runs[q].list[pos(q, i)] = runs[q].list[pos(q, j)]
          BY <1>9, <3>2
        <4>2. pos(q, i) = pos(q, j)
          BY <1>0, <4>1 DEF ListsHold
        <4> QED
          BY <1>10, <4>2
      <3> QED
        BY <3>1, <3>2
    <2>2. ASSUME NEW f \in DOMAIN entries, ~ entries'[f].missed, entries'[f].home > 0
          PROVE  /\ runs'[entries'[f].home].stage # "taken"
                 /\ \E i \in DOMAIN runs'[entries'[f].home].list : runs'[entries'[f].home].list[i] = f
      <3>1. f # e /\ ~ entries[f].missed /\ entries[f].home > 0 /\ entries'[f].home = entries[f].home
        BY <1>5, <1>7, <2>2 DEF Test
      <3>2. entries[f].home \in DOMAIN runs
        BY <1>0, <3>1, HomesAreRuns
      <3>3. /\ runs[entries[f].home].stage # "taken"
            /\ \E i \in DOMAIN runs[entries[f].home].list : runs[entries[f].home].list[i] = f
        BY <1>0, <3>1 DEF ListsHold
      <3> QED
        BY <1>8, <1>9, <3>1, <3>2, <3>3
    <2> QED
      BY <1>3, <1>7, <1>8, <2>1, <2>2 DEF ListsHold
  <1>21. NumbersCount'
    <2>1. ASSUME NEW f \in DOMAIN entries
          PROVE  /\ entries'[f].seq <= next /\ (entries'[f].home # Test => entries'[f].seq = 0)
                 /\ entries'[f].home = Test /\ ~ IsMoving(f)' => entries'[f].seq # 0
      BY <1>0, <1>3, <1>7, <1>14 DEF NumbersCount
    <2> QED
      BY <1>0, <1>4, <1>7, <2>1 DEF NumbersCount
  <1>22. ParentsGoAhead'
    <2> SUFFICES ASSUME NEW p \in DOMAIN runs, ~ entries'[runs[p].slot].missed
                 PROVE  /\ Swapped(runs'[p]) => entries'[runs[p].slot].home \in Way(runs', runs'[p].home)
                        /\ \A f \in DOMAIN entries :
                             entries[f].in = p =>
                               /\ entries'[f].parent # 0 =>
                                    /\ entries'[runs[p].slot].home \in Way(runs', entries'[f].home)
                                    /\ \A q \in DOMAIN runs : \A i, j \in DOMAIN runs'[q].list :
                                         runs'[q].list[i] = f /\ runs'[q].list[j] = runs[p].slot => j < i
                               /\ entries'[f].seq # 0 =>
                                    entries'[runs[p].slot].seq # 0 /\ entries'[runs[p].slot].seq < entries'[f].seq
      BY <1>7, <1>8, <1>12 DEF ParentsGoAhead
    <2>0. ~ entries[runs[p].slot].missed /\ runs[p].slot \in DOMAIN entries
      BY <1>7, <1>12
    <2>1. Swapped(runs'[p]) => entries[runs[p].slot].home \in Way(runs', runs'[p].home)
      BY <1>0, <1>8, <1>13, <2>0 DEF ParentsGoAhead
    <2>2. ASSUME NEW f \in DOMAIN entries, entries[f].in = p
          PROVE  /\ entries[f].parent # 0 =>
                      /\ entries[runs[p].slot].home \in Way(runs', entries[f].home)
                      /\ \A q \in DOMAIN runs : \A i, j \in DOMAIN runs'[q].list :
                           runs'[q].list[i] = f /\ runs'[q].list[j] = runs[p].slot => j < i
                 /\ entries[f].seq # 0 =>
                      entries[runs[p].slot].seq # 0 /\ entries[runs[p].slot].seq < entries[f].seq
      <3>1. /\ entries[f].parent # 0 =>
                 /\ entries[runs[p].slot].home \in Way(runs, entries[f].home)
                 /\ \A q \in DOMAIN runs : \A i, j \in DOMAIN runs[q].list :
                      runs[q].list[i] = f /\ runs[q].list[j] = runs[p].slot => j < i
            /\ entries[f].seq # 0 =>
                 entries[runs[p].slot].seq # 0 /\ entries[runs[p].slot].seq < entries[f].seq
        BY <1>0, <2>0, <2>2 DEF ParentsGoAhead
      <3>2. ASSUME NEW q \in DOMAIN runs, NEW i \in DOMAIN runs'[q].list, NEW j \in DOMAIN runs'[q].list,
                   runs'[q].list[i] = f, runs'[q].list[j] = runs[p].slot, entries[f].parent # 0
            PROVE  j < i
        <4>1. /\ pos(q, i) \in DOMAIN runs[q].list /\ runs[q].list[pos(q, i)] = f
              /\ pos(q, j) \in DOMAIN runs[q].list /\ runs[q].list[pos(q, j)] = runs[p].slot
          BY <1>9, <3>2
        <4>2. pos(q, j) < pos(q, i)
          BY <3>1, <3>2, <4>1
        <4> QED
          BY <1>10, <4>2
      <3> QED
        BY <1>13, <3>1, <3>2
    <2> QED
      BY <1>7, <2>0, <2>1, <2>2
  <1>23. /\ LineOf(entries, e).entry = e /\ LineOf(entries, e).seq = entries[e].seq
         /\ LineOf(entries, e).run = entries[e].run
         /\ LineOf(entries, e).parent = entries[entries[e].parent].seq
    BY <1>5 DEF LineOf
  <1>24. LinesTell'
    <2>1. ASSUME NEW i \in DOMAIN lines'
          PROVE  LET x == lines'[i].entry
                 IN  /\ x \in DOMAIN entries' /\ lines'[i].seq = entries'[x].seq /\ entries'[x].seq # 0
                     /\ entries'[x].in = Test => lines'[i].parent = 0
                     /\ entries'[x].in # Test =>
                          LET t == runs'[entries'[x].in].slot
                          IN  /\ lines'[i].run = runs'[entries'[x].in].number
                              /\ entries'[t].missed \/ lines'[i].parent = entries'[t].seq
      <3>1. CASE i \in DOMAIN lines
        <4>1. lines'[i] = lines[i] /\ lines[i].entry \in DOMAIN entries
          BY <1>12, <1>16, <3>1
        <4>2. LET x == lines[i].entry
              IN  /\ x \in DOMAIN entries /\ lines[i].seq = entries[x].seq /\ entries[x].seq # 0
                  /\ entries[x].in = Test => lines[i].parent = 0
                  /\ entries[x].in # Test =>
                       LET t == runs[entries[x].in].slot
                       IN  /\ lines[i].run = runs[entries[x].in].number
                           /\ entries[t].missed \/ lines[i].parent = entries[t].seq
          BY <1>0, <3>1 DEF LinesTell
        <4> QED
          BY <1>7, <1>8, <1>12, <4>1, <4>2
      <3>2. CASE lines'[i] = LineOf(entries, e)
        <4>1. /\ lines'[i].entry = e /\ lines'[i].seq = entries[e].seq /\ lines'[i].run = entries[e].run
              /\ lines'[i].parent = entries[entries[e].parent].seq
          BY <1>23, <3>2
        <4>2. /\ e \in DOMAIN entries' /\ entries'[e].seq = entries[e].seq /\ entries[e].seq # 0
              /\ entries'[e].in = entries[e].in /\ entries[e].in # Test
          BY <1>3, <1>5, <1>7
        <4>3. /\ runs'[entries[e].in].slot = entries[e].parent /\ runs'[entries[e].in].number = entries[e].run
              /\ entries'[entries[e].parent].seq = entries[entries[e].parent].seq
          BY <1>5, <1>7, <1>8
        <4> QED
          BY <4>1, <4>2, <4>3
      <3> QED
        BY <1>16, <3>1, <3>2
    <2>2. ASSUME NEW f \in DOMAIN entries
          PROVE  /\ entries'[f].home = Test /\ entries'[f].call
                    /\ entries'[f].stage \notin {"called", "to_test"} => \E i \in DOMAIN lines' : lines'[i].entry = f
                 /\ observed /\ entries'[f].home \in {Test, Loose}
                    /\ entries'[f].stage = "ended" => entries'[f].told = 1
                 /\ entries'[f].told = 1 => entries'[f].home \in {Test, Loose}
      <3>1. CASE f = e
        <4>1. entries[e].stage = "ended" => entries[e].call
          BY <1>0, <1>5 DEF EntriesFollow
        <4> QED
          BY <1>5, <1>6, <1>7, <1>16, <3>1, <4>1
      <3>2. CASE f # e
        <4>1. entries'[f] = entries[f] /\ ~ IsMoving(f)
          BY <1>7, <1>14, <3>2
        <4>2. /\ entries[f].home = Test /\ entries[f].call
                 /\ entries[f].stage \notin {"called", "to_test"} => \E i \in DOMAIN lines : lines[i].entry = f
              /\ observed /\ entries[f].home \in {Test, Loose}
                 /\ entries[f].stage = "ended" => entries[f].told = 1
              /\ entries[f].told = 1 => entries[f].home \in {Test, Loose}
          BY <1>0, <4>1 DEF LinesTell
        <4> QED
          BY <1>16, <4>1, <4>2
      <3> QED
        BY <3>1, <3>2
    <2> QED
      BY <1>4, <1>7, <2>1, <2>2 DEF LinesTell
  <1>25. ASSUME ~ late PROVE InTheirRuns' /\ OneLineEach'
    <2>0. InTheirRuns /\ OneLineEach
      BY <1>0, <1>25
    <2>1. ASSUME NEW f \in DOMAIN entries
          PROVE  /\ entries'[f].in # Test /\ runs'[entries'[f].in].stage # "body" => entries'[f].stage \in {"ended", "gone"}
                 /\ entries'[f].in # Test => entries'[f].stage # "to_test"
                 /\ entries'[f].missed =>
                      /\ entries'[f].home > 0 /\ runs'[entries'[f].in].stage # "body"
                      /\ \A q \in DOMAIN runs' : \A i \in DOMAIN runs'[q].list : runs'[q].list[i] # f
      <3>1. entries[f].missed => entries[f].in # Test
        BY <1>0 DEF EntriesFollow
      <3>2. /\ entries[f].in # Test /\ runs[entries[f].in].stage # "body" => entries[f].stage \in {"ended", "gone"}
            /\ entries[f].in # Test => entries[f].stage # "to_test"
            /\ entries[f].missed =>
                 /\ entries[f].home > 0 /\ runs[entries[f].in].stage # "body"
                 /\ \A q \in DOMAIN runs : \A i \in DOMAIN runs[q].list : runs[q].list[i] # f
        BY <2>0 DEF InTheirRuns
      <3>3. entries[f].in # Test => runs'[entries[f].in].stage = runs[entries[f].in].stage
        BY <1>8, <1>12
      <3>4. entries[f].missed => \A q \in DOMAIN runs' : \A i \in DOMAIN runs'[q].list : runs'[q].list[i] # f
        BY <1>8, <1>9, <3>2
      <3> QED
        BY <1>7, <3>1, <3>2, <3>3, <3>4
    <2>2. ASSUME NEW p \in DOMAIN runs
          PROVE  LET t == runs'[p].slot
                 IN  /\ Swapped(runs'[p]) /\ entries'[t].in # Test => runs'[p].home = entries'[t].in
                     /\ \A i \in DOMAIN runs'[p].list : entries'[runs'[p].list[i]].steps <= runs'[p].steps
                     /\ \A f \in DOMAIN entries' :
                          entries'[f].in = p =>
                            /\ entries'[t].missed => entries'[f].missed
                            /\ entries'[f].parent # 0 /\ entries'[f].home = entries'[t].home /\ entries'[f].home > 0
                               /\ ~ entries'[f].missed => entries'[t].steps <= entries'[f].steps
      <3>1. \A i \in DOMAIN runs'[p].list : entries'[runs'[p].list[i]].steps <= runs'[p].steps
        <4> TAKE i \in DOMAIN runs'[p].list
        <4>1. pos(p, i) \in DOMAIN runs[p].list /\ runs'[p].list[i] = runs[p].list[pos(p, i)]
          BY <1>9
        <4>2. entries[runs[p].list[pos(p, i)]].steps <= runs[p].steps /\ runs[p].list[pos(p, i)] \in DOMAIN entries
          BY <1>12, <2>0, <4>1 DEF InTheirRuns
        <4> QED
          BY <1>7, <1>8, <4>1, <4>2
      <3> QED
        <4> DEFINE t == runs[p].slot
        <4>1. runs'[p].slot = t /\ t \in DOMAIN entries
          BY <1>8, <1>12
        <4>2. /\ Swapped(runs[p]) /\ entries[t].in # Test => runs[p].home = entries[t].in
              /\ \A f \in DOMAIN entries :
                   entries[f].in = p =>
                     /\ entries[t].missed => entries[f].missed
                     /\ entries[f].parent # 0 /\ entries[f].home = entries[t].home /\ entries[f].home > 0
                        /\ ~ entries[f].missed => entries[t].steps <= entries[f].steps
          BY <2>0 DEF InTheirRuns
        <4>3. Swapped(runs'[p]) /\ entries'[t].in # Test => runs'[p].home = entries'[t].in
          BY <1>7, <1>8, <1>13, <4>1, <4>2
        <4>4. \A f \in DOMAIN entries :
                entries'[f].in = p =>
                  /\ entries'[t].missed => entries'[f].missed
                  /\ entries'[f].parent # 0 /\ entries'[f].home = entries'[t].home /\ entries'[f].home > 0
                     /\ ~ entries'[f].missed => entries'[t].steps <= entries'[f].steps
          BY <1>7, <4>1, <4>2
        <4> HIDE DEF t
        <4> QED
          BY <1>7, <3>1, <4>1, <4>3, <4>4
    <2>3. InTheirRuns'
      BY <1>7, <1>8, <2>1, <2>2 DEF InTheirRuns
    <2>4. \A i \in DOMAIN lines : lines[i].entry # e
      BY <1>5, <1>14, <2>0 DEF OneLineEach
    <2>5. ASSUME NEW i \in DOMAIN lines', NEW j \in DOMAIN lines', lines'[i].entry = lines'[j].entry
          PROVE  i = j
      <3>1. i \in DOMAIN lines /\ j \in DOMAIN lines => i = j
        BY <1>16, <2>0, <2>5 DEF OneLineEach
      <3>2. i \in DOMAIN lines /\ j \notin DOMAIN lines => FALSE
        BY <1>16, <1>23, <2>4, <2>5
      <3>3. j \in DOMAIN lines /\ i \notin DOMAIN lines => FALSE
        BY <1>16, <1>23, <2>4, <2>5
      <3> QED
        BY <1>16, <3>1, <3>2, <3>3
    <2>6. ASSUME NEW i \in DOMAIN lines'
          PROVE  LET x == lines'[i].entry
                 IN  x \in DOMAIN entries /\ (entries'[x].in = Test => entries'[x].stage = "ended")
      <3>1. CASE i \in DOMAIN lines
        <4>1. lines'[i] = lines[i] /\ lines[i].entry \in DOMAIN entries
          BY <1>12, <1>16, <3>1
        <4> QED
          BY <1>7, <2>0, <3>1, <4>1 DEF OneLineEach
      <3>2. CASE lines'[i] = LineOf(entries, e)
        BY <1>5, <1>7, <1>23, <3>2
      <3> QED
        BY <1>16, <3>1, <3>2
    <2>7. OneLineEach'
      BY <1>14, <2>5, <2>6 DEF OneLineEach
    <2> QED
      BY <2>3, <2>7
  <1> QED
    BY <1>4, <1>17, <1>18, <1>19, <1>20, <1>21, <1>22, <1>24, <1>25 DEF RecordsInductive

-----------------------------------------------------------------------------
(***************************************************************************)
(* The invariant holds.                                                    *)
(***************************************************************************)
LEMMA RecordsBegin ==
  ASSUME RecordsInit
  PROVE  RecordsInductive
  <1>1. /\ state \in {"off", "keeping", "writing"} /\ observed \in BOOLEAN /\ late \in BOOLEAN
    <2>1. PICK m \in Modes : state = m.state /\ observed = m.observed /\ late = m.late
      BY DEF RecordsInit
    <2>2. m \in [state : {"off", "keeping", "writing"}, observed : BOOLEAN, late : BOOLEAN]
      BY <2>1, RecordsAssumption
    <2> QED
      BY <2>1, <2>2
  <1>2. next = 0 /\ entries = <<>> /\ runs = <<>> /\ lines = <<>> /\ lock = 0
    BY DEF RecordsInit
  <1>3. DOMAIN entries = {} /\ DOMAIN runs = {} /\ DOMAIN lines = {} /\ 1 .. next = {}
    BY <1>2
  <1>4. RecordTypes
    <2>1. \A S : <<>> \in Seq(S)
      OBVIOUS
    <2> QED
      BY <1>1, <1>2, <2>1 DEF RecordTypes
  <1>5. RunsFollow /\ EntriesFollow /\ ParentsGoAhead /\ LinesTell
    BY <1>3 DEF RunsFollow, EntriesFollow, ParentsGoAhead, LinesTell
  <1>6. ListsHold /\ NumbersCount
    BY <1>2, <1>3 DEF ListsHold, NumbersCount
  <1>7. InTheirRuns /\ OneLineEach
    BY <1>3 DEF InTheirRuns, OneLineEach
  <1> QED
    BY <1>4, <1>5, <1>6, <1>7 DEF RecordsInductive

LEMMA RecordsStepsKeep ==
  ASSUME RecordsInductive, RecordsNext
  PROVE  RecordsInductive'
  <1>1. ASSUME NEW h \in Seats, NEW ended \in BOOLEAN, Add(h, ended) PROVE RecordsInductive'
    <2>1. CASE h = Test
      BY <1>1, <2>1, AddToTestKeeps
    <2>2. CASE h # Test
      <3>1. h \in DOMAIN runs /\ (runs[h].stage = "body" \/ late)
        BY <1>1, <2>2 DEF Seats
      <3> QED
        BY <1>1, <3>1, AddToRunKeeps
    <2> QED
      BY <2>1, <2>2
  <1>2. CASE Call \/ Begin
    BY <1>1, <1>2 DEF Call, Begin
  <1>3. ASSUME NEW s \in DOMAIN entries,
               StartRun(s) \/ EndSlot(s) \/ ReadHome(s) \/ WriteRecord(s) \/ Abandon(s)
        PROVE  RecordsInductive'
    BY <1>3, StartRunKeeps, EndSlotKeeps, ReadHomeKeeps, WriteRecordKeeps, AbandonKeeps
  <1>4. ASSUME NEW r \in DOMAIN runs, Walk(r) \/ EndRun(r) \/ Swap(r) \/ FindHome(r) \/ Taken(r) PROVE RecordsInductive'
    BY <1>4, WalkKeeps, EndRunKeeps, SwapKeeps, FindHomeKeeps, TakenKeeps
  <1>5. ASSUME NEW r \in DOMAIN runs, MoveToRun(r) \/ MoveHome(r) \/ MoveNumber(r) \/ MoveRecord(r)
        PROVE  RecordsInductive'
    BY <1>5, MoveToRunKeeps, MoveHomeKeeps, MoveNumberKeeps, MoveRecordKeeps
  <1> QED
    BY <1>2, <1>3, <1>4, <1>5 DEF RecordsNext

LEMMA RecordsStandStill ==
  ASSUME RecordsInductive, UNCHANGED recordVars
  PROVE  RecordsInductive'
  <1>1. UNCHANGED <<state, observed, late, next, entries, runs, lines, lock>>
    BY DEF recordVars
  <1>2. RecordTypes' <=> RecordTypes
    BY <1>1 DEF RecordTypes
  <1>3. (RunsFollow' <=> RunsFollow) /\ (EntriesFollow' <=> EntriesFollow)
    BY <1>1 DEF RunsFollow, EntriesFollow, IsHome, IsRecorded
  <1>4. (ListsHold' <=> ListsHold) /\ (NumbersCount' <=> NumbersCount)
    BY <1>1 DEF ListsHold, NumbersCount, IsMoving
  <1>5. (ParentsGoAhead' <=> ParentsGoAhead) /\ (LinesTell' <=> LinesTell)
    BY <1>1 DEF ParentsGoAhead, LinesTell, IsMoving
  <1>6. (InTheirRuns' <=> InTheirRuns) /\ (OneLineEach' <=> OneLineEach)
    BY <1>1 DEF InTheirRuns, OneLineEach, IsMoving
  <1> QED
    BY <1>1, <1>2, <1>3, <1>4, <1>5, <1>6 DEF RecordsInductive

\* At every step the calls are where the invariant says: in the list of their home or
\* numbered on the calls of the test, behind the calls that contain them
\* (Calls.add, Slot.take, Slot.write).
THEOREM RecordsInvariantHolds == RecordsSpec => []RecordsInductive
  <1>1. RecordsInit => RecordsInductive
    BY RecordsBegin
  <1>2. RecordsInductive /\ [RecordsNext]_recordVars => RecordsInductive'
    BY RecordsStepsKeep, RecordsStandStill
  <1> QED
    BY <1>1, <1>2, PTL DEF RecordsSpec

-----------------------------------------------------------------------------
(***************************************************************************)
(* What the invariant says of the records.                                 *)
(***************************************************************************)
LEMMA NumbersAreRight ==
  ASSUME RecordsInductive
  PROVE  NumbersAreTrue
  <1>0. /\ RecordTypes /\ EntriesFollow /\ NumbersCount /\ ParentsGoAhead /\ LinesTell
        /\ (~ late => InTheirRuns)
    BY DEF RecordsInductive
  <1>1. /\ next \in Nat /\ DOMAIN entries = 1 .. Len(entries) /\ Len(entries) \in Nat
        /\ \A e \in DOMAIN entries : entries[e].seq \in Nat
    BY <1>0, RecordFacts DEF RecordTypes, EntryType
  <1> DEFINE f == [e \in Numbered |-> entries[e].seq]
  <1>2. f \in Bijection(Numbered, 1 .. next)
    <2>1. \A e \in Numbered : entries[e].seq \in 1 .. next
      BY <1>0, <1>1 DEF Numbered, NumbersCount
    <2>2. f \in [Numbered -> 1 .. next]
      BY <2>1
    <2>3. \A a, b \in Numbered : f[a] = f[b] => a = b
      BY <1>0 DEF Numbered, NumbersCount
    <2>4. \A n \in 1 .. next : \E e \in Numbered : f[e] = n
      <3> TAKE n \in 1 .. next
      <3>1. PICK e \in DOMAIN entries : entries[e].seq = n
        BY <1>0 DEF NumbersCount
      <3>2. n # 0
        BY <1>1
      <3>3. e \in Numbered
        BY <3>1, <3>2 DEF Numbered
      <3> QED
        BY <3>1, <3>3
    <2>5. IsInjective(f) /\ DOMAIN f = Numbered
      BY <2>3 DEF IsInjective
    <2> HIDE DEF f
    <2> QED
      BY <2>2, <2>4, <2>5 DEF Bijection, Injection, Surjection
  <1>3. {entries[e].seq : e \in Numbered} = 1 .. next
    <2>1. \A n : n \in 1 .. next <=> \E e \in Numbered : n = entries[e].seq
      <3>1. \A e \in Numbered : entries[e].seq \in 1 .. next
        BY <1>0, <1>1 DEF Numbered, NumbersCount
      <3>2. ASSUME NEW n \in 1 .. next PROVE \E e \in Numbered : n = entries[e].seq
        <4>1. PICK e \in DOMAIN entries : entries[e].seq = n
          BY <1>0 DEF NumbersCount
        <4> QED
          BY <1>1, <4>1 DEF Numbered
      <3> QED
        BY <3>1, <3>2
    <2> QED
      BY <2>1
  <1>4. Cardinality(Numbered) = next
    <2>1. IsFiniteSet(1 .. Len(entries)) /\ IsFiniteSet(1 .. next) /\ Cardinality(1 .. next) = next
      BY <1>1, FS_Interval
    <2>2. IsFiniteSet(Numbered)
      BY <1>1, <2>1, FS_Subset DEF Numbered
    <2>3. ExistsBijection(Numbered, 1 .. next)
      BY <1>2 DEF ExistsBijection
    <2> QED
      BY <2>1, <2>2, <2>3, FS_Bijection
  <1>5. ASSUME NEW i \in DOMAIN lines
        PROVE  LET e == entries[lines[i].entry]
               IN  /\ lines[i].seq = e.seq
                   /\ IF e.in = Test THEN lines[i].parent = 0
                      ELSE IF late /\ entries[runs[e.in].slot].missed THEN TRUE
                      ELSE /\ lines[i].parent \in 1 .. e.seq - 1
                           /\ lines[i].parent = entries[runs[e.in].slot].seq
                           /\ lines[i].run = runs[e.in].number
    <2> DEFINE x == lines[i].entry
               r == entries[x].in
               s == runs[r].slot
    <2>1. /\ x \in DOMAIN entries /\ lines[i].seq = entries[x].seq /\ entries[x].seq # 0
          /\ r = Test => lines[i].parent = 0
          /\ r # Test => lines[i].run = runs[r].number /\ (entries[s].missed \/ lines[i].parent = entries[s].seq)
      BY <1>0 DEF LinesTell
    <2>2. ASSUME r # Test, ~ (late /\ entries[s].missed)
          PROVE  /\ lines[i].parent \in 1 .. entries[x].seq - 1
                 /\ lines[i].parent = entries[s].seq
                 /\ lines[i].run = runs[r].number
      <3>1. r \in DOMAIN runs /\ s \in DOMAIN entries
        BY <1>0, <2>1, <2>2 DEF EntriesFollow, RecordsInductive, RunsFollow
      <3>2. ~ entries[s].missed
        <4> SUFFICES ASSUME entries[s].missed PROVE FALSE
          OBVIOUS
        <4>1. ~ late /\ InTheirRuns
          BY <1>0, <2>2
        <4>2. entries[x].missed
          BY <2>1, <3>1, <4>1 DEF InTheirRuns
        <4>3. entries[x].home > 0
          BY <2>1, <4>1, <4>2 DEF InTheirRuns
        <4>4. entries[x].home # Test
          BY <4>3 DEF Test
        <4> QED
          BY <1>0, <2>1, <4>4 DEF NumbersCount
      <3>3. entries[s].seq # 0 /\ entries[s].seq < entries[x].seq
        BY <1>0, <2>1, <3>1, <3>2 DEF ParentsGoAhead
      <3>4. lines[i].parent = entries[s].seq /\ lines[i].run = runs[r].number
        BY <2>1, <2>2, <3>2
      <3>5. entries[s].seq \in 1 .. entries[x].seq - 1
        BY <1>1, <2>1, <3>1, <3>3
      <3> QED
        BY <3>4, <3>5
    <2> QED
      BY <2>1, <2>2
  <1> QED
    BY <1>3, <1>4, <1>5 DEF NumbersAreTrue

\* A call has arrived if all runs that hold it back were taken.
LEMMA ArrivedIsDefined ==
  ASSUME RecordsInductive, NEW e \in DOMAIN entries
  PROVE  Arrived[e] <=> \/ entries[e].in = Test
                        \/ runs[entries[e].in].stage = "taken" /\ Arrived[runs[entries[e].in].slot]
  <1> DEFINE D == DOMAIN entries
             slot(x) == runs[entries[x].in].slot
             May(S, x) == entries[x].in = Test \/ (runs[entries[x].in].stage = "taken" /\ slot(x) \in S)
             Closed(S) == \A x \in D : May(S, x) => x \in S
             L == {x \in D : \A S \in SUBSET D : Closed(S) => x \in S}
             F == [x \in D |-> x \in L]
             Solves(g) == g = [x \in D |-> \/ entries[x].in = Test
                                           \/ runs[entries[x].in].stage = "taken" /\ g[runs[entries[x].in].slot]]
  <1>1. \A x \in D : May(L, x) => x \in L
    <2> SUFFICES ASSUME NEW x \in D, May(L, x), NEW S \in SUBSET D, Closed(S) PROVE x \in S
      OBVIOUS
    <2>1. May(S, x)
      OBVIOUS
    <2> QED
      BY <2>1
  <1>2. \A x \in L : May(L, x)
    <2> DEFINE S == {y \in D : May(L, y)}
    <2>1. S \in SUBSET D /\ \A y \in S : y \in L
      BY <1>1
    <2>2. Closed(S)
      <3> SUFFICES ASSUME NEW y \in D, May(S, y) PROVE May(L, y)
        OBVIOUS
      <3> QED
        BY <2>1
    <2>3. \A x \in L : x \in S
      BY <2>1, <2>2
    <2> QED
      BY <2>3
  <1>3. \A x \in D : entries[x].in # Test => slot(x) \in D
    BY DEF RecordsInductive, EntriesFollow, RunsFollow
  <1>4. \A x \in D : x \in L <=> \/ entries[x].in = Test
                                 \/ runs[entries[x].in].stage = "taken" /\ F[runs[entries[x].in].slot]
    BY <1>1, <1>2, <1>3
  <1> DEFINE R(x) == \/ entries[x].in = Test
                     \/ runs[entries[x].in].stage = "taken" /\ F[runs[entries[x].in].slot]
  <1> HIDE DEF L
  <1>5. Solves(F)
    <2>1. \A x \in D : (x \in L) = R(x)
      <3> TAKE x \in D
      <3>1. (x \in L) \in BOOLEAN /\ R(x) \in BOOLEAN /\ ((x \in L) <=> R(x))
        <4>1. (x \in L) <=> R(x)
          BY <1>4
        <4> HIDE DEF F
        <4>2. R(x) \in BOOLEAN
          OBVIOUS
        <4> QED
          BY <4>1, <4>2
      <3> HIDE DEF R
      <3> QED
        BY <3>1
    <2> HIDE DEF R
    <2>2. F = [x \in D |-> R(x)]
      BY <2>1, Zenon
    <2> QED
      BY <2>2, Zenon DEF R
  <1>6. Arrived = CHOOSE g : Solves(g)
    BY Zenon DEF Arrived
  <1> HIDE DEF F
  <1>7. Solves(Arrived)
    BY <1>5, <1>6
  <1> QED
    BY <1>7

\* No run on the way of a call that arrived is held back.
LEMMA TheWayIsFree ==
  ASSUME RecordsInductive
  PROVE  \A e \in DOMAIN entries :
           Arrived[e] => \A x \in Way(runs, entries[e].in) : x \in DOMAIN runs => runs[x].stage = "taken"
  <1>0. RecordTypes /\ RunsFollow /\ EntriesFollow
    BY DEF RecordsInductive
  <1> DEFINE Free(e) == Arrived[e] => \A x \in Way(runs, entries[e].in) : x \in DOMAIN runs => runs[x].stage = "taken"
             Bad == {e \in DOMAIN entries : ~ Free(e)}
  <1> SUFFICES ASSUME Bad # {} PROVE FALSE
    OBVIOUS
  <1> HIDE DEF Free
  <1>1. PICK e \in Bad : \A f \in Bad : e <= f
    <2>1. Bad \in SUBSET Nat
      BY <1>0, RecordFacts
    <2> HIDE DEF Bad
    <2> QED
      BY <2>1, SetsHaveALeast
  <1>2. e \in DOMAIN entries /\ ~ Free(e) /\ e \in Nat
    BY <1>0, <1>1, RecordFacts
  <1>3. Arrived[e] /\ \E x \in Way(runs, entries[e].in) : x \in DOMAIN runs /\ runs[x].stage # "taken"
    BY <1>2 DEF Free
  <1>4. PICK x \in Way(runs, entries[e].in) : x \in DOMAIN runs /\ runs[x].stage # "taken"
    BY <1>3
  <1>5. Test \notin DOMAIN runs /\ Test \in Int /\ \A y : y <= 0 /\ y \in Int => y \notin DOMAIN runs
    BY <1>0, RecordFacts DEF Test
  <1>6. entries[e].in # Test
    <2> SUFFICES ASSUME entries[e].in = Test PROVE FALSE
      OBVIOUS
    <2>1. x = Test
      BY <1>4, <1>5, WayEnds
    <2> QED
      BY <1>4, <1>5, <2>1
  <1> DEFINE r == entries[e].in
             s == runs[r].slot
  <1>7. runs[r].stage = "taken" /\ Arrived[s]
    BY <1>2, <1>3, <1>6, ArrivedIsDefined
  <1>8. r \in DOMAIN runs /\ r \in Int /\ s \in DOMAIN entries /\ s < e /\ s \in Nat
    BY <1>0, <1>2, <1>6, RecordFacts DEF EntriesFollow, RunsFollow
  <1>9. Free(s)
    <2>1. s \notin Bad
      <3> HIDE DEF Bad, s
      <3> QED
        BY <1>1, <1>2, <1>8
    <2> QED
      BY <1>8, <2>1
  <1>10. Swapped(runs[r]) /\ runs[r].home \in Int /\ \A q \in DOMAIN runs : Swapped(runs[q]) => runs[q].home \in Int
    BY <1>0, <1>7, <1>8, HomesAreNumbers DEF Swapped
  <1>11. x \in Way(runs, runs[r].home)
    <2>1. x # r
      BY <1>4, <1>7
    <2> QED
      BY <1>4, <1>8, <1>10, <2>1, WayFromHome
  <1>12. CASE entries[s].in = Test
    <2>1. runs[r].home <= 0
      BY <1>0, <1>8, <1>10, <1>12 DEF RunsFollow
    <2>2. runs[r].home \notin DOMAIN runs
      BY <1>5, <1>10, <2>1
    <2>3. x = runs[r].home
      BY <1>10, <1>11, <2>2, WayEnds
    <2> QED
      BY <1>4, <2>2, <2>3
  <1>13. CASE entries[s].in # Test
    <2>1. runs[r].home \in Way(runs, entries[s].in)
      BY <1>0, <1>8, <1>10, <1>13 DEF RunsFollow
    <2>2. x \in Way(runs, entries[s].in)
      BY <1>11, <2>1, WayIsAWay
    <2> QED
      BY <1>4, <1>7, <1>9, <2>2 DEF Free
  <1> QED
    BY <1>12, <1>13

LEMMA CallsAreWritten ==
  ASSUME RecordsInductive
  PROVE  EndedCallsAreWritten
  <1>0. /\ RecordTypes /\ RunsFollow /\ EntriesFollow /\ ListsHold /\ NumbersCount /\ LinesTell
        /\ (~ late => InTheirRuns /\ OneLineEach)
    BY DEF RecordsInductive
  <1>1. ASSUME NEW e \in Due
        PROVE  /\ IsRecorded => LinesOf(e) # {}
               /\ observed => entries[e].told = 1
    <2>1. e \in DOMAIN entries /\ entries[e].stage = "ended" /\ Arrived[e] /\ ~ entries[e].missed
      BY DEF Due
    <2>2. \A x \in Way(runs, entries[e].in) : x \in DOMAIN runs => runs[x].stage = "taken"
      BY <2>1, TheWayIsFree
    <2>3. ~ IsMoving(e)
      <3> SUFFICES ASSUME IsMoving(e) PROVE FALSE
        OBVIOUS
      <3>1. lock \in DOMAIN runs /\ runs[lock].stage = "swapped" /\ lock \in Way(runs, entries[e].in)
        BY <1>0 DEF IsMoving, ListsHold
      <3> QED
        BY <2>2, <3>1
    <2>4. entries[e].home \in {Test, Loose}
      <3>1. entries[e].home \in Int /\ Loose <= entries[e].home
        BY <1>0, <2>1, RecordFacts DEF EntriesFollow, EntryType
      <3>2. ~ (entries[e].home > 0)
        <4> SUFFICES ASSUME entries[e].home > 0 PROVE FALSE
          OBVIOUS
        <4>1. entries[e].home \in DOMAIN runs /\ entries[e].in \in DOMAIN runs
          BY <1>0, <2>1, HomesAreRuns
        <4>2. entries[e].in # Test
          BY <1>0, <4>1, RecordFacts DEF Test
        <4>3. entries[e].home \in Way(runs, entries[e].in)
          BY <1>0, <2>1, <4>2 DEF EntriesFollow
        <4>4. runs[entries[e].home].stage # "taken"
          BY <1>0, <2>1 DEF ListsHold
        <4> QED
          BY <2>2, <4>1, <4>3, <4>4
      <3> QED
        BY <3>1, <3>2 DEF Test, Loose
    <2>5. entries[e].call
      BY <1>0, <2>1 DEF EntriesFollow
    <2>6. IsRecorded => entries[e].home = Test
      BY <1>0, <2>1, <2>4 DEF EntriesFollow, IsHome
    <2>7. IsRecorded => \E i \in DOMAIN lines : lines[i].entry = e
      BY <1>0, <2>1, <2>3, <2>5, <2>6 DEF LinesTell
    <2> QED
      BY <1>0, <2>1, <2>3, <2>4, <2>7 DEF LinesTell, LinesOf
  <1>2. ASSUME ~ late, NEW e \in DOMAIN entries
        PROVE  /\ Cardinality(LinesOf(e)) <= 1
               /\ entries[e].missed => LinesOf(e) = {} /\ entries[e].told = 0
    <2>1. \A i, j \in LinesOf(e) : i = j
      BY <1>0, <1>2 DEF LinesOf, OneLineEach
    <2>2. Cardinality(LinesOf(e)) <= 1
      <3>1. CASE LinesOf(e) = {}
        BY <3>1, FS_EmptySet
      <3>2. CASE LinesOf(e) # {}
        <4>1. PICK i : LinesOf(e) = {i}
          BY <2>1, <3>2
        <4>2. Cardinality({i}) = 1
          BY FS_Singleton
        <4> QED
          BY <4>1, <4>2
      <3> QED
        BY <3>1, <3>2
    <2>3. ASSUME entries[e].missed PROVE LinesOf(e) = {} /\ entries[e].told = 0
      <3>1. entries[e].home > 0
        BY <1>0, <1>2, <2>3 DEF InTheirRuns
      <3>2. entries[e].home \notin {Test, Loose}
        BY <3>1 DEF Test, Loose
      <3>3. entries[e].seq = 0 /\ entries[e].told # 1
        BY <1>0, <3>2 DEF NumbersCount, LinesTell
      <3>4. entries[e].told \in {0, 1}
        BY <1>0, RecordFacts DEF EntryType
      <3> QED
        BY <1>0, <3>3, <3>4 DEF LinesTell, LinesOf
    <2> QED
      BY <2>2, <2>3
  <1> QED
    BY <1>1, <1>2 DEF EndedCallsAreWritten

\* No number is shared or left out, a record has the number of its call and the number of
\* a parent that came before, and a call that ended is written once the runs around it
\* were taken (Calls.add, Slot.take, Slot.write).
THEOREM RecordsAreWritten == RecordsSpec => []RecordsAreWhole
  <1>1. RecordsInductive => RecordsAreWhole
    BY NumbersAreRight, CallsAreWritten DEF RecordsAreWhole
  <1> QED
    BY <1>1, RecordsInvariantHolds, PTL
=============================================================================
