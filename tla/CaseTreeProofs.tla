---------------------------- MODULE CaseTreeProofs ---------------------------
(***************************************************************************)
(* Proofs about the case tree (CaseTree): for any body, any bounds of its  *)
(* requests, any number of requests of a case and any limit of a tree.     *)
(***************************************************************************)
EXTENDS CaseTree, FiniteSetTheorems, SequenceTheorems, WellFoundedInduction, TLAPS

-----------------------------------------------------------------------------
(***************************************************************************)
(* The inductive invariant.                                                *)
(***************************************************************************)

\* The values that a case draws, and the ends that a leaf may have.
Values == UNION Bounds \ {Undrawn}
Tested == {"passed", "failed", "rejected"}

NodeType == [bounds : Bounds \cup {NoBounds}, ending : Tested \cup {"none"}, exhausted : BOOLEAN]

\* The trees within the limits of a run.
Trees == [node : UNION {[D -> NodeType] : D \in SUBSET Seq(Values)}, full : BOOLEAN]

\* Each edge of a tree is a value that the request of its node allows, and a leaf has no
\* request.  A tree that is full has a request at its root.
Branches(t) ==
  /\ <<>> \in DOMAIN t.node
  /\ \A p \in DOMAIN t.node :
       /\ p # <<>> => /\ Len(p) <= Depth /\ Front(p) \in DOMAIN t.node
                      /\ Last(p) \in t.node[Front(p)].bounds
       /\ t.node[p].ending # "none" => t.node[p].bounds = NoBounds
  /\ t.full => t.node[<<>>].bounds # NoBounds

Within(t) == IsFiniteSet(DOMAIN t.node) /\ Cardinality(DOMAIN t.node) <= Limit

\* Each value that the request of a node allows leads to an exhausted node.
AllBelow(t, p) ==
  \A v \in t.node[p].bounds : Append(p, v) \in DOMAIN t.node /\ t.node[Append(p, v)].exhausted

\* A node counts as exhausted exactly when nothing below it is left.
Counts(t) ==
  \A p \in DOMAIN t.node :
    t.node[p].exhausted <=> \/ t.node[p].ending # "none"
                            \/ t.node[p].bounds # NoBounds /\ AllBelow(t, p)

GoodTree(t) == t \in Trees /\ Branches(t) /\ Within(t) /\ Counts(t)

\* What the body did is a tree of requests and ends.
ABody(a) ==
  /\ a \in UNION {[D -> [bounds : Bounds \cup {NoBounds}, ending : Endings \cup {"none"}]] :
                    D \in SUBSET Seq(Values)}
  /\ \A p \in DOMAIN a :
       /\ a[p].ending = "none" <=> a[p].bounds # NoBounds
       /\ p # <<>> => Front(p) \in DOMAIN a /\ Last(p) \in a[Front(p)].bounds

\* A tree has what the body did, and all of it while it grows.
Tells(t, a) ==
  \A p \in DOMAIN t.node :
    /\ p # <<>> => p \in DOMAIN a
    /\ t.node[p].bounds # NoBounds => p \in DOMAIN a /\ a[p].bounds = t.node[p].bounds
    /\ t.node[p].ending # "none" => p \in DOMAIN a /\ a[p].ending = t.node[p].ending
TellsAll(t, a) ==
  ~ t.full => \A p \in DOMAIN a :
    /\ p \in DOMAIN t.node
    /\ t.node[p].bounds = a[p].bounds
    /\ a[p].ending \in Tested => t.node[p].ending = a[p].ending

\* Both trees are sound, they are the same while the run goes on, and the tree has what a
\* body did that is a function of its values.
TreeInductive ==
  /\ GoodTree(tree) /\ GoodTree(other)
  /\ last.serial \in Statuses /\ last.ahead \in Statuses /\ flaky \in BOOLEAN
  /\ last.serial \notin EndsRun => tree = other
  /\ "skipped" \notin FlakyLaters => last.serial = last.ahead
  /\ ~ flaky => /\ ABody(asked) /\ Tells(tree, asked) /\ TellsAll(tree, asked)
                /\ last.serial = last.ahead /\ last.serial # "diverged"

-----------------------------------------------------------------------------
(***************************************************************************)
(* Induction, recursion and sequences.                                     *)
(***************************************************************************)

LEMMA SmallerIsRelatedNat ==
  ASSUME NEW x \in Nat, NEW y \in Nat, y < x
  PROVE  <<y, x>> \in OpToRel(<, Nat)
  <1>1. <<y, x>> \in Nat \X Nat /\ <<y, x>>[1] < <<y, x>>[2]
    OBVIOUS
  <1> QED
    BY ONLY <1>1, Zenon DEF OpToRel

LEMMA SetsHaveALeast ==
  ASSUME NEW S \in SUBSET Nat, S # {}
  PROVE  \E x \in S : \A y \in S : x <= y
  <1>1. \A x \in S, y \in S : y < x => <<y, x>> \in OpToRel(<, Nat)
    BY SmallerIsRelatedNat
  <1>2. \E x \in S : \A y \in S : ~ (<<y, x>> \in OpToRel(<, Nat))
    BY NatLessThanWellFounded, WFMin
  <1>3. \E x \in S : \A y \in S : ~ (y < x)
    BY <1>1, <1>2, Zenon
  <1> QED
    BY <1>3

\* A set of numbers up to N that has 0 and the successor of each of its numbers.
LEMMA UpFromZero ==
  ASSUME NEW N \in Nat, NEW S, 0 \in S, \A n \in 1 .. N : n - 1 \in S => n \in S
  PROVE  0 .. N \subseteq S
  <1> DEFINE Bad == {n \in 0 .. N : n \notin S}
  <1> SUFFICES ASSUME Bad # {} PROVE FALSE
    OBVIOUS
  <1>1. PICK m \in Bad : \A n \in Bad : m <= n
    <2>1. Bad \in SUBSET Nat
      OBVIOUS
    <2> HIDE DEF Bad
    <2> QED
      BY <2>1, SetsHaveALeast
  <1>2. m \in 1 .. N /\ m - 1 \in 0 .. N /\ ~ (m <= m - 1)
    BY <1>1
  <1>3. m - 1 \in S
    BY <1>1, <1>2
  <1> QED
    BY <1>1, <1>2, <1>3

\* A recursion over the numbers up to N has a solution.
Solution(f, N, W, base, step) ==
  f \in [0 .. N -> W] /\ f[0] = base /\ \A n \in 1 .. N : f[n] = step[<<f[n - 1], n>>]

LEMMA RecursionHasASolution ==
  ASSUME NEW N \in Nat, NEW W, NEW base \in W, NEW step \in [W \X (1 .. N) -> W]
  PROVE  \E f : Solution(f, N, W, base, step)
  <1> DEFINE Upto(f, m) == f \in [0 .. m -> W] /\ f[0] = base
                           /\ \A n \in 1 .. m : f[n] = step[<<f[n - 1], n>>]
             S == {m \in 0 .. N : \E f : Upto(f, m)}
  <1>1. 0 \in S
    <2> DEFINE f == [n \in 0 .. 0 |-> base]
    <2>1. f \in [0 .. 0 -> W] /\ f[0] = base /\ 1 .. 0 = {}
      OBVIOUS
    <2> HIDE DEF f
    <2>2. Upto(f, 0)
      BY <2>1
    <2>3. \E g : Upto(g, 0)
      BY <2>2
    <2> HIDE DEF Upto
    <2> QED
      BY <2>3
  <1>2. ASSUME NEW m \in 1 .. N, m - 1 \in S PROVE m \in S
    <2>1. PICK f : Upto(f, m - 1)
      BY <1>2
    <2>2. m - 1 \in 0 .. m - 1 /\ 0 \in 0 .. m - 1 /\ f[m - 1] \in W
      BY <2>1
    <2> DEFINE g == [n \in 0 .. m |-> IF n < m THEN f[n] ELSE step[<<f[m - 1], m>>]]
    <2>3. step[<<f[m - 1], m>>] \in W
      BY <2>2
    <2>4. g \in [0 .. m -> W]
      BY <2>1, <2>3
    <2>5. g[0] = base
      BY <2>1
    <2>6. ASSUME NEW n \in 1 .. m PROVE g[n] = step[<<g[n - 1], n>>]
      <3>1. n - 1 \in 0 .. m /\ n - 1 < m /\ n \in 0 .. m /\ g[n - 1] = f[n - 1]
        OBVIOUS
      <3>2. CASE n < m
        <4>1. n \in 1 .. m - 1 /\ g[n] = f[n]
          BY <3>1, <3>2
        <4> HIDE DEF g
        <4> QED
          BY <2>1, <3>1, <4>1
      <3>3. CASE n = m
        <4>1. g[n] = step[<<f[m - 1], m>>]
          BY <3>1, <3>3
        <4> HIDE DEF g
        <4> QED
          BY <3>1, <3>3, <4>1
      <3> QED
        BY <3>2, <3>3
    <2> HIDE DEF g
    <2>7. Upto(g, m)
      BY <2>4, <2>5, <2>6
    <2> QED
      BY <2>7
  <1>3. N \in S
    <2> HIDE DEF S
    <2> QED
      BY <1>1, <1>2, UpFromZero
  <1> QED
    BY <1>3, Zenon DEF Solution

LEMMA OneLonger ==
  ASSUME NEW S, NEW p \in Seq(S), NEW v \in S
  PROVE  /\ Append(p, v) \in Seq(S) /\ Append(p, v) # <<>>
         /\ Len(Append(p, v)) = Len(p) + 1
         /\ Front(Append(p, v)) = p /\ Last(Append(p, v)) = v
  <1>1. /\ Append(p, v) \in Seq(S) /\ Append(p, v) # <<>> /\ Len(Append(p, v)) = Len(p) + 1
        /\ \A i \in 1 .. Len(p) : Append(p, v)[i] = p[i]
        /\ Append(p, v)[Len(p) + 1] = v
    BY AppendProperties
  <1>2. Last(Append(p, v)) = v
    BY <1>1 DEF Last
  <1>3. Front(Append(p, v)) = SubSeq(Append(p, v), 1, Len(p))
    BY <1>1 DEF Front
  <1>4. SubSeq(Append(p, v), 1, Len(p)) = p
    <2> DEFINE q == SubSeq(Append(p, v), 1, Len(p))
    <2>0. Len(p) \in Nat /\ \A i \in 1 .. Len(p) : Append(p, v)[i] \in S
      BY <1>1
    <2>1. q \in Seq(S) /\ Len(q) = Len(p) /\ \A i \in 1 .. Len(p) : q[i] = Append(p, v)[i]
      BY <2>0, SubSeqProperties
    <2> HIDE DEF q
    <2> QED
      BY <1>1, <2>1, SeqEqual
  <1> QED
    BY <1>1, <1>2, <1>3, <1>4

LEMMA OneShorter ==
  ASSUME NEW S, NEW p \in Seq(S), p # <<>>
  PROVE  /\ Front(p) \in Seq(S) /\ Last(p) \in S /\ Append(Front(p), Last(p)) = p
         /\ Len(Front(p)) = Len(p) - 1 /\ Len(p) > 0 /\ Front(p) = SubSeq(p, 1, Len(p) - 1)
  <1>1. Len(p) \in Nat /\ Len(p) > 0
    OBVIOUS
  <1>2. Front(p) = SubSeq(p, 1, Len(p) - 1) /\ Last(p) = p[Len(p)]
    BY DEF Front, Last
  <1>3. SubSeq(p, 1, Len(p) - 1) \in Seq(S) /\ Len(SubSeq(p, 1, Len(p) - 1)) = Len(p) - 1 /\ p[Len(p)] \in S
    <2>1. \A i \in 1 .. Len(p) : p[i] \in S
      OBVIOUS
    <2>2. Len(p) - 1 \in Int /\ \A i \in 1 .. Len(p) - 1 : p[i] \in S
      BY <1>1, <2>1
    <2> DEFINE n == Len(p) - 1
    <2>3. n \in Int /\ 1 \in Int /\ \A i \in 1 .. n : p[i] \in S
      BY <2>2
    <2>4. n >= 0 /\ p[Len(p)] \in S
      BY <1>1, <2>1
    <2> HIDE DEF n
    <2>5. SubSeq(p, 1, n) \in Seq(S) /\ Len(SubSeq(p, 1, n)) = IF 1 <= n THEN n - 1 + 1 ELSE 0
      BY <2>3, SubSeqProperties
    <2>6. SubSeq(p, 1, n) \in Seq(S) /\ Len(SubSeq(p, 1, n)) = n
      BY <2>3, <2>4, <2>5
    <2> QED
      BY <2>4, <2>6 DEF n
  <1>4. Append(SubSeq(p, 1, Len(p) - 1), p[Len(p)]) = p
    <2> DEFINE n == Len(p)
    <2>1. n \in 1 .. Len(p) /\ SubSeq(p, 1, Len(p)) = p
      BY <1>1, SubSeqFull
    <2>2. SubSeq(p, 1, n) = Append(SubSeq(p, 1, n - 1), p[n])
      BY <2>1
    <2> QED
      BY <2>1, <2>2
  <1> QED
    BY <1>1, <1>2, <1>3, <1>4

\* The sequences that a sequence begins with.
LEMMA Beginnings ==
  ASSUME NEW S, NEW p \in Seq(S)
  PROVE  /\ SubSeq(p, 1, 0) = <<>> /\ SubSeq(p, 1, Len(p)) = p
         /\ \A n \in 0 .. Len(p) : SubSeq(p, 1, n) \in Seq(S) /\ Len(SubSeq(p, 1, n)) = n
         /\ \A n \in 1 .. Len(p) : /\ SubSeq(p, 1, n) = Append(SubSeq(p, 1, n - 1), p[n])
                                   /\ SubSeq(p, 1, n) # <<>>
                                   /\ Front(SubSeq(p, 1, n)) = SubSeq(p, 1, n - 1)
                                   /\ Last(SubSeq(p, 1, n)) = p[n] /\ p[n] \in S
  <1>0. Len(p) \in Nat /\ \A n \in 1 .. Len(p) : p[n] \in S
    OBVIOUS
  <1>1. SubSeq(p, 1, 0) = <<>>
    BY SubSeqEmpty
  <1>2. SubSeq(p, 1, Len(p)) = p
    BY SubSeqFull
  <1>3. \A n \in 0 .. Len(p) : SubSeq(p, 1, n) \in Seq(S) /\ Len(SubSeq(p, 1, n)) = n
    BY <1>0
  <1>4. ASSUME NEW n \in 1 .. Len(p)
        PROVE  SubSeq(p, 1, n) = Append(SubSeq(p, 1, n - 1), p[n])
    BY <1>0
  <1>5. ASSUME NEW n \in 1 .. Len(p)
        PROVE  /\ SubSeq(p, 1, n) # <<>> /\ Front(SubSeq(p, 1, n)) = SubSeq(p, 1, n - 1)
               /\ Last(SubSeq(p, 1, n)) = p[n] /\ p[n] \in S
    <2>1. n - 1 \in 0 .. Len(p) /\ SubSeq(p, 1, n - 1) \in Seq(S) /\ p[n] \in S
      BY <1>0, <1>3
    <2> DEFINE q == SubSeq(p, 1, n - 1)
    <2>2. SubSeq(p, 1, n) = Append(q, p[n]) /\ q \in Seq(S)
      BY <2>1, <1>4
    <2> HIDE DEF q
    <2>3. Append(q, p[n]) # <<>> /\ Front(Append(q, p[n])) = q /\ Last(Append(q, p[n])) = p[n]
      BY <2>1, <2>2, OneLonger
    <2>4. Front(SubSeq(p, 1, n)) = q
      BY <2>2, <2>3
    <2> QED
      BY <2>1, <2>2, <2>3, <2>4 DEF q
  <1>6. \A n \in 1 .. Len(p) : /\ SubSeq(p, 1, n) = Append(SubSeq(p, 1, n - 1), p[n])
                               /\ SubSeq(p, 1, n) # <<>>
                               /\ Front(SubSeq(p, 1, n)) = SubSeq(p, 1, n - 1)
                               /\ Last(SubSeq(p, 1, n)) = p[n] /\ p[n] \in S
    BY <1>4, <1>5
  <1> QED
    BY <1>1, <1>2, <1>3, <1>6

-----------------------------------------------------------------------------
(***************************************************************************)
(* Trees.                                                                  *)
(***************************************************************************)

\* The parts of a tree, for the provers.
LEMMA TreeFacts ==
  ASSUME NEW t \in Trees
  PROVE  /\ DOMAIN t.node \subseteq Seq(Values) /\ t.full \in BOOLEAN
         /\ t.node = [p \in DOMAIN t.node |-> t.node[p]]
         /\ t = [node |-> t.node, full |-> t.full]
         /\ \A p \in DOMAIN t.node :
              /\ t.node[p] \in NodeType /\ p \in Seq(Values)
              /\ t.node[p].bounds \in Bounds \cup {NoBounds}
              /\ t.node[p].ending \in Tested \cup {"none"}
              /\ t.node[p].exhausted \in BOOLEAN
  <1>1. PICK D \in SUBSET Seq(Values) : t.node \in [D -> NodeType]
    BY DEF Trees
  <1>2. DOMAIN t.node = D /\ \A p \in D : t.node[p] \in NodeType
    BY <1>1
  <1>3. t.full \in BOOLEAN /\ t = [node |-> t.node, full |-> t.full]
    BY DEF Trees
  <1> QED
    BY <1>1, <1>2, <1>3 DEF NodeType

LEMMA IsATree ==
  ASSUME NEW f, NEW D \in SUBSET Seq(Values), f \in [D -> NodeType], NEW full \in BOOLEAN
  PROVE  [node |-> f, full |-> full] \in Trees
  <1>1. f \in UNION {[E -> NodeType] : E \in SUBSET Seq(Values)}
    OBVIOUS
  <1> QED
    BY <1>1 DEF Trees

\* The values that lead to a child of a node are among those of its request.
LEMMA ChildrenAreValues ==
  ASSUME NEW t \in Trees, Branches(t), NEW p \in DOMAIN t.node
  PROVE  /\ ChildrenOf(t, p) = {Append(p, v) : v \in {u \in t.node[p].bounds : Append(p, u) \in DOMAIN t.node}}
         /\ \A v \in t.node[p].bounds : Append(p, v) \in DOMAIN t.node => v \in Values
  <1>0. t \in Trees /\ p \in Seq(Values) /\ DOMAIN t.node \subseteq Seq(Values)
    BY TreeFacts
  <1>1. ASSUME NEW q \in ChildrenOf(t, p)
        PROVE  \E v \in t.node[p].bounds : Append(p, v) \in DOMAIN t.node /\ q = Append(p, v)
    <2>1. q \in DOMAIN t.node /\ Len(q) = Len(p) + 1 /\ Front(q) = p
      BY DEF ChildrenOf
    <2>2. q \in Seq(Values) /\ q # <<>>
      BY <1>0, <2>1
    <2>3. Append(p, Last(q)) = q
      BY <2>1, <2>2, OneShorter
    <2>4. Last(q) \in t.node[p].bounds
      BY <2>1, <2>2 DEF Branches
    <2> QED
      BY <2>1, <2>3, <2>4
  <1>2. ASSUME NEW v \in t.node[p].bounds, Append(p, v) \in DOMAIN t.node
        PROVE  Append(p, v) \in ChildrenOf(t, p) /\ v \in Values
    <2>1. Append(p, v) \in Seq(Values)
      BY <1>0, <1>2, TreeFacts
    <2>2. Append(p, v)[Len(p) + 1] = v /\ Len(p) + 1 \in DOMAIN Append(p, v)
      BY <1>0
    <2>3. v \in Values
      BY <1>0, <2>1, <2>2
    <2>4. Front(Append(p, v)) = p /\ Len(Append(p, v)) = Len(p) + 1
      BY <1>0, <2>3, OneLonger
    <2> QED
      BY <1>2, <2>3, <2>4 DEF ChildrenOf
  <1> QED
    BY <1>1, <1>2

\* The tree counts the children of a node, and these are all values exactly when there
\* are as many of them.
LEMMA SettledMeansAllBelow ==
  ASSUME TreeAssumption, NEW t \in Trees, Branches(t), NEW p \in DOMAIN t.node
  PROVE  Settled(t, p) <=> t.node[p].ending # "none" \/ AllBelow(t, p)
  <1> DEFINE B == t.node[p].bounds
             V == {u \in B : Append(p, u) \in DOMAIN t.node}
             C == ChildrenOf(t, p)
  <1>0. t \in Trees /\ p \in Seq(Values) /\ B \in Bounds \cup {NoBounds}
    BY TreeFacts
  <1>1. IsFiniteSet(B) /\ IsFiniteSet(V) /\ V \subseteq B
    <2>1. IsFiniteSet(B)
      BY <1>0, FS_EmptySet DEF TreeAssumption, NoBounds
    <2> QED
      BY <2>1, FS_Subset
  <1>2. C = {Append(p, v) : v \in V} /\ \A v \in V : v \in Values
    BY ChildrenAreValues
  <1>3. Cardinality(C) = Cardinality(V)
    <2> DEFINE f == [v \in V |-> Append(p, v)]
    <2>1. f \in Bijection(V, C)
      <3>1. f \in [V -> C] /\ \A q \in C : \E v \in V : f[v] = q
        BY <1>2
      <3>2. ASSUME NEW u \in V, NEW v \in V, f[u] = f[v] PROVE u = v
        <4>1. Last(Append(p, u)) = u /\ Last(Append(p, v)) = v
          BY <1>0, <1>2, OneLonger
        <4> QED
          BY <3>2, <4>1
      <3> QED
        BY <3>1, <3>2 DEF Bijection, Injection, Surjection, IsInjective
    <2> QED
      BY <1>1, <2>1, FS_Bijection DEF ExistsBijection
  <1>4. Cardinality(B) = Cardinality(C) <=> B = V
    BY <1>1, <1>3, FS_Subset
  <1> QED
    BY <1>2, <1>4 DEF Settled, AllBelow

LEMMA AppendsDiffer ==
  ASSUME NEW S, NEW p \in Seq(S), NEW q \in Seq(S), NEW u, NEW v, Append(p, u) = Append(q, v)
  PROVE  p = q /\ u = v
  <1> DEFINE T == S \cup {u, v}
  <1>1. p \in Seq(T) /\ q \in Seq(T) /\ u \in T /\ v \in T
    OBVIOUS
  <1> HIDE DEF T
  <1> QED
    BY <1>1, AppendInjective

-----------------------------------------------------------------------------
(***************************************************************************)
(* A request of a walk.                                                    *)
(***************************************************************************)

\* The requests of a tree with one more, the tree that is full, and the one with a new node.
Asking(t, p, b) == [t.node EXCEPT ![p].bounds = b]
Filled(t, p, b) == [node |-> Asking(t, p, b), full |-> TRUE]
Branched(t, p, b, c) ==
  [node |-> [q \in DOMAIN t.node \cup {c} |-> IF q = c THEN NewNode ELSE Asking(t, p, b)[q]],
   full |-> t.full]

\* A request at a node that has none, or this one.
MayAsk(t, p, b, v) ==
  /\ GoodTree(t) /\ p \in DOMAIN t.node /\ t.node[p].ending = "none"
  /\ t.node[p].bounds \in {NoBounds, b} /\ b \in Bounds /\ v \in b /\ v \in Values
  /\ p # <<>> => t.node[<<>>].bounds # NoBounds

LEMMA AskingIsTyped ==
  ASSUME NEW t \in Trees, NEW p \in DOMAIN t.node, NEW b \in Bounds
  PROVE  /\ Asking(t, p, b) \in [DOMAIN t.node -> NodeType]
         /\ \A q \in DOMAIN t.node :
              /\ Asking(t, p, b)[q].bounds = IF q = p THEN b ELSE t.node[q].bounds
              /\ Asking(t, p, b)[q].ending = t.node[q].ending
              /\ Asking(t, p, b)[q].exhausted = t.node[q].exhausted
  <1>1. \A q \in DOMAIN t.node : t.node[q] \in NodeType
    BY TreeFacts
  <1>2. [t.node[p] EXCEPT !.bounds = b] \in NodeType
    BY <1>1 DEF NodeType
  <1>3. Asking(t, p, b) = [q \in DOMAIN t.node |-> IF q = p THEN [t.node[p] EXCEPT !.bounds = b] ELSE t.node[q]]
    BY TreeFacts DEF Asking
  <1>4. [t.node[p] EXCEPT !.bounds = b].bounds = b /\ [t.node[p] EXCEPT !.bounds = b].ending = t.node[p].ending
        /\ [t.node[p] EXCEPT !.bounds = b].exhausted = t.node[p].exhausted
    BY <1>1 DEF NodeType
  <1> QED
    BY <1>1, <1>2, <1>3, <1>4

\* A node has the request of each of its children already.
LEMMA AskedBefore ==
  ASSUME NEW t, NEW p, NEW b, NEW v, MayAsk(t, p, b, v), Append(p, v) \in DOMAIN t.node
  PROVE  t.node[p].bounds = b /\ Asking(t, p, b) = t.node
  <1>0. t \in Trees /\ p \in Seq(Values) /\ v \in Values
    BY TreeFacts DEF GoodTree, MayAsk
  <1>1. Append(p, v) # <<>> /\ Front(Append(p, v)) = p /\ Last(Append(p, v)) = v
    BY <1>0, OneLonger
  <1>2. v \in t.node[p].bounds
    BY <1>1 DEF MayAsk, GoodTree, Branches
  <1>3. t.node[p].bounds = b
    BY <1>2 DEF MayAsk, NoBounds
  <1>4. t.node[p] \in NodeType /\ t.node = [q \in DOMAIN t.node |-> t.node[q]]
    BY <1>0, TreeFacts DEF MayAsk
  <1>5. [t.node[p] EXCEPT !.bounds = b] = t.node[p]
    BY <1>3, <1>4 DEF NodeType
  <1> QED
    BY <1>3, <1>4, <1>5 DEF Asking

LEMMA AskingFills ==
  ASSUME NEW t, NEW p, NEW b, NEW v, MayAsk(t, p, b, v), Append(p, v) \notin DOMAIN t.node
  PROVE  GoodTree(Filled(t, p, b)) /\ KeepsItsRecords(t, Filled(t, p, b))
  <1> DEFINE f == Asking(t, p, b)
             u == Filled(t, p, b)
  <1>0. t \in Trees /\ p \in Seq(Values) /\ DOMAIN t.node \subseteq Seq(Values) /\ b # NoBounds
        /\ p \in DOMAIN t.node /\ b \in Bounds
    BY TreeFacts DEF GoodTree, MayAsk, NoBounds
  <1>1. /\ f \in [DOMAIN t.node -> NodeType]
        /\ \A q \in DOMAIN t.node : /\ f[q].bounds = IF q = p THEN b ELSE t.node[q].bounds
                                    /\ f[q].ending = t.node[q].ending
                                    /\ f[q].exhausted = t.node[q].exhausted
    BY <1>0, AskingIsTyped
  <1>2. u.node = f /\ u.full = TRUE /\ DOMAIN u.node = DOMAIN t.node
    BY <1>1 DEF Filled
  <1>3. u \in Trees
    BY <1>0, <1>1, IsATree DEF Filled
  <1> HIDE DEF f, u
  <1>4. Branches(u)
    <2>1. <<>> \in DOMAIN u.node /\ (u.full => u.node[<<>>].bounds # NoBounds)
      BY <1>0, <1>1, <1>2 DEF MayAsk, GoodTree, Branches
    <2>2. ASSUME NEW q \in DOMAIN t.node
          PROVE  /\ q # <<>> => /\ Len(q) <= Depth /\ Front(q) \in DOMAIN u.node
                                /\ Last(q) \in u.node[Front(q)].bounds
                 /\ u.node[q].ending # "none" => u.node[q].bounds = NoBounds
      <3>1. t.node[p].ending = "none" /\ t.node[p].bounds \in {NoBounds, b}
        BY DEF MayAsk
      <3>2. /\ q # <<>> => /\ Len(q) <= Depth /\ Front(q) \in DOMAIN t.node
                           /\ Last(q) \in t.node[Front(q)].bounds
            /\ t.node[q].ending # "none" => t.node[q].bounds = NoBounds
        BY DEF MayAsk, GoodTree, Branches
      <3>3. q # <<>> => Last(q) \in u.node[Front(q)].bounds
        BY <1>0, <1>1, <1>2, <3>1, <3>2 DEF NoBounds
      <3>4. u.node[q].ending # "none" => u.node[q].bounds = NoBounds
        BY <1>0, <1>1, <1>2, <3>1, <3>2
      <3> QED
        BY <1>0, <1>1, <1>2, <3>2, <3>3, <3>4
    <2> QED
      BY <1>2, <2>1, <2>2 DEF Branches
  <1>5. Within(u)
    BY <1>2 DEF MayAsk, GoodTree, Within
  <1>6. Counts(u)
    <2> SUFFICES ASSUME NEW q \in DOMAIN t.node
                 PROVE  u.node[q].exhausted <=> \/ u.node[q].ending # "none"
                                                \/ u.node[q].bounds # NoBounds /\ AllBelow(u, q)
      BY <1>2 DEF Counts
    <2>1. t.node[q].exhausted <=> \/ t.node[q].ending # "none"
                                  \/ t.node[q].bounds # NoBounds /\ AllBelow(t, q)
      BY DEF MayAsk, GoodTree, Counts
    <2>2. CASE q # p
      BY <1>1, <1>2, <2>1, <2>2 DEF AllBelow
    <2>3. CASE q = p
      <3>1. ~ AllBelow(u, p) /\ ~ (t.node[p].bounds # NoBounds /\ AllBelow(t, p))
        BY <1>0, <1>1, <1>2 DEF MayAsk, AllBelow
      <3> QED
        BY <1>1, <1>2, <2>1, <2>3, <3>1
    <2> QED
      BY <2>2, <2>3
  <1>7. KeepsItsRecords(t, u)
    BY <1>1, <1>2 DEF MayAsk, KeepsItsRecords
  <1> QED
    BY <1>3, <1>4, <1>5, <1>6, <1>7 DEF GoodTree, u

LEMMA AskingBranches ==
  ASSUME TreeAssumption, NEW t, NEW p, NEW b, NEW v, MayAsk(t, p, b, v), Append(p, v) \notin DOMAIN t.node,
         Len(p) < Depth, Cardinality(DOMAIN t.node) < Limit
  PROVE  /\ GoodTree(Branched(t, p, b, Append(p, v)))
         /\ KeepsItsRecords(t, Branched(t, p, b, Append(p, v)))
  <1> DEFINE f == Asking(t, p, b)
             c == Append(p, v)
             u == Branched(t, p, b, c)
  <1>0. t \in Trees /\ p \in Seq(Values) /\ DOMAIN t.node \subseteq Seq(Values) /\ b # NoBounds
        /\ p \in DOMAIN t.node /\ b \in Bounds /\ v \in Values /\ v \in b /\ t.full \in BOOLEAN
    BY TreeFacts DEF GoodTree, MayAsk, NoBounds
  <1>1. /\ f \in [DOMAIN t.node -> NodeType]
        /\ \A q \in DOMAIN t.node : /\ f[q].bounds = IF q = p THEN b ELSE t.node[q].bounds
                                    /\ f[q].ending = t.node[q].ending
                                    /\ f[q].exhausted = t.node[q].exhausted
    BY <1>0, AskingIsTyped
  <1>2. c \in Seq(Values) /\ c # <<>> /\ Front(c) = p /\ Last(c) = v /\ Len(c) = Len(p) + 1
    BY <1>0, OneLonger
  <1>c. \A q \in DOMAIN t.node : \A x : Append(q, x) = c => q = p /\ x = v
    BY <1>0, AppendsDiffer
  <1>n. NewNode \in NodeType /\ NewNode.bounds = NoBounds /\ NewNode.ending = "none" /\ NewNode.exhausted = FALSE
    BY DEF NewNode, NodeType
  <1>d. c \notin DOMAIN t.node
    OBVIOUS
  <1>l. Len(c) <= Depth
    BY <1>0, <1>2 DEF TreeAssumption
  <1> HIDE DEF f, c
  <1>3. /\ DOMAIN u.node = DOMAIN t.node \cup {c} /\ u.full = t.full /\ u.node[c] = NewNode
        /\ \A q \in DOMAIN t.node : u.node[q] = f[q]
        /\ u.node \in [DOMAIN t.node \cup {c} -> NodeType]
    BY <1>1, <1>d, <1>n DEF Branched, f
  <1>4. u \in Trees
    <2>1. DOMAIN t.node \cup {c} \in SUBSET Seq(Values)
      BY <1>0, <1>2
    <2>2. u = [node |-> u.node, full |-> t.full]
      BY DEF Branched
    <2> HIDE DEF u
    <2> QED
      BY <1>0, <1>3, <2>1, <2>2, IsATree
  <1> HIDE DEF u
  <1>5. Branches(u)
    <2>1. <<>> \in DOMAIN u.node /\ (u.full => u.node[<<>>].bounds # NoBounds)
      BY <1>0, <1>1, <1>3 DEF MayAsk, GoodTree, Branches
    <2>2. ASSUME NEW q \in DOMAIN t.node
          PROVE  /\ q # <<>> => /\ Len(q) <= Depth /\ Front(q) \in DOMAIN u.node
                                /\ Last(q) \in u.node[Front(q)].bounds
                 /\ u.node[q].ending # "none" => u.node[q].bounds = NoBounds
      <3>1. t.node[p].ending = "none" /\ t.node[p].bounds \in {NoBounds, b}
        BY DEF MayAsk
      <3>2. /\ q # <<>> => /\ Len(q) <= Depth /\ Front(q) \in DOMAIN t.node
                           /\ Last(q) \in t.node[Front(q)].bounds
            /\ t.node[q].ending # "none" => t.node[q].bounds = NoBounds
        BY DEF MayAsk, GoodTree, Branches
      <3>3. ASSUME q # <<>> PROVE Last(q) \in u.node[Front(q)].bounds
        <4>1. Front(q) \in DOMAIN t.node /\ Last(q) \in t.node[Front(q)].bounds
          BY <3>2, <3>3
        <4>2. u.node[Front(q)] = f[Front(q)]
          BY <1>3, <4>1
        <4>3. CASE Front(q) = p
          <5>1. t.node[p].bounds = b
            BY <3>1, <4>1, <4>3 DEF NoBounds
          <5> QED
            BY <1>1, <4>1, <4>2, <4>3, <5>1
        <4>4. CASE Front(q) # p
          BY <1>1, <4>1, <4>2, <4>4
        <4> QED
          BY <4>3, <4>4
      <3>4. u.node[q].ending # "none" => u.node[q].bounds = NoBounds
        BY <1>0, <1>1, <1>3, <3>1, <3>2
      <3> QED
        BY <1>0, <1>1, <1>3, <3>2, <3>3, <3>4
    <2>3. /\ Len(c) <= Depth /\ Front(c) \in DOMAIN u.node /\ Last(c) \in u.node[Front(c)].bounds
          /\ u.node[c].ending = "none"
      BY <1>0, <1>1, <1>2, <1>3, <1>l, <1>n
    <2> QED
      BY <1>3, <2>1, <2>2, <2>3 DEF Branches
  <1>6. Within(u)
    <2>1. IsFiniteSet(DOMAIN t.node)
      BY DEF MayAsk, GoodTree, Within
    <2>2. IsFiniteSet(DOMAIN u.node) /\ Cardinality(DOMAIN u.node) = Cardinality(DOMAIN t.node) + 1
      BY <1>3, <1>d, <2>1, FS_AddElement
    <2>3. Cardinality(DOMAIN t.node) \in Nat
      BY <2>1, FS_CardinalityType
    <2> QED
      BY <2>2, <2>3 DEF Within, TreeAssumption
  <1>7. Counts(u)
    <2>1. ASSUME NEW q \in DOMAIN t.node
          PROVE  u.node[q].exhausted <=> \/ u.node[q].ending # "none"
                                         \/ u.node[q].bounds # NoBounds /\ AllBelow(u, q)
      <3>1. t.node[q].exhausted <=> \/ t.node[q].ending # "none"
                                    \/ t.node[q].bounds # NoBounds /\ AllBelow(t, q)
        BY DEF MayAsk, GoodTree, Counts
      <3>2. CASE q # p
        <4>1. \A x : Append(q, x) # c
          BY <1>c, <3>2
        <4>2. AllBelow(u, q) <=> AllBelow(t, q)
          BY <1>1, <1>3, <3>2, <4>1 DEF AllBelow
        <4> QED
          BY <1>1, <1>3, <3>1, <3>2, <4>2
      <3>3. CASE q = p
        <4>1. ~ (t.node[p].bounds # NoBounds /\ AllBelow(t, p))
          BY <1>0, <1>d DEF MayAsk, AllBelow, c
        <4>2. ~ AllBelow(u, p)
          <5>1. u.node[p].bounds = b /\ v \in b
            BY <1>0, <1>1, <1>3
          <5>2. u.node[c].exhausted = FALSE
            BY <1>3, <1>n
          <5> QED
            BY <5>1, <5>2 DEF AllBelow, c
        <4> QED
          BY <1>1, <1>3, <3>1, <3>3, <4>1, <4>2
      <3> QED
        BY <3>2, <3>3
    <2> QED
      BY <1>3, <1>n, <2>1 DEF Counts
  <1>8. KeepsItsRecords(t, u)
    BY <1>1, <1>3 DEF MayAsk, KeepsItsRecords
  <1> QED
    BY <1>4, <1>5, <1>6, <1>7, <1>8 DEF GoodTree, u, c

-----------------------------------------------------------------------------
(***************************************************************************)
(* A step of a walk.                                                       *)
(***************************************************************************)

\* The walkers at a node of their tree.
Walkers == {w \in [tree : Trees, path : Seq(Values), off : BOOLEAN,
                   stop : {"none", "repeated", "diverged"}] : w.path \in DOMAIN w.tree.node}

Going(w) == w.stop = "none" /\ ~ w.off

\* What a step of a walker makes of it, each way in which it may go.
Passed(w, m)   == Going(w) /\ w.tree.node[w.path].ending = "none"
                  /\ w.tree.node[w.path].bounds \in {NoBounds, m.bounds}
Stepped(w, m, u) ==
  LET t == w.tree
      p == w.path
      b == m.bounds
      c == Append(w.path, m.value)
  IN  \/ ~ Going(w) /\ u = w
      \/ Going(w) /\ ~ Passed(w, m) /\ u = [w EXCEPT !.stop = "diverged"]
      \/ /\ Passed(w, m) /\ c \in DOMAIN t.node /\ t.node[c].ending # "none"
         /\ u = [tree |-> [node |-> Asking(t, p, b), full |-> t.full], path |-> p,
                 off |-> FALSE, stop |-> "repeated"]
      \/ /\ Passed(w, m) /\ c \in DOMAIN t.node /\ t.node[c].ending = "none"
         /\ u = [tree |-> [node |-> Asking(t, p, b), full |-> t.full], path |-> c,
                 off |-> FALSE, stop |-> "none"]
      \/ /\ Passed(w, m) /\ c \notin DOMAIN t.node /\ Cardinality(DOMAIN t.node) >= Limit
         /\ u = [tree |-> Filled(t, p, b), path |-> p, off |-> TRUE, stop |-> "none"]
      \/ /\ Passed(w, m) /\ c \notin DOMAIN t.node /\ ~ (Cardinality(DOMAIN t.node) >= Limit)
         /\ u = [tree |-> Branched(t, p, b, c), path |-> c, off |-> FALSE, stop |-> "none"]

LEMMA MoveFacts ==
  ASSUME NEW m \in Moves
  PROVE  m.bounds \in Bounds /\ m.value \in Values /\ m.value \in m.bounds
  BY DEF Moves, Values

LEMMA WalkerFacts ==
  ASSUME NEW w \in Walkers
  PROVE  /\ w.tree \in Trees /\ w.path \in Seq(Values) /\ w.path \in DOMAIN w.tree.node
         /\ w.off \in BOOLEAN /\ w.stop \in {"none", "repeated", "diverged"}
         /\ w = [tree |-> w.tree, path |-> w.path, off |-> w.off, stop |-> w.stop]
  BY DEF Walkers

\* What the fields of a walker and of a tree are after an EXCEPT.
LEMMA StrayWalker ==
  ASSUME NEW y, NEW x, y.tree = [node |-> y.tree.node, full |-> y.tree.full],
         y = [tree |-> y.tree, path |-> y.path, off |-> y.off, stop |-> y.stop]
  PROVE  [y EXCEPT !.tree.full = x, !.off = x]
           = [tree |-> [node |-> y.tree.node, full |-> x], path |-> y.path, off |-> x, stop |-> y.stop]
  <1> DEFINE u == [y.tree EXCEPT !.full = x]
             z == [y EXCEPT !.tree.full = x]
  <1>1. u = [node |-> y.tree.node, full |-> x]
    OBVIOUS
  <1>2. z = [y EXCEPT !.tree = u]
    OBVIOUS
  <1>3. [y EXCEPT !.tree.full = x, !.off = x] = [z EXCEPT !.off = x]
    OBVIOUS
  <1> HIDE DEF u
  <1>4. z = [tree |-> u, path |-> y.path, off |-> y.off, stop |-> y.stop]
    BY <1>2
  <1> HIDE DEF z
  <1>5. [z EXCEPT !.off = x] = [tree |-> u, path |-> y.path, off |-> x, stop |-> y.stop]
    BY <1>4
  <1> QED
    BY <1>1, <1>3, <1>5

LEMMA StoppedWalker ==
  ASSUME NEW y, NEW c, y = [tree |-> y.tree, path |-> y.path, off |-> y.off, stop |-> y.stop]
  PROVE  /\ [y EXCEPT !.stop = c] = [tree |-> y.tree, path |-> y.path, off |-> y.off, stop |-> c]
         /\ [y EXCEPT !.path = c] = [tree |-> y.tree, path |-> c, off |-> y.off, stop |-> y.stop]
         /\ [y EXCEPT !.tree = c] = [tree |-> c, path |-> y.path, off |-> y.off, stop |-> y.stop]
  OBVIOUS

LEMMA GrownTree ==
  ASSUME NEW t, NEW p, t = [node |-> t.node, full |-> t.full]
  PROVE  WithNode(t, p) = [node |-> [q \in DOMAIN t.node \cup {p} |-> IF q = p THEN NewNode ELSE t.node[q]], full |-> t.full]
  BY DEF WithNode

LEMMA WalkersStep ==
  ASSUME NEW w \in Walkers, NEW m \in Moves
  PROVE  Stepped(w, m, Walk(w, m))
  <1> DEFINE t == w.tree
             p == w.path
             b == m.bounds
             c == Append(w.path, m.value)
             x == [w EXCEPT !.tree.node[w.path].bounds = m.bounds]
             y == [tree |-> [node |-> Asking(t, p, b), full |-> t.full], path |-> p, off |-> w.off, stop |-> w.stop]
  <1>1. /\ w = [tree |-> t, path |-> p, off |-> w.off, stop |-> w.stop] /\ p \in DOMAIN t.node
        /\ w.off \in BOOLEAN /\ t \in Trees /\ b \in Bounds
    BY WalkerFacts, MoveFacts
  <1>2. t = [node |-> t.node, full |-> t.full]
    BY <1>1, TreeFacts
  <1>3. x = y
    BY <1>1, <1>2 DEF Asking
  <1>4. DOMAIN Asking(t, p, b) = DOMAIN t.node
        /\ \A q \in DOMAIN t.node : Asking(t, p, b)[q].ending = t.node[q].ending
    BY <1>1, AskingIsTyped
  <1>5. Walk(w, m) = IF w.stop # "none" \/ w.off THEN w
                     ELSE IF t.node[p].ending # "none" \/ t.node[p].bounds \notin {NoBounds, m.bounds}
                       THEN [w EXCEPT !.stop = "diverged"]
                     ELSE Descend(y, m.value)
    BY <1>3 DEF Walk, Stop
  <1>6. Descend(y, m.value) =
          IF c \in DOMAIN t.node
            THEN IF Asking(t, p, b)[c].ending # "none" THEN [y EXCEPT !.stop = "repeated"]
                                                       ELSE [y EXCEPT !.path = c]
          ELSE IF Cardinality(DOMAIN t.node) >= Limit
            THEN [y EXCEPT !.tree.full = TRUE, !.off = TRUE]
          ELSE [y EXCEPT !.path = c, !.tree = WithNode(y.tree, c)]
    BY <1>4 DEF Descend, Stop
  <1>a. y = [tree |-> [node |-> Asking(t, p, b), full |-> t.full], path |-> p, off |-> w.off, stop |-> w.stop]
        /\ y.tree = [node |-> Asking(t, p, b), full |-> t.full] /\ y.path = p /\ y.off = w.off /\ y.stop = w.stop
    OBVIOUS
  <1> HIDE DEF y, x
  <1>b. y = [tree |-> y.tree, path |-> y.path, off |-> y.off, stop |-> y.stop]
        /\ y.tree = [node |-> y.tree.node, full |-> y.tree.full]
        /\ y.tree.node = Asking(t, p, b) /\ y.tree.full = t.full
    BY <1>a
  <1>7. [y EXCEPT !.tree.full = TRUE, !.off = TRUE] = [tree |-> Filled(t, p, b), path |-> p, off |-> TRUE, stop |-> w.stop]
    <2>1. PICK yes : yes = TRUE
      OBVIOUS
    <2>3. [y EXCEPT !.tree.full = yes, !.off = yes]
            = [tree |-> [node |-> y.tree.node, full |-> yes], path |-> y.path, off |-> yes, stop |-> y.stop]
      BY <1>b, StrayWalker, Zenon
    <2>4. [y EXCEPT !.tree.full = TRUE, !.off = TRUE] = [y EXCEPT !.tree.full = yes, !.off = yes]
      BY <2>1, Zenon
    <2>5. [tree |-> [node |-> y.tree.node, full |-> yes], path |-> y.path, off |-> yes, stop |-> y.stop]
            = [tree |-> [node |-> Asking(t, p, b), full |-> TRUE], path |-> p, off |-> TRUE, stop |-> w.stop]
      BY <2>1, <1>a, <1>b, Zenon
    <2> QED
      BY <2>3, <2>4, <2>5, Zenon DEF Filled
  <1>8. WithNode(y.tree, c) = Branched(t, p, b, c)
    <2>1. WithNode(y.tree, c) = [node |-> [q \in DOMAIN y.tree.node \cup {c} |-> IF q = c THEN NewNode ELSE y.tree.node[q]],
                              full |-> y.tree.full]
      BY <1>b, GrownTree, Zenon
    <2> QED
      BY <1>4, <1>b, <2>1, Zenon DEF Branched
  <1>9. [y EXCEPT !.path = c, !.tree = WithNode(y.tree, c)]
          = [tree |-> Branched(t, p, b, c), path |-> c, off |-> w.off, stop |-> w.stop]
    <2> DEFINE g == WithNode(y.tree, c)
               z == [y EXCEPT !.path = c]
    <2>1. z = [tree |-> y.tree, path |-> c, off |-> y.off, stop |-> y.stop]
      BY <1>b, StoppedWalker, Zenon
    <2>2. [y EXCEPT !.path = c, !.tree = g] = [z EXCEPT !.tree = g]
      OBVIOUS
    <2> HIDE DEF z, g, c
    <2>4. z.path = c /\ z.off = y.off /\ z.stop = y.stop
      BY <2>1
    <2>5. z = [tree |-> z.tree, path |-> z.path, off |-> z.off, stop |-> z.stop]
      BY <2>1
    <2>3. [z EXCEPT !.tree = g] = [tree |-> g, path |-> z.path, off |-> z.off, stop |-> z.stop]
      BY <2>5, StoppedWalker, Zenon
    <2> QED
      BY <1>a, <1>8, <2>2, <2>3, <2>4, Zenon DEF g
  <1>10. [y EXCEPT !.stop = "repeated"] = [tree |-> y.tree, path |-> p, off |-> w.off, stop |-> "repeated"]
         /\ [y EXCEPT !.path = c] = [tree |-> y.tree, path |-> c, off |-> w.off, stop |-> w.stop]
    <2>1. [y EXCEPT !.stop = "repeated"] = [tree |-> y.tree, path |-> y.path, off |-> y.off, stop |-> "repeated"]
          /\ [y EXCEPT !.path = c] = [tree |-> y.tree, path |-> c, off |-> y.off, stop |-> y.stop]
      BY <1>b, StoppedWalker, Zenon
    <2> QED
      BY <1>a, <2>1, Zenon
  <1>13. Descend(y, m.value) =
          IF c \in DOMAIN t.node
            THEN IF t.node[c].ending # "none"
                   THEN [tree |-> [node |-> Asking(t, p, b), full |-> t.full], path |-> p, off |-> w.off, stop |-> "repeated"]
                   ELSE [tree |-> [node |-> Asking(t, p, b), full |-> t.full], path |-> c, off |-> w.off, stop |-> w.stop]
          ELSE IF Cardinality(DOMAIN t.node) >= Limit
            THEN [tree |-> Filled(t, p, b), path |-> p, off |-> TRUE, stop |-> w.stop]
          ELSE [tree |-> Branched(t, p, b, c), path |-> c, off |-> w.off, stop |-> w.stop]
    BY <1>4, <1>6, <1>7, <1>9, <1>10, <1>a
  <1> QED
    BY <1>1, <1>5, <1>13 DEF Stepped, Going, Passed

\* The ends of a tree are those of another.
EndsAreOf(t, u) ==
  \A q \in DOMAIN u.node :
    u.node[q].ending # "none" => q \in DOMAIN t.node /\ t.node[q].ending = u.node[q].ending

LEMMA RecordsKeptTwice ==
  ASSUME NEW t, NEW u, NEW v, KeepsItsRecords(t, u), KeepsItsRecords(u, v)
  PROVE  KeepsItsRecords(t, v)
  <1> SUFFICES ASSUME NEW p \in DOMAIN t.node
               PROVE  /\ p \in DOMAIN v.node
                      /\ t.node[p].ending # "none" => v.node[p].ending = t.node[p].ending
                      /\ t.node[p].bounds # NoBounds => v.node[p].bounds = t.node[p].bounds
                      /\ t.node[p].exhausted => v.node[p].exhausted
    BY DEF KeepsItsRecords
  <1>1. /\ p \in DOMAIN u.node
        /\ t.node[p].ending # "none" => u.node[p].ending = t.node[p].ending
        /\ t.node[p].bounds # NoBounds => u.node[p].bounds = t.node[p].bounds
        /\ t.node[p].exhausted => u.node[p].exhausted
    BY DEF KeepsItsRecords
  <1>2. /\ p \in DOMAIN v.node
        /\ u.node[p].ending # "none" => v.node[p].ending = u.node[p].ending
        /\ u.node[p].bounds # NoBounds => v.node[p].bounds = u.node[p].bounds
        /\ u.node[p].exhausted => v.node[p].exhausted
    BY <1>1 DEF KeepsItsRecords
  <1> QED
    BY <1>1, <1>2

\* What a step of a walk leaves behind: the tree of the walker before, and more.
LEMMA StepsKeepTheTree ==
  ASSUME TreeAssumption, NEW w \in Walkers, NEW m \in Moves, NEW u, Stepped(w, m, u), GoodTree(w.tree),
         w.path # <<>> => w.tree.node[<<>>].bounds # NoBounds, Going(w) => Len(w.path) < Depth
  PROVE  /\ u \in Walkers /\ GoodTree(u.tree) /\ KeepsItsRecords(w.tree, u.tree) /\ EndsAreOf(w.tree, u.tree)
         /\ ~ Going(w) => u = w
         /\ Going(w) => \/ Going(u) /\ u.path = Append(w.path, m.value)
                           /\ u.tree.node[w.path].bounds = m.bounds /\ u.tree.node[u.path].ending = "none"
                        \/ u.stop = "none" /\ u.off /\ u.tree.full
                        \/ u.stop = "diverged" /\ ~ u.off /\ ~ Passed(w, m) /\ u.tree = w.tree
                        \/ u.stop = "repeated" /\ ~ u.off /\ Append(w.path, m.value) \in DOMAIN u.tree.node
                           /\ u.tree.node[Append(w.path, m.value)].ending # "none"
  <1> DEFINE t == w.tree
             p == w.path
             b == m.bounds
             v == m.value
             c == Append(w.path, m.value)
  <1>1. /\ t \in Trees /\ p \in Seq(Values) /\ p \in DOMAIN t.node /\ w.off \in BOOLEAN
        /\ w.stop \in {"none", "repeated", "diverged"} /\ t = [node |-> t.node, full |-> t.full]
        /\ w = [tree |-> t, path |-> p, off |-> w.off, stop |-> w.stop]
    BY WalkerFacts, TreeFacts
  <1>2. b \in Bounds /\ v \in Values /\ v \in b
    BY MoveFacts
  <1>3. Passed(w, m) => MayAsk(t, p, b, v)
    BY <1>1, <1>2 DEF Passed, MayAsk
  <1>4. c \in Seq(Values)
    BY <1>1, <1>2
  <1>5. KeepsItsRecords(t, t) /\ EndsAreOf(t, t)
    BY DEF KeepsItsRecords, EndsAreOf
  <1>6. ASSUME NEW v1 \in Trees, NEW p1 \in Seq(Values), p1 \in DOMAIN v1.node, NEW o \in BOOLEAN,
               NEW s \in {"none", "repeated", "diverged"}
        PROVE  [tree |-> v1, path |-> p1, off |-> o, stop |-> s] \in Walkers
    BY <1>6 DEF Walkers
  <1> HIDE DEF t, p, b, v, c
  <1>7. CASE ~ Going(w) /\ u = w
    BY <1>5, <1>7 DEF t
  <1>8. CASE Going(w) /\ ~ Passed(w, m) /\ u = [w EXCEPT !.stop = "diverged"]
    <2>1. w.stop = "none" /\ w.off = FALSE
      BY <1>1, <1>8 DEF Going
    <2>2. u = [tree |-> t, path |-> p, off |-> w.off, stop |-> "diverged"]
      BY <1>1, <1>8
    <2>3. u \in Walkers
      BY <1>1, <1>6, <2>2
    <2>4. u.tree = t /\ u.stop = "diverged" /\ ~ u.off
      BY <2>1, <2>2
    <2> QED
      BY <1>5, <1>8, <2>3, <2>4 DEF t
  <1>9. CASE /\ Passed(w, m) /\ c \in DOMAIN t.node /\ t.node[c].ending # "none"
             /\ u = [tree |-> [node |-> Asking(t, p, b), full |-> t.full], path |-> p,
                     off |-> FALSE, stop |-> "repeated"]
    <2>1. Asking(t, p, b) = t.node
      BY <1>3, <1>9, AskedBefore DEF c, p, v
    <2>2. u = [tree |-> t, path |-> p, off |-> FALSE, stop |-> "repeated"]
      BY <1>1, <1>9, <2>1
    <2>3. u \in Walkers
      BY <1>1, <1>6, <2>2
    <2>4. u.tree = t /\ u.stop = "repeated" /\ ~ u.off
      BY <2>2
    <2> QED
      BY <1>5, <1>9, <2>3, <2>4 DEF t, c, Passed
  <1>10. CASE /\ Passed(w, m) /\ c \in DOMAIN t.node /\ t.node[c].ending = "none"
              /\ u = [tree |-> [node |-> Asking(t, p, b), full |-> t.full], path |-> c,
                      off |-> FALSE, stop |-> "none"]
    <2>1. Asking(t, p, b) = t.node /\ t.node[p].bounds = b
      BY <1>3, <1>10, AskedBefore DEF c, p, v
    <2>2. u = [tree |-> t, path |-> c, off |-> FALSE, stop |-> "none"]
      BY <1>1, <1>10, <2>1
    <2>3. u \in Walkers
      BY <1>1, <1>4, <1>6, <1>10, <2>2
    <2>4. u.tree = t /\ u.stop = "none" /\ ~ u.off /\ u.path = c
      BY <2>2
    <2> QED
      BY <1>5, <1>10, <2>1, <2>3, <2>4 DEF t, c, p, b, Passed, Going
  <1>11. CASE /\ Passed(w, m) /\ c \notin DOMAIN t.node /\ Cardinality(DOMAIN t.node) >= Limit
              /\ u = [tree |-> Filled(t, p, b), path |-> p, off |-> TRUE, stop |-> "none"]
    <2>1. GoodTree(Filled(t, p, b)) /\ KeepsItsRecords(t, Filled(t, p, b))
      BY <1>3, <1>11, AskingFills DEF c, p, v
    <2>2. /\ DOMAIN Asking(t, p, b) = DOMAIN t.node
          /\ \A q \in DOMAIN t.node : Asking(t, p, b)[q].ending = t.node[q].ending
      BY <1>1, <1>2, AskingIsTyped
    <2>3. Filled(t, p, b).node = Asking(t, p, b) /\ Filled(t, p, b).full
      BY DEF Filled
    <2>4. u.tree = Filled(t, p, b) /\ u.stop = "none" /\ u.off /\ u.path = p
      BY <1>11
    <2>5. EndsAreOf(t, u.tree)
      BY <2>2, <2>3, <2>4 DEF EndsAreOf
    <2>6. u \in Walkers
      BY <1>1, <1>6, <1>11, <2>1, <2>2, <2>3 DEF GoodTree
    <2> QED
      BY <1>11, <2>1, <2>3, <2>4, <2>5, <2>6 DEF t, Passed
  <1>12. CASE /\ Passed(w, m) /\ c \notin DOMAIN t.node /\ ~ (Cardinality(DOMAIN t.node) >= Limit)
              /\ u = [tree |-> Branched(t, p, b, c), path |-> c, off |-> FALSE, stop |-> "none"]
    <2>0. Cardinality(DOMAIN t.node) \in Nat /\ Limit \in Nat
      BY FS_CardinalityType DEF GoodTree, Within, TreeAssumption, t
    <2>1. GoodTree(Branched(t, p, b, c)) /\ KeepsItsRecords(t, Branched(t, p, b, c))
      <3>1. Len(p) < Depth /\ Cardinality(DOMAIN t.node) < Limit
        BY <1>12, <2>0 DEF Passed, p
      <3>2. c = Append(p, v)
        BY DEF c, p, v
      <3> QED
        BY <1>3, <1>12, <3>1, <3>2, AskingBranches
    <2>2. /\ DOMAIN Asking(t, p, b) = DOMAIN t.node
          /\ \A q \in DOMAIN t.node : Asking(t, p, b)[q].ending = t.node[q].ending
          /\ Asking(t, p, b)[p].bounds = b
      BY <1>1, <1>2, AskingIsTyped
    <2>3. /\ DOMAIN Branched(t, p, b, c).node = DOMAIN t.node \cup {c}
          /\ \A q \in DOMAIN t.node : Branched(t, p, b, c).node[q] = Asking(t, p, b)[q]
          /\ Branched(t, p, b, c).node[c] = NewNode
      BY <1>12 DEF Branched
    <2>4. u.tree = Branched(t, p, b, c) /\ u.stop = "none" /\ ~ u.off /\ u.path = c
      BY <1>12
    <2>5. NewNode.ending = "none"
      BY DEF NewNode
    <2>6. EndsAreOf(t, u.tree)
      BY <2>2, <2>3, <2>4, <2>5 DEF EndsAreOf
    <2>7. u \in Walkers
      BY <1>4, <1>6, <1>12, <2>1, <2>3 DEF GoodTree
    <2> QED
      BY <1>1, <1>12, <2>1, <2>2, <2>3, <2>4, <2>5, <2>6, <2>7 DEF t, c, p, b, Passed, Going
  <1> QED
    BY <1>7, <1>8, <1>9, <1>10, <1>11, <1>12 DEF Stepped, t, p, b, c

\* The requests of the tree after a step: those before, that of the step, and none of a new node.
LEMMA StepsLearnTheRequest ==
  ASSUME NEW w \in Walkers, NEW m \in Moves, NEW u, Stepped(w, m, u), NEW q \in DOMAIN u.tree.node
  PROVE  \/ q \in DOMAIN w.tree.node /\ u.tree.node[q].bounds = w.tree.node[q].bounds
         \/ Going(w) /\ q = w.path /\ u.tree.node[q].bounds = m.bounds
         \/ Going(w) /\ q = Append(w.path, m.value) /\ u.tree.node[q].bounds = NoBounds
  <1> DEFINE t == w.tree
             p == w.path
             b == m.bounds
             c == Append(w.path, m.value)
             f == Asking(t, p, b)
  <1>1. t \in Trees /\ p \in DOMAIN t.node /\ b \in Bounds /\ t.node = t.node
    BY WalkerFacts, MoveFacts
  <1>2. /\ DOMAIN f = DOMAIN t.node
        /\ \A x \in DOMAIN t.node : f[x].bounds = IF x = p THEN b ELSE t.node[x].bounds
    BY <1>1, AskingIsTyped
  <1>w. w = [tree |-> w.tree, path |-> w.path, off |-> w.off, stop |-> w.stop]
    BY WalkerFacts
  <1> HIDE DEF t, p, b, c, f
  <1>3. CASE u = w \/ u = [w EXCEPT !.stop = "diverged"]
    <2>1. u.tree = t
      BY <1>3, <1>w DEF t
    <2> QED
      BY <2>1 DEF t
  <1>4. CASE Passed(w, m) /\ u.tree.node = f
    BY <1>2, <1>4 DEF t, p, b, Passed
  <1>5. CASE Passed(w, m) /\ u.tree = Branched(t, p, b, c)
    <2>1. /\ DOMAIN u.tree.node = DOMAIN t.node \cup {c}
          /\ u.tree.node[c] = NewNode
          /\ \A x \in DOMAIN t.node : x # c => u.tree.node[x] = f[x]
      BY <1>5 DEF Branched, f
    <2>2. NewNode.bounds = NoBounds
      BY DEF NewNode
    <2> QED
      BY <1>2, <1>5, <2>1, <2>2 DEF t, p, b, c, Passed
  <1>6. \/ u = w \/ u = [w EXCEPT !.stop = "diverged"]
        \/ Passed(w, m) /\ u.tree = [node |-> f, full |-> t.full]
        \/ Passed(w, m) /\ u.tree = Filled(t, p, b)
        \/ Passed(w, m) /\ u.tree = Branched(t, p, b, c)
    BY DEF Stepped, t, p, b, c, f
  <1>7. Filled(t, p, b).node = f /\ [node |-> f, full |-> t.full].node = f
    BY DEF Filled, f
  <1> QED
    BY <1>3, <1>4, <1>5, <1>6, <1>7

LEMMA StepsStayFull ==
  ASSUME NEW w, NEW m, NEW u, Stepped(w, m, u), w.tree.full,
         w = [tree |-> w.tree, path |-> w.path, off |-> w.off, stop |-> w.stop]
  PROVE  u.tree.full
  <1> DEFINE d == [w EXCEPT !.stop = "diverged"]
  <1>1. d.tree = w.tree
    OBVIOUS
  <1> DEFINE t == w.tree
             n == Append(w.path, m.value)
             A == [node |-> Asking(t, w.path, m.bounds), full |-> t.full]
  <1>3. \/ u = w \/ u = d
        \/ u = [tree |-> A, path |-> w.path, off |-> FALSE, stop |-> "repeated"]
        \/ u = [tree |-> A, path |-> n, off |-> FALSE, stop |-> "none"]
        \/ u = [tree |-> Filled(t, w.path, m.bounds), path |-> w.path, off |-> TRUE, stop |-> "none"]
        \/ u = [tree |-> Branched(t, w.path, m.bounds, n), path |-> n, off |-> FALSE, stop |-> "none"]
    BY Zenon DEF Stepped
  <1> HIDE DEF A, n, t
  <1>4. u = w \/ u = d \/ u.tree = A \/ u.tree = Filled(t, w.path, m.bounds) \/ u.tree = Branched(t, w.path, m.bounds, n)
    BY <1>3
  <1> HIDE DEF d
  <1>2. \/ u.tree = w.tree
        \/ u.tree = [node |-> Asking(w.tree, w.path, m.bounds), full |-> w.tree.full]
        \/ u.tree = Filled(w.tree, w.path, m.bounds)
        \/ u.tree = Branched(w.tree, w.path, m.bounds, Append(w.path, m.value))
    BY <1>1, <1>4 DEF A, n, t
  <1> QED
    BY <1>2 DEF Filled, Branched

-----------------------------------------------------------------------------
(***************************************************************************)
(* A walk.                                                                 *)
(***************************************************************************)

\* What the body did on the way of a walk.
Shown(b, walk) ==
  \A i \in 0 .. Len(walk) :
    LET q == SubSeq(ValuesIn(walk), 1, i)
    IN  q \in DOMAIN b /\ (i < Len(walk) => b[q].bounds = walk[i + 1].bounds /\ b[q].ending = "none")

\* The walker after n steps of a walk from a tree; b is a body that answers as the walk says.
OnItsWay(walk, n, w) ==
  /\ w.path = SubSeq(ValuesIn(walk), 1, n)
  /\ n > 0 => w.tree.node[w.path].ending = "none"
  /\ \A i \in 0 .. n - 1 : /\ SubSeq(ValuesIn(walk), 1, i) \in DOMAIN w.tree.node
                           /\ w.tree.node[SubSeq(ValuesIn(walk), 1, i)].bounds = walk[i + 1].bounds
AtAnEnd(walk, n, w) ==
  \E k \in 1 .. n : /\ SubSeq(ValuesIn(walk), 1, k) \in DOMAIN w.tree.node
                    /\ w.tree.node[SubSeq(ValuesIn(walk), 1, k)].ending # "none"
WalkGoes(t, b, walk, n, w) ==
  /\ w \in Walkers /\ GoodTree(w.tree) /\ KeepsItsRecords(t, w.tree) /\ EndsAreOf(t, w.tree)
  /\ w.off \/ t.full => w.tree.full
  /\ w.stop = "repeated" => AtAnEnd(walk, n, w)
  /\ Going(w) => OnItsWay(walk, n, w)
  /\ n = 0 => w = Walker(t)
  /\ Shown(b, walk) /\ Tells(t, b) => Tells(w.tree, b) /\ w.stop # "diverged"

Walks == UNION {[1 .. n -> Moves] : n \in 0 .. Depth}

LEMMA WalkFacts ==
  ASSUME TreeAssumption, NEW walk \in Walks
  PROVE  /\ walk \in Seq(Moves) /\ Len(walk) \in 0 .. Depth /\ Len(walk) \in Nat
         /\ \A n \in 1 .. Len(walk) : walk[n] \in Moves /\ ValuesIn(walk)[n] = walk[n].value
         /\ ValuesIn(walk) \in Seq(Values) /\ Len(ValuesIn(walk)) = Len(walk)
  <1>1. PICK N \in 0 .. Depth : walk \in [1 .. N -> Moves]
    BY DEF Walks
  <1>2. N \in Nat
    BY <1>1 DEF TreeAssumption
  <1>3. walk \in Seq(Moves) /\ Len(walk) = N /\ DOMAIN walk = 1 .. N
    BY <1>1, <1>2
  <1>4. ValuesIn(walk) = [i \in 1 .. N |-> walk[i].value]
    BY <1>3 DEF ValuesIn
  <1>5. \A n \in 1 .. N : walk[n] \in Moves /\ walk[n].value \in Values
    BY <1>1, MoveFacts
  <1>6. ValuesIn(walk) \in [1 .. N -> Values]
    BY <1>4, <1>5
  <1>7. ValuesIn(walk) \in Seq(Values) /\ Len(ValuesIn(walk)) = N
    BY <1>2, <1>6
  <1> QED
    BY <1>1, <1>2, <1>3, <1>4, <1>5, <1>7

LEMMA AWalkStarts ==
  ASSUME TreeAssumption, NEW walk \in Walks, NEW t, GoodTree(t), NEW b
  PROVE  WalkGoes(t, b, walk, 0, Walker(t))
  <1> DEFINE w == Walker(t)
  <1>1. w = [tree |-> t, path |-> <<>>, off |-> FALSE, stop |-> "none"]
    BY DEF Walker
  <1>2. w.tree = t /\ w.path = <<>> /\ ~ w.off /\ w.stop = "none"
    BY <1>1
  <1>3. t \in Trees /\ <<>> \in DOMAIN t.node /\ <<>> \in Seq(Values)
    BY DEF GoodTree, Branches
  <1>4. w \in Walkers
    BY <1>1, <1>3 DEF Walkers
  <1>5. KeepsItsRecords(t, t) /\ EndsAreOf(t, t)
    BY DEF KeepsItsRecords, EndsAreOf
  <1>6. SubSeq(ValuesIn(walk), 1, 0) = <<>>
    BY WalkFacts, Beginnings
  <1> HIDE DEF w
  <1>7. OnItsWay(walk, 0, w)
    BY <1>2, <1>6 DEF OnItsWay
  <1>8. WalkGoes(t, b, walk, 0, w)
    BY <1>2, <1>4, <1>5, <1>7 DEF WalkGoes, w
  <1> QED
    BY <1>8 DEF w

LEMMA AWalkGoesOn ==
  ASSUME TreeAssumption, NEW walk \in Walks, NEW t, GoodTree(t), NEW b, NEW n \in 1 .. Len(walk), NEW w,
         WalkGoes(t, b, walk, n - 1, w)
  PROVE  WalkGoes(t, b, walk, n, Walk(w, walk[n]))
  <1> DEFINE V == ValuesIn(walk)
             m == walk[n]
             u == Walk(w, m)
             x == w.tree
             y == u.tree
             P(i) == SubSeq(V, 1, i)
  <1>1. /\ m \in Moves /\ V \in Seq(Values) /\ Len(V) = Len(walk) /\ Len(walk) \in Nat /\ Len(walk) <= Depth
        /\ n - 1 \in 0 .. Len(V) /\ n \in 0 .. Len(V) /\ n \in Nat /\ V[n] = m.value
        /\ \A i \in 1 .. Len(walk) : walk[i] \in Moves
    BY WalkFacts DEF TreeAssumption
  <1>2. /\ w \in Walkers /\ GoodTree(w.tree) /\ KeepsItsRecords(t, w.tree) /\ EndsAreOf(t, w.tree)
        /\ w.off \/ t.full => w.tree.full
        /\ w.stop = "repeated" => AtAnEnd(walk, n - 1, w)
        /\ Going(w) => OnItsWay(walk, n - 1, w)
        /\ n - 1 = 0 => w = Walker(t)
        /\ Shown(b, walk) /\ Tells(t, b) => Tells(w.tree, b) /\ w.stop # "diverged"
    BY DEF WalkGoes
  <1>3. /\ P(0) = <<>> /\ P(n) = Append(P(n - 1), m.value) /\ P(n - 1) \in Seq(Values) /\ Len(P(n - 1)) = n - 1
    <2>1. V \in Seq(Values) /\ n - 1 \in 0 .. Len(V) /\ n \in 1 .. Len(V) /\ V[n] = m.value
      BY <1>1
    <2> HIDE DEF V, m
    <2>2. P(0) = <<>> /\ P(n) = Append(P(n - 1), V[n])
      BY <2>1, Beginnings
    <2>3. P(n - 1) \in Seq(Values) /\ Len(P(n - 1)) = n - 1
      BY <2>1, Beginnings
    <2> QED
      BY <2>1, <2>2, <2>3
  <1> HIDE DEF V, m, u, x, y, P
  <1>4. Stepped(w, m, u)
    BY <1>1, <1>2, WalkersStep DEF u
  <1>5. Going(w) => /\ w.path = P(n - 1)
                    /\ \A i \in 0 .. n - 2 : P(i) \in DOMAIN x.node /\ x.node[P(i)].bounds = walk[i + 1].bounds
    BY <1>1, <1>2 DEF OnItsWay, P, V, x
  <1>6. \A i \in 1 .. Len(walk) : walk[i].bounds # NoBounds
    BY <1>1, MoveFacts DEF NoBounds
  <1>7. Going(w) => Len(w.path) < Depth
    BY <1>1, <1>3, <1>5 DEF TreeAssumption
  <1>8. w.path # <<>> /\ Going(w) => w.tree.node[<<>>].bounds # NoBounds
    BY <1>1, <1>3, <1>5, <1>6 DEF x
  <1>9. /\ u \in Walkers /\ GoodTree(y) /\ KeepsItsRecords(x, y) /\ EndsAreOf(x, y)
        /\ ~ Going(w) => u = w
        /\ Going(w) => \/ Going(u) /\ u.path = Append(w.path, m.value)
                          /\ y.node[w.path].bounds = m.bounds /\ y.node[u.path].ending = "none"
                       \/ u.stop = "none" /\ u.off /\ y.full
                       \/ u.stop = "diverged" /\ ~ u.off /\ ~ Passed(w, m) /\ y = x
                       \/ u.stop = "repeated" /\ ~ u.off /\ Append(w.path, m.value) \in DOMAIN y.node
                          /\ y.node[Append(w.path, m.value)].ending # "none"
    <2>1. CASE Going(w)
      BY <1>1, <1>2, <1>4, <1>7, <1>8, <2>1, StepsKeepTheTree DEF x, y
    <2>2. CASE ~ Going(w)
      <3>1. u = w
        BY <1>4, <2>2 DEF Stepped, Passed
      <3>2. KeepsItsRecords(x, x) /\ EndsAreOf(x, x)
        BY DEF KeepsItsRecords, EndsAreOf
      <3> QED
        BY <1>2, <2>2, <3>1, <3>2 DEF x, y
    <2> QED
      BY <2>1, <2>2
  <1>10. KeepsItsRecords(t, y) /\ EndsAreOf(t, y)
    <2>1. KeepsItsRecords(t, y)
      BY <1>2, <1>9, RecordsKeptTwice DEF x
    <2>2. EndsAreOf(t, y)
      BY <1>2, <1>9 DEF EndsAreOf, x
    <2> QED
      BY <2>1, <2>2
  <1>11. u.off \/ t.full => y.full
    <2>1. x.full => y.full
      <3>1. w = [tree |-> w.tree, path |-> w.path, off |-> w.off, stop |-> w.stop]
        BY <1>2, WalkerFacts
      <3> QED
        BY <1>4, <3>1, StepsStayFull DEF x, y
    <2> QED
      BY <1>2, <1>9, <2>1 DEF x, Going
  <1>12. u.stop = "repeated" => AtAnEnd(walk, n, u)
    <2>1. CASE Going(w)
      <3>1. u.stop = "repeated" => P(n) \in DOMAIN y.node /\ y.node[P(n)].ending # "none"
        BY <1>3, <1>5, <1>9, <2>1 DEF Going
      <3> QED
        BY <1>1, <3>1 DEF AtAnEnd, P, V, y
    <2>2. CASE ~ Going(w)
      <3>1. u = w
        BY <1>9, <2>2
      <3>2. \A k \in 1 .. n - 1 : k \in 1 .. n
        BY <1>1
      <3> QED
        BY <1>2, <3>1, <3>2 DEF AtAnEnd
    <2> QED
      BY <2>1, <2>2
  <1>13. Going(u) => OnItsWay(walk, n, u)
    <2> SUFFICES ASSUME Going(u) PROVE OnItsWay(walk, n, u)
      OBVIOUS
    <2>1. Going(w)
      BY <1>9
    <2>2. u.path = P(n) /\ y.node[P(n - 1)].bounds = m.bounds /\ y.node[u.path].ending = "none"
      BY <1>3, <1>5, <1>9, <2>1 DEF Going
    <2>3. ASSUME NEW i \in 0 .. n - 1
          PROVE  P(i) \in DOMAIN y.node /\ y.node[P(i)].bounds = walk[i + 1].bounds
      <3>1. CASE i = n - 1
        <4>1. P(n - 1) \in DOMAIN x.node
          BY <1>2, <1>5, <2>1, WalkerFacts DEF x
        <4> QED
          BY <1>1, <1>9, <2>2, <3>1, <4>1 DEF m, KeepsItsRecords
      <3>2. CASE i # n - 1
        <4>1. i \in 0 .. n - 2 /\ i + 1 \in 1 .. Len(walk)
          BY <1>1, <3>2
        <4>2. P(i) \in DOMAIN x.node /\ x.node[P(i)].bounds = walk[i + 1].bounds /\ walk[i + 1].bounds # NoBounds
          BY <1>5, <1>6, <2>1, <4>1
        <4> QED
          BY <1>9, <4>2 DEF KeepsItsRecords
      <3> QED
        BY <3>1, <3>2
    <2> QED
      BY <2>2, <2>3 DEF OnItsWay, P, V, y
  <1>14. Shown(b, walk) /\ Tells(t, b) => Tells(y, b) /\ u.stop # "diverged"
    <2> SUFFICES ASSUME Shown(b, walk), Tells(t, b)
                 PROVE  Tells(y, b) /\ u.stop # "diverged"
      OBVIOUS
    <2>1. Tells(x, b) /\ w.stop # "diverged"
      BY <1>2 DEF x
    <2>2. /\ P(n) \in DOMAIN b /\ P(n - 1) \in DOMAIN b
          /\ b[P(n - 1)].bounds = m.bounds /\ b[P(n - 1)].ending = "none"
      <3>1. n \in 0 .. Len(walk) /\ n - 1 \in 0 .. Len(walk) /\ n - 1 < Len(walk) /\ (n - 1) + 1 = n
        BY <1>1
      <3> QED
        BY <3>1 DEF Shown, P, V, m
    <2>3. CASE ~ Going(w)
      BY <1>9, <2>1, <2>3 DEF x, y
    <2>4. CASE Going(w)
      <3>1. w.path = P(n - 1) /\ w.path \in DOMAIN x.node
        BY <1>2, <1>5, <2>4, WalkerFacts DEF x
      <3>2. Passed(w, m)
        <4>1. x.node[w.path].ending = "none"
          BY <2>1, <2>2, <3>1 DEF Tells
        <4>2. x.node[w.path].bounds # NoBounds => x.node[w.path].bounds = m.bounds
          BY <2>1, <2>2, <3>1 DEF Tells
        <4> QED
          BY <2>4, <4>1, <4>2 DEF Passed, x
      <3>3. u.stop # "diverged"
        BY <1>9, <2>4, <3>2 DEF Going
      <3>4. ASSUME NEW q \in DOMAIN y.node
            PROVE  /\ q # <<>> => q \in DOMAIN b
                   /\ y.node[q].bounds # NoBounds => q \in DOMAIN b /\ b[q].bounds = y.node[q].bounds
                   /\ y.node[q].ending # "none" => q \in DOMAIN b /\ b[q].ending = y.node[q].ending
        <4>1. \/ q \in DOMAIN x.node /\ y.node[q].bounds = x.node[q].bounds
              \/ q = P(n - 1) /\ y.node[q].bounds = m.bounds
              \/ q = P(n) /\ y.node[q].bounds = NoBounds
          BY <1>1, <1>2, <1>3, <1>4, <3>1, <3>4, StepsLearnTheRequest DEF x, y
        <4>2. q # <<>> => q \in DOMAIN b
          BY <2>1, <2>2, <4>1 DEF Tells
        <4>3. y.node[q].bounds # NoBounds => q \in DOMAIN b /\ b[q].bounds = y.node[q].bounds
          BY <2>1, <2>2, <4>1 DEF Tells
        <4>4. y.node[q].ending # "none" => q \in DOMAIN x.node /\ x.node[q].ending = y.node[q].ending
          BY <1>9 DEF EndsAreOf
        <4>5. y.node[q].ending # "none" => q \in DOMAIN b /\ b[q].ending = y.node[q].ending
          BY <2>1, <4>4 DEF Tells
        <4> QED
          BY <4>2, <4>3, <4>5
      <3> QED
        BY <3>3, <3>4 DEF Tells
    <2> QED
      BY <2>3, <2>4
  <1>15. n # 0
    BY <1>1
  <1> QED
    BY <1>9, <1>10, <1>11, <1>12, <1>13, <1>14, <1>15 DEF WalkGoes, u, y, m

\* The end of a walk.
LEMMA AWalkEnds ==
  ASSUME TreeAssumption, NEW walk \in Walks, NEW t, GoodTree(t), NEW b
  PROVE  WalkGoes(t, b, walk, Len(walk), Walked(t, walk))
  <1> DEFINE N == Len(walk)
             step == [x \in Walkers \X (1 .. N) |->
                        IF WalkGoes(t, b, walk, x[2] - 1, x[1]) THEN Walk(x[1], walk[x[2]]) ELSE x[1]]
             F == CHOOSE f : f = [n \in 0 .. N |-> IF n = 0 THEN Walker(t) ELSE Walk(f[n - 1], walk[n])]
  <1>1. N \in Nat /\ WalkGoes(t, b, walk, 0, Walker(t))
    BY WalkFacts, AWalkStarts
  <1>2. Walker(t) \in Walkers
    BY <1>1 DEF WalkGoes
  <1>3. ASSUME NEW w \in Walkers, NEW n \in 1 .. N
        PROVE  /\ step[<<w, n>>] = IF WalkGoes(t, b, walk, n - 1, w) THEN Walk(w, walk[n]) ELSE w
               /\ step[<<w, n>>] \in Walkers
    <2>1. step[<<w, n>>] = IF WalkGoes(t, b, walk, n - 1, w) THEN Walk(w, walk[n]) ELSE w
      OBVIOUS
    <2> HIDE DEF step
    <2>2. CASE WalkGoes(t, b, walk, n - 1, w)
      <3>1. WalkGoes(t, b, walk, n, Walk(w, walk[n]))
        BY <2>2, AWalkGoesOn
      <3> QED
        BY <2>1, <2>2, <3>1 DEF WalkGoes
    <2> QED
      BY <2>1, <2>2
  <1>4. step \in [Walkers \X (1 .. N) -> Walkers]
    <2>1. \A x \in Walkers \X (1 .. N) : step[x] \in Walkers
      <3> SUFFICES ASSUME NEW x \in Walkers \X (1 .. N) PROVE step[x] \in Walkers
        OBVIOUS
      <3>1. x[1] \in Walkers /\ x[2] \in 1 .. N /\ x = <<x[1], x[2]>>
        OBVIOUS
      <3> HIDE DEF step
      <3> QED
        BY <1>3, <3>1
    <2> QED
      BY <2>1
  <1> HIDE DEF step, F
  <1>5. PICK f \in [0 .. N -> Walkers] : /\ f[0] = Walker(t)
                                         /\ \A n \in 1 .. N : f[n] = step[<<f[n - 1], n>>]
    <2>1. \E f : Solution(f, N, Walkers, Walker(t), step)
      BY <1>1, <1>2, <1>4, RecursionHasASolution
    <2> QED
      BY <2>1 DEF Solution
  <1>6. \A n \in 0 .. N : WalkGoes(t, b, walk, n, f[n])
    <2> DEFINE S == {n \in 0 .. N : WalkGoes(t, b, walk, n, f[n])}
    <2>1. 0 \in S
      BY <1>1, <1>5
    <2>2. ASSUME NEW n \in 1 .. N, n - 1 \in S PROVE n \in S
      <3>1. f[n - 1] \in Walkers /\ WalkGoes(t, b, walk, n - 1, f[n - 1])
        BY <1>1, <1>5, <2>2
      <3>2. f[n] = Walk(f[n - 1], walk[n])
        BY <1>3, <1>5, <3>1
      <3>3. WalkGoes(t, b, walk, n, Walk(f[n - 1], walk[n]))
        BY <3>1, AWalkGoesOn
      <3> QED
        BY <1>1, <3>2, <3>3
    <2> HIDE DEF S
    <2>3. 0 .. N \subseteq S
      BY <1>1, <2>1, <2>2, UpFromZero
    <2> QED
      BY <2>3 DEF S
  <1>7. \A n \in 1 .. N : f[n] = Walk(f[n - 1], walk[n])
    <2> SUFFICES ASSUME NEW n \in 1 .. N PROVE f[n] = Walk(f[n - 1], walk[n])
      OBVIOUS
    <2>1. n - 1 \in 0 .. N
      BY <1>1
    <2> QED
      BY <1>3, <1>5, <1>6, <2>1
  <1>8. f = [n \in 0 .. N |-> IF n = 0 THEN Walker(t) ELSE Walk(f[n - 1], walk[n])]
    <2>1. \A n \in 0 .. N : f[n] = IF n = 0 THEN Walker(t) ELSE Walk(f[n - 1], walk[n])
      BY <1>1, <1>5, <1>7
    <2>2. f = [n \in 0 .. N |-> f[n]]
      BY <1>5
    <2> QED
      BY <2>1, <2>2, Zenon
  <1>9. F = [n \in 0 .. N |-> IF n = 0 THEN Walker(t) ELSE Walk(F[n - 1], walk[n])]
    <2> DEFINE Solves(g) == g = [n \in 0 .. N |-> IF n = 0 THEN Walker(t) ELSE Walk(g[n - 1], walk[n])]
    <2>1. Solves(f)
      BY <1>8, Zenon
    <2>2. F = CHOOSE g : Solves(g)
      BY Zenon DEF F
    <2> HIDE DEF Solves, F
    <2>3. Solves(F)
      BY <2>1, <2>2, Zenon
    <2> QED
      BY <2>3, Zenon DEF Solves
  <1>10. Walked(t, walk) = F[N]
    BY Zenon DEF Walked, F
  <1>11. /\ F[0] = Walker(t)
         /\ \A n \in 1 .. N : F[n] = Walk(F[n - 1], walk[n])
    <2>1. \A n \in 0 .. N : F[n] = IF n = 0 THEN Walker(t) ELSE Walk(F[n - 1], walk[n])
      BY <1>9
    <2> QED
      BY <1>1, <2>1
  <1>12. F[N] = f[N]
    <2> DEFINE S == {n \in 0 .. N : F[n] = f[n]}
    <2>1. 0 \in S
      BY <1>1, <1>5, <1>11
    <2>2. ASSUME NEW n \in 1 .. N, n - 1 \in S PROVE n \in S
      <3>1. F[n - 1] = f[n - 1]
        BY <2>2
      <3> QED
        BY <1>1, <1>7, <1>11, <3>1
    <2> HIDE DEF S
    <2>3. 0 .. N \subseteq S
      BY <1>1, <2>1, <2>2, UpFromZero
    <2>4. N \in S
      BY <1>1, <2>3
    <2> QED
      BY <2>4 DEF S
  <1> QED
    BY <1>1, <1>6, <1>10, <1>12

-----------------------------------------------------------------------------
(***************************************************************************)
(* The end of a case in the tree.                                          *)
(***************************************************************************)

LEMMA SettleFacts ==
  ASSUME NEW t \in Trees, NEW p \in DOMAIN t.node
  PROVE  /\ Settle(t, p) \in Trees /\ DOMAIN Settle(t, p).node = DOMAIN t.node
         /\ Settle(t, p).full = t.full
         /\ \A q \in DOMAIN t.node :
              /\ Settle(t, p).node[q].bounds = t.node[q].bounds
              /\ Settle(t, p).node[q].ending = t.node[q].ending
              /\ q # p => Settle(t, p).node[q].exhausted = t.node[q].exhausted
         /\ Settle(t, p).node[p].exhausted <=> Settled(t, p)
  <1>a. Settled(t, p) \in BOOLEAN
    BY DEF Settled
  <1>0. PICK s \in BOOLEAN : s = Settled(t, p)
    BY <1>a
  <1> DEFINE x == [t.node[p] EXCEPT !.exhausted = s]
             f == [t.node EXCEPT ![p] = x]
  <1>1. /\ DOMAIN t.node \subseteq Seq(Values) /\ t.full \in BOOLEAN
        /\ t.node = [q \in DOMAIN t.node |-> t.node[q]]
        /\ t = [node |-> t.node, full |-> t.full]
        /\ \A q \in DOMAIN t.node : t.node[q] \in NodeType
    BY TreeFacts
  <1>2. x \in NodeType /\ x.bounds = t.node[p].bounds /\ x.ending = t.node[p].ending /\ x.exhausted = s
    BY <1>1 DEF NodeType
  <1> HIDE DEF x
  <1>3. f \in [DOMAIN t.node -> NodeType] /\ f[p] = x /\ \A q \in DOMAIN t.node : q # p => f[q] = t.node[q]
    BY <1>1, <1>2
  <1>4. s = Settled(t, p)
    BY <1>0
  <1>5. Settle(t, p) = [t EXCEPT !.node[p].exhausted = s]
    BY <1>4, Zenon DEF Settle
  <1>6. [t EXCEPT !.node[p].exhausted = s] = [t EXCEPT !.node = f]
    BY DEF x
  <1> HIDE DEF f
  <1>7. [t EXCEPT !.node = f] = [node |-> f, full |-> t.full]
    BY <1>1
  <1>8. Settle(t, p) = [node |-> f, full |-> t.full]
    BY <1>5, <1>6, <1>7
  <1>9. Settle(t, p) \in Trees
    BY <1>1, <1>3, <1>8, IsATree
  <1>10. Settle(t, p).node = f /\ Settle(t, p).full = t.full
    BY <1>8
  <1> QED
    BY <1>0, <1>2, <1>3, <1>9, <1>10

\* The tree with an end at a node, before anything is settled.
Leaf(t, p, e) == [t EXCEPT !.node[p].ending = e]

LEMMA LeafFacts ==
  ASSUME NEW t \in Trees, NEW p \in DOMAIN t.node, NEW e \in Tested
  PROVE  /\ Leaf(t, p, e) \in Trees /\ DOMAIN Leaf(t, p, e).node = DOMAIN t.node
         /\ Leaf(t, p, e).full = t.full
         /\ \A q \in DOMAIN t.node :
              /\ Leaf(t, p, e).node[q].bounds = t.node[q].bounds
              /\ Leaf(t, p, e).node[q].ending = IF q = p THEN e ELSE t.node[q].ending
              /\ Leaf(t, p, e).node[q].exhausted = t.node[q].exhausted
  <1> DEFINE x == [t.node[p] EXCEPT !.ending = e]
             f == [t.node EXCEPT ![p] = x]
  <1>1. /\ DOMAIN t.node \subseteq Seq(Values) /\ t.full \in BOOLEAN
        /\ t.node = [q \in DOMAIN t.node |-> t.node[q]]
        /\ t = [node |-> t.node, full |-> t.full]
        /\ \A q \in DOMAIN t.node : t.node[q] \in NodeType
    BY TreeFacts
  <1>2. x \in NodeType /\ x.bounds = t.node[p].bounds /\ x.ending = e /\ x.exhausted = t.node[p].exhausted
    BY <1>1 DEF NodeType
  <1> HIDE DEF x
  <1>3. f \in [DOMAIN t.node -> NodeType] /\ f[p] = x /\ \A q \in DOMAIN t.node : q # p => f[q] = t.node[q]
    BY <1>1, <1>2
  <1>4. Leaf(t, p, e) = [t EXCEPT !.node = f]
    BY DEF x, Leaf
  <1> HIDE DEF f
  <1>5. [t EXCEPT !.node = f] = [node |-> f, full |-> t.full]
    BY <1>1
  <1>6. Leaf(t, p, e) \in Trees
    BY <1>1, <1>3, <1>4, <1>5, IsATree
  <1>7. Leaf(t, p, e).node = f /\ Leaf(t, p, e).full = t.full
    BY <1>4, <1>5
  <1> QED
    BY <1>2, <1>3, <1>6, <1>7

\* The node of an end that may be entered, and the nodes above it.
MayEnd(t, p) ==
  /\ GoodTree(t) /\ p \in DOMAIN t.node
  /\ t.node[p].ending = "none" /\ t.node[p].bounds = NoBounds
  /\ \A i \in 0 .. Len(p) - 1 : SubSeq(p, 1, i) \in DOMAIN t.node /\ t.node[SubSeq(p, 1, i)].bounds # NoBounds

CountsAt(t, q) ==
  t.node[q].exhausted <=> \/ t.node[q].ending # "none"
                          \/ t.node[q].bounds # NoBounds /\ AllBelow(t, q)

\* The tree once the last n nodes of the path have been settled.
Rises(t, p, e, n, u) ==
  /\ u \in Trees /\ DOMAIN u.node = DOMAIN t.node /\ u.full = t.full
  /\ \A q \in DOMAIN t.node :
       /\ u.node[q].bounds = t.node[q].bounds
       /\ u.node[q].ending = IF q = p THEN e ELSE t.node[q].ending
       /\ t.node[q].exhausted => u.node[q].exhausted
       /\ (\A i \in Len(p) + 1 - n .. Len(p) : q # SubSeq(p, 1, i)) => u.node[q].exhausted = t.node[q].exhausted
  /\ \A i \in Len(p) + 1 - n .. Len(p) : CountsAt(u, SubSeq(p, 1, i))

LEMMA AppendIsLonger ==
  ASSUME NEW S, NEW p \in Seq(S), NEW x
  PROVE  Len(Append(p, x)) = Len(p) + 1
  <1> DEFINE T == S \cup {x}
  <1>1. p \in Seq(T) /\ x \in T
    OBVIOUS
  <1> HIDE DEF T
  <1> QED
    BY <1>1, OneLonger

LEMMA RisingKeepsTheShape ==
  ASSUME NEW t, NEW p, MayEnd(t, p), NEW e \in Tested, NEW n, NEW u, Rises(t, p, e, n, u)
  PROVE  Branches(u) /\ Within(u)
  <1>1. /\ DOMAIN u.node = DOMAIN t.node /\ u.full = t.full
        /\ \A q \in DOMAIN t.node : /\ u.node[q].bounds = t.node[q].bounds
                                    /\ u.node[q].ending = IF q = p THEN e ELSE t.node[q].ending
    BY DEF Rises
  <1>2. Branches(t) /\ Within(t) /\ t.node[p].bounds = NoBounds
    BY DEF MayEnd, GoodTree
  <1>3. <<>> \in DOMAIN t.node /\ t.full => t.node[<<>>].bounds # NoBounds
    BY <1>2 DEF Branches
  <1>4. ASSUME NEW q \in DOMAIN t.node
        PROVE  /\ q # <<>> => /\ Len(q) <= Depth /\ Front(q) \in DOMAIN u.node
                              /\ Last(q) \in u.node[Front(q)].bounds
               /\ u.node[q].ending # "none" => u.node[q].bounds = NoBounds
    <2>1. /\ q # <<>> => /\ Len(q) <= Depth /\ Front(q) \in DOMAIN t.node
                         /\ Last(q) \in t.node[Front(q)].bounds
          /\ t.node[q].ending # "none" => t.node[q].bounds = NoBounds
      BY <1>2 DEF Branches
    <2> QED
      BY <1>1, <1>2, <2>1
  <1>5. Branches(u)
    BY <1>1, <1>2, <1>4 DEF Branches
  <1>6. Within(u)
    BY <1>1, <1>2 DEF Within
  <1> QED
    BY <1>5, <1>6

LEMMA RisesFromALeaf ==
  ASSUME NEW t, NEW p, MayEnd(t, p), NEW e \in Tested
  PROVE  Rises(t, p, e, 0, Leaf(t, p, e))
  <1>1. t \in Trees /\ p \in DOMAIN t.node /\ p \in Seq(Values)
    BY TreeFacts DEF MayEnd, GoodTree
  <1>2. Len(p) + 1 - 0 .. Len(p) = {}
    BY <1>1
  <1> QED
    BY <1>1, <1>2, LeafFacts DEF Rises

LEMMA RisesOn ==
  ASSUME TreeAssumption, NEW t, NEW p, MayEnd(t, p), NEW e \in Tested, NEW n \in 1 .. Len(p) + 1,
         NEW u, Rises(t, p, e, n - 1, u)
  PROVE  Rises(t, p, e, n, Settle(u, SubSeq(p, 1, Len(p) + 1 - n)))
  <1> DEFINE L == Len(p)
             k == Len(p) + 1 - n
             P(i) == SubSeq(p, 1, i)
             r == P(k)
             v == Settle(u, r)
  <1>1. t \in Trees /\ p \in DOMAIN t.node /\ p \in Seq(Values) /\ L \in Nat /\ DOMAIN t.node \subseteq Seq(Values)
    <2>1. t \in Trees /\ p \in DOMAIN t.node
      BY DEF MayEnd, GoodTree
    <2>2. p \in Seq(Values) /\ DOMAIN t.node \subseteq Seq(Values)
      BY <2>1, TreeFacts
    <2> QED
      BY <2>1, <2>2
  <1>2. k \in 0 .. L /\ L + 1 - n = k /\ L + 1 - (n - 1) = k + 1 /\ k \in Nat
    BY <1>1
  <1>3. /\ P(L) = p
        /\ \A i \in 0 .. L : P(i) \in Seq(Values) /\ Len(P(i)) = i
        /\ \A i \in 0 .. L : P(i) \in DOMAIN t.node
        /\ \A i \in 0 .. L - 1 : t.node[P(i)].bounds # NoBounds
    <2>1. /\ P(L) = p
          /\ \A i \in 0 .. L : P(i) \in Seq(Values) /\ Len(P(i)) = i
      BY <1>1, Beginnings
    <2>2. \A i \in 0 .. L - 1 : P(i) \in DOMAIN t.node /\ t.node[P(i)].bounds # NoBounds
      BY DEF MayEnd
    <2> HIDE DEF P, L
    <2>3. \A i \in 0 .. L : i = L \/ i \in 0 .. L - 1
      BY <1>1
    <2> QED
      BY <1>1, <2>1, <2>2, <2>3
  <1>4. /\ u \in Trees /\ DOMAIN u.node = DOMAIN t.node /\ u.full = t.full
        /\ \A q \in DOMAIN t.node :
             /\ u.node[q].bounds = t.node[q].bounds
             /\ u.node[q].ending = IF q = p THEN e ELSE t.node[q].ending
             /\ t.node[q].exhausted => u.node[q].exhausted
             /\ (\A i \in k + 1 .. L : q # P(i)) => u.node[q].exhausted = t.node[q].exhausted
        /\ \A i \in k + 1 .. L : CountsAt(u, P(i))
    BY <1>2 DEF Rises
  <1>5. Branches(u)
    BY RisingKeepsTheShape
  <1>6. e # "none"
    BY DEF Tested
  <1> HIDE DEF L, k, P, r
  <1>7. r \in DOMAIN u.node /\ r \in Seq(Values) /\ Len(r) = k /\ r = P(k)
    BY <1>2, <1>3, <1>4 DEF r
  <1>8. Settled(u, r) <=> u.node[r].ending # "none" \/ AllBelow(u, r)
    BY <1>4, <1>5, <1>7, SettledMeansAllBelow
  <1>9. /\ v \in Trees /\ DOMAIN v.node = DOMAIN u.node /\ v.full = u.full
        /\ \A q \in DOMAIN u.node :
             /\ v.node[q].bounds = u.node[q].bounds
             /\ v.node[q].ending = u.node[q].ending
             /\ q # r => v.node[q].exhausted = u.node[q].exhausted
        /\ v.node[r].exhausted <=> Settled(u, r)
    BY <1>4, <1>7, SettleFacts
  <1> HIDE DEF v
  <1>10. ASSUME NEW i \in k .. L
         PROVE  AllBelow(v, P(i)) <=> AllBelow(u, P(i))
    <2>1. i \in 0 .. L /\ P(i) \in Seq(Values) /\ Len(P(i)) = i /\ P(i) \in DOMAIN u.node
      BY <1>1, <1>2, <1>3, <1>4
    <2>2. \A x : Len(Append(P(i), x)) = i + 1
      BY <2>1, AppendIsLonger
    <2>3. \A x : Append(P(i), x) # r
      BY <1>2, <1>7, <2>1, <2>2
    <2> QED
      BY <1>9, <2>1, <2>3 DEF AllBelow
  <1>11. CountsAt(v, r)
    <2>1. k # L => u.node[r].bounds # NoBounds
      BY <1>1, <1>2, <1>3, <1>4, <1>7
    <2>2. k = L => u.node[r].ending # "none"
      BY <1>3, <1>4, <1>6, <1>7
    <2>3. AllBelow(v, r) <=> AllBelow(u, r)
      BY <1>1, <1>2, <1>7, <1>10
    <2> QED
      BY <1>7, <1>8, <1>9, <2>1, <2>2, <2>3 DEF CountsAt
  <1>12. ASSUME NEW i \in k .. L
         PROVE  CountsAt(v, P(i))
    <2>1. CASE i = k
      BY <1>7, <1>11, <2>1
    <2>2. CASE i # k
      <3>1. i \in k + 1 .. L /\ i \in 0 .. L
        BY <1>1, <1>2, <2>2
      <3>2. P(i) # r /\ P(i) \in DOMAIN u.node
        BY <1>3, <1>4, <1>7, <2>2, <3>1
      <3>3. CountsAt(u, P(i))
        BY <1>4, <3>1
      <3> QED
        BY <1>9, <1>10, <3>2, <3>3 DEF CountsAt
    <2> QED
      BY <2>1, <2>2
  <1>13. t.node[r].exhausted => v.node[r].exhausted
    <2> SUFFICES ASSUME t.node[r].exhausted PROVE Settled(u, r)
      BY <1>9
    <2>1. t.node[r].ending # "none" \/ (t.node[r].bounds # NoBounds /\ AllBelow(t, r))
      <3>1. r \in DOMAIN t.node /\ Counts(t)
        BY <1>4, <1>7 DEF MayEnd, GoodTree
      <3> QED
        BY <3>1 DEF Counts
    <2>2. t.node[r].ending # "none" => u.node[r].ending # "none"
      BY <1>4, <1>6, <1>7
    <2>3. AllBelow(t, r) => AllBelow(u, r)
      BY <1>4, <1>7 DEF AllBelow
    <2> QED
      BY <1>8, <2>1, <2>2, <2>3
  <1>14. ASSUME NEW q \in DOMAIN t.node
         PROVE  /\ v.node[q].bounds = t.node[q].bounds
                /\ v.node[q].ending = IF q = p THEN e ELSE t.node[q].ending
                /\ t.node[q].exhausted => v.node[q].exhausted
                /\ (\A i \in k .. L : q # P(i)) => v.node[q].exhausted = t.node[q].exhausted
    <2>1. /\ v.node[q].bounds = t.node[q].bounds
          /\ v.node[q].ending = IF q = p THEN e ELSE t.node[q].ending
      BY <1>4, <1>9
    <2>2. t.node[q].exhausted => v.node[q].exhausted
      BY <1>4, <1>9, <1>13
    <2>3. ASSUME \A i \in k .. L : q # P(i) PROVE v.node[q].exhausted = t.node[q].exhausted
      <3>1. k \in k .. L /\ \A i \in k + 1 .. L : i \in k .. L
        BY <1>1, <1>2
      <3>2. q # r /\ \A i \in k + 1 .. L : q # P(i)
        BY <1>7, <2>3, <3>1
      <3> QED
        BY <1>4, <1>9, <3>2
    <2> QED
      BY <2>1, <2>2, <2>3
  <1>15. Rises(t, p, e, n, v)
    <2>1. v \in Trees /\ DOMAIN v.node = DOMAIN t.node /\ v.full = t.full
      BY <1>4, <1>9
    <2>2. Len(p) + 1 - n = k /\ Len(p) = L
      BY DEF k, L
    <2> QED
      BY <1>12, <1>14, <2>1, <2>2 DEF Rises, P
  <1> QED
    BY <1>15 DEF v, r, P, k

LEMMA RisenCounts ==
  ASSUME NEW t, NEW p, MayEnd(t, p), NEW e \in Tested, NEW u, Rises(t, p, e, Len(p) + 1, u)
  PROVE  GoodTree(u)
  <1> DEFINE P(i) == SubSeq(p, 1, i)
             L == Len(p)
  <1>1. t \in Trees /\ p \in DOMAIN t.node
    BY DEF MayEnd, GoodTree
  <1>2. p \in Seq(Values) /\ DOMAIN t.node \subseteq Seq(Values)
    BY <1>1, TreeFacts
  <1>3. L \in Nat /\ L + 1 - (L + 1) = 0
    BY <1>2
  <1>4. /\ P(L) = p
        /\ \A i \in 0 .. L : P(i) \in Seq(Values)
        /\ \A i \in 1 .. L : P(i) = Append(P(i - 1), p[i])
        /\ P(0) = <<>>
    BY <1>2, Beginnings
  <1>5. /\ u \in Trees /\ DOMAIN u.node = DOMAIN t.node
        /\ \A q \in DOMAIN t.node :
             /\ u.node[q].bounds = t.node[q].bounds
             /\ u.node[q].ending = IF q = p THEN e ELSE t.node[q].ending
             /\ t.node[q].exhausted => u.node[q].exhausted
             /\ (\A i \in 0 .. L : q # P(i)) => u.node[q].exhausted = t.node[q].exhausted
        /\ \A i \in 0 .. L : CountsAt(u, P(i))
    BY <1>3 DEF Rises
  <1> HIDE DEF P, L
  <1>6. ASSUME NEW q \in DOMAIN t.node PROVE CountsAt(u, q)
    <2>1. CASE \E i \in 0 .. L : q = P(i)
      BY <1>5, <2>1
    <2>2. CASE \A i \in 0 .. L : q # P(i)
      <3>1. q # p
        BY <1>3, <1>4, <2>2
      <3>2. ASSUME NEW x, NEW i \in 0 .. L, Append(q, x) = P(i) PROVE FALSE
        <4>1. q \in Seq(Values)
          BY <1>2
        <4>2. Append(q, x) # <<>>
          <5>1. Len(Append(q, x)) = Len(q) + 1 /\ Len(q) \in Nat
            BY <4>1, AppendIsLonger
          <5> QED
            BY <5>1
        <4>3. i \in 1 .. L /\ i - 1 \in 0 .. L
          BY <1>3, <1>4, <3>2, <4>2
        <4>4. Append(q, x) = Append(P(i - 1), p[i]) /\ P(i - 1) \in Seq(Values)
          BY <1>4, <3>2, <4>3
        <4>5. q = P(i - 1)
          BY <4>1, <4>4, AppendsDiffer
        <4> QED
          BY <2>2, <4>3, <4>5
      <3>3. AllBelow(u, q) <=> AllBelow(t, q)
        <4>1. u.node[q].bounds = t.node[q].bounds
          BY <1>5
        <4>2. ASSUME NEW x, Append(q, x) \in DOMAIN t.node
              PROVE  u.node[Append(q, x)].exhausted = t.node[Append(q, x)].exhausted
          BY <1>5, <3>2, <4>2
        <4> QED
          BY <1>5, <4>1, <4>2 DEF AllBelow
      <3>4. u.node[q].exhausted = t.node[q].exhausted /\ u.node[q].ending = t.node[q].ending
            /\ u.node[q].bounds = t.node[q].bounds
        BY <1>5, <2>2, <3>1
      <3>5. CountsAt(t, q)
        BY DEF MayEnd, GoodTree, Counts, CountsAt
      <3> QED
        BY <3>3, <3>4, <3>5 DEF CountsAt
    <2> QED
      BY <2>1, <2>2
  <1>7. Counts(u)
    BY <1>5, <1>6 DEF Counts, CountsAt
  <1> QED
    BY <1>5, <1>7, RisingKeepsTheShape DEF GoodTree

\* What the end of a walk makes of the tree.
Ended(t, p, e, u) ==
  /\ GoodTree(u) /\ DOMAIN u.node = DOMAIN t.node /\ u.full = t.full
  /\ \A q \in DOMAIN t.node :
       /\ u.node[q].bounds = t.node[q].bounds
       /\ u.node[q].ending = IF q = p THEN e ELSE t.node[q].ending
       /\ t.node[q].exhausted => u.node[q].exhausted

LEMMA AnEndSettles ==
  ASSUME TreeAssumption, NEW w \in Walkers, Going(w), MayEnd(w.tree, w.path), NEW e \in Tested
  PROVE  \E u : EndWalk(w, e) = [w EXCEPT !.tree = u] /\ Ended(w.tree, w.path, e, u)
  <1> DEFINE t == w.tree
             p == w.path
             N == Len(p) + 1
             W == {u \in Trees : DOMAIN u.node = DOMAIN t.node}
             Q(n) == SubSeq(p, 1, Len(p) + 1 - n)
             leaf == Leaf(t, p, e)
             step == [x \in W \X (1 .. N) |-> Settle(x[1], Q(x[2]))]
             F == CHOOSE f : f = [n \in 0 .. N |-> IF n = 0 THEN leaf ELSE Settle(f[n - 1], Q(n))]
  <1>1. t \in Trees /\ p \in DOMAIN t.node /\ p \in Seq(Values)
    BY WalkerFacts
  <1>2. N \in Nat /\ Len(p) \in Nat
    BY <1>1
  <1>3. \A n \in 1 .. N : Q(n) \in DOMAIN t.node
    <2> SUFFICES ASSUME NEW n \in 1 .. N PROVE Q(n) \in DOMAIN t.node
      OBVIOUS
    <2>1. Len(p) + 1 - n \in 0 .. Len(p)
      BY <1>2
    <2>2. CASE Len(p) + 1 - n = Len(p)
      <3>1. SubSeq(p, 1, Len(p)) = p
        BY <1>1, Beginnings
      <3> QED
        BY <1>1, <2>2, <3>1
    <2>3. CASE Len(p) + 1 - n # Len(p)
      <3>1. Len(p) + 1 - n \in 0 .. Len(p) - 1
        BY <1>2, <2>1, <2>3
      <3> QED
        BY <3>1 DEF MayEnd
    <2> QED
      BY <2>2, <2>3
  <1>4. leaf \in W
    BY <1>1, LeafFacts
  <1>5. EndWalk(w, e) = [w EXCEPT !.tree = F[N]]
    <2>1. w.tree.node[w.path].bounds = NoBounds /\ ~ (w.stop # "none" \/ w.off)
      BY DEF MayEnd, Going
    <2> QED
      BY <2>1, Zenon DEF EndWalk, Leaf
  <1> HIDE DEF t, p, N, Q, leaf, F
  <1>6. ASSUME NEW u \in W, NEW n \in 1 .. N
        PROVE  step[<<u, n>>] = Settle(u, Q(n)) /\ Settle(u, Q(n)) \in W
    <2>1. u \in Trees /\ Q(n) \in DOMAIN u.node /\ DOMAIN u.node = DOMAIN t.node
      BY <1>3
    <2>2. Settle(u, Q(n)) \in Trees /\ DOMAIN Settle(u, Q(n)).node = DOMAIN u.node
      BY <2>1, SettleFacts
    <2> QED
      BY <2>1, <2>2
  <1>7. step \in [W \X (1 .. N) -> W]
    <2> SUFFICES ASSUME NEW x \in W \X (1 .. N) PROVE Settle(x[1], Q(x[2])) \in W
      OBVIOUS
    <2> HIDE DEF W, step
    <2>1. x[1] \in W /\ x[2] \in 1 .. N
      OBVIOUS
    <2> QED
      BY <1>6, <2>1
  <1> HIDE DEF step, W
  <1>8. PICK f \in [0 .. N -> W] : f[0] = leaf /\ \A n \in 1 .. N : f[n] = step[<<f[n - 1], n>>]
    <2>1. \E f : Solution(f, N, W, leaf, step)
      BY <1>2, <1>4, <1>7, RecursionHasASolution
    <2> QED
      BY <2>1 DEF Solution
  <1>9. \A n \in 1 .. N : f[n - 1] \in W /\ f[n] = Settle(f[n - 1], Q(n))
    <2> SUFFICES ASSUME NEW n \in 1 .. N PROVE f[n - 1] \in W /\ f[n] = Settle(f[n - 1], Q(n))
      OBVIOUS
    <2>1. n - 1 \in 0 .. N
      BY <1>2
    <2>2. f[n - 1] \in W
      BY <1>8, <2>1
    <2> QED
      BY <1>6, <1>8, <2>2
  <1>10. f = [n \in 0 .. N |-> IF n = 0 THEN leaf ELSE Settle(f[n - 1], Q(n))]
    <2>1. \A n \in 0 .. N : f[n] = IF n = 0 THEN leaf ELSE Settle(f[n - 1], Q(n))
      BY <1>2, <1>8, <1>9
    <2>2. f = [n \in 0 .. N |-> f[n]]
      BY <1>8
    <2> QED
      BY <2>1, <2>2, Zenon
  <1>11. F = [n \in 0 .. N |-> IF n = 0 THEN leaf ELSE Settle(F[n - 1], Q(n))]
    <2> DEFINE Solves(g) == g = [n \in 0 .. N |-> IF n = 0 THEN leaf ELSE Settle(g[n - 1], Q(n))]
    <2>1. Solves(f)
      BY <1>10, Zenon
    <2>2. F = CHOOSE g : Solves(g)
      BY Zenon DEF F
    <2> HIDE DEF Solves
    <2>3. Solves(F)
      BY <2>1, <2>2, Zenon
    <2> QED
      BY <2>3, Zenon DEF Solves
  <1>12. \A n \in 0 .. N : Rises(t, p, e, n, F[n])
    <2> DEFINE S == {n \in 0 .. N : Rises(t, p, e, n, F[n])}
    <2>0. \A n \in 0 .. N : F[n] = IF n = 0 THEN leaf ELSE Settle(F[n - 1], Q(n))
      BY <1>11
    <2>1. 0 \in S
      <3>1. Rises(t, p, e, 0, leaf)
        BY RisesFromALeaf DEF t, p, leaf
      <3>2. F[0] = leaf /\ 0 \in 0 .. N
        BY <1>2, <2>0
      <3> QED
        BY <3>1, <3>2
    <2>2. ASSUME NEW n \in 1 .. N, n - 1 \in S PROVE n \in S
      <3>1. n \in 1 .. Len(p) + 1 /\ n \in 0 .. N /\ n # 0
        BY <1>2 DEF N
      <3>2. Rises(t, p, e, n - 1, F[n - 1])
        BY <2>2
      <3>3. Rises(t, p, e, n, Settle(F[n - 1], Q(n)))
        BY <3>1, <3>2, RisesOn DEF t, p, Q
      <3>4. F[n] = Settle(F[n - 1], Q(n))
        BY <2>0, <3>1
      <3> QED
        BY <3>1, <3>3, <3>4
    <2> HIDE DEF S
    <2>3. 0 .. N \subseteq S
      BY <1>2, <2>1, <2>2, UpFromZero
    <2> QED
      BY <2>3 DEF S
  <1>13. Rises(t, p, e, Len(p) + 1, F[N])
    BY <1>2, <1>12 DEF N
  <1>14. Ended(t, p, e, F[N])
    <2>1. GoodTree(F[N])
      BY <1>13, RisenCounts DEF t, p
    <2> QED
      BY <1>13, <2>1 DEF Rises, Ended
  <1> QED
    BY <1>5, <1>14 DEF t, p

-----------------------------------------------------------------------------
(***************************************************************************)
(* A case in the tree.                                                     *)
(***************************************************************************)

LEMMA TheRootIsOpen ==
  ASSUME NEW t, GoodTree(t), ~ IsExhausted(t)
  PROVE  t.node[<<>>].ending = "none"
  <1> SUFFICES ASSUME t.node[<<>>].ending # "none" PROVE FALSE
    OBVIOUS
  <1>1. <<>> \in DOMAIN t.node /\ t.node[<<>>].bounds = NoBounds /\ ~ t.full
    BY DEF GoodTree, Branches
  <1>2. t.node[<<>>].exhausted
    BY <1>1 DEF GoodTree, Counts
  <1> QED
    BY <1>1, <1>2 DEF IsExhausted

\* A walk of a case, and what its end makes of the tree.
LEMMA AWalkMayEnd ==
  ASSUME TreeAssumption, NEW t, GoodTree(t), ~ IsExhausted(t), NEW walk \in Walks, NEW b, NEW w,
         WalkGoes(t, b, walk, Len(walk), w), Going(w), w.tree.node[w.path].bounds = NoBounds
  PROVE  MayEnd(w.tree, w.path)
  <1> DEFINE N == Len(walk)
             V == ValuesIn(walk)
  <1>1. /\ N \in Nat /\ V \in Seq(Values) /\ Len(V) = N
        /\ \A n \in 1 .. N : walk[n].bounds # NoBounds
    BY WalkFacts, MoveFacts DEF NoBounds
  <1>2. w \in Walkers /\ GoodTree(w.tree) /\ OnItsWay(walk, N, w) /\ (N = 0 => w = Walker(t))
    BY DEF WalkGoes
  <1> HIDE DEF N, V
  <1>3. w.path = V
    <2>1. SubSeq(V, 1, N) = V
      BY <1>1, Beginnings
    <2> QED
      BY <1>2, <2>1 DEF OnItsWay, V
  <1>4. w.path \in DOMAIN w.tree.node
    BY <1>2, WalkerFacts
  <1>5. w.tree.node[w.path].ending = "none"
    <2>1. CASE N = 0
      <3>1. w.tree = t /\ w.path = <<>>
        BY <1>2, <2>1 DEF Walker
      <3> QED
        BY <3>1, TheRootIsOpen
    <2>2. CASE N # 0
      BY <1>1, <1>2, <2>2 DEF OnItsWay
    <2> QED
      BY <2>1, <2>2
  <1>6. ASSUME NEW i \in 0 .. Len(w.path) - 1
        PROVE  SubSeq(w.path, 1, i) \in DOMAIN w.tree.node /\ w.tree.node[SubSeq(w.path, 1, i)].bounds # NoBounds
    <2>1. i \in 0 .. N - 1 /\ i + 1 \in 1 .. N
      BY <1>1, <1>3
    <2> QED
      BY <1>1, <1>2, <1>3, <2>1 DEF OnItsWay, V
  <1> QED
    BY <1>2, <1>4, <1>5, <1>6 DEF MayEnd

\* A walker before and after the end of its walk.
EndGoes(t, walk, e, w, x) ==
  /\ GoodTree(x.tree) /\ KeepsItsRecords(t, x.tree) /\ x.tree.full = w.tree.full
  /\ x.stop \in {"none", "repeated", "diverged"}
  /\ ~ Going(w) => x = w
  /\ Going(w) => \/ x.stop = "diverged" /\ x.tree = w.tree /\ w.tree.node[w.path].bounds # NoBounds
                 \/ x.stop = "none" /\ Ended(w.tree, w.path, e, x.tree) /\ w.tree.node[w.path].ending = "none"
                    /\ w.tree.node[w.path].bounds = NoBounds

LEMMA AnEndGoes ==
  ASSUME TreeAssumption, NEW t, GoodTree(t), ~ IsExhausted(t), NEW walk \in Walks, NEW b, NEW w,
         WalkGoes(t, b, walk, Len(walk), w), NEW e \in Tested
  PROVE  EndGoes(t, walk, e, w, EndWalk(w, e))
  <1> DEFINE x == EndWalk(w, e)
  <1>1. w \in Walkers /\ GoodTree(w.tree) /\ KeepsItsRecords(t, w.tree)
    BY DEF WalkGoes
  <1>2. /\ w = [tree |-> w.tree, path |-> w.path, off |-> w.off, stop |-> w.stop]
        /\ w.stop \in {"none", "repeated", "diverged"} /\ w.off \in BOOLEAN
    BY <1>1, WalkerFacts
  <1>3. CASE ~ Going(w)
    <2>1. x = w
      BY <1>3 DEF EndWalk, Going
    <2> HIDE DEF x
    <2> QED
      BY <1>1, <1>2, <1>3, <2>1 DEF EndGoes, x
  <1>4. CASE Going(w) /\ w.tree.node[w.path].bounds # NoBounds
    <2>1. x = [w EXCEPT !.stop = "diverged"]
      BY <1>4 DEF EndWalk, Going, Stop
    <2> HIDE DEF x
    <2>2. x.tree = w.tree /\ x.stop = "diverged"
      BY <1>2, <2>1
    <2> QED
      BY <1>1, <1>4, <2>2 DEF EndGoes, x
  <1>5. CASE Going(w) /\ w.tree.node[w.path].bounds = NoBounds
    <2>1. MayEnd(w.tree, w.path)
      BY <1>5, AWalkMayEnd
    <2>2. PICK u : x = [w EXCEPT !.tree = u] /\ Ended(w.tree, w.path, e, u)
      BY <1>1, <1>5, <2>1, AnEndSettles
    <2> HIDE DEF x
    <2>3. x.tree = u /\ x.stop = "none"
      BY <1>2, <1>5, <2>2 DEF Going
    <2>4. w.tree.node[w.path].ending = "none"
      BY <2>1 DEF MayEnd
    <2>5. KeepsItsRecords(w.tree, u)
      BY <2>2, <2>4 DEF Ended, KeepsItsRecords
    <2>6. KeepsItsRecords(t, u)
      BY <1>1, <2>5, RecordsKeptTwice
    <2>7. GoodTree(u) /\ u.full = w.tree.full
      BY <2>2 DEF Ended
    <2> QED
      BY <1>5, <2>2, <2>3, <2>4, <2>6, <2>7 DEF EndGoes, x
  <1> QED
    BY <1>3, <1>4, <1>5

LEMMA CaseFacts ==
  ASSUME TreeAssumption, NEW c \in Cases
  PROVE  /\ c.walk \in Walks /\ c.ending \in Endings
         /\ c.ending \in {"passed", "failed", "rejected", "overran", "skipped"}
         /\ c.later \in {"none", "passed", "failed", "skipped"}
         /\ c.later # "none" => c.ending = "passed"
         /\ StatusOf(c) \in {"passed", "failed", "rejected", "skipped"}
         /\ c.ending \notin {"overran", "skipped"} => c.ending \in Tested
         /\ (IF c.later # "none" THEN "passed" ELSE c.ending) = c.ending
         /\ StatusOf(c) = "skipped" <=> (c.later = "skipped" \/ c.ending = "skipped")
  <1>1. /\ c.walk \in Walks /\ c.ending \in Endings /\ c.later \in Laters \cup FlakyLaters
        /\ c.later # "none" => c.ending = "passed"
    BY DEF Cases, Walks
  <1>2. c.ending \in {"passed", "failed", "rejected", "overran", "skipped"}
        /\ c.later \in {"none", "passed", "failed", "skipped"}
    BY <1>1 DEF TreeAssumption
  <1> QED
    BY <1>1, <1>2 DEF StatusOf, Tested

\* The tree of a run with a leaf for the case, or without one.
Ran(t, c, w, r) ==
  \/ r = Unless(w, StatusOf(c))
  \/ r = Unless(EndWalk(w, c.ending), StatusOf(c)) /\ c.ending \in Tested

LEMMA BothRunsRan ==
  ASSUME TreeAssumption, NEW t, NEW c \in Cases
  PROVE  LET w == Walked(t, c.walk)
         IN  /\ Ran(t, c, w, Executed(t, c)) /\ Ran(t, c, w, Entered(t, c))
             /\ c.later # "skipped" => Executed(t, c) = Entered(t, c)
             /\ \/ Executed(t, c) = Entered(t, c)
                \/ Executed(t, c) = Unless(EndWalk(w, c.ending), "skipped") /\ Entered(t, c) = Unless(w, "skipped")
             /\ c.ending \in Tested => Executed(t, c) = Unless(EndWalk(w, c.ending), StatusOf(c))
  <1> DEFINE w == Walked(t, c.walk)
             e == IF c.later # "none" THEN "passed" ELSE c.ending
  <1>1. /\ e = c.ending
        /\ c.ending \notin {"overran", "skipped"} => c.ending \in Tested
        /\ StatusOf(c) = "skipped" <=> (c.later = "skipped" \/ c.ending = "skipped")
        /\ c.later # "none" => c.ending = "passed"
    BY CaseFacts
  <1>2. Executed(t, c) = IF c.ending \in {"overran", "skipped"} THEN Unless(w, StatusOf(c))
                         ELSE Unless(EndWalk(w, c.ending), StatusOf(c))
    BY DEF Executed
  <1>3. Entered(t, c) = IF c.ending = "overran" \/ StatusOf(c) = "skipped" THEN Unless(w, StatusOf(c))
                        ELSE Unless(EndWalk(w, e), StatusOf(c))
    BY DEF Entered
  <1>4. Entered(t, c) = IF c.ending = "overran" \/ StatusOf(c) = "skipped" THEN Unless(w, StatusOf(c))
                        ELSE Unless(EndWalk(w, c.ending), StatusOf(c))
    BY <1>1, <1>3
  <1>5. c.ending \in Tested => c.ending \notin {"overran", "skipped"}
    BY DEF Tested
  <1> HIDE DEF w, e
  <1>6. Ran(t, c, w, Executed(t, c)) /\ Ran(t, c, w, Entered(t, c))
    BY <1>1, <1>2, <1>4 DEF Ran
  <1>7. c.later # "skipped" => Executed(t, c) = Entered(t, c)
    BY <1>1, <1>2, <1>4
  <1>8. c.later = "skipped" => /\ Executed(t, c) = Unless(EndWalk(w, c.ending), "skipped")
                               /\ Entered(t, c) = Unless(w, "skipped")
    BY <1>1, <1>2, <1>4
  <1>9. c.ending \in Tested => Executed(t, c) = Unless(EndWalk(w, c.ending), StatusOf(c))
    BY <1>2, <1>5
  <1> QED
    BY <1>6, <1>7, <1>8, <1>9 DEF w

LEMMA UnlessFacts ==
  ASSUME NEW w, NEW s
  PROVE  Unless(w, s).tree = w.tree /\ Unless(w, s).status = IF w.stop # "none" THEN w.stop ELSE s
  BY DEF Unless

\* Either run leaves a tree that counts what is left, with the records of the tree before.
LEMMA ARunKeepsTheTree ==
  ASSUME TreeAssumption, NEW t, GoodTree(t), ~ IsExhausted(t), NEW c \in Cases, NEW r,
         Ran(t, c, Walked(t, c.walk), r)
  PROVE  GoodTree(r.tree) /\ KeepsItsRecords(t, r.tree) /\ r.status \in Statuses
  <1> DEFINE w == Walked(t, c.walk)
             x == EndWalk(w, c.ending)
  <1>1. c.walk \in Walks /\ StatusOf(c) \in {"passed", "failed", "rejected", "skipped"}
    BY CaseFacts
  <1>2. WalkGoes(t, t, c.walk, Len(c.walk), w)
    BY <1>1, AWalkEnds
  <1>3. GoodTree(w.tree) /\ KeepsItsRecords(t, w.tree) /\ w.stop \in {"none", "repeated", "diverged"}
    BY <1>2, WalkerFacts DEF WalkGoes
  <1>4. c.ending \in Tested => EndGoes(t, c.walk, c.ending, w, x)
    BY <1>1, <1>2, AnEndGoes
  <1> HIDE DEF w, x
  <1>5. CASE r = Unless(w, StatusOf(c))
    BY <1>1, <1>3, <1>5, UnlessFacts DEF Statuses
  <1>6. CASE r = Unless(x, StatusOf(c)) /\ c.ending \in Tested
    BY <1>1, <1>4, <1>6, UnlessFacts DEF Statuses, EndGoes
  <1> QED
    BY <1>5, <1>6 DEF Ran, w, x

\* Where the two runs of a case differ, the case ends the run.
LEMMA RunsDifferAtTheEnd ==
  ASSUME TreeAssumption, NEW t, GoodTree(t), ~ IsExhausted(t), NEW c \in Cases,
         Executed(t, c).status \notin EndsRun
  PROVE  Executed(t, c) = Entered(t, c)
  <1> DEFINE w == Walked(t, c.walk)
             x == EndWalk(w, c.ending)
  <1>1. c.walk \in Walks /\ (c.later # "none" => c.ending = "passed")
    BY CaseFacts
  <1>2. WalkGoes(t, t, c.walk, Len(c.walk), w)
    BY <1>1, AWalkEnds
  <1>3. \/ Executed(t, c) = Entered(t, c)
        \/ Executed(t, c) = Unless(x, "skipped") /\ Entered(t, c) = Unless(w, "skipped")
    BY BothRunsRan
  <1>4. c.later = "skipped" => c.ending \in Tested
    BY <1>1 DEF Tested
  <1>5. c.later # "skipped" => Executed(t, c) = Entered(t, c)
    BY BothRunsRan
  <1>6. c.later = "skipped" => EndGoes(t, c.walk, c.ending, w, x)
    BY <1>1, <1>2, <1>4, AnEndGoes
  <1> HIDE DEF w, x
  <1>7. CASE c.later = "skipped" /\ Executed(t, c) = Unless(x, "skipped") /\ Entered(t, c) = Unless(w, "skipped")
    <2>1. x.stop # "none" /\ x.stop # "diverged"
      BY <1>7, UnlessFacts DEF EndsRun
    <2>2. x = w
      BY <1>6, <1>7, <2>1 DEF EndGoes
    <2> QED
      BY <1>7, <2>2
  <1> QED
    BY <1>3, <1>5, <1>7

-----------------------------------------------------------------------------
(***************************************************************************)
(* A body that is a function of its values.                                *)
(***************************************************************************)

\* What a case shows is what the body does.
Says(b, c) ==
  /\ Shown(b, c.walk)
  /\ b[ValuesIn(c.walk)].bounds = NoBounds /\ b[ValuesIn(c.walk)].ending = c.ending

\* The tree has a case.
Has(t, c) ==
  /\ \A i \in 0 .. Len(c.walk) :
       LET q == SubSeq(ValuesIn(c.walk), 1, i)
       IN  q \in DOMAIN t.node /\ (i < Len(c.walk) => t.node[q].bounds = c.walk[i + 1].bounds)
  /\ t.node[ValuesIn(c.walk)].bounds = NoBounds
  /\ c.ending \in Tested => t.node[ValuesIn(c.walk)].ending = c.ending

\* The nodes on the way to a node.
LEMMA NodesOnTheWay ==
  ASSUME NEW t, GoodTree(t), NEW p \in DOMAIN t.node
  PROVE  \A i \in 0 .. Len(p) : /\ SubSeq(p, 1, i) \in DOMAIN t.node
                                /\ i < Len(p) => t.node[SubSeq(p, 1, i)].bounds # NoBounds
  <1> DEFINE P(i) == SubSeq(p, 1, i)
             N == Len(p)
             S == {n \in 0 .. N : P(N - n) \in DOMAIN t.node}
  <1>1. p \in Seq(Values) /\ N \in Nat
    <2>1. p \in Seq(Values)
      BY TreeFacts DEF GoodTree
    <2> QED
      BY <2>1
  <1>2. /\ P(N) = p
        /\ \A i \in 1 .. N : P(i) # <<>> /\ Front(P(i)) = P(i - 1)
    <2>1. P(N) = p
      BY <1>1, Beginnings
    <2>2. ASSUME NEW i \in 1 .. N PROVE P(i) # <<>> /\ Front(P(i)) = P(i - 1)
      BY <1>1, Beginnings
    <2> QED
      BY <2>1, <2>2
  <1> HIDE DEF P, N
  <1>3. ASSUME NEW i \in 1 .. N, P(i) \in DOMAIN t.node
        PROVE  P(i - 1) \in DOMAIN t.node /\ t.node[P(i - 1)].bounds # NoBounds
    BY <1>2, <1>3 DEF GoodTree, Branches, NoBounds
  <1>4. 0 \in S
    BY <1>1, <1>2
  <1>5. ASSUME NEW n \in 1 .. N, n - 1 \in S PROVE n \in S
    <2>1. N - (n - 1) \in 1 .. N /\ N - (n - 1) - 1 = N - n /\ n \in 0 .. N
      BY <1>1
    <2>2. P(N - (n - 1)) \in DOMAIN t.node
      BY <1>5
    <2>3. P(N - n) \in DOMAIN t.node
      BY <1>3, <2>1, <2>2
    <2> QED
      BY <2>1, <2>3
  <1>6. 0 .. N \subseteq S
    <2> HIDE DEF S
    <2> QED
      BY <1>1, <1>4, <1>5, UpFromZero
  <1>7. ASSUME NEW i \in 0 .. N
        PROVE  P(i) \in DOMAIN t.node /\ (i < N => t.node[P(i)].bounds # NoBounds)
    <2>1. \A j \in 0 .. N : P(j) \in DOMAIN t.node
      <3> TAKE j \in 0 .. N
      <3>1. N - j \in 0 .. N /\ N - (N - j) = j
        BY <1>1
      <3> QED
        BY <1>6, <3>1
    <2>2. ASSUME i < N PROVE t.node[P(i)].bounds # NoBounds
      <3>1. i + 1 \in 1 .. N /\ i + 1 \in 0 .. N /\ i + 1 - 1 = i
        BY <1>1, <2>2
      <3> QED
        BY <1>3, <2>1, <3>1
    <2> QED
      BY <2>1, <2>2
  <1> QED
    BY <1>7 DEF P, N

\* A walk that is true of the body.
LEMMA ATrueWalk ==
  ASSUME TreeAssumption, NEW t, GoodTree(t), NEW c \in Cases, NEW b, Says(b, c), Tells(t, b),
         NEW w, WalkGoes(t, b, c.walk, Len(c.walk), w)
  PROVE  /\ Tells(w.tree, b) /\ w.stop # "diverged"
         /\ Going(w) => w.path = ValuesIn(c.walk) /\ w.tree.node[w.path].bounds = NoBounds
         /\ w.stop = "repeated" => /\ ValuesIn(c.walk) \in DOMAIN w.tree.node
                                   /\ w.tree.node[ValuesIn(c.walk)].ending # "none"
                                   /\ w.tree.node[ValuesIn(c.walk)].ending = c.ending
  <1> DEFINE N == Len(c.walk)
             V == ValuesIn(c.walk)
             P(i) == SubSeq(V, 1, i)
  <1>1. c.walk \in Walks
    BY CaseFacts
  <1>2. V \in Seq(Values) /\ Len(V) = N /\ N \in Nat
    BY <1>1, WalkFacts
  <1>3. P(N) = V
    BY <1>2, Beginnings
  <1>4. Shown(b, c.walk) /\ b[V].bounds = NoBounds /\ b[V].ending = c.ending
    BY DEF Says
  <1>5. Tells(w.tree, b) /\ w.stop # "diverged"
    BY <1>4 DEF WalkGoes
  <1> HIDE DEF N, V, P
  <1>6. \A i \in 0 .. N : P(i) \in DOMAIN b /\ (i < N => b[P(i)].ending = "none")
    BY <1>4 DEF Shown, N, P, V
  <1>7. ASSUME Going(w) PROVE w.path = V /\ w.tree.node[w.path].bounds = NoBounds
    <2>1. w.path = V
      BY <1>3, <1>7 DEF WalkGoes, OnItsWay, N, V, P
    <2>2. w.path \in DOMAIN w.tree.node
      BY WalkerFacts DEF WalkGoes
    <2> QED
      BY <1>4, <1>5, <2>1, <2>2 DEF Tells
  <1>8. ASSUME w.stop = "repeated"
        PROVE  V \in DOMAIN w.tree.node /\ w.tree.node[V].ending # "none" /\ w.tree.node[V].ending = c.ending
    <2>1. PICK k \in 1 .. N : P(k) \in DOMAIN w.tree.node /\ w.tree.node[P(k)].ending # "none"
      BY <1>8 DEF WalkGoes, AtAnEnd, N, V, P
    <2>2. b[P(k)].ending = w.tree.node[P(k)].ending
      BY <1>5, <2>1 DEF Tells
    <2>3. k = N
      BY <1>2, <1>6, <2>1, <2>2
    <2> QED
      BY <1>3, <1>4, <2>1, <2>2, <2>3
  <1> QED
    BY <1>5, <1>7, <1>8 DEF V

LEMMA ATreeHasTheCase ==
  ASSUME TreeAssumption, NEW u, GoodTree(u), NEW c \in Cases, NEW b, Says(b, c), Tells(u, b),
         ValuesIn(c.walk) \in DOMAIN u.node,
         c.ending \in Tested => u.node[ValuesIn(c.walk)].ending = c.ending
  PROVE  Has(u, c)
  <1> DEFINE V == ValuesIn(c.walk)
             N == Len(c.walk)
  <1>1. c.walk \in Walks
    BY CaseFacts
  <1>2. Len(V) = N
    BY <1>1, WalkFacts
  <1>3. Shown(b, c.walk) /\ b[V].bounds = NoBounds
    BY DEF Says
  <1> HIDE DEF V, N
  <1>4. \A i \in 0 .. N : /\ SubSeq(V, 1, i) \in DOMAIN u.node
                          /\ i < N => u.node[SubSeq(V, 1, i)].bounds # NoBounds
    BY <1>2, NodesOnTheWay DEF V
  <1>5. \A i \in 0 .. N : i < N => b[SubSeq(V, 1, i)].bounds = c.walk[i + 1].bounds
    BY <1>3 DEF Shown, V, N
  <1>6. \A i \in 0 .. N : i < N => u.node[SubSeq(V, 1, i)].bounds = c.walk[i + 1].bounds
    BY <1>4, <1>5 DEF Tells
  <1>7. u.node[V].bounds = NoBounds
    BY <1>3 DEF Tells, V
  <1> QED
    BY <1>4, <1>6, <1>7 DEF Has, V, N

LEMMA ATrueRun ==
  ASSUME TreeAssumption, NEW t, GoodTree(t), ~ IsExhausted(t), NEW c \in Cases, NEW b, Says(b, c), Tells(t, b)
  PROVE  LET r == Executed(t, c)
             V == ValuesIn(c.walk)
         IN  /\ Tells(r.tree, b) /\ r.status # "diverged" /\ Entered(t, c).status = r.status
             /\ ~ r.tree.full => Has(r.tree, c) /\ ~ t.full
             /\ r.status = "repeated" => V \in DOMAIN t.node /\ t.node[V].ending # "none"
             /\ V \in DOMAIN t.node /\ t.node[V].ending # "none" /\ ~ r.tree.full => r.status = "repeated"
  <1> DEFINE w == Walked(t, c.walk)
             x == EndWalk(w, c.ending)
             V == ValuesIn(c.walk)
             r == Executed(t, c)
             y == IF c.ending \in Tested THEN x ELSE w
  <1>1. c.walk \in Walks /\ StatusOf(c) \in {"passed", "failed", "rejected", "skipped"}
    BY CaseFacts
  <1>2. WalkGoes(t, b, c.walk, Len(c.walk), w)
    BY <1>1, AWalkEnds
  <1>3. /\ Tells(w.tree, b) /\ w.stop # "diverged"
        /\ Going(w) => w.path = V /\ w.tree.node[w.path].bounds = NoBounds
        /\ w.stop = "repeated" => V \in DOMAIN w.tree.node /\ w.tree.node[V].ending # "none"
                                  /\ w.tree.node[V].ending = c.ending
    BY <1>2, ATrueWalk
  <1>4. c.ending \in Tested => EndGoes(t, c.walk, c.ending, w, x)
    BY <1>1, <1>2, AnEndGoes
  <1>5. /\ w \in Walkers /\ GoodTree(w.tree) /\ KeepsItsRecords(t, w.tree) /\ EndsAreOf(t, w.tree)
        /\ w.off \/ t.full => w.tree.full
        /\ Going(w) => OnItsWay(c.walk, Len(c.walk), w)
        /\ Len(c.walk) = 0 => w = Walker(t)
    BY <1>2 DEF WalkGoes
  <1>6. w.path \in DOMAIN w.tree.node /\ w.stop \in {"none", "repeated", "diverged"} /\ w.off \in BOOLEAN
    BY <1>5, WalkerFacts
  <1>7. r = Unless(y, StatusOf(c))
    BY BothRunsRan DEF Ran
  <1>8. \/ Executed(t, c) = Entered(t, c)
        \/ c.later = "skipped" /\ Executed(t, c) = Unless(x, "skipped") /\ Entered(t, c) = Unless(w, "skipped")
    <2>1. c.later # "skipped" => Executed(t, c) = Entered(t, c)
      BY BothRunsRan
    <2>2. \/ Executed(t, c) = Entered(t, c)
          \/ Executed(t, c) = Unless(x, "skipped") /\ Entered(t, c) = Unless(w, "skipped")
      BY BothRunsRan
    <2> QED
      BY <2>1, <2>2
  <1>9. c.later = "skipped" => c.ending \in Tested
    BY CaseFacts DEF Tested
  <1>10. r.tree = y.tree /\ r.status = IF y.stop # "none" THEN y.stop ELSE StatusOf(c)
    BY <1>7, UnlessFacts
  <1>11. Says(b, c) /\ b[V].ending = c.ending
    BY DEF Says
  <1> HIDE DEF w, x, V, r
  <1>12. c.ending \in Tested => /\ ~ Going(w) => x = w
                                /\ Going(w) => x.stop = "none" /\ Ended(w.tree, w.path, c.ending, x.tree)
    BY <1>3, <1>4 DEF EndGoes
  <1>13. y.stop = w.stop /\ y.tree.full = w.tree.full /\ GoodTree(y.tree)
    BY <1>4, <1>5, <1>12 DEF EndGoes, Going
  <1>14. Tells(y.tree, b)
    <2>1. CASE y = w
      BY <1>3, <2>1
    <2>2. CASE c.ending \in Tested /\ Going(w)
      <3>1. /\ DOMAIN x.tree.node = DOMAIN w.tree.node
            /\ \A q \in DOMAIN w.tree.node :
                 /\ x.tree.node[q].bounds = w.tree.node[q].bounds
                 /\ x.tree.node[q].ending = IF q = V THEN c.ending ELSE w.tree.node[q].ending
        BY <1>3, <1>12, <2>2 DEF Ended
      <3>2. V \in DOMAIN b
        <4>1. SubSeq(V, 1, Len(c.walk)) = V
          BY <1>1, WalkFacts, Beginnings DEF V
        <4>2. Len(c.walk) \in 0 .. Len(c.walk)
          BY <1>1, WalkFacts
        <4> QED
          BY <1>11, <4>1, <4>2 DEF Says, Shown, V
      <3>3. Tells(x.tree, b)
        BY <1>3, <1>11, <3>1, <3>2 DEF Tells
      <3> QED
        BY <2>2, <3>3
    <2> QED
      BY <1>12, <2>1, <2>2
  <1>15. Entered(t, c).status = r.status
    <2>1. CASE Executed(t, c) = Entered(t, c)
      BY <2>1 DEF r
    <2>2. CASE c.later = "skipped" /\ Executed(t, c) = Unless(x, "skipped") /\ Entered(t, c) = Unless(w, "skipped")
      <3>1. y = x
        BY <1>9, <2>2
      <3> QED
        BY <1>13, <2>2, <3>1, UnlessFacts DEF r
    <2> QED
      BY <1>8, <2>1, <2>2
  <1>16. ASSUME ~ r.tree.full PROVE Has(r.tree, c) /\ ~ t.full
    <2>1. ~ w.tree.full /\ ~ w.off
      BY <1>5, <1>10, <1>13, <1>16
    <2>2. ~ t.full
      BY <1>5, <2>1
    <2>3. V \in DOMAIN y.tree.node /\ (c.ending \in Tested => y.tree.node[V].ending = c.ending)
      <3>1. CASE Going(w)
        BY <1>3, <1>6, <1>12, <3>1 DEF Ended
      <3>2. CASE ~ Going(w)
        BY <1>3, <1>6, <1>12, <2>1, <3>2 DEF Going
      <3> QED
        BY <3>1, <3>2
    <2>4. Has(y.tree, c)
      BY <1>11, <1>13, <1>14, <2>3, ATreeHasTheCase DEF V
    <2> QED
      BY <1>10, <2>2, <2>4
  <1>17. ASSUME r.status = "repeated" PROVE V \in DOMAIN t.node /\ t.node[V].ending # "none"
    <2>1. w.stop = "repeated"
      BY <1>1, <1>10, <1>13, <1>17
    <2> QED
      BY <1>3, <1>5, <2>1 DEF EndsAreOf
  <1>18. ASSUME V \in DOMAIN t.node, t.node[V].ending # "none", ~ r.tree.full PROVE r.status = "repeated"
    <2>1. ~ w.tree.full /\ ~ w.off
      BY <1>5, <1>10, <1>13, <1>18
    <2>2. w.tree.node[V].ending # "none"
      BY <1>5, <1>18 DEF KeepsItsRecords
    <2>3. ~ Going(w)
      <3> SUFFICES ASSUME Going(w) PROVE FALSE
        OBVIOUS
      <3>1. Len(c.walk) \in Nat
        BY <1>1, WalkFacts
      <3>2. Len(c.walk) = 0
        BY <1>3, <1>5, <2>2, <3>1 DEF OnItsWay
      <3>3. w.tree = t /\ w.path = <<>>
        BY <1>5, <3>2 DEF Walker
      <3> QED
        BY <1>3, <1>18, <3>3, TheRootIsOpen
    <2>4. w.stop = "repeated"
      BY <1>3, <1>6, <2>1, <2>3 DEF Going
    <2> QED
      BY <1>10, <1>13, <2>4
  <1> QED
    BY <1>3, <1>10, <1>13, <1>14, <1>15, <1>16, <1>17, <1>18, <1>1 DEF r, V

LEMMA ShowsFacts ==
  ASSUME TreeAssumption, NEW c \in Cases
  PROVE  LET V == ValuesIn(c.walk)
             N == Len(c.walk)
         IN  /\ DOMAIN Shows(c) = {SubSeq(V, 1, i) : i \in 0 .. N}
             /\ SubSeq(V, 1, N) = V
             /\ \A i \in 0 .. N : i < N => Shows(c)[SubSeq(V, 1, i)] = [bounds |-> c.walk[i + 1].bounds, ending |-> "none"]
             /\ Shows(c)[V] = [bounds |-> NoBounds, ending |-> c.ending]
  <1> DEFINE V == ValuesIn(c.walk)
             N == Len(c.walk)
             D == {SubSeq(V, 1, i) : i \in 0 .. N}
  <1>1. V \in Seq(Values) /\ Len(V) = N /\ N \in Nat
    BY CaseFacts, WalkFacts
  <1>2. /\ SubSeq(V, 1, N) = V
        /\ \A i \in 0 .. N : Len(SubSeq(V, 1, i)) = i
    BY <1>1, Beginnings
  <1>3. Shows(c) = [q \in {SubSeq(V, 1, n) : n \in 0 .. Len(V)} |->
         IF q = V THEN [bounds |-> NoBounds, ending |-> c.ending]
                  ELSE [bounds |-> c.walk[Len(q) + 1].bounds, ending |-> "none"]]
    BY Zenon DEF Shows
  <1>4. Shows(c) = [q \in D |-> IF q = V THEN [bounds |-> NoBounds, ending |-> c.ending]
                                ELSE [bounds |-> c.walk[Len(q) + 1].bounds, ending |-> "none"]]
    BY <1>1, <1>3
  <1> HIDE DEF V, N
  <1>5. V \in D
    BY <1>1, <1>2
  <1>6. ASSUME NEW i \in 0 .. N, i < N
        PROVE  Shows(c)[SubSeq(V, 1, i)] = [bounds |-> c.walk[i + 1].bounds, ending |-> "none"]
    <2>1. SubSeq(V, 1, i) \in D /\ SubSeq(V, 1, i) # V /\ Len(SubSeq(V, 1, i)) = i
      BY <1>1, <1>2, <1>6
    <2> HIDE DEF D
    <2> QED
      BY <1>4, <2>1
  <1>7. Shows(c)[V] = [bounds |-> NoBounds, ending |-> c.ending] /\ DOMAIN Shows(c) = D
    <2> HIDE DEF D
    <2> QED
      BY <1>4, <1>5
  <1> QED
    BY <1>2, <1>6, <1>7 DEF V, N

Agrees(a, s) == \A q \in DOMAIN s \cap DOMAIN a : s[q] = a[q]

Joined(b, a, s) ==
  /\ DOMAIN b = DOMAIN s \cup DOMAIN a
  /\ \A q \in DOMAIN a : b[q] = a[q]
  /\ \A q \in DOMAIN s : b[q] = s[q]

LEMMA LearntFacts ==
  ASSUME NEW a, NEW s, Agrees(a, s)
  PROVE  Joined(Learnt(a, s), a, s)
  BY DEF Learnt, Agrees, Joined

LEMMA LearntIsAFunction ==
  ASSUME NEW a, NEW s
  PROVE  Learnt(a, s) = [q \in DOMAIN Learnt(a, s) |-> Learnt(a, s)[q]]
  BY DEF Learnt

LEMMA LearntSays ==
  ASSUME TreeAssumption, NEW a, NEW c \in Cases, Agrees(a, Shows(c))
  PROVE  Says(Learnt(a, Shows(c)), c)
  <1> DEFINE V == ValuesIn(c.walk)
             N == Len(c.walk)
             b == Learnt(a, Shows(c))
  <1>1. /\ DOMAIN Shows(c) = {SubSeq(V, 1, i) : i \in 0 .. N}
        /\ SubSeq(V, 1, N) = V
        /\ \A i \in 0 .. N : i < N => Shows(c)[SubSeq(V, 1, i)] = [bounds |-> c.walk[i + 1].bounds, ending |-> "none"]
        /\ Shows(c)[V] = [bounds |-> NoBounds, ending |-> c.ending]
    BY ShowsFacts
  <1>2. /\ DOMAIN b = DOMAIN Shows(c) \cup DOMAIN a
        /\ \A q \in DOMAIN Shows(c) : b[q] = Shows(c)[q]
    <2>1. Joined(b, a, Shows(c))
      BY LearntFacts, Zenon
    <2> HIDE DEF b
    <2> QED
      BY <2>1, Zenon DEF Joined
  <1>3. N \in Nat
    BY CaseFacts, WalkFacts
  <1> HIDE DEF V, N, b
  <1>4. ASSUME NEW i \in 0 .. N
        PROVE  LET q == SubSeq(V, 1, i)
               IN  q \in DOMAIN b /\ (i < N => b[q].bounds = c.walk[i + 1].bounds /\ b[q].ending = "none")
    <2> DEFINE q == SubSeq(V, 1, i)
    <2>1. q \in DOMAIN Shows(c)
      BY <1>1
    <2>2. i < N => Shows(c)[q] = [bounds |-> c.walk[i + 1].bounds, ending |-> "none"]
      BY <1>1
    <2> HIDE DEF q
    <2>3. q \in DOMAIN b /\ b[q] = Shows(c)[q]
      BY <1>2, <2>1
    <2>4. i < N => b[q].bounds = c.walk[i + 1].bounds /\ b[q].ending = "none"
      BY <2>2, <2>3
    <2> QED
      BY <2>3, <2>4 DEF q
  <1>5. V \in DOMAIN Shows(c)
    BY <1>1, <1>3
  <1>6. b[V].bounds = NoBounds /\ b[V].ending = c.ending
    <2>1. b[V] = Shows(c)[V] /\ Shows(c)[V] = [bounds |-> NoBounds, ending |-> c.ending]
      BY <1>1, <1>2, <1>5
    <2> QED
      BY <2>1
  <1> QED
    BY <1>4, <1>6 DEF Says, Shown, V, N, b

LEMMA LearntIsABody ==
  ASSUME TreeAssumption, NEW a, ABody(a), NEW c \in Cases, Agrees(a, Shows(c))
  PROVE  ABody(Learnt(a, Shows(c)))
  <1> DEFINE V == ValuesIn(c.walk)
             N == Len(c.walk)
             b == Learnt(a, Shows(c))
             P(i) == SubSeq(V, 1, i)
             R == [bounds : Bounds \cup {NoBounds}, ending : Endings \cup {"none"}]
  <1>1. /\ DOMAIN Shows(c) = {P(i) : i \in 0 .. N}
        /\ P(N) = V
        /\ \A i \in 0 .. N : i < N => Shows(c)[P(i)] = [bounds |-> c.walk[i + 1].bounds, ending |-> "none"]
        /\ Shows(c)[V] = [bounds |-> NoBounds, ending |-> c.ending]
    BY ShowsFacts
  <1>2. /\ DOMAIN b = DOMAIN Shows(c) \cup DOMAIN a
        /\ \A q \in DOMAIN Shows(c) : b[q] = Shows(c)[q]
        /\ \A q \in DOMAIN a : b[q] = a[q]
    <2>1. Joined(b, a, Shows(c))
      BY LearntFacts, Zenon
    <2> HIDE DEF b
    <2> QED
      BY <2>1, Zenon DEF Joined
  <1>f. b = [q \in DOMAIN b |-> b[q]]
    BY LearntIsAFunction, Zenon
  <1>3. c.walk \in Walks /\ c.ending \in Endings /\ c.ending # "none"
    BY CaseFacts
  <1>4. /\ N \in Nat /\ V \in Seq(Values) /\ Len(V) = N
        /\ \A n \in 1 .. N : c.walk[n] \in Moves /\ V[n] = c.walk[n].value
    BY <1>3, WalkFacts
  <1>5. /\ \A i \in 0 .. N : P(i) \in Seq(Values)
        /\ \A i \in 1 .. N : P(i) = Append(P(i - 1), V[i])
        /\ P(0) = <<>>
    BY <1>4, Beginnings
  <1>6. PICK D \in SUBSET Seq(Values) : a \in [D -> R]
    BY DEF ABody
  <1>7. /\ DOMAIN a \subseteq Seq(Values) /\ \A q \in DOMAIN a : a[q] \in R
        /\ \A q \in DOMAIN a : /\ a[q].ending = "none" <=> a[q].bounds # NoBounds
                               /\ q # <<>> => Front(q) \in DOMAIN a /\ Last(q) \in a[Front(q)].bounds
    BY <1>6 DEF ABody
  <1>8. \A n \in 1 .. N : /\ c.walk[n].bounds \in Bounds /\ c.walk[n].bounds # NoBounds
                          /\ V[n] \in c.walk[n].bounds /\ V[n] \in Values
    BY <1>4, MoveFacts DEF NoBounds
  <1> HIDE DEF V, N, b, P
  <1>9. ASSUME NEW i \in 0 .. N
        PROVE  b[P(i)] \in R /\ (b[P(i)].ending = "none" <=> b[P(i)].bounds # NoBounds)
    <2>1. P(i) \in DOMAIN Shows(c)
      BY <1>1
    <2>2. CASE i < N
      <3>1. b[P(i)] = [bounds |-> c.walk[i + 1].bounds, ending |-> "none"] /\ i + 1 \in 1 .. N
        BY <1>1, <1>2, <1>4, <2>1, <2>2
      <3> QED
        BY <1>8, <3>1
    <2>3. CASE i = N
      <3>1. b[P(i)] = [bounds |-> NoBounds, ending |-> c.ending]
        BY <1>1, <1>2, <2>1, <2>3
      <3> QED
        BY <1>3, <3>1
    <2> QED
      BY <1>4, <2>2, <2>3
  <1>10. ASSUME NEW i \in 1 .. N
         PROVE  Front(P(i)) \in DOMAIN b /\ Last(P(i)) \in b[Front(P(i))].bounds
    <2>1. i - 1 \in 0 .. N /\ i - 1 < N /\ i - 1 + 1 = i
      BY <1>4
    <2>2. P(i - 1) \in DOMAIN Shows(c) /\ P(i - 1) \in Seq(Values)
      BY <1>1, <1>5, <2>1
    <2>3. Front(P(i)) = P(i - 1) /\ Last(P(i)) = V[i]
      <3>1. P(i) = Append(P(i - 1), V[i]) /\ V[i] \in Values
        BY <1>5, <1>8
      <3>2. Front(Append(P(i - 1), V[i])) = P(i - 1) /\ Last(Append(P(i - 1), V[i])) = V[i]
        BY <2>2, <3>1, OneLonger
      <3> QED
        BY <3>1, <3>2
    <2>4. b[P(i - 1)] = [bounds |-> c.walk[i].bounds, ending |-> "none"]
      BY <1>1, <1>2, <2>1, <2>2
    <2> QED
      BY <1>2, <1>8, <2>2, <2>3, <2>4
  <1>11. ASSUME NEW q \in DOMAIN b
         PROVE  /\ q \in Seq(Values) /\ b[q] \in R
                /\ b[q].ending = "none" <=> b[q].bounds # NoBounds
                /\ q # <<>> => Front(q) \in DOMAIN b /\ Last(q) \in b[Front(q)].bounds
    <2>1. CASE q \in DOMAIN a
      BY <1>2, <1>7, <2>1
    <2>2. CASE q \in DOMAIN Shows(c)
      <3>1. PICK i \in 0 .. N : q = P(i)
        BY <1>1, <2>2
      <3>2. q # <<>> => i \in 1 .. N
        BY <1>4, <1>5, <3>1
      <3>3. q \in Seq(Values) /\ b[q] \in R /\ (b[q].ending = "none" <=> b[q].bounds # NoBounds)
        BY <1>5, <1>9, <3>1
      <3>4. q # <<>> => Front(q) \in DOMAIN b /\ Last(q) \in b[Front(q)].bounds
        BY <1>10, <3>1, <3>2
      <3> QED
        BY <3>3, <3>4
    <2> QED
      BY <1>2, <2>1, <2>2
  <1>12. DOMAIN b \in SUBSET Seq(Values) /\ b \in [DOMAIN b -> R]
    BY <1>f, <1>11
  <1>13. b \in UNION {[E -> R] : E \in SUBSET Seq(Values)}
    <2> HIDE DEF R
    <2> QED
      BY <1>12
  <1> QED
    BY <1>11, <1>13 DEF ABody, b

\* A tree that has what the body did has the rest of it after a case.
LEMMA ARunTells ==
  ASSUME TreeAssumption, NEW t, GoodTree(t), ~ IsExhausted(t), NEW a, ABody(a), Tells(t, a), TellsAll(t, a),
         NEW c \in Cases, Agrees(a, Shows(c))
  PROVE  LET r == Executed(t, c)
             b == Learnt(a, Shows(c))
             V == ValuesIn(c.walk)
         IN  /\ Tells(r.tree, b) /\ TellsAll(r.tree, b)
             /\ r.status # "diverged" /\ Entered(t, c).status = r.status
             /\ r.status = "repeated" => V \in DOMAIN a /\ a[V].ending \in Tested
             /\ V \in DOMAIN a /\ a[V].ending \in Tested /\ ~ r.tree.full => r.status = "repeated"
  <1> DEFINE r == Executed(t, c)
             b == Learnt(a, Shows(c))
             V == ValuesIn(c.walk)
             N == Len(c.walk)
             P(i) == SubSeq(V, 1, i)
  <1>1. Says(b, c)
    BY LearntSays
  <1>2. /\ DOMAIN b = DOMAIN Shows(c) \cup DOMAIN a
        /\ \A q \in DOMAIN a : b[q] = a[q]
        /\ \A q \in DOMAIN Shows(c) : b[q] = Shows(c)[q]
    <2>1. Joined(b, a, Shows(c))
      BY LearntFacts, Zenon
    <2> HIDE DEF b
    <2> QED
      BY <2>1, Zenon DEF Joined
  <1>3. Tells(t, b)
    <2> HIDE DEF b
    <2> QED
      BY <1>2 DEF Tells
  <1>4. /\ Tells(r.tree, b) /\ r.status # "diverged" /\ Entered(t, c).status = r.status
        /\ ~ r.tree.full => Has(r.tree, c) /\ ~ t.full
        /\ r.status = "repeated" => V \in DOMAIN t.node /\ t.node[V].ending # "none"
        /\ V \in DOMAIN t.node /\ t.node[V].ending # "none" /\ ~ r.tree.full => r.status = "repeated"
    BY <1>1, <1>3, ATrueRun
  <1>5. GoodTree(r.tree) /\ KeepsItsRecords(t, r.tree)
    BY BothRunsRan, ARunKeepsTheTree
  <1>6. /\ DOMAIN Shows(c) = {P(i) : i \in 0 .. N}
        /\ P(N) = V
        /\ \A i \in 0 .. N : i < N => Shows(c)[P(i)] = [bounds |-> c.walk[i + 1].bounds, ending |-> "none"]
        /\ Shows(c)[V] = [bounds |-> NoBounds, ending |-> c.ending]
    BY ShowsFacts
  <1>7. N \in Nat
    BY CaseFacts, WalkFacts
  <1> HIDE DEF r, b, V, N, P
  <1>8. ASSUME ~ r.tree.full, NEW p \in DOMAIN b
        PROVE  /\ p \in DOMAIN r.tree.node
               /\ r.tree.node[p].bounds = b[p].bounds
               /\ b[p].ending \in Tested => r.tree.node[p].ending = b[p].ending
    <2>1. CASE p \in DOMAIN a
      <3>1. /\ p \in DOMAIN t.node /\ t.node[p].bounds = a[p].bounds
            /\ a[p].ending \in Tested => t.node[p].ending = a[p].ending
        BY <1>4, <1>8, <2>1 DEF TellsAll
      <3>2. b[p] = a[p]
        BY <1>2, <2>1
      <3>3. p \in DOMAIN r.tree.node
        BY <1>5, <3>1 DEF KeepsItsRecords
      <3>4. a[p].bounds # NoBounds => r.tree.node[p].bounds = a[p].bounds
        BY <1>5, <3>1 DEF KeepsItsRecords
      <3>5. r.tree.node[p].bounds # NoBounds => r.tree.node[p].bounds = b[p].bounds
        BY <1>4, <3>3 DEF Tells
      <3>6. a[p].ending \in Tested => r.tree.node[p].ending = a[p].ending
        BY <1>5, <3>1 DEF KeepsItsRecords, Tested
      <3> QED
        BY <3>2, <3>3, <3>4, <3>5, <3>6
    <2>2. CASE p \in DOMAIN Shows(c)
      <3>1. PICK i \in 0 .. N : p = P(i)
        BY <1>6, <2>2
      <3>2. b[p] = Shows(c)[p]
        BY <1>2, <2>2
      <3>3. CASE i < N
        <4>1. b[p] = [bounds |-> c.walk[i + 1].bounds, ending |-> "none"]
          BY <1>6, <3>1, <3>2, <3>3
        <4>2. p \in DOMAIN r.tree.node /\ r.tree.node[p].bounds = c.walk[i + 1].bounds
          BY <1>4, <1>8, <3>1, <3>3 DEF Has, V, N, P
        <4> QED
          BY <4>1, <4>2 DEF Tested
      <3>4. CASE i = N
        <4>1. p = V /\ b[p] = [bounds |-> NoBounds, ending |-> c.ending]
          BY <1>6, <3>1, <3>2, <3>4
        <4>2. p \in DOMAIN r.tree.node
          BY <1>4, <1>8, <3>1 DEF Has, V, N, P
        <4>3. r.tree.node[V].bounds = NoBounds /\ (c.ending \in Tested => r.tree.node[V].ending = c.ending)
          BY <1>4, <1>8 DEF Has, V
        <4> QED
          BY <4>1, <4>2, <4>3
      <3> QED
        BY <1>7, <3>3, <3>4
    <2> QED
      BY <1>2, <2>1, <2>2
  <1>9. TellsAll(r.tree, b)
    BY <1>8 DEF TellsAll
  <1>10. ASSUME r.status = "repeated" PROVE V \in DOMAIN a /\ a[V].ending \in Tested
    <2>1. V \in DOMAIN t.node /\ t.node[V].ending # "none"
      BY <1>4, <1>10
    <2>2. t.node[V].ending \in Tested
      BY <2>1, TreeFacts DEF GoodTree
    <2> QED
      BY <2>1, <2>2 DEF Tells
  <1>11. ASSUME V \in DOMAIN a, a[V].ending \in Tested, ~ r.tree.full PROVE r.status = "repeated"
    <2>1. V \in DOMAIN t.node /\ t.node[V].ending = a[V].ending
      BY <1>4, <1>11 DEF TellsAll
    <2>2. a[V].ending # "none"
      BY <1>11 DEF Tested
    <2> QED
      BY <1>4, <1>11, <2>1, <2>2
  <1> QED
    BY <1>4, <1>9, <1>10, <1>11 DEF r, b, V

-----------------------------------------------------------------------------
(***************************************************************************)
(* What the tree counts as exhausted.                                      *)
(***************************************************************************)

\* Nothing of a body is left to test (AllTested, of any body).
NothingLeft(a) ==
  /\ <<>> \in DOMAIN a
  /\ \A p \in DOMAIN a : IF a[p].ending = "none" THEN \A v \in a[p].bounds : Append(p, v) \in DOMAIN a
                         ELSE a[p].ending \in Tested

LEMMA NodesAreSequences ==
  ASSUME NEW t \in Trees
  PROVE  \A q \in DOMAIN t.node : q \in Seq(Values) /\ Len(q) \in Nat
  <1> TAKE q \in DOMAIN t.node
  <1>1. q \in Seq(Values)
    BY TreeFacts
  <1> QED
    BY <1>1

\* Below an exhausted node there are exhausted nodes only.
LEMMA ExhaustedBelow ==
  ASSUME NEW t, GoodTree(t), t.node[<<>>].exhausted, NEW p \in DOMAIN t.node
  PROVE  t.node[p].exhausted
  <1>1. t \in Trees /\ Branches(t) /\ Counts(t)
    BY DEF GoodTree
  <1>2. \A q \in DOMAIN t.node : q \in Seq(Values) /\ Len(q) \in Nat
    BY <1>1, NodesAreSequences
  <1> DEFINE Open == {q \in DOMAIN t.node : ~ t.node[q].exhausted}
             L == {Len(q) : q \in Open}
  <1> SUFFICES ASSUME Open # {} PROVE FALSE
    OBVIOUS
  <1>3. PICK n \in L : \A m \in L : n <= m
    <2>1. L \in SUBSET Nat /\ L # {}
      BY <1>2
    <2> HIDE DEF L
    <2> QED
      BY <2>1, SetsHaveALeast
  <1>4. PICK q \in Open : Len(q) = n
    BY <1>3
  <1>5. q # <<>> /\ q \in Seq(Values)
    BY <1>2, <1>4
  <1>6. /\ Front(q) \in DOMAIN t.node /\ Last(q) \in t.node[Front(q)].bounds
        /\ Len(Front(q)) = Len(q) - 1 /\ Append(Front(q), Last(q)) = q
    BY <1>1, <1>4, <1>5, OneShorter DEF Branches
  <1>7. t.node[Front(q)].exhausted
    <2>1. CASE Front(q) \in Open
      <3>1. Len(Front(q)) \in L
        BY <2>1
      <3>2. Len(q) <= Len(q) - 1
        BY <1>3, <1>4, <1>6, <3>1
      <3> QED
        BY <1>2, <1>4, <3>2
    <2> QED
      BY <1>6, <2>1
  <1>8. AllBelow(t, Front(q))
    <2>1. t.node[Front(q)].ending = "none"
      BY <1>1, <1>6 DEF Branches, NoBounds
    <2> QED
      BY <1>1, <1>6, <1>7, <2>1 DEF Counts
  <1>9. t.node[q].exhausted
    BY <1>6, <1>8 DEF AllBelow
  <1> QED
    BY <1>4, <1>9

LEMMA ExhaustedIsTested ==
  ASSUME TreeAssumption, NEW t, GoodTree(t), NEW a, ABody(a), Tells(t, a), TellsAll(t, a), IsExhausted(t)
  PROVE  NothingLeft(a)
  <1>1. t \in Trees /\ Branches(t) /\ Counts(t) /\ t.node[<<>>].exhausted /\ ~ t.full
    BY DEF GoodTree, IsExhausted
  <1>2. \A p \in DOMAIN a : /\ p \in DOMAIN t.node /\ t.node[p].bounds = a[p].bounds
                            /\ a[p].ending \in Tested => t.node[p].ending = a[p].ending
    BY <1>1 DEF TellsAll
  <1>3. \A p \in DOMAIN t.node : t.node[p].ending # "none" => p \in DOMAIN a /\ a[p].ending = t.node[p].ending
    BY DEF Tells
  <1>4. \A p \in DOMAIN t.node : t.node[p].ending # "none" \/ (t.node[p].bounds # NoBounds /\ AllBelow(t, p))
    BY <1>1, ExhaustedBelow DEF Counts
  <1>5. <<>> \in DOMAIN a
    <2>1. <<>> \in DOMAIN t.node
      BY <1>1 DEF Branches
    <2> QED
      BY <1>4, <2>1 DEF Tells
  <1>6. ASSUME NEW p \in DOMAIN a, a[p].ending = "none", NEW v \in a[p].bounds
        PROVE  Append(p, v) \in DOMAIN a
    <2>1. p \in DOMAIN t.node /\ t.node[p].bounds = a[p].bounds /\ t.node[p].ending = "none"
      BY <1>2, <1>3, <1>6
    <2>2. Append(p, v) \in DOMAIN t.node
      BY <1>4, <1>6, <2>1 DEF AllBelow
    <2>3. Len(Append(p, v)) = Len(p) + 1 /\ Len(p) \in Nat
      BY <1>1, <2>1, NodesAreSequences, AppendIsLonger
    <2>4. Append(p, v) # <<>>
      <3> DEFINE q == Append(p, v)
                 n == Len(p)
      <3>1. Len(q) = n + 1 /\ n \in Nat
        BY <2>3
      <3> HIDE DEF q, n
      <3>2. q # <<>>
        BY <3>1
      <3> QED
        BY <3>2 DEF q
    <2> QED
      BY <2>2, <2>4 DEF Tells
  <1>7. ASSUME NEW p \in DOMAIN a, a[p].ending # "none" PROVE a[p].ending \in Tested
    <2>1. p \in DOMAIN t.node /\ t.node[p].bounds = a[p].bounds /\ a[p].bounds = NoBounds
      BY <1>2, <1>7 DEF ABody
    <2>2. t.node[p].ending # "none"
      BY <1>4, <2>1
    <2> QED
      BY <1>1, <1>3, <2>1, <2>2, TreeFacts
  <1> QED
    BY <1>5, <1>6, <1>7 DEF NothingLeft

LEMMA TestedIsExhausted ==
  ASSUME TreeAssumption, NEW t, GoodTree(t), NEW a, ABody(a), Tells(t, a), TellsAll(t, a), ~ t.full, NothingLeft(a)
  PROVE  IsExhausted(t)
  <1>1. t \in Trees /\ Branches(t) /\ Counts(t) /\ <<>> \in DOMAIN t.node
    BY DEF GoodTree, Branches
  <1>2. \A q \in DOMAIN t.node : q \in Seq(Values) /\ Len(q) \in 0 .. Depth
    <2>1. \A q \in DOMAIN t.node : q \in Seq(Values) /\ Len(q) \in Nat
      BY <1>1, NodesAreSequences
    <2>2. \A q \in DOMAIN t.node : q # <<>> => Len(q) <= Depth
      BY <1>1 DEF Branches
    <2>3. Len(<<>>) = 0 /\ Depth \in Nat
      BY TreeAssumption DEF TreeAssumption
    <2> QED
      BY <2>1, <2>2, <2>3
  <1> DEFINE Open == {q \in DOMAIN t.node : ~ t.node[q].exhausted}
             L == {Depth - Len(q) : q \in Open}
  <1> SUFFICES ASSUME Open # {} PROVE FALSE
    BY <1>1 DEF IsExhausted
  <1>d. Depth \in Nat
    BY TreeAssumption DEF TreeAssumption
  <1>3. PICK n \in L : \A m \in L : n <= m
    <2>1. L \in SUBSET Nat /\ L # {}
      BY <1>2, <1>d
    <2> HIDE DEF L
    <2> QED
      BY <2>1, SetsHaveALeast
  <1>4. PICK p \in Open : Depth - Len(p) = n
    BY <1>3
  <1>5. ASSUME NEW q \in DOMAIN t.node, Len(q) = Len(p) + 1 PROVE t.node[q].exhausted
    <2> SUFFICES ASSUME q \in Open PROVE FALSE
      BY <1>5
    <2>1. Depth - Len(q) \in L
      OBVIOUS
    <2>2. Depth - Len(p) <= Depth - Len(q)
      BY <1>3, <1>4, <2>1
    <2> QED
      BY <1>2, <1>4, <1>5, <1>d, <2>2
  <1>6. p \in DOMAIN a /\ p \in DOMAIN t.node /\ ~ t.node[p].exhausted
    BY <1>4 DEF Tells, NothingLeft
  <1>7. t.node[p].bounds = a[p].bounds /\ (a[p].ending \in Tested => t.node[p].ending = a[p].ending)
    BY <1>6 DEF TellsAll
  <1>8. t.node[p].ending = "none" /\ ~ (t.node[p].bounds # NoBounds /\ AllBelow(t, p))
    BY <1>1, <1>6 DEF Counts
  <1>9. a[p].ending = "none" /\ a[p].bounds # NoBounds
    BY <1>6, <1>7, <1>8 DEF NothingLeft, ABody, Tested
  <1>10. ASSUME NEW v \in t.node[p].bounds
         PROVE  Append(p, v) \in DOMAIN t.node /\ t.node[Append(p, v)].exhausted
    <2>1. Append(p, v) \in DOMAIN a
      BY <1>6, <1>7, <1>9, <1>10 DEF NothingLeft
    <2>2. Append(p, v) \in DOMAIN t.node
      BY <2>1 DEF TellsAll
    <2>3. Len(Append(p, v)) = Len(p) + 1
      BY <1>2, <1>6, AppendIsLonger
    <2> QED
      BY <1>5, <2>2, <2>3
  <1> QED
    BY <1>7, <1>8, <1>9, <1>10 DEF AllBelow

-----------------------------------------------------------------------------
(***************************************************************************)
(* The theorems.                                                           *)
(***************************************************************************)

LEMMA TheNewTree ==
  ASSUME TreeAssumption
  PROVE  GoodTree(NewTree) /\ ~ NewTree.full /\ DOMAIN NewTree.node = {<<>>}
         /\ NewTree.node[<<>>].bounds = NoBounds /\ NewTree.node[<<>>].ending = "none"
  <1> DEFINE f == [p \in {<<>>} |-> NewNode]
  <1>1. /\ NewNode.bounds = NoBounds /\ NewNode.ending = "none" /\ NewNode.exhausted = FALSE
        /\ NewNode \in NodeType
    BY DEF NewNode, NodeType
  <1>2. NewTree.node = f /\ NewTree.full = FALSE /\ NewTree = [node |-> f, full |-> FALSE]
    BY DEF NewTree
  <1>3. <<>> \in Seq(Values) /\ {<<>>} \in SUBSET Seq(Values)
    OBVIOUS
  <1>4. f \in [{<<>>} -> NodeType] /\ DOMAIN f = {<<>>} /\ f[<<>>] = NewNode
    BY <1>1
  <1> HIDE DEF f
  <1>5. NewTree \in Trees
    BY <1>2, <1>3, <1>4, IsATree
  <1>6. Branches(NewTree)
    BY <1>1, <1>2, <1>4 DEF Branches
  <1>7. Within(NewTree)
    <2>1. IsFiniteSet({<<>>}) /\ Cardinality({<<>>}) = 1
      BY FS_Singleton
    <2> QED
      BY <1>2, <1>4, <2>1, TreeAssumption DEF Within, TreeAssumption
  <1>8. Counts(NewTree)
    BY <1>1, <1>2, <1>4 DEF Counts
  <1> QED
    BY <1>1, <1>2, <1>4, <1>5, <1>6, <1>7, <1>8 DEF GoodTree

LEMMA TreeStarts ==
  ASSUME TreeAssumption, Init
  PROVE  TreeInductive
  <1> DEFINE n == NewTree
  <1>1. /\ tree = n /\ other = n /\ asked = <<>> /\ flaky \in BOOLEAN
        /\ last.serial = "none" /\ last.ahead = "none"
    BY DEF Init
  <1>2. /\ GoodTree(n) /\ ~ n.full /\ DOMAIN n.node = {<<>>}
        /\ n.node[<<>>].bounds = NoBounds /\ n.node[<<>>].ending = "none"
    BY TheNewTree
  <1> HIDE DEF n
  <1>3. DOMAIN asked = {} /\ asked = [p \in {} |-> 1]
    BY <1>1
  <1>4. ABody(asked)
    <2> DEFINE R == [bounds : Bounds \cup {NoBounds}, ending : Endings \cup {"none"}]
    <2>1. asked \in [{} -> R] /\ {} \in SUBSET Seq(Values)
      BY <1>3
    <2> HIDE DEF R
    <2>2. asked \in UNION {[D -> R] : D \in SUBSET Seq(Values)}
      BY <2>1
    <2> QED
      BY <1>3, <2>2 DEF ABody, R
  <1>5. Tells(tree, asked) /\ TellsAll(tree, asked)
    BY <1>1, <1>2, <1>3 DEF Tells, TellsAll
  <1> QED
    BY <1>1, <1>2, <1>4, <1>5 DEF TreeInductive, Statuses

\* What a step does, for values: a tree t that both runs had, the trees of either run after
\* the case c and what was known of the body before and after it.
TreeStep(t, a, b, c, s, h, f) ==
  /\ GoodTree(t) /\ ~ IsExhausted(t) /\ c \in Cases
  /\ s = Executed(t, c) /\ h = Entered(t, c)
  /\ f => c.later \in FlakyLaters
  /\ ~ f => /\ ABody(a) /\ Tells(t, a) /\ TellsAll(t, a)
            /\ Agrees(a, Shows(c)) /\ b = Learnt(a, Shows(c))

LEMMA StepFacts ==
  ASSUME TreeAssumption, NEW t, NEW a, NEW b, NEW c, NEW s, NEW h, NEW f \in BOOLEAN,
         TreeStep(t, a, b, c, s, h, f)
  PROVE  /\ GoodTree(s.tree) /\ GoodTree(h.tree)
         /\ KeepsItsRecords(t, s.tree) /\ KeepsItsRecords(t, h.tree)
         /\ s.status \in Statuses /\ h.status \in Statuses
         /\ s.status \notin EndsRun => s.tree = h.tree
         /\ "skipped" \notin FlakyLaters => s.status = h.status
         /\ ~ f => /\ ABody(b) /\ Tells(s.tree, b) /\ TellsAll(s.tree, b)
                   /\ s.status = h.status /\ s.status # "diverged"
                   /\ s.status = "repeated" => ValuesIn(c.walk) \in DOMAIN a /\ a[ValuesIn(c.walk)].ending \in Tested
                   /\ ValuesIn(c.walk) \in DOMAIN a /\ a[ValuesIn(c.walk)].ending \in Tested /\ ~ s.tree.full
                        => s.status = "repeated"
  <1>1. GoodTree(t) /\ ~ IsExhausted(t) /\ c \in Cases /\ s = Executed(t, c) /\ h = Entered(t, c)
    BY DEF TreeStep
  <1>2. Ran(t, c, Walked(t, c.walk), s) /\ Ran(t, c, Walked(t, c.walk), h)
    BY <1>1, BothRunsRan
  <1>3. /\ GoodTree(s.tree) /\ KeepsItsRecords(t, s.tree) /\ s.status \in Statuses
        /\ GoodTree(h.tree) /\ KeepsItsRecords(t, h.tree) /\ h.status \in Statuses
    BY <1>1, <1>2, ARunKeepsTheTree
  <1>4. s.status \notin EndsRun => s.tree = h.tree
    <2> SUFFICES ASSUME s.status \notin EndsRun PROVE s = h
      OBVIOUS
    <2> QED
      BY <1>1, RunsDifferAtTheEnd
  <1>5. ASSUME ~ f
        PROVE  /\ ABody(b) /\ Tells(s.tree, b) /\ TellsAll(s.tree, b)
               /\ s.status = h.status /\ s.status # "diverged"
               /\ s.status = "repeated" => ValuesIn(c.walk) \in DOMAIN a /\ a[ValuesIn(c.walk)].ending \in Tested
               /\ ValuesIn(c.walk) \in DOMAIN a /\ a[ValuesIn(c.walk)].ending \in Tested /\ ~ s.tree.full
                    => s.status = "repeated"
    <2>1. ABody(a) /\ Tells(t, a) /\ TellsAll(t, a) /\ Agrees(a, Shows(c)) /\ b = Learnt(a, Shows(c))
      BY <1>5 DEF TreeStep
    <2>2. ABody(b)
      BY <1>1, <2>1, LearntIsABody
    <2> QED
      BY <1>1, <2>1, <2>2, ARunTells
  <1>6. ASSUME "skipped" \notin FlakyLaters PROVE s.status = h.status
    <2>1. CASE f
      <3>1. c.later # "skipped"
        BY <1>6, <2>1 DEF TreeStep
      <3> QED
        BY <1>1, <3>1, BothRunsRan
    <2>2. CASE ~ f
      BY <1>5, <2>2
    <2> QED
      BY <2>1, <2>2
  <1> QED
    BY <1>3, <1>4, <1>5, <1>6

LEMMA ACaseIsAStep ==
  ASSUME TreeInductive, NEW c \in Cases, RunCase(c)
  PROVE  /\ TreeStep(tree, asked, asked', c, Executed(tree, c), Entered(tree, c), flaky) /\ tree = other
         /\ tree' = Executed(tree, c).tree /\ other' = Entered(tree, c).tree /\ flaky' = flaky /\ flaky \in BOOLEAN
         /\ last'.case = c /\ last'.serial = Executed(tree, c).status /\ last'.ahead = Entered(tree, c).status
  <1>1. /\ last.serial \notin EndsRun /\ ~ IsExhausted(tree) /\ CanRun(c)
        /\ tree' = Executed(tree, c).tree /\ other' = Entered(other, c).tree /\ flaky' = flaky
        /\ last' = [case |-> c, serial |-> Executed(tree, c).status, ahead |-> Entered(other, c).status]
        /\ ~ flaky => asked' = Learnt(asked, Shows(c))
    BY DEF RunCase
  <1>2. tree = other /\ GoodTree(tree) /\ flaky \in BOOLEAN
    BY <1>1 DEF TreeInductive
  <1>3. /\ flaky => c.later \in FlakyLaters
        /\ ~ flaky => Agrees(asked, Shows(c))
    BY <1>1, <1>2 DEF CanRun, Agrees
  <1>4. ~ flaky => ABody(asked) /\ Tells(tree, asked) /\ TellsAll(tree, asked)
    BY DEF TreeInductive
  <1> QED
    BY <1>1, <1>2, <1>3, <1>4 DEF TreeStep

LEMMA TreeGoesOn ==
  ASSUME TreeAssumption, TreeInductive, [Next]_vars
  PROVE  TreeInductive'
  <1>1. CASE UNCHANGED vars
    BY <1>1 DEF TreeInductive, vars
  <1>2. ASSUME NEW c \in Cases, RunCase(c) PROVE TreeInductive'
    <2>t. PICK t : t = tree
      OBVIOUS
    <2>a. PICK a, b : a = asked /\ b = asked'
      OBVIOUS
    <2>s. PICK s, h : s = Executed(tree, c) /\ h = Entered(tree, c)
      OBVIOUS
    <2>f. PICK f : f = flaky
      OBVIOUS
    <2>1. /\ TreeStep(t, a, b, c, s, h, f) /\ f \in BOOLEAN
          /\ b = asked' /\ f = flaky'
          /\ tree' = s.tree /\ other' = h.tree /\ last'.serial = s.status /\ last'.ahead = h.status
      BY <1>2, <2>t, <2>a, <2>s, <2>f, ACaseIsAStep
    <2>2. /\ GoodTree(s.tree) /\ GoodTree(h.tree)
          /\ s.status \in Statuses /\ h.status \in Statuses
          /\ s.status \notin EndsRun => s.tree = h.tree
          /\ "skipped" \notin FlakyLaters => s.status = h.status
          /\ ~ f => /\ ABody(b) /\ Tells(s.tree, b) /\ TellsAll(s.tree, b)
                    /\ s.status = h.status /\ s.status # "diverged"
      BY <2>1, StepFacts
    <2> QED
      BY <2>1, <2>2 DEF TreeInductive
  <1> QED
    BY <1>1, <1>2 DEF Next

-----------------------------------------------------------------------------
\* The inductive invariant of a run.
THEOREM TreeIsInductive ==
  ASSUME TreeAssumption
  PROVE  Spec => []TreeInductive
  <1>1. Init => TreeInductive
    BY TreeStarts
  <1>2. TreeInductive /\ [Next]_vars => TreeInductive'
    BY TreeGoesOn
  <1> QED
    BY <1>1, <1>2, PTL DEF Spec

\* The trees of both runs stay tries within their limit.
THEOREM TreesAreTries ==
  ASSUME TreeAssumption
  PROVE  Spec => []TypeOK
  <1>1. ASSUME NEW t, GoodTree(t) PROVE TreeOK(t)
    <2>1. t.full \in BOOLEAN
      BY <1>1, TreeFacts DEF GoodTree
    <2> QED
      BY <1>1, <2>1 DEF GoodTree, Branches, Within, TreeOK
  <1>2. TreeInductive => TypeOK
    BY <1>1 DEF TreeInductive, TypeOK
  <1> QED
    BY <1>2, TreeIsInductive, PTL

\* Both runs end each case in the same way, and while they go on their trees are the same.
THEOREM RunsAreTheSame ==
  ASSUME TreeAssumption, "skipped" \notin FlakyLaters
  PROVE  Spec => []SameRun
  <1>1. TreeInductive => SameRun
    BY DEF TreeInductive, SameRun, SameOutcome
  <1> QED
    BY <1>1, TreeIsInductive, PTL

\* Where every later run may skip, the trees of the two runs are still the same while they
\* go on, and a body that is a function of its values ends each case in the same way.
THEOREM RunsDifferOnlyAtAnEnd ==
  ASSUME TreeAssumption
  PROVE  Spec => [](/\ last.serial \notin EndsRun => tree = other
                    /\ ~ flaky => SameOutcome)
  <1>1. TreeInductive => /\ last.serial \notin EndsRun => tree = other
                         /\ ~ flaky => SameOutcome
    BY DEF TreeInductive, SameOutcome
  <1> QED
    BY <1>1, TreeIsInductive, PTL

\* The tree reports an exhausted domain exactly when every input of the body is tested, and
\* a body that is a function of its values never diverges.
THEOREM TheTreeTellsTheTruth ==
  ASSUME TreeAssumption
  PROVE  Spec => []TreeTellsTheTruth
  <1>1. ASSUME TreeInductive PROVE ExhaustedMeansTested
    <2> SUFFICES ASSUME ~ flaky PROVE IF tree.full THEN ~ IsExhausted(tree) ELSE IsExhausted(tree) <=> AllTested
      BY DEF ExhaustedMeansTested
    <2>t. PICK t : t = tree
      OBVIOUS
    <2>a. PICK a : a = asked
      OBVIOUS
    <2>1. GoodTree(t) /\ ABody(a) /\ Tells(t, a) /\ TellsAll(t, a)
      BY <1>1, <2>t, <2>a DEF TreeInductive
    <2>2. t.full => ~ IsExhausted(t)
      BY DEF IsExhausted
    <2>3. ~ t.full => (IsExhausted(t) <=> NothingLeft(a))
      BY <2>1, ExhaustedIsTested, TestedIsExhausted
    <2>4. NothingLeft(a) <=> AllTested
      BY <2>a DEF NothingLeft, AllTested, Tested
    <2> QED
      BY <2>t, <2>2, <2>3, <2>4
  <1>2. TreeInductive => NoFalseDivergence
    BY DEF TreeInductive, NoFalseDivergence
  <1>3. TreeInductive => TreeTellsTheTruth
    BY <1>1, <1>2 DEF TreeTellsTheTruth
  <1> QED
    BY <1>3, TreeIsInductive, PTL

\* No step forgets or changes what a case recorded, and a case is stopped as a repeat exactly
\* when an earlier case of its values was tested.
THEOREM TheTreeOnlyLearns ==
  ASSUME TreeAssumption
  PROVE  Spec => TreeOnlyLearns
  <1>1. ASSUME TreeInductive, NEW c \in Cases, RunCase(c) PROVE RecordsAreKept /\ RepeatsAreTested
    <2>t. PICK t : t = tree
      OBVIOUS
    <2>a. PICK a, b : a = asked /\ b = asked'
      OBVIOUS
    <2>s. PICK s, h : s = Executed(tree, c) /\ h = Entered(tree, c)
      OBVIOUS
    <2>f. PICK f : f = flaky
      OBVIOUS
    <2>1. /\ TreeStep(t, a, b, c, s, h, f) /\ f \in BOOLEAN
          /\ t = other /\ tree' = s.tree /\ other' = h.tree /\ last'.serial = s.status /\ last'.case = c
      BY <1>1, <2>t, <2>a, <2>s, <2>f, ACaseIsAStep
    <2>2. /\ KeepsItsRecords(t, s.tree) /\ KeepsItsRecords(t, h.tree)
          /\ ~ f => /\ s.status = "repeated" => ValuesIn(c.walk) \in DOMAIN a /\ a[ValuesIn(c.walk)].ending \in Tested
                    /\ ValuesIn(c.walk) \in DOMAIN a /\ a[ValuesIn(c.walk)].ending \in Tested /\ ~ s.tree.full
                         => s.status = "repeated"
      BY <2>1, StepFacts
    <2>3. RecordsAreKept
      BY <2>t, <2>1, <2>2 DEF RecordsAreKept
    <2>4. RepeatsAreTested
      BY <2>a, <2>f, <2>1, <2>2 DEF RepeatsAreTested, TestedInputs, Tested
    <2> QED
      BY <2>3, <2>4
  <1>2. TreeInductive /\ [Next]_vars => [RecordsAreKept /\ RepeatsAreTested]_vars
    BY <1>1 DEF Next
  <1> QED
    BY <1>2, TreeIsInductive, PTL DEF Spec, TreeOnlyLearns
=============================================================================
