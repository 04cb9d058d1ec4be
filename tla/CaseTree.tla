------------------------------ MODULE CaseTree ------------------------------
(***************************************************************************)
(* The case tree of a run, and the two ways in which a case walks it.      *)
(*                                                                         *)
(* On one worker a case walks the tree as it runs: the walker of tree.py   *)
(* stops the body at a repeat or a divergence (execute and _once of        *)
(* execution.py).  On more than one worker the case runs outside the tree  *)
(* to its end, and entered walks its steps into the tree afterwards.  The  *)
(* module keeps one tree for each way and feeds both the same cases.       *)
(*                                                                         *)
(* The body is not fixed: what it does after a sequence of values is       *)
(* chosen when a case first gets there.  A body is a function of its       *)
(* values, unless it is flaky.                                             *)
(***************************************************************************)
EXTENDS Naturals, Sequences, FiniteSets, SequencesExt

CONSTANTS
  Bounds,     \* the bounds of the requests: sets of the values they allow
  Undrawn,    \* a value that no case draws: bounds with it never exhaust
  Depth,      \* bound: the requests of a case
  Limit,      \* NODE_LIMIT: the largest number of nodes of a tree
  Endings,    \* how a first run may end
  Laters,     \* how the later runs of a case that passed may end
  FlakyLaters \* the same, of a flaky body

ASSUME TreeAssumption ==
  /\ \A b \in Bounds : IsFiniteSet(b)
  /\ Depth \in Nat /\ Limit \in Nat \ {0}
  /\ Endings \subseteq {"passed", "failed", "rejected", "overran", "skipped"}
  /\ Laters \cup FlakyLaters \subseteq {"none", "passed", "failed", "skipped"}

VARIABLES
  tree,     \* the tree of the run on one worker
  other,    \* the tree of the run on more than one worker
  asked,    \* what the body did after each sequence of values that it saw
  last,     \* the case that ran last and how each run ended it
  flaky     \* TRUE: the body may answer the same values differently

vars == <<tree, other, asked, last, flaky>>

-----------------------------------------------------------------------------
(* Cases *)

NoBounds == {}
Moves    == {m \in [bounds : Bounds, value : UNION Bounds \ {Undrawn}] :
               m.value \in m.bounds}

\* A case that ran to its end outside a tree.  A later run that fails or skips
\* ends a case that passed (repeat of execution.py).
Cases == {c \in [walk : UNION {[1 .. n -> Moves] : n \in 0 .. Depth},
                 ending : Endings, later : Laters \cup FlakyLaters] :
            c.later # "none" => c.ending = "passed"}

NoCase == [walk |-> <<>>, ending |-> "none", later |-> "none"]

ValuesIn(walk) == [i \in DOMAIN walk |-> walk[i].value]

\* What a case shows of its body: a request or an end after a sequence of values.
Shows(c) ==
  LET p == ValuesIn(c.walk)
  IN  [q \in {SubSeq(p, 1, n) : n \in 0 .. Len(p)} |->
         IF q = p THEN [bounds |-> NoBounds, ending |-> c.ending]
                  ELSE [bounds |-> c.walk[Len(q) + 1].bounds, ending |-> "none"]]

\* What is known of the body once a case has shown it more.
Learnt(known, shown) ==
  [q \in DOMAIN shown \cup DOMAIN known |-> IF q \in DOMAIN shown THEN shown[q] ELSE known[q]]

CanRun(c) == IF flaky THEN c.later \in FlakyLaters
             ELSE LET s == Shows(c)
                  IN  /\ c.later \in Laters
                      /\ \A q \in DOMAIN s \cap DOMAIN asked : s[q] = asked[q]

-----------------------------------------------------------------------------
(* The tree: nodes are the sequences of values that lead to them *)

NewNode == [bounds |-> NoBounds, ending |-> "none", exhausted |-> FALSE]
NewTree == [node |-> [p \in {<<>>} |-> NewNode], full |-> FALSE]

\* The tree with a new node (written out: the provers do not know @@).
WithNode(t, p) ==
  [t EXCEPT !.node = [q \in DOMAIN t.node \cup {p} |-> IF q = p THEN NewNode ELSE t.node[q]]]

ChildrenOf(t, p) == {q \in DOMAIN t.node : Len(q) = Len(p) + 1 /\ Front(q) = p}

\* MUTANT: a node counts as exhausted when some of its values lead to leaves.
SettledBySome(t, p) ==
  t.node[p].ending # "none" \/ \A q \in ChildrenOf(t, p) : t.node[q].exhausted

\* _Node.settle: every value that the bounds allow leads to an exhausted node.
Settled(t, p) ==
  \/ t.node[p].ending # "none"
  \/ /\ Cardinality(t.node[p].bounds) = Cardinality(ChildrenOf(t, p))
     /\ \A q \in ChildrenOf(t, p) : t.node[q].exhausted

Settle(t, p) == [t EXCEPT !.node[p].exhausted = Settled(t, p)]

IsExhausted(t) == ~t.full /\ t.node[<<>>].exhausted

\* A walker: the tree with its path, and what has stopped it, if anything.
\* steps counts the steps that it was given before it stopped.
Walker(t) == [tree |-> t, path |-> <<>>, off |-> FALSE, stop |-> "none"]

Stop(w, why) == [w EXCEPT !.stop = why]

\* MUTANT: a walk that adds a node stays at the node above it.
DescendNotToANewNode(w, value) ==
  LET child == Append(w.path, value)
      t     == w.tree
  IN  IF child \in DOMAIN t.node
        THEN IF t.node[child].ending # "none" THEN Stop(w, "repeated")
                                              ELSE [w EXCEPT !.path = child]
      ELSE IF Cardinality(DOMAIN t.node) >= Limit
        THEN [w EXCEPT !.tree.full = TRUE, !.off = TRUE]
      ELSE [w EXCEPT !.tree = WithNode(t, child)]

\* A walker whose request was recorded goes to the child of its value.
Descend(w, value) ==
  LET child == Append(w.path, value)
      t     == w.tree
  IN  IF child \in DOMAIN t.node
        THEN IF t.node[child].ending # "none" THEN Stop(w, "repeated")
                                              ELSE [w EXCEPT !.path = child]
      ELSE IF Cardinality(DOMAIN t.node) >= Limit
        THEN [w EXCEPT !.tree.full = TRUE, !.off = TRUE]
      ELSE [w EXCEPT !.path = child, !.tree = WithNode(t, child)]

\* MUTANT: a request is not compared with the request that was recorded.
WalkUncompared(w, m) ==
  IF w.stop # "none" \/ w.off THEN w
  ELSE IF w.tree.node[w.path].ending # "none" THEN Stop(w, "diverged")
  ELSE Descend([w EXCEPT !.tree.node[w.path].bounds = m.bounds], m.value)

\* Walker.step.
Walk(w, m) ==
  LET node == w.tree.node[w.path]
  IN  IF w.stop # "none" \/ w.off THEN w
      ELSE IF node.ending # "none" \/ node.bounds \notin {NoBounds, m.bounds}
        THEN Stop(w, "diverged")
      ELSE Descend([w EXCEPT !.tree.node[w.path].bounds = m.bounds], m.value)

\* Walker.end: the path is settled from the leaf up.
EndWalk(w, ending) ==
  IF w.stop # "none" \/ w.off THEN w
  ELSE IF w.tree.node[w.path].bounds # NoBounds THEN Stop(w, "diverged")
  ELSE LET leaf == [w.tree EXCEPT !.node[w.path].ending = ending]
           up[n \in 0 .. Len(w.path) + 1] ==
             IF n = 0 THEN leaf ELSE Settle(up[n - 1], SubSeq(w.path, 1, Len(w.path) + 1 - n))
       IN  [w EXCEPT !.tree = up[Len(w.path) + 1]]

Walked(t, walk) ==
  LET step[n \in 0 .. Len(walk)] == IF n = 0 THEN Walker(t) ELSE Walk(step[n - 1], walk[n])
  IN  step[Len(walk)]

-----------------------------------------------------------------------------
(* How a case ends in each run *)

Unless(w, status) == [tree |-> w.tree, status |-> IF w.stop # "none" THEN w.stop ELSE status]

\* How the runs of a case that nothing stops end it.
StatusOf(c) == IF c.later \in {"failed", "skipped"} THEN c.later
               ELSE IF c.ending = "overran" THEN "rejected" ELSE c.ending

\* MUTANT: a case that overran its cap has a leaf.
ExecutedWithALeafForAnOverrun(t, c) ==
  LET w == Walked(t, c.walk)
  IN  IF c.ending = "skipped"
        THEN Unless(w, StatusOf(c))
        ELSE Unless(EndWalk(w, c.ending), StatusOf(c))

\* execute with a tree.  A case that overran its cap or skipped has no leaf,
\* and the later runs follow the end of the first one.
Executed(t, c) ==
  LET w == Walked(t, c.walk)
  IN  IF c.ending \in {"overran", "skipped"}
        THEN Unless(w, StatusOf(c))
        ELSE Unless(EndWalk(w, c.ending), StatusOf(c))

\* MUTANT: a case whose later run failed does not end in the tree.
EnteredUnlessALaterRunFailed(t, c) ==
  LET w == Walked(t, c.walk)
  IN  IF c.ending = "overran" \/ c.later = "failed" \/ StatusOf(c) = "skipped"
        THEN Unless(w, StatusOf(c))
        ELSE Unless(EndWalk(w, IF c.later # "none" THEN "passed" ELSE c.ending), StatusOf(c))

\* entered.  The execution has all its runs behind it.
Entered(t, c) ==
  LET w == Walked(t, c.walk)
  IN  IF c.ending = "overran" \/ StatusOf(c) = "skipped"
        THEN Unless(w, StatusOf(c))
        ELSE Unless(EndWalk(w, IF c.later # "none" THEN "passed" ELSE c.ending), StatusOf(c))

-----------------------------------------------------------------------------
Init == /\ tree = NewTree
        /\ other = NewTree
        /\ asked = <<>>
        /\ last = [case |-> NoCase, serial |-> "none", ahead |-> "none"]
        /\ flaky \in BOOLEAN

\* The outcomes that end a run (Tally.take of runner.py).
EndsRun == {"failed", "diverged", "skipped"}

\* The runner runs the next case while no case has ended the run and the
\* domain is not exhausted.
RunCase(c) ==
  /\ last.serial \notin EndsRun /\ last.ahead \notin EndsRun
  /\ ~IsExhausted(tree)
  /\ CanRun(c)
  /\ LET serial == Executed(tree, c)
         ahead  == Entered(other, c)
     IN  /\ tree' = serial.tree
         /\ other' = ahead.tree
         /\ last' = [case |-> c, serial |-> serial.status, ahead |-> ahead.status]
  /\ asked' = IF flaky THEN asked ELSE Learnt(asked, Shows(c))
  /\ UNCHANGED flaky

Next == \E c \in Cases : RunCase(c)
Spec == Init /\ [][Next]_vars

-----------------------------------------------------------------------------
(* Properties *)

Statuses == {"passed", "failed", "rejected", "skipped", "repeated", "diverged", "none"}

TreeOK(t) ==
  /\ t.full \in BOOLEAN
  /\ <<>> \in DOMAIN t.node
  /\ Cardinality(DOMAIN t.node) <= Limit
  /\ \A p \in DOMAIN t.node :
       /\ p # <<>> => /\ Front(p) \in DOMAIN t.node
                      /\ Last(p) \in t.node[Front(p)].bounds
       /\ t.node[p].ending # "none" => t.node[p].bounds = NoBounds

\* The trees are tries within their limit: each edge is a value that the
\* request of its node allows, and a leaf has no request.
TypeOK ==
  /\ TreeOK(tree) /\ TreeOK(other)
  /\ last.serial \in Statuses /\ last.ahead \in Statuses
  /\ flaky \in BOOLEAN

\* A case ends in the same way in both runs, so that a run on any number of
\* workers reports the same outcome (executor.py, Settings.workers).
SameOutcome == last.serial = last.ahead

\* The two runs are one: each case ends in the same way, and while they go on
\* their trees are the same, so that no later case tells them apart.
SameRun == SameOutcome /\ (last.serial \notin EndsRun => tree = other)

\* What the body does with every input: nothing is left to ask.
AllTested ==
  /\ <<>> \in DOMAIN asked
  /\ \A p \in DOMAIN asked :
       IF asked[p].ending = "none"
         THEN \A v \in asked[p].bounds : Append(p, v) \in DOMAIN asked
         ELSE asked[p].ending \in {"passed", "failed", "rejected"}

\* The tree reports an exhausted domain exactly when the run has tested every
\* input of the body, and it never does after it stopped growing.
ExhaustedMeansTested ==
  ~flaky => IF tree.full THEN ~IsExhausted(tree) ELSE IsExhausted(tree) <=> AllTested

\* A body that is a function of its values never ends a run as flaky.
NoFalseDivergence == ~flaky => last.serial # "diverged" /\ last.ahead # "diverged"

\* What the tree says of the body is true: that nothing is left to test, and that it
\* answered the same values differently (tree.py, _settle and descend).
TreeTellsTheTruth == ExhaustedMeansTested /\ NoFalseDivergence

\* Whatever a flaky body answers, neither tree changes a request or an end that
\* it recorded: a later case that differs is reported and leaves no trace.
KeepsItsRecords(t, u) ==
  \A p \in DOMAIN t.node :
    /\ p \in DOMAIN u.node
    /\ t.node[p].ending # "none" => u.node[p].ending = t.node[p].ending
    /\ t.node[p].bounds # NoBounds => u.node[p].bounds = t.node[p].bounds
    /\ t.node[p].exhausted => u.node[p].exhausted

RecordsAreKept == KeepsItsRecords(tree, tree') /\ KeepsItsRecords(other, other')

\* A case is stopped as a repeat only when an earlier case of the same values
\* ended in the tree, and every other case of such values is (while the tree
\* grows): no input is tested twice and none is skipped.
TestedInputs == {p \in DOMAIN asked : asked[p].ending \in {"passed", "failed", "rejected"}}

RepeatsAreTested ==
  ~flaky =>
    /\ last'.serial = "repeated" => ValuesIn(last'.case.walk) \in TestedInputs
    /\ ~tree'.full /\ ValuesIn(last'.case.walk) \in TestedInputs => last'.serial = "repeated"

\* The tree only learns: no step forgets or changes what a case recorded, and it
\* knows the cases that were tested, no more and no fewer (tree.py, execution.py).
TreeOnlyLearns == [][RecordsAreKept /\ RepeatsAreTested]_vars
=============================================================================
