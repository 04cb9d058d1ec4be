----------------------------- MODULE Positions -----------------------------
(***************************************************************************)
(* The order in which a run on one worker tries its generated cases, as    *)
(* _prop/engine/executor.py numbers it: random case 0, edge case 0, random *)
(* case 1, edge case 1, and so on, and random cases alone once the edge    *)
(* cases have run out.  The runner computes the position of the case it    *)
(* wants, and a worker computes the case of the position it flies: nothing *)
(* but this arithmetic makes the two agree.                                *)
(***************************************************************************)
EXTENDS Naturals, Sequences

CONSTANT Boundaries        \* The number of edge cases: 4 in edge.py.

CONSTANT Limits    \* Limits[c]: the random cases the run makes up to check c of
                   \* the coverage, ten times the valid cases it aims for there.

ASSUME BoundariesAssumption == Boundaries \in Nat
ASSUME LimitsAssumption == Limits \in Seq(Nat) /\ Len(Limits) > 0

Smaller(a, b) == IF a < b THEN a ELSE b
Larger(a, b)  == IF a < b THEN b ELSE a

\* The position of random case i, and the position of edge case n.
RandomPosition(i) == Smaller(2 * i, i + Boundaries)
EdgePosition(n)   == 2 * n + 1

IsEdgePosition(p) == p % 2 = 1 /\ p \div 2 < Boundaries

\* MUTANT: the random cases alternate with edge cases for ever.
RandomAtAlternating(p) == p \div 2

\* p - 4 may be negative in Python, where p // 2 is then the larger.
RandomAt(p) == IF p < Boundaries THEN p \div 2
                                 ELSE Larger(p \div 2, p - Boundaries)

Case == [kind : {"simplest", "random", "prefix", "edge"}, number : Nat]

SimplestCase  == [kind |-> "simplest", number |-> 0]
RandomCase(i) == [kind |-> "random", number |-> i]
PrefixCase(i) == [kind |-> "prefix", number |-> i]
EdgeCase(n)   == [kind |-> "edge", number |-> n]

\* The case that a worker makes for a position.
CaseAt(p) == IF IsEdgePosition(p) THEN EdgeCase(p \div 2)
                                  ELSE RandomCase(RandomAt(p))
=============================================================================
