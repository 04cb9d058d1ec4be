----------------------------- MODULE MCShrinker -----------------------------
(***************************************************************************)
(* Instances of Shrinker for TLC: cases of up to two choices.              *)
(***************************************************************************)
EXTENDS Shrinker

MCLength == [c \in Cases |-> (c + 1) \div 2]
MCKinds  == <<"sweep", "probe", "step">>

\* The first sweep offers a case twice and the best case itself, and leaves
\* cases out; delete-and-lower offers the next smaller case.
MCSweep      == <<<<>>, <<0>>, <<0, 2, 0, 1>>, <<1, 3, 1>>>>
MCCandidates ==
  [p \in Sweeps |->
    [c \in Cases |->
      IF p # DeleteAndLower THEN MCSweep[c + 1]
      ELSE IF c = 0 THEN <<>> ELSE <<c - 1>>]]

MCProbes    == {<<1>>, <<2, 1>>}
MCDeletions == {<<0>>}
=============================================================================
