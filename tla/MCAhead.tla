------------------------------ MODULE MCAhead ------------------------------
(***************************************************************************)
(* Instances of Ahead for TLC.                                             *)
(***************************************************************************)
EXTENDS Ahead, TLC

\* Two checks: three random cases up to the first, a fourth after it, which is
\* past the last edge case.
MCLimits == <<3, 4>>

=============================================================================
