------------------------------- MODULE MCPool -------------------------------
(***************************************************************************)
(* Instances of Pool for TLC.                                              *)
(***************************************************************************)
EXTENDS Pool, TLC

CONSTANTS w1, c1, c2, s1, s2, s3, r1, k1, k2, t1, t2, p1

\* One worker, however often it connects.
OneWorker == [c \in Conn |-> w1]
OneProfile == [w \in Worker |-> p1]

SessionSymmetry == Permutations(Session)
TerminalSymmetry == Permutations(Terminal)
=============================================================================
