------------------------------- MODULE MCExec -------------------------------
(***************************************************************************)
(* Instances of Exec for TLC.                                              *)
(***************************************************************************)
EXTENDS Exec, TLC

CONSTANTS w1, c1, c2, h1, h2, p1, p2

\* One worker and its successive connections.
OneWorker == [c \in Conn |-> w1]

Symmetry == Permutations(Handle) \cup Permutations(Pty)
=============================================================================
