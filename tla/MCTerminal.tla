----------------------------- MODULE MCTerminal -----------------------------
(***************************************************************************)
(* Instances of Terminal for TLC.                                          *)
(***************************************************************************)
EXTENDS Terminal, TLC

CONSTANTS t1, t2

Symmetry == Permutations(Attachment)
=============================================================================
