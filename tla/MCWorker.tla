------------------------------ MODULE MCWorker ------------------------------
(***************************************************************************)
(* Instances of WorkerLifecycle for TLC.                                   *)
(***************************************************************************)
EXTENDS WorkerLifecycle
=============================================================================
