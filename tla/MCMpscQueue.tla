---------------------------- MODULE MCMpscQueue ----------------------------
(* Model-checking instance of MpscQueue.                                   *)
EXTENDS MpscQueue
=============================================================================
