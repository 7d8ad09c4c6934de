-------------------------- MODULE MCJobWaitBreaker --------------------------
(* Small instances of JobWaitBreaker: two job lists, two or three waits.   *)
EXTENDS JobWaitBreaker
=============================================================================
