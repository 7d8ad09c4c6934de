----------------------------- MODULE MCWatchdog -----------------------------
(* Small instances of Watchdog: a clock of a few units. *)
EXTENDS Watchdog
=============================================================================
