---------------------------- MODULE MCNodeHealth ----------------------------
(***************************************************************************)
(* NodeHealth on small instances: units of half a minute, so the interval  *)
(* of the watchdog is 2 and its threshold 4, as in the code.               *)
(***************************************************************************)
EXTENDS NodeHealth

=============================================================================
