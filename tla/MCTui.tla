------------------------------- MODULE MCTui -------------------------------
(***************************************************************************)
(* Tui on a small instance: see the cfgs for the number of requests of one *)
(* kind that overlap.                                                      *)
(***************************************************************************)
EXTENDS Tui

=============================================================================
