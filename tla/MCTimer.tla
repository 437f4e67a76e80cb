------------------------------- MODULE MCTimer -------------------------------
(* Timer for TLC: a clock that wraps after a few ticks.                      *)
EXTENDS Timer
=============================================================================
