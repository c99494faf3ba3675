------------------------------ MODULE MCDispatch -------------------------------
(***************************************************************************)
(* Dispatch on two dispatch keys and two calls with three mailbox numbers: *)
(* the fourth subject does not fit, so admission refuses at the edge.      *)
(***************************************************************************)
EXTENDS Dispatch
CONSTANTS k1, k2, c1, c2

Keys == {k1, k2}
Calls == {c1, c2}
================================================================================
