----------------------------- MODULE MCOrderedGate -----------------------------
(* Small instances of OrderedGate. *)
EXTENDS OrderedGate, TLC

CONSTANTS d1, d2

Digests2 == {d1, d2}
================================================================================
