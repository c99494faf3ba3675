------------------------------- MODULE MCValset --------------------------------
(* Valset for TLC: three keys, one of them founding, one of them malformed. *)
EXTENDS Valset, TLC

CONSTANTS k1, k2, k3, bad

Keys     == {k1, k2, k3, bad}
GoodKeys == {k1, k2, k3}
Founders == {k1, k2}
================================================================================
