----------------------------- MODULE MCGovernance ------------------------------
(***************************************************************************)
(* Governance for TLC: founders k1 and k2, a candidate k3, a key that is   *)
(* no curve point, an account of two keys and one of a single key.         *)
(***************************************************************************)
EXTENDS Governance, TLC

CONSTANTS k1, k2, k3, bad, u1, u2, u3, c1, c2, p1, p2

Keys     == {k1, k2, k3, bad}
GoodKeys == {k1, k2, k3}
Seats    == {k1, k2}
Users    == {u1, u2, u3}
Accounts == u1 :> c1 @@ u2 :> c1 @@ u3 :> c2
Ids      == {p1, p2}
Invites  == {[issuer |-> k1, nonce |-> 1]}
Periods  == {1}

Named(kind, key) == [kind |-> kind, key |-> key]
Actions ==
    {Named("AddValidator", k3), Named("AddResident", k3), Named("RemoveResident", k3),
     Named("RemoveValidator", k1), Named("AddResident", bad),
     [kind |-> "AdoptShares", allocations |-> c1 :> 2 @@ c2 :> 2],
     [kind |-> "SetShares", account |-> c2, shares |-> 0],
     [kind |-> "SetShareMode", enabled |-> FALSE],
     [kind |-> "SetAclPolicy", target |-> "governance", standing |-> "validator"],
     [kind |-> "SetAclPolicy", target |-> "*", standing |-> "user"],
     [kind |-> "Signal"], [kind |-> "UpdateModule"]}

Renaming == Permutations(Ids)
================================================================================
