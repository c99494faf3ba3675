---------------------------- MODULE MCEpochCutover -----------------------------
(***************************************************************************)
(* EpochCutover for TLC: validators p and q of a genesis set {p, q}, and a *)
(* third key k that joins and leaves or is granted residence.              *)
(***************************************************************************)
EXTENDS EpochCutover, TLC

CONSTANTS p, q, k

Keys    == {p, q, k}
Both    == {p, q}
Founded == [validators |-> Both, residents |-> {}]

Nop    == <<>>
Join   == <<[op |-> "join", key |-> k]>>
Leave  == <<[op |-> "leave", key |-> k]>>
Grant  == <<[op |-> "grant", key |-> k]>>
Oust   == <<[op |-> "leave", key |-> q]>>
Churn  == <<[op |-> "leave", key |-> q], [op |-> "join", key |-> q]>>

Changes    == {Nop, Join, Leave, Oust}
WithGrant  == {Nop, Grant, Join}
WithChurn  == {Nop, Churn, Grant}
Views42    == 0 :> 4 @@ 1 :> 2
Views41    == 0 :> 4 @@ 1 :> 1
NoFault    == {}
ValsFault  == {"validators"}
================================================================================
