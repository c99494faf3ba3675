------------------------------- MODULE AsyncWork -------------------------------
(***************************************************************************)
(* What the saga ledger promises a module that hands it work, and what     *)
(* Dispatch relies on: an id is opened once while it is known; open work   *)
(* ends, one piece or several at a time, with one callback for each that   *)
(* asked for one; only work that ended is forgotten, and then the id may   *)
(* be opened again.  Workers, leases, attempts, quotas and indexes do not  *)
(* show.                                                                   *)
(***************************************************************************)
EXTENDS Naturals

CONSTANT Id

VARIABLES
    known,      \* ids in the ledger
    open,       \* those whose work has not ended
    wants,      \* open ids that asked for a callback
    called      \* callbacks since an id was last opened

vars == <<known, open, wants, called>>

Init ==
    /\ known = {} /\ open = {} /\ wants = {}
    /\ called = [i \in Id |-> 0]

\* Any step may forget ended work, what it ends itself included.
Forgets(k) == known' \in {open' \cup kept : kept \in SUBSET (k \ open')}

Trigger(i, callback) ==
    /\ i \notin known
    /\ open' = open \cup {i}
    /\ wants' = IF callback THEN wants \cup {i} ELSE wants
    /\ called' = [called EXCEPT ![i] = 0]
    /\ Forgets(known \cup {i})

Finish(S) ==
    /\ S # {} /\ S \subseteq open
    /\ open' = open \ S
    /\ wants' = wants \ S
    /\ called' = [i \in Id |-> IF i \in S \cap wants THEN called[i] + 1 ELSE called[i]]
    /\ Forgets(known)

Forget ==
    /\ UNCHANGED <<open, wants, called>>
    /\ Forgets(known)

Next ==
    \/ \E i \in Id, callback \in BOOLEAN : Trigger(i, callback)
    \/ \E S \in SUBSET Id : Finish(S)
    \/ Forget

Spec == Init /\ [][Next]_vars
================================================================================
