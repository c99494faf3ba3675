------------------------------- MODULE ValsetOps -------------------------------
(***************************************************************************)
(* The membership operations of the valset module, as functions of the two *)
(* tier records (the handlers of crates/modules/system/valset/src/lib.rs). *)
(* An operation either is rejected, and the host rolls back what it        *)
(* staged, or yields new tiers and the set of records it staged: a staged  *)
(* record is a committed store operation even when its bytes do not change.*)
(***************************************************************************)
EXTENDS Naturals, FiniteSets, Sequences, SequencesExt

CONSTANTS
    Key,            \* member keys, well-formed or not
    WellFormed,     \* those that decode to an ed25519 public key
    MaxMembers      \* MAX_MEMBERS

ASSUME ValsetAssumption ==
    /\ IsFiniteSet(Key) /\ WellFormed \subseteq Key
    /\ MaxMembers \in Nat \ {0}

\* No stored key is malformed: the engine decodes every one of them.
Tiers == [validators : SUBSET WellFormed, residents : SUBSET WellFormed]
Op    == [op : {"join", "leave", "grant", "revoke"}, key : Key]

Rejected(t) == [ok |-> FALSE, tiers |-> t, staged |-> {}]
NoOp(t)     == [ok |-> TRUE, tiers |-> t, staged |-> {}]

BugHandleJoin(t, k) ==      \* the key is stored without being decoded
    IF k \in t.validators THEN NoOp(t)
    ELSE IF Cardinality(t.validators) >= MaxMembers THEN Rejected(t)
    ELSE [ok |-> TRUE, tiers |-> [t EXCEPT !.validators = @ \cup {k}],
          staged |-> {"validators"}]

\* A resident that joins is promoted out of its tier in the same operation.
HandleJoin(t, k) ==
    LET promoted == IF k \in t.residents THEN {"residents"} ELSE {}
        rest     == [t EXCEPT !.residents = @ \ {k}]
    IN IF k \notin WellFormed THEN Rejected(t)
       ELSE IF k \in t.validators THEN [ok |-> TRUE, tiers |-> rest, staged |-> promoted]
       ELSE IF Cardinality(t.validators) >= MaxMembers THEN Rejected(t)
       ELSE [ok |-> TRUE, tiers |-> [rest EXCEPT !.validators = @ \cup {k}],
             staged |-> promoted \cup {"validators"}]

BugHandleLeave(t, k) ==     \* the last validator may leave
    IF k \notin t.validators THEN NoOp(t)
    ELSE [ok |-> TRUE, tiers |-> [t EXCEPT !.validators = @ \ {k}], staged |-> {"validators"}]

HandleLeave(t, k) ==
    IF k \notin t.validators THEN NoOp(t)
    ELSE IF Cardinality(t.validators) = 1 THEN Rejected(t)
    ELSE [ok |-> TRUE, tiers |-> [t EXCEPT !.validators = @ \ {k}], staged |-> {"validators"}]

BugHandleGrant(t, k) ==     \* a validator may take resident standing too
    IF k \notin WellFormed THEN Rejected(t)
    ELSE IF k \in t.residents THEN NoOp(t)
    ELSE IF Cardinality(t.residents) >= MaxMembers THEN Rejected(t)
    ELSE [ok |-> TRUE, tiers |-> [t EXCEPT !.residents = @ \cup {k}], staged |-> {"residents"}]

HandleGrant(t, k) ==
    IF k \notin WellFormed \/ k \in t.validators THEN Rejected(t)
    ELSE IF k \in t.residents THEN NoOp(t)
    ELSE IF Cardinality(t.residents) >= MaxMembers THEN Rejected(t)
    ELSE [ok |-> TRUE, tiers |-> [t EXCEPT !.residents = @ \cup {k}], staged |-> {"residents"}]

HandleRevoke(t, k) ==
    IF k \notin t.residents THEN NoOp(t)
    ELSE [ok |-> TRUE, tiers |-> [t EXCEPT !.residents = @ \ {k}], staged |-> {"residents"}]

\* execute's dispatch, past the origin gate.
Effect(t, o) ==
    CASE o.op = "join"   -> HandleJoin(t, o.key)
      [] o.op = "leave"  -> HandleLeave(t, o.key)
      [] o.op = "grant"  -> HandleGrant(t, o.key)
      [] o.op = "revoke" -> HandleRevoke(t, o.key)

\* The operations of one block, each over what the ones before it staged.
ThenOp(acc, o) ==
    LET e == Effect(acc.tiers, o)
    IN  [tiers |-> e.tiers, staged |-> acc.staged \cup e.staged]

ApplyOps(t, ops) ==
    LET upTo[i \in 0 .. Len(ops)] ==
            IF i = 0 THEN [tiers |-> t, staged |-> {}] ELSE ThenOp(upTo[i - 1], ops[i])
    IN  upTo[Len(ops)]
================================================================================
