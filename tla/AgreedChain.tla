------------------------------ MODULE AgreedChain ------------------------------
(***************************************************************************)
(* What crossing epochs promises, with the engine, the passes, the armed   *)
(* boundaries, the checkpoints and the crashes left out: there is one      *)
(* ledger; a validator holds a prefix of it, which only grows; and an      *)
(* epoch has one height base and one membership, set by the first          *)
(* validator to cross into it and found by the others.  Once somebody has  *)
(* crossed, the ledger of the epoch behind is closed.                      *)
(***************************************************************************)
EXTENDS Naturals, Sequences

CONSTANTS
    Validator,
    Ledgers,        \* the values the ledger may take
    Genesis         \* the membership of epoch 0

VARIABLES
    ledger,         \* the blocks, each with its height
    held,           \* validator -> how many of them it has sealed
    entered         \* validator -> the epoch it is in: index, base, membership

vars == <<ledger, held, entered>>

Height(i) == IF i = 0 THEN 0 ELSE ledger[i].height

Init ==
    /\ ledger = <<>>
    /\ held = [v \in Validator |-> 0]
    /\ entered = [v \in Validator |-> [epoch |-> 0, base |-> 0, members |-> Genesis]]

IsFrontier(v) == \A u \in Validator : entered[u].epoch <= entered[v].epoch

\* A validator of the newest epoch, holding the whole ledger, adds a block.
Extend(v) ==
    /\ IsFrontier(v)
    /\ held[v] = Len(ledger)
    /\ Len(ledger') = Len(ledger) + 1
    /\ ledger' \in Ledgers
    /\ SubSeq(ledger', 1, Len(ledger)) = ledger
    /\ ledger'[Len(ledger')].height > entered[v].base
    /\ ledger'[Len(ledger')].height > Height(Len(ledger))
    /\ held' = [held EXCEPT ![v] = @ + 1]
    /\ UNCHANGED entered

\* A validator seals the block its peers sealed next.
Follow(v) ==
    /\ held[v] < Len(ledger)
    /\ Height(held[v] + 1) > entered[v].base
    /\ held' = [held EXCEPT ![v] = @ + 1]
    /\ UNCHANGED <<ledger, entered>>

\* The first to cross closes the epoch: it holds the whole ledger, which stays
\* below the new base.  The others cross into the same epoch, holding exactly
\* the blocks below its base.
Enter(v, base, members) ==
    LET e == entered[v].epoch + 1
        there == {u \in Validator : entered[u].epoch = e}
    IN /\ IsFrontier(v) => held[v] = Len(ledger)
       /\ base > Height(held[v])
       /\ held[v] < Len(ledger) => Height(held[v] + 1) > base
       /\ \A u \in there : entered[u].base = base /\ entered[u].members = members
       /\ entered' = [entered EXCEPT ![v] = [epoch |-> e, base |-> base, members |-> members]]
       /\ UNCHANGED <<ledger, held>>

Next ==
    \E v \in Validator :
        \/ Extend(v) \/ Follow(v)
        \/ Enter(v, entered'[v].base, entered'[v].members)

Spec == Init /\ [][Next]_vars
================================================================================
