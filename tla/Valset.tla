-------------------------------- MODULE Valset ---------------------------------
(***************************************************************************)
(* The membership registry (crates/modules/system/valset/src/lib.rs): two  *)
(* tier records and a window of membership generations over a store with a *)
(* per-block staging overlay.  A block runs operations one by one and ends *)
(* in commit_block or abort_block.                                         *)
(***************************************************************************)
EXTENDS ValsetOps

CONSTANTS
    Genesis,        \* the descriptor's validators
    Retained,       \* RETAINED_GENERATIONS
    MaxOps,         \* bound: operations of one block
    MaxGeneration,  \* bound: generations
    MaxRoot         \* bound: committed batches

ASSUME GenesisAssumption ==
    /\ Genesis \subseteq WellFormed /\ Genesis # {} /\ Cardinality(Genesis) <= MaxMembers
    /\ Retained \in Nat \ {0}
    /\ MaxOps \in Nat /\ MaxGeneration \in Nat /\ MaxRoot \in Nat

VARIABLES
    committed,      \* the committed tiers
    overlay,        \* the tiers as this block sees them
    staged,         \* the tier records this block wrote
    generation,
    window,         \* generation -> retained snapshot
    root,           \* the store's root: one value per committed batch
    ops,            \* operations run in this block
    history         \* every committed membership, by generation

vars == <<committed, overlay, staged, generation, window, root, ops, history>>

\* finish_seed: generation 0 is the genesis membership.
Init ==
    LET t == [validators |-> Genesis, residents |-> {}]
    IN /\ committed = t /\ overlay = t /\ staged = {}
       /\ generation = 0 /\ window = [g \in {0} |-> t]
       /\ root = 1 /\ ops = 0
       /\ history = <<t>>

\* execute: only governance's follow-ups and the system may change membership.
Execute(origin, o) ==
    /\ ops < MaxOps
    /\ ops' = ops + 1
    /\ LET e == IF origin = "other" THEN Rejected(overlay) ELSE Effect(overlay, o)
       IN /\ overlay' = e.tiers
          /\ staged' = staged \cup e.staged
    /\ UNCHANGED <<committed, generation, window, root, history>>

\* advance_generation: snapshot the block's final tiers, prune the stale one.
AdvanceWindow(w, g, t) ==
    [h \in (DOMAIN w \cup {g}) \ {g - Retained} |-> IF h = g THEN t ELSE w[h]]

\* staged_membership_changed: a read-compare, not a dirty marker.
BugMembershipChanged == staged # {}     \* the marker

MembershipChanged == overlay # committed

CommitBlock ==
    /\ generation < MaxGeneration /\ root < MaxRoot          \* bounds
    /\ committed' = overlay
    /\ IF MembershipChanged
       THEN /\ generation' = generation + 1
            /\ window' = AdvanceWindow(window, generation + 1, overlay)
            /\ history' = Append(history, overlay)
       ELSE UNCHANGED <<generation, window, history>>
    /\ root' = IF staged # {} THEN root + 1 ELSE root
    /\ staged' = {} /\ ops' = 0
    /\ UNCHANGED overlay

BugAbortBlock ==                \* only the marks are dropped
    /\ ops > 0
    /\ staged' = {} /\ ops' = 0
    /\ UNCHANGED <<committed, overlay, generation, window, root, history>>

AbortBlock ==
    /\ ops > 0
    /\ overlay' = committed /\ staged' = {} /\ ops' = 0
    /\ UNCHANGED <<committed, generation, window, root, history>>

Next ==
    \/ \E origin \in {"governance", "system", "other"}, o \in Op : Execute(origin, o)
    \/ CommitBlock
    \/ AbortBlock

Spec == Init /\ [][Next]_vars

(***************************************************************************)
(* Properties                                                              *)
(***************************************************************************)
TypeOK ==
    /\ committed \in Tiers /\ overlay \in Tiers
    /\ staged \subseteq {"validators", "residents"}
    /\ generation \in 0..MaxGeneration
    /\ DOMAIN window \subseteq 0..MaxGeneration
    /\ \A g \in DOMAIN window : window[g] \in Tiers
    /\ root \in Nat /\ ops \in 0..MaxOps

\* "the validator set must NEVER go empty" (a quorum over zero validators
\* halts the node), also for two leaves staged in one block.
NeverEmpty == committed.validators # {} /\ overlay.validators # {}

\* The tiers are "disjoint by construction": promotion moves a key, and grant
\* refuses a validator, whatever sequence of operations a block runs.
TiersDisjoint ==
    /\ committed.validators \cap committed.residents = {}
    /\ overlay.validators \cap overlay.residents = {}

\* The registry every quorum and every mesh is built from stays well formed,
\* committed, staged and in the retained generations, for any sequence of
\* operations in a block: well-formed keys only (validate_key), at least one
\* validator, and no key in both tiers.
TiersSound == TypeOK /\ NeverEmpty /\ TiersDisjoint

\* The window every node tracks is the last Retained memberships of the
\* replicated history, the newest being the committed one, whatever mix of
\* changing, net-zero and aborted blocks led there.
WindowIsHistory ==
    /\ Len(history) = generation + 1
    /\ history[Len(history)] = committed
    /\ DOMAIN window = {g \in 0..generation : g + Retained > generation}
    /\ \A g \in DOMAIN window : window[g] = history[g + 1]
    /\ \A g \in 1..generation : history[g] # history[g + 1]

\* A block that changed membership always moves the root, so the observation
\* barrier sees it.
ChangeMovesRoot == [][committed' # committed => root' # root]_vars
================================================================================
