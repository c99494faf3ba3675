----------------------------- MODULE EpochCutover ------------------------------
(***************************************************************************)
(* Several validators crossing epoch boundaries over one agreed log        *)
(* (consensus/src/valset_orchestrator.rs driven by drain_pass, the drain   *)
(* of node/src/lib.rs, and the boot path of bin/node).  Each validator     *)
(* drains the finalized views of its epoch in passes of its own size,      *)
(* observes the membership after each pass, arms a cutover Delay views out,*)
(* discards from there on, and respawns over the membership it reads at    *)
(* the boundary.  It may checkpoint between passes and may crash anywhere; *)
(* the restart re-derives the armed cutover from its manifest and journal. *)
(*                                                                         *)
(* The engine is external: epoch e finalizes log[e], the same views for    *)
(* every validator of that epoch, and releases them in ascending order.    *)
(* View 0 and height 0 stand for None.                                     *)
(***************************************************************************)
EXTENDS ValsetOps

CONSTANTS
    Validator,      \* the validators followed (keys of the genesis set)
    Genesis,        \* the genesis tiers
    Block,          \* what a view may finalize: the valset operations it holds
    Delay,          \* CUTOVER_DELAY
    Crashes,        \* bound: restarts, over all validators
    ReadFaults,     \* which valset reads of the orchestration may fail
    MaxView,        \* bound: views of each epoch
    MaxEpoch        \* bound: epochs

ASSUME CutoverAssumption ==
    /\ Validator \subseteq Genesis.validators /\ Validator # {}
    /\ Genesis \in Tiers
    /\ Block \subseteq Seq(Op)
    /\ Delay \in Nat \ {0}
    /\ Crashes \in Nat
    /\ ReadFaults \subseteq {"validators", "residents"}
    /\ MaxEpoch \in Nat /\ MaxView \in [0..MaxEpoch -> Nat]

VARIABLES
    log,            \* external: epoch -> the finalized views
    turn,           \* "idle", "pass" (in drain_delivered), "broke" (barrier
                    \* hit), "gone" (demoted: the process exited)
    at,             \* last view popped: last_engine_view once the pass ends
    tiers, root,    \* committed valset state and its root
    chain,          \* sealed blocks, with the valset root each left
    epoch, base, current, pending,      \* ValsetOrchestrator
    manifest,       \* the checkpoint on disk
    crashes         \* bound: restarts taken

nodeVars == <<turn, at, tiers, root, chain, epoch, base, current, pending,
              manifest>>
vars == <<log, nodeVars, crashes>>

Epoch == 0..MaxEpoch

Init ==
    /\ log = [e \in Epoch |-> <<>>]
    /\ turn = [v \in Validator |-> "idle"]
    /\ at = [v \in Validator |-> 0]
    /\ tiers = [v \in Validator |-> Genesis]
    /\ root = [v \in Validator |-> 0]
    /\ chain = [v \in Validator |-> <<>>]
    /\ epoch = [v \in Validator |-> 0]
    /\ base = [v \in Validator |-> 0]
    /\ current = [v \in Validator |-> Genesis]
    /\ pending = [v \in Validator |-> 0]
    /\ manifest = [v \in Validator |-> [epoch |-> 0, sealed |-> 0, root |-> 0, pending |-> 0]]
    /\ crashes = 0

\* The engine of epoch e finalizes one more view.
Finalize(e, b) ==
    /\ \E v \in Validator : epoch[v] = e /\ turn[v] # "gone"
    /\ Len(log[e]) < MaxView[e]
    /\ log' = [log EXCEPT ![e] = Append(@, b)]
    /\ UNCHANGED <<nodeVars, crashes>>

(***************************************************************************)
(* drain_delivered, one view at a time                                     *)
(***************************************************************************)
Tip(v) == IF chain[v] = <<>> THEN 0 ELSE chain[v][Len(chain[v])].height
NextView(v) == at[v] + 1
HeightOf(v, w) == base[v] + w

MayPop(v) ==
    /\ turn[v] \in {"idle", "pass"}
    /\ at[v] < Len(log[epoch[v]])

\* A re-report of a view sealed before the restart, or a view at or past the
\* ceiling: only the engine clock moves.
IsResumeReplay(v) == HeightOf(v, NextView(v)) <= Tip(v)

BugIsDiscarded(v) == pending[v] # 0 /\ NextView(v) > pending[v]     \* off by one

IsDiscarded(v) == pending[v] # 0 /\ NextView(v) >= pending[v]

PassOver(v) ==
    /\ MayPop(v)
    /\ IsResumeReplay(v) \/ IsDiscarded(v)
    /\ at' = [at EXCEPT ![v] = NextView(v)]
    /\ turn' = [turn EXCEPT ![v] = "pass"]
    /\ UNCHANGED <<log, tiers, root, chain, epoch, base, current, pending,
                   manifest, crashes>>

\* The block runs and is sealed; the barrier ends the pass when it moved the
\* valset root.
BugBarrier(moved) == "pass"         \* no observation barrier

Barrier(moved) == IF moved THEN "broke" ELSE "pass"

Apply(v) ==
    /\ MayPop(v)
    /\ ~IsResumeReplay(v) /\ ~IsDiscarded(v)
    /\ LET w == NextView(v)
           e == ApplyOps(tiers[v], log[epoch[v]][w])
           moved == e.staged # {}
           r == IF moved THEN root[v] + 1 ELSE root[v]
       IN /\ tiers' = [tiers EXCEPT ![v] = e.tiers]
          /\ root' = [root EXCEPT ![v] = r]
          /\ chain' = [chain EXCEPT ![v] =
                Append(@, [height |-> HeightOf(v, w), block |-> log[epoch[v]][w], root |-> r])]
          /\ turn' = [turn EXCEPT ![v] = Barrier(moved)]
          /\ at' = [at EXCEPT ![v] = w]
    /\ UNCHANGED <<log, epoch, base, current, pending, manifest, crashes>>

\* The pass ends when what was delivered is drained, or at the barrier.  The
\* orchestration step follows in the same turn, and so it does in a turn that
\* had nothing to drain, once the engine has drained a view.
Observing(v) == turn[v] \in {"pass", "broke"} \/ (turn[v] = "idle" /\ at[v] # 0)

\* A failed validator read skips the step.
SkipObservation(v) ==
    /\ "validators" \in ReadFaults
    /\ Observing(v)
    /\ turn' = [turn EXCEPT ![v] = "idle"]
    /\ UNCHANGED <<log, at, tiers, root, chain, epoch, base, current, pending, manifest,
                   crashes>>

\* What the two reads return; an unreadable resident tier reads as empty.
BugObservations(v) ==           \* so does an unreadable validator tier
    {tiers[v]} \cup
    (IF "validators" \in ReadFaults THEN {[tiers[v] EXCEPT !.validators = {}]} ELSE {})

Observations(v) ==
    {tiers[v]} \cup
    (IF "residents" \in ReadFaults THEN {[tiers[v] EXCEPT !.residents = {}]} ELSE {})

\* observe_members: an armed boundary never moves.
BugArmed(v, seen) ==            \* a later change re-arms it
    IF seen # current[v] THEN at[v] + Delay ELSE pending[v]

Armed(v, seen) ==
    IF pending[v] # 0 THEN pending[v]
    ELSE IF seen # current[v] THEN at[v] + Delay
    ELSE 0

IsDue(v, seen) == Armed(v, seen) # 0 /\ at[v] >= Armed(v, seen)

Observe(v, seen) ==
    /\ Observing(v)
    /\ ~IsDue(v, seen)
    /\ pending' = [pending EXCEPT ![v] = Armed(v, seen)]
    /\ turn' = [turn EXCEPT ![v] = "idle"]
    /\ UNCHANGED <<log, at, tiers, root, chain, epoch, base, current, manifest, crashes>>

\* A new engine's views start over.
BugFreshClock(v) == UNCHANGED at            \* last_engine_view not cleared

FreshClock(v) == at' = [at EXCEPT ![v] = 0]

\* respawn_if_due, then OrderedNode::cutover: the journal's cutover record
\* makes the new coordinates durable; the manifest follows, or fails to.
BugCutoverBase(v) == HeightOf(v, at[v])     \* the view it crossed at

CutoverBase(v) == HeightOf(v, pending[v])

Cutover(v, seen) ==
    /\ Observing(v)
    /\ IsDue(v, seen)
    /\ epoch[v] < MaxEpoch
    /\ v \in seen.validators
    /\ epoch' = [epoch EXCEPT ![v] = @ + 1]
    /\ base' = [base EXCEPT ![v] = CutoverBase(v)]
    /\ current' = [current EXCEPT ![v] = seen]
    /\ pending' = [pending EXCEPT ![v] = 0]
    /\ FreshClock(v)
    /\ turn' = [turn EXCEPT ![v] = "idle"]
    /\ UNCHANGED <<log, tiers, root, chain, manifest, crashes>>

\* The boundary set no longer holds this validator: the process exits.
Demote(v, seen) ==
    /\ Observing(v)
    /\ IsDue(v, seen)
    /\ v \notin seen.validators
    /\ turn' = [turn EXCEPT ![v] = "gone"]
    /\ UNCHANGED <<log, at, tiers, root, chain, epoch, base, current, pending,
                   manifest, crashes>>

\* The periodic and the post-cutover checkpoint: after the orchestration step.
BugMayCheckpoint(v) == turn[v] # "gone"     \* also before the observation

MayCheckpoint(v) == turn[v] = "idle"

Checkpoint(v) ==
    /\ MayCheckpoint(v)
    /\ crashes < Crashes            \* bound: only a restart reads the manifest
    /\ manifest' = [manifest EXCEPT ![v] =
          [epoch |-> epoch[v], sealed |-> Len(chain[v]), root |-> root[v],
           pending |-> pending[v]]]
    /\ UNCHANGED <<log, turn, at, tiers, root, chain, epoch, base, current,
                   pending, crashes>>

\* derive_pending_boot: the checkpoint's own pending cutover, else the first
\* block sealed after it, above the epoch base, that moved the valset root.
BugDerivePending(v) ==          \* the journal is not scanned
    IF manifest[v].epoch = epoch[v] THEN manifest[v].pending ELSE 0

DerivePending(v) ==
    LET m == manifest[v]
        own == IF m.epoch = epoch[v] THEN m.pending ELSE 0
        before(i) == IF i = m.sealed + 1 THEN m.root ELSE chain[v][i - 1].root
        moves == {i \in (m.sealed + 1)..Len(chain[v]) :
                    chain[v][i].height > base[v] /\ chain[v][i].root # before(i)}
        first == CHOOSE i \in moves : \A j \in moves : i <= j
    IN IF own # 0 THEN own
       ELSE IF moves # {} THEN chain[v][first].height - base[v] + Delay
       ELSE 0

\* Seals and cutover records are durable, so the sealed state, the epoch
\* coordinates and the epoch's sets come back as they were; the engine
\* re-reports the views of its journal from the start of the epoch.
Restart(v) ==
    /\ turn[v] # "gone"
    /\ crashes < Crashes /\ crashes' = crashes + 1
    /\ turn' = [turn EXCEPT ![v] = "idle"]
    /\ FreshClock(v)
    /\ pending' = [pending EXCEPT ![v] = DerivePending(v)]
    /\ UNCHANGED <<log, tiers, root, chain, epoch, base, current, manifest>>

Next ==
    \/ \E e \in Epoch, b \in Block : Finalize(e, b)
    \/ \E v \in Validator :
          \/ PassOver(v) \/ Apply(v) \/ SkipObservation(v)
          \/ \E seen \in Observations(v) :
                Observe(v, seen) \/ Cutover(v, seen) \/ Demote(v, seen)
          \/ Checkpoint(v) \/ Restart(v)

Spec == Init /\ [][Next]_vars

(***************************************************************************)
(* Properties                                                              *)
(***************************************************************************)
TypeOK ==
    /\ log \in [Epoch -> Seq(Block)]
    /\ turn \in [Validator -> {"idle", "pass", "broke", "gone"}]
    /\ \A v \in Validator : at[v] \in 0..Len(log[epoch[v]])
    /\ tiers \in [Validator -> Tiers] /\ current \in [Validator -> Tiers]
    /\ root \in [Validator -> Nat] /\ base \in [Validator -> Nat]
    /\ epoch \in [Validator -> Epoch]
    /\ pending \in [Validator -> Nat]
    /\ crashes \in 0..Crashes

\* Two validators seal the same blocks at the same heights with the same
\* valset root after each: one chain is a prefix of the other, however
\* differently their passes were cut and wherever they crashed.
SameChain ==
    \A u, v \in Validator : \A i \in DOMAIN chain[u] \cap DOMAIN chain[v] :
        chain[u][i] = chain[v][i]

\* A cutover is armed "at the same view on every node", by observation or by
\* the restart's derivation.
SameBoundary ==
    \A u, v \in Validator :
        epoch[u] = epoch[v] /\ pending[u] # 0 /\ pending[v] # 0 => pending[u] = pending[v]

\* Between turns a validator whose membership moved away from its epoch's has
\* a ceiling armed: a crash between the seal and the observation, or a
\* checkpoint at the changing height, must not lose it.
ChangeIsArmed ==
    \A v \in Validator : turn[v] = "idle" /\ tiers[v] # current[v] => pending[v] # 0

\* State is frozen at the boundary: nothing is sealed at or past the ceiling.
FrozenPastCeiling ==
    \A v \in Validator : pending[v] # 0 => Tip(v) < HeightOf(v, pending[v])

\* A membership change has one boundary: every validator that knows of the
\* change has it armed, at the same view, seals nothing at or past it, and its
\* engine clock stays within the epoch it is in.
BoundaryAgreed == TypeOK /\ SameBoundary /\ ChangeIsArmed /\ FrozenPastCeiling

\* No boundary without a reason: an armed cutover has a block of this epoch,
\* Delay views or more before it, that moved the membership root, also when
\* reads of the validator tier fail ("would arm a bogus cutover no other
\* validator armed").
RootBefore(v, i) == IF i = 1 THEN 0 ELSE chain[v][i - 1].root
ArmedByChange ==
    \A v \in Validator : pending[v] # 0 =>
        \E i \in DOMAIN chain[v] :
            /\ chain[v][i].root # RootBefore(v, i)
            /\ chain[v][i].height > base[v]
            /\ chain[v][i].height + Delay <= HeightOf(v, pending[v])

\* The longest chain is the ledger; a restart, a checkpoint, a pass and an
\* observation are invisible.
Ledger == LET longest == CHOOSE v \in Validator :
                            \A u \in Validator : Len(chain[u]) <= Len(chain[v])
          IN chain[longest]

Agreed == INSTANCE AgreedChain WITH
    Ledgers <- Seq([height : Nat, block : Block, root : Nat]),
    ledger <- Ledger,
    held <- [v \in Validator |-> Len(chain[v])],
    entered <- [v \in Validator |->
                  [epoch |-> epoch[v], base |-> base[v], members |-> current[v]]]

\* The validators implement one ledger and one sequence of epochs: each seals
\* the next block its peers sealed, or, in the newest epoch only, adds one; the
\* first to cross closes the epoch behind and the others cross into the same
\* one with exactly its blocks; a crash changes nothing of this.
ImplementsAgreedChain == Agreed!Spec
================================================================================
