# ducktape: the ordered core, in TLA+

ducktape is a replicated workspace: validators agree on an order of signed
frames with a simplex BFT engine, and every validator applies the agreed batches
to the same deterministic modules. This directory models the part of it that
turns "the engine finalized something" into "every validator holds the same
state, also after a crash": the consensus seam, the ordered node, the epoch
boundaries, the recovery journal, the host's block engine, and the system
modules whose state machines the rest depends on (membership, asynchronous
work, dispatch queues, governance). TLC checks small instances, TLAPS proves
the safety properties for every value of the constants.

Paths below are relative to the repository root.

## 1. Inventory

| Component | State it keeps | Operations | Modelled by |
|---|---|---|---|
| Consensus seam, `crates/kernel/consensus/src/lib.rs` | content store (pinned, cached, eviction queue), FIFO of own proposals, view-keyed inbox (log, ready, seen), parked fetches, retained certificates | submit, payload gossip, report, fetch and delivery, drain, floor persistence | `OrderedGate` |
| Ordered node, `crates/kernel/node/src/lib.rs` | custody map and its counters, pending batch, deferred deliveries, view base, ceiling, floors, replay window, finalized boundary | submit_frame, flush_batch, drain_delivered, cutover, resume | `OrderedNode` |
| Epoch orchestration, `consensus/src/valset_orchestrator.rs`, `bin/node/src/validator/run/drain.rs`, `sync/catchup.rs`, `validator/engine.rs` | epoch, base, current sets, armed cutover, manifest | observe_members, respawn_if_due, checkpoint, derive_pending_boot, boot | `EpochCutover`, which implements `AgreedChain`; the tick of `OrderedNode` for one validator |
| Recovery journal, `crates/kernel/recovery/src/lib.rs`, `trailing.rs` | op log, manifest, floor certificate, module stores of three durabilities | pre_apply, witness, commit, seal, cutover, checkpoint, prune, recover | `Recovery` |
| Module host, `crates/kernel/host/src/lib.rs` | one block's stage, its accepted units, the rollback budget | prepare_work, apply_block, run_call, run_delivery, commit, abort; the acl gate | `Dispatch`; the gate in `Governance` |
| Membership registry, `crates/modules/system/valset/src/lib.rs` | two tiers, generation counter and window, staging overlay, store root | join, leave, grant, revoke, commit_block, abort_block, seed | `ValsetOps`, `Valset` |
| Saga ledger, `crates/modules/system/saga/src/lib.rs` | records, live index, receipt tail, quotas | trigger, result, renew, reassign, accept, crank, cancel, prune, paged queries | `Saga`, which implements `AsyncWork` |
| Dispatch, `crates/modules/system/dispatch/src/lib.rs` | dispatch and call records, call queue, mailbox, number reservations | dispatch, cancel, call, complete, saga callback, acknowledge | `Dispatch`, over the ledger as `AsyncWork` describes it |
| Governance and acl, `crates/modules/system/governance/src/lib.rs`, `acl/src/lib.rs` | proposals, roster, shares, voting mode, redeemed invites; submit policies | propose, vote, execute, redeem; set policy | `Governance`, over the handlers of `ValsetOps` |
| Code registry, state sync, follower orderer | scheduled swaps; boundary, chunks, backfill | schedule, arm, cancel; serve, catch-up | section 8 |
| Other modules, services, networking, duckfs, wasm host, indexer, app and views | | | not planned; reasons in `PROJECT.json` |

How they interact. Clients hand frames to `submit_frame` of one validator;
`flush_batch` packs them into batches and queues them at the engine. The engine
calls `SimplexReporter::report` from its own task for every certificate; the
reporter records the digest in `FinalizedInbox` and starts a fetch if the bytes
are missing. The validator's single run-loop task polls the inbox
(`drain_delivered`), journals, executes, commits and seals blocks, then observes
the membership (`observe_members`), persists the floor certificate and
checkpoints. A membership change arms a cutover a few views out; views from
there on are discarded, and at the boundary the engine is torn down and
respawned over the new set, with unresolved accepted frames carried over.
Inside a block the host runs each member as a unit that stages all or nothing,
then the calls and deliveries that headed dispatch's committed queues. A
dispatch triggers a saga; the saga's end calls dispatch back in the same unit.
A proposal that passes emits the membership or policy operation as a follow-up
in its own unit.

What is hard: the reporter, the fetcher and the run loop interleave; the engine
repeats reports after a restart and may report the tip before the gap below it;
payloads arrive late; validators cut their drain passes differently; a crash can
fall between any two of a journal write, a module commit, a seal, an observation
and a checkpoint; armed cutovers live in memory only; three replay guards (inbox
gate, resume floor, replay window) have different lifetimes; derived indexes,
counters and queues sit beside the records they summarise; a mandate, a lease or
a prepared call is checked in one state and used in another. `PROJECT.json`
lists each hazard at its line with the properties that cover it.

## 2. Modules

### OrderedGate: one validator's consensus seam, one epoch
Variables are the fields of `StoreInner`, `PendingProposals`, `FinalizedInner`,
`PayloadFetcher` and `RetainedFinalizations`; `certified`, `inflight` and
`released` are the engine, the resolver and a history variable. `Report` is the
whole of `SimplexReporter::report` on a finalization: remove from the proposal
queue, record, fetch or park, demote, retain. `Drain` is one
`FinalizedInbox::drain`. `ReadFloor` and `PersistFloor` are the block of
`drain_pass` that writes the floor certificate: the certificate is read first,
the release point later, and reports may fall in between while the draining
thread is here; the sealed tip the certificate is matched to may be any view
handed to the node. A payload is its digest. The engine may report in any
order; the history variable `ascending` is true while every new view was
reported above the earlier ones, and the properties that need it say so.

### OrderedNode: one validator, one process lifetime, several epochs
`turn` serialises the run loop's turns (submit, flush, drain, tick); only the
engine (`Certify`) runs beside them. `drain_delivered` is one action per way a
delivered batch can go: `SkipResumeReplay`, `RefuseOutOfOrder`, `Discard`,
`SealRefused` (replayed, undecodable or rejected by the system work), `Stall`,
`HostFatal`, `Execute`; `EndDrain` is the assignments after the loop, which a
stall skips. `Cutover` is `respawn_if_due` and `OrderedNode::cutover` up to its
flush, which the following flush turn performs. A batch is the sequence of its
members and its own content address. The watched root's movement is the
parameter `moved` of `Execute`. `Recovered` holds the blocks sealed before the
process started. A journal write that fails exits the process; it is part of
`HostFatal` and not repeated for the seals of refused batches.

### ValsetOps and Valset: the membership registry
`ValsetOps` has the four handlers as functions from tiers to tiers, with the
records each one stages; `Valset` is the module's block machine: an overlay, the
committed tiers, the generation window, and a root that moves once per commit
that staged anything (a byte-identical overwrite is still a store operation).

### EpochCutover and AgreedChain: several validators over one agreed log
Each validator drains `log[epoch]` in passes of its own size (`PassOver`,
`Apply`, ended by the barrier), runs the orchestration step (`Observe`,
`Cutover`, `Demote`, `SkipObservation` when the read fails), checkpoints, and
may crash and restart from its manifest and journal roots (`DerivePending`).
Seals and cutover records are durable; the engine re-reports the epoch from its
start. `AgreedChain` is what this promises: one ledger, of which every validator
holds a growing prefix, and per epoch one base and one membership. The
refinement maps the longest chain to the ledger.

### Recovery: one validator's journal, crashes and boots
A block goes through `Sync`, `PreApply` (the Block record), `Execute` (the
Schedule and Witnessed records), one `Commit` per module in the host's order,
`SealBlock` and `Settle`; a replay-refused batch goes through `SealReplayed`.
`EndPass`, `StallPass`, `PersistFloor`, `Cutover`, `EnterEpoch`,
`CutoverCheckpoint`, `Checkpoint` and `Prune` are the rest of the drain pass.
`Crash` may fall anywhere and loses what was not durable; `Recover` is the whole
of `recover_with_sink` with `classify_trailing`, `RefuseBoot` its error exits. A
module's state is the sequence of heights committed into it, so a block committed
twice is visible; `StatesOf` is what it should be after each height. `todo` is
the set of modules still to commit, taken in the order of their ids.

### Saga and AsyncWork: the ledger of asynchronous work
One action per operation, each the whole handler: `Trigger`, `OracleResult`,
`RenewLease`, `Reassign`, `Accept`, `Crank`, `Cancel`, `Prune`; `Tick` is the
next height. Records, the live index, the receipt tail and the quotas are
separate variables, as they are separate keys. `orders` is what workers have
been told to do and not told to stop. `Page` and `Walk` are the paged
projections followed by their cursor. The module implements `AsyncWork`: an id
opens once, ends once, and its requester is called back once. `Ahead` is the
order of the crank's slice: what comes before a due saga.

### Dispatch: the two queues and the block engine that drains them
`Begin` prepares the heads of the committed queues; `Member` runs one
transaction (a dispatch, a call, a cancel, or a saga's end with its callback;
also a saga that calls back again after its end, which `AsyncWork` rules out and
dispatch checks for itself), `MemberRejected` is one or more that reject and are
rolled back; `MembersDone` turns to the prepared work;
`RunQueued` runs one call or delivery with its finalizer, whichever way it goes;
`BudgetOut` gives up on the rest of the block; `Commit` or `Abandon` ends it.
`committed` and `staged` are two worlds of the same shape. Receivers, targets
and the identity check may answer anything; dispatch may refuse the record of a
call that was applied, although its admission made room for it. The host
collects the queue heads of every module (attribution's come before dispatch's,
the runs' after); of those other items the model has what they may do to
dispatch: `OthersTurn` lets `Member` and `MemberRejected` happen where they run,
on the same rollback budget.

### Governance: proposals, ballots, mandates, invites
`Propose`, `Vote`, `Execute`, `ExecuteLate` (past the execution window) and
`Redeem`, each behind the host's acl gate. `net` holds what a passing proposal
moves: the tiers (through the handlers of `ValsetOps`), shares, voting mode and
the two policy entries that govern governance, `"governance"` and `"*"`. `Enact`
gives what an action comes to in the current state: performed, settled Rejected
because the mandate went stale, or refused by the follow-up, in which case the
host rolls the whole operation back.

### MC modules and proofs
`MCOrderedGate`, `MCOrderedNode`, `MCValset`, `MCEpochCutover`, `MCRecovery`,
`MCSaga`, `MCDispatch` and `MCGovernance` give the constants their values.
`OrderedGateProofs`, `OrderedNodeProofs`, `ValsetProofs`, `EpochCutoverProofs`,
`RecoveryProofs`, `SagaProofs`, `DispatchProofs` and `GovernanceProofs` hold the
theorems; each extends the module it is about.
Operators named `Bug...` are plausible mistakes in the definition they precede;
none is used by a specification. They are there to confirm that each property
notices its mistake.

## 3. Runs that pass

| Run | What it shows |
|---|---|
| `gate` | any report order, repeats, double certification: `TypeOK` (with the cache bound), `ExactlyOnce`, `NothingLost`, and the liveness property `EveryFinalizationReleased`; while reports ascend also `CanonicalRelease` and `FloorCoversReleased` |
| `node_carry` | well-behaved clients over a cutover: `AcceptedOnceInOrder`, `NeverOutOfOrder`, `TypeOK`, and the liveness property `AcceptedResolves` |
| `node_resume` | a restarted node, any release order, retrying clients, foreign and undecodable batches, rejected system work: `CustodyAccounted`, `ChainOrdered`, `NoReplayInWindow`, `BoundaryIsTip` |
| `valset_ok` | `TiersSound` (with the types: no malformed key is stored), `WindowIsHistory`, `ChangeMovesRoot` |
| `cutover_restart` | passes of different size, one crash and checkpoints anywhere: `BoundaryAgreed`, and the refinement `ImplementsAgreedChain` |
| `cutover_retry` | joins, leaves and an ousted validator with failing validator reads: `ArmedByChange` |
| `recovery` | two crashes anywhere: `RecoveredIsAgreed` (a boot rebuilds exactly the agreed blocks and the replay window), `RefusedForCause` (a boot is refused only for the causes the code names), `NothingForgotten` (no sealed height or epoch goes back), `TypeOK`, and the liveness property `CatchesUp` |
| `saga` | `IndexesAgree`, `LedgerBounded` (the quotas, and which receipt the trim may take), `OneExecutor`, the refinement `ImplementsAsyncWork`, `OverdueReached` (nothing in the ledger overtakes overdue work at the crank), and the liveness property `DeadlineHonoured` |
| `dispatch` | `QueuesSound`, `OnceInOrder` (effects and outcomes exactly once, in queue order, across rollbacks, refused finalizers and dropped blocks), `NeverSameBlock`, and the liveness property `QueuesDrain` |
| `governance` | `RosterSound`, `NeverWedged`, `MandateStands`, `StandingEarned`, `ElectorateReachable` |

### Bounds
- Gate: 2 digests, 3 views, cache of 1, 2 retained certificates, 2 queued
  proposals. Two digests over three views give every order of record, fetch and
  release with a gap, a digest certified twice, and a certificate pushed out of
  the retained window; a cache of one evicts on every second payload.
- Node: frames `a1`, `a2` of one origin and `b1`, `x` of another (`x` comes from
  other validators), batches of two, two batches per flush, a replay window of
  2, delay 1, one cutover, three views per epoch. The window is smaller
  than the chain, the mempool caps are reached, and a batch can straddle the
  boundary. `node_resume` uses two frames to afford every release order.
- Valset: three well-formed keys and a malformed one, a cap of 2, blocks of up
  to three operations, a window of 2 over 3 generations: the cap, the last
  validator, promotion and pruning all happen.
- Cutover: two validators, a third key that joins, leaves or is granted
  residence, delay 2, four views in epoch 0 and one or two in epoch 1, at most
  one crash. Two changes inside one armed window fit, and so does a change after
  the crash.
- Recovery: one module of each durability, a batch that writes all of them, one
  that writes two (and may be this node's own), one that is refused; three
  heights, one cutover, a replay window of 2, two crashes. Two crashes are the
  least that interrupt a recovery's own follow-up work. `IdleBlocks` (2) is
  `IDLE_CHECKPOINT_BLOCKS`, 1800 in the code: checkpoints of a state that did
  not move, labelled with an older height after a stall, are among those taken.
- Saga: ids of two origins with caps, two workers, three triggers (so one id is
  triggered again after a prune), three heights, a default lease of 1, a crank
  budget of 1, a tail of 2 receipts, pages of 2. Three triggers and two attempts
  are too few to starve a saga, so `DeadlineHonoured` does not tell one order of
  the slice from another; `OverdueReached` does, crank by crank, and two overdue
  sagas are enough to violate it. The strict lease policy; see section 4 for the
  open one.
- Dispatch: two dispatch keys and two calls, mailbox numbers up to 3 (so the
  last number is reached), two entries per queue and block, a rollback budget
  of 2 where the code has 8, and one fault (`MaxFaults`): a dropped block, or a
  run of rejections by others, which may take any part of the budget or all of
  it. Units emit up to two follow-ups. At most one block does no queued work for want
  of budget; section 4 says what more of them would do.
- Governance: two proposals at a time and for ever (ids are permanent), one open
  proposal per proposer, a voting period and a grace of 1 within three instants,
  founders k1 and k2, a candidate, a key that is no curve point, two accounts of
  equal shares, one of them with two keys. Two proposals are enough for every
  pair of a mandate and the change that makes it stale. The two ids are
  interchangeable (symmetry). Clearing a policy entry is not among the actions;
  section 4 says what it does.

Deadlock is not checked: every model stops at its bounds, and validators halt.

### Fairness
- `gate`: the run loop polls the inbox on every tick (strong fairness, since the
  same thread is at the floor certificate in between) and finishes with the
  certificate it read; a resolver fetch is
  retried until a peer serves it; every view brings activities that retry parked
  fetches, and the mailbox is not full for ever.
- `node_carry`: the loop keeps taking its turns; the engine eventually certifies
  what heads this node's queue (leaders rotate, and `propose` peeks until the
  head finalizes); a stalled block is retried each tick until its code arrives
  (strong fairness of `Execute`, since a stall re-enters the pass). The promise
  ends where the bounds are reached or the process exits.
- `recovery`: the process does its next step, and a dead process is started
  again by its supervisor. Nothing is assumed of the engine.
- `saga`: views pass, and somebody cranks; Crank is permissionless and every
  validator's pump sends it when the expiry query reports something due.
- `dispatch`: an idle chain still finalizes one empty block per block time, so
  the block engine keeps running.
- `governance`: none. Expiry is lazy in the code, so nothing is promised to
  happen without somebody's operation.

## 4. Where the code and its comments disagree

Two runs end in a violation; `PROJECT.json`, "findings", quotes the sentence
each one refutes.

| Run | Behaviour found |
|---|---|
| `cutover_churn` | A leave and re-join in one block moves the valset root without changing the membership; a restart then arms a cutover nobody else armed, because `derive_pending_boot` compares roots and `observe_members` compares members. The chains diverge. |
| `recovery_repeat` | A batch that repeats a member: the live drain runs the member once, `replay_batch` runs it as often as it is listed. A crash inside such a block rebuilds a state the peers do not have. |

The following were met while modelling. Each can be reproduced by the change of
a constant or of a property that is named; no run states them.

- `consensus/src/lib.rs:1142` says that the engine may report the tip before
  the gap; the drain at 1225 then releases the lower views after it, and the
  node's out-of-order check exits the process. `CanonicalRelease` and
  `FloorCoversReleased` are therefore conditional on `ascending`.
- A frame retried after it resolved and packed into the byte-identical batch is
  swallowed by the exactly-once gate (`consensus/src/lib.rs:1135`) and keeps its
  custody slot until the next cutover (`node/src/lib.rs:1207`); packed with
  another companion it is a new digest and runs twice (`bin/node/src/relay.rs:11`
  against `node/src/lib.rs:1870`). `node_carry` has clients that send a frame once.
- When the once-per-block system work (the code registry's `Advance`) rejects a
  block, the whole batch is sealed as one rejected block
  (`node/src/lib.rs:2049` to 2066). Its members have no verdict of their own and
  stay in custody until a cutover resubmits them, which may never come, where
  `node/src/lib.rs:1207` promises an accepted frame to be "ordered, or
  deterministically rejected". With `AdvanceRejects` TRUE neither
  `AcceptedResolves` nor the part of `AcceptedOnceInOrder` that keeps an accepted
  frame on its way holds; `node_carry` and `NodeAcceptedOnceInOrder` exclude it.
- An unreadable resident tier reads as empty (`host_reads.rs:30`) and arms a
  boundary alone, where `drain.rs:785` says that a failed read is skipped so that
  it does not. `EpochCutover` shows it with `residents` in `ReadFaults`. With
  failing validator reads `SameBoundary` does not hold either: the retry comes
  after later views have drained.
- A replay-refused batch is sealed without a Block record (`node/src/lib.rs:1868`,
  1883), and recovery refuses a seal without its block as corruption
  (`recovery/src/lib.rs:2129`) until a checkpoint covers the height.
  `RefusedForCause` permits exactly this cause.
- The header of `recovery/src/lib.rs` (66 to 71) says that blocks are refused
  which `classify_trailing` by now rolls forward.
- Saga's header says that the crank goes "in id order"; it takes the oldest due
  first, "which is also what makes the bounded slice fair"
  (`saga/src/lib.rs:1741`). That is so among the sagas in the ledger
  (`OverdueReached`); a trigger's deadline is not compared with the current
  height (1365 to 1526), so sagas triggered with a deadline long past come before
  every overdue one, as often as somebody triggers them.
- `saga/src/lib.rs:697` and 1093 to 1095 say that an attempt without an assignee
  is "accept-any", also under the strict policy; the code at 1543 to 1562 takes
  no result for it at all until a worker claims it with Accept. The model
  follows the code.
- Receipts of one height are trimmed by id (`saga/src/lib.rs:606`), and the
  newest kept means the greatest of the pairs: a saga with a low id may lose its
  receipt in the very operation that ended it. `LedgerBounded` counts it as lost
  to newer ones.
- Under the open lease policy an error from a foreign worker re-leases the
  attempt without fencing the holder, so `SingleExecutor` is about the strict one.
- `MAX_BLOCK_REPLAYS` is described as a hard cap of 8 rollbacks
  (`host/src/lib.rs:111` to 118); the comparison `replays > MAX_BLOCK_REPLAYS`
  allows a ninth. Rejecting members spend it before the queued work runs, and so
  do the deliveries of modules that sort before dispatch: whoever has nine units
  rejected in every block holds dispatch's queues for ever. `QueuesDrain` is
  about finitely many such blocks.
- Governance's header (40 to 44) says that Propose evicts entries "whose own
  voting deadline has passed"; `reap_expired` (421) waits for the execution grace
  after it. The model follows the code.
- `handle_propose` checks a membership key's length "so a proposal that can
  never execute is rejected at the door"; a 32-byte key that is no curve point
  passes it, and valset then refuses the follow-up of every Execute until the
  grace window ends. `NeverWedged` is about keys that decode.
- The door of SetAclPolicy is there to "never let a proposal that CAN pass lock
  the electorate out of governance itself". It compares the policy with the
  voting mode of the moment. Set `governance` to Validator in validator mode and
  adopt shares afterwards, and the share electorate cannot reach the module; nor
  is clearing an entry "always safe" (`governance/src/lib.rs:597`): with `"*"` at
  Validator under an open exact entry, clearing the exact entry closes the door
  on a share electorate. `ElectorateReachable` is therefore about votes that set
  an entry, and about the time before shares are adopted.
- `BoundaryIsTip` holds only with nothing left to drain: a stall in mid-pass
  returns before `finalized` is assigned for the blocks sealed earlier in it.

## 5. What is proved

Every theorem holds for all values of the constants that satisfy the named
assumptions of the modules (`GateAssumption`, `NodeAssumption`,
`ValsetAssumption`, `GenesisAssumption`, `CutoverAssumption`,
`RecoveryAssumption`, `SagaAssumption`, `DispatchAssumption`,
`GovernanceAssumption`, `ActionAssumption`), which the TLC runs evaluate: finite sets of frames, keys and ids, positive caps and delays,
recovered batches and foreign batches that are batches. A theorem that needs
more says so in its own ASSUME; those hypotheses are listed with it below.

**OrderedGateProofs.** `GateExactlyOnce` and `GateNothingLost` hold for every
report order. The inductive invariant `GateInv` says that `seen` is exactly what
was certified, that a digest in the log sits in one slot and is neither released
nor doubly fetched, and that a slot is ready, in flight or parked; `PinInv` adds
that every own proposal still queued is pinned, which survives because only the
report that certifies a digest takes it out of either.
`GateCanonicalRelease` and `GateFloorCovers` are about the time `ascending`
holds. Their invariant `OrderInv` says that everything logged lies above
everything released, and that the floor is the view of a released certificate;
it is proved as `[](ascending => OrderInv)`, and neither part holds without the
condition (section 4). A certificate that `ReadFloor` has read was reported, and
`PersistFloor` needs no more than that and the later release point: what is
reported in between can only make it stricter. `GateTypeOK` includes the bound of the payload cache:
`StoreInv` says that the eviction queue names each cached digest, possibly more
than once, so evicting until the cap holds always finds something to evict.

**OrderedNodeProofs.** `NodeChainOrdered` rests on `HeightInv`: all sealed
heights are at or below `appliedFloor`, sealed blocks of earlier epochs lie
below `viewBase`, and an armed ceiling lies above every sealed view.
`NodeFinalizedSealed` adds that the view a pass has sealed is in the chain
before `EndDrain` copies it, `NodeBoundaryIsTip` that between turns the tip is
the boundary unless a delivery still waits. `NodeNeverOutOfOrder` needs the
shape of the whole lane: deferred and inbox deliveries ascend, all lie at or
below the engine's certified views and above what is sealed or below the resume
floor. It is conditional on `Ascending`, the property `OrderedGate` guarantees
while reports ascend. `NodeCustodyAccounted` is an induction with sums over
finite sets. `NodeNoReplayInWindow` needs that the window is the tail of the
chain's batches, and of the blocks sealed before the process only
`RecoveredOnce`, the same property of them. `NodeTypeOK` bounds every height by
the views of the epochs so far.

`NodeAcceptedOnceInOrder` is the promise behind an Ok of `submit_frame`. It
assumes `Ascending`, clients that send each frame once and in order, and system
work that rejects no block; section 4 says what happens otherwise. Nothing in
the state says which of two frames was accepted first, so the invariant
`OnceInv` says that ranks exist: a function from frames to numbers that rises
along chain, deferred deliveries, inbox, proposal queue and pending batch taken
as one line, rises with the sequence numbers of an origin, and stays below a
counter. A submission takes the counter; packing, certification, delivery and
execution move frames along the line and leave the ranks; a cutover, which sorts
the custody, deals new ranks above all that were dealt. Beside the ranks stand
where a frame comes from (`Owned`: a batch on the line is another validator's or
packed from accepted frames), what custody is (`Settled`: accepted and not yet
sealed), the clocks (`Clocks`: past a ceiling nothing is sealed until the
cutover) and the journal (`Journal`: what a resume replay skips is recovered).

**ValsetProofs.** Each handler maps sound tiers (well-formed, disjoint, not
empty) to sound tiers and stages a record whenever it changes one; from that
`ValsetTypeOK`, `ValsetTiersSound` and, with "the overlay never differs from the
committed tiers without a staged record", `ValsetChangeMovesRoot`.
`ValsetWindowIsHistory` is an induction over the committed history.

**EpochCutoverProofs.** For any number of validators, views, epochs and crashes.
No variable holds what the validators agree on, so `CutoverInv` says that a
story exists: one ledger, the membership after each block, the first block and
the base of each epoch, with every epoch ending `Delay` views after the first
block that moved the root; every validator's state and its manifest are an
excerpt of it. From it `CutoverBoundaryAgreed`, `CutoverSameChain`,
`CutoverArmedByChange` and, step by step, the refinement
`CutoverImplementsAgreedChain`. Two hypotheses are needed, and section 4 shows
what happens without each: `ReadFaults = {}`, that membership reads succeed, and
`EveryMoveShows`, that no block moves the root and leaves the membership as it
was. `SingleOperationsShow` proves the second one for blocks of at most one
membership operation. `CutoverArmedDespiteFaults` proves `ArmedByChange` also
with failing reads of the validator tier, in a process that does not crash.

**RecoveryProofs.** For any modules of either durability, with or without a
cursor, any batches, window depth, checkpoint cadence and number of crashes:
`RecoveryIsAgreed`, `RecoveryRefusedForCause`, `RecoveryForgetsNothing` and
`RecoveryTypeOK`. The one hypothesis is `Repeating = {}`, that no batch lists a
member twice; `recovery_repeat` shows that the replay goes wrong without it.

None of the properties is inductive, because a boot depends on what the journal
says and no variable says what the journal means. `IInv` therefore says that a
path exists: a position after each retained record, made of the last height
sealed and how far the next block got (between blocks, batch written, scheduled,
witnessed), with every record a legal step (`IsPath`). Along the path:
- `ManifestInv`: the manifest stands between two blocks inside the durable part
  of the retained journal, and its roots are the agreed ones. Its height may lag
  behind that point, as a checkpoint after a stall is labelled with the older
  boundary, but then no module moved between the two. The replay window it
  carries is the one of the point where it stands, not of its height.
- `TipInv` and `EpochKept`: the tip and the epoch of the process are in the
  manifest or in a durable record. This is what `RecoveryForgetsNothing` needs.
- `DurableInv`: wherever a crash may cut the unsynced tail, the modules on disk
  match the cut: between blocks all of them hold the agreed state, inside a
  witnessed block each one holds the state before or after it.
- `PrevInv`: a prune cuts at the previous checkpoint, which lies between blocks
  and not past the manifest.
- `FinalInv`, `CutoverInv`, `PhaseInv`: where the published boundary and each
  phase of the process stand with respect to the end of the path.

A crash shortens the path. `ReplayedTracks` follows the replay along it, record
by record: the accumulator holds the agreed state of the greater of the
position's height and the manifest's, with the open block as far as the position
says. `BootIs` then reads the outcome off the last position: an idle node, a
block to apply, the modules left to commit, or one of the causes that
`RefusedForCause` names. The comparison of roots at the end of a replay
never fails.

**SagaProofs.** All operations but `Prune` and `Tick` write through `Put`; a Put
of legal successors keeps the rows, the quotas, the leases and the retained
tail, so each operation only has to show that it writes a legal successor. From
`SagaInv`: `SagaIndexesAgree` (the paged walk included, by induction over the
pages), `SagaLedgerBounded`, `SagaOneExecutor` under the strict policy, and the
refinement `SagaImplementsAsyncWork`. The trim's half of `SagaLedgerBounded`
takes the newest receipt of any set (`NewestReceipt`) to show that what is
evicted is older than all that is kept and that those kept fill the tail.
`SagaOverdueReached` rests on `Defers`: no operation moves the due height of a
live saga to an earlier one that lies in the past, so nothing in the ledger can
come before what is overdue already.

**DispatchProofs.** `Plane` is what the queues, the reservations and the records
of one world owe each other, `Grows` what an operation may do to a world; every
unit of a block takes a sound world to a sound one that grew. `DispatchInv` says
so of the committed and the staged world, and that what is left of the prepared
batch heads the staged queues. From it `DispatchQueuesSound`,
`DispatchOnceInOrder` and `DispatchNeverSameBlock`.

**GovernanceProofs.** `GovInv` says that the records are well formed, that the
roster is exactly the open ones within both caps, and that the network state
stays sound under every outcome of `Enact`. `GovMandateStands` needs sums of
ballot powers: a majority that no missing ballot can turn. `GovNeverWedged`,
`GovElectorateReachable`, `GovRosterSound` and `GovStandingEarned` follow from
the handler lemmas.

The provers have no induction over data. Where a fact about all lengths or all
finite sets is needed (sums, folds, paged walks, first moved block) it is proved
by the least counterexample, with `WFMin` over the naturals or the subsets of a
finite set.

## 6. Only model-checked

- The liveness properties `EveryFinalizationReleased`, `AcceptedResolves`,
  `CatchesUp`, `DeadlineHonoured` and `QueuesDrain`: the prover has no fairness
  and no ENABLED reasoning.

Every other invariant and action property of the passing runs is stated by a
theorem of section 5, under the hypotheses given there.

## 7. What is not modelled

The simplex protocol itself (external: at most one digest per view, the same
digest everywhere). Signatures, codecs and content addressing, which are taken
to work. The bytes of modules, events and traces, telemetry, HTTP ingress and
held replies. Of the modelled components: module admission and code realization
during a replay (`Recovery`), `ConsensusTimePolicy::Epoch` and the byte caps of
single records (`Saga`), recipes, `on_reassign` and the no-ops below the queue
head, the other modules' queues (attribution, runs) but for the units and the
rollbacks they put between dispatch's own, more than two follow-ups of one unit
where the host allows `MAX_DISPATCHES`, and the replay of accepted units after a
rollback, of which only the effect is there: the stage before the rejected unit,
as deterministic modules rebuild it (`Dispatch`), policies of other targets and the code registry's gates
(`Governance`). The rest of the repository, about nine lines in ten, is user
interface, services, networking and application modules: off-chain workers and
deterministic folds that share no protocol state with the core; they are listed
as `not_modelled` in `PROJECT.json`, with their reasons.

## 8. Plan

1. Consensus seam, ordered node, valset, epoch cutover, recovery, saga,
   dispatch and the block engine, governance: modelled and checked, sections 2
   to 4.
2. Proofs of the safety properties of all of them: done, section 5.
3. The code registry: scheduled swaps, the readiness quorum and the stall of
   `OrderedNode` driven by it.
4. `FollowerOrderer` and state sync: the joiner's boundary, backfill order and
   frame catch-up, composed with `OrderedGate`'s inbox.
