------------------------------- MODULE Recovery --------------------------------
(***************************************************************************)
(* One validator's recovery journal (crates/kernel/recovery/src/lib.rs and *)
(* trailing.rs), the writes the ordered node's drain makes to it, and the  *)
(* checkpoint and prune of drain_pass.  A crash may fall between any two   *)
(* writes or module commits; recover then rebuilds the modules from the    *)
(* manifest and the journal, or refuses to start.                          *)
(*                                                                         *)
(* Modules differ in durability: the Memory cohort lives in RAM and comes  *)
(* back from the manifest, a Disk module is durable at each commit_block,  *)
(* and a Cursor module is a Disk module that also stores the height of its *)
(* last commit.  A module's state, and so its root, is the sequence of the *)
(* heights committed into it: committing a block twice moves the root.     *)
(*                                                                         *)
(* A batch stands for its bytes; Writes says which roots its execution     *)
(* moves.  PreparedCall, PreparedDelivery and Trace records are folded     *)
(* into the Schedule and Witnessed records that close them.  Height 0 is   *)
(* None.  Re-executing a block reads what its witness recorded.            *)
(***************************************************************************)
EXTENDS Integers, FiniteSets, Sequences, SequencesExt

CONSTANTS
    Memory, Disk,       \* the cohorts
    Cursor,             \* the Disk modules with a durable commit height
    CommitOrder,        \* the module ids in order: commit_boundary's order
    Batch,              \* batches the engine may finalize
    Own,                \* the ones this validator proposes
    Rejected,           \* undecodable, or refused by the system injection
    Repeating,          \* holding the same member twice
    Writes,             \* batch -> the modules whose root it moves
    WindowDepth,        \* REPLAY_WINDOW_HEIGHTS
    IdleBlocks,         \* IDLE_CHECKPOINT_BLOCKS
    MaxHeight, MaxEpoch, MaxCrashes     \* bounds

Module == Memory \cup Disk

ASSUME RecoveryAssumption ==
    /\ Memory \cap Disk = {} /\ Cursor \subseteq Disk
    /\ ToSet(CommitOrder) = Module /\ IsInjective(CommitOrder)
    /\ Own \cup Rejected \cup Repeating \subseteq Batch
    /\ Writes \in [Batch -> SUBSET Module]
    /\ \A b \in Rejected : Writes[b] = {}
    /\ {WindowDepth, IdleBlocks} \subseteq Nat \ {0}
    /\ {MaxHeight, MaxEpoch, MaxCrashes} \subseteq Nat

VARIABLES
    agreed,         \* external: the batches finalized, by height
    \* on disk
    journal,        \* the retained records
    start,          \* position of the first retained record
    synced,         \* position up to which the journal is durable
    manifest,       \* the checkpoint
    floor,          \* height of the persisted floor certificate
    \* in the process; after a crash, what the dead process had
    live,           \* module -> its state (durable for Disk)
    tip,            \* the last height sealed (applied_floor)
    window,         \* heights of the replay window
    epoch,
    finalized,      \* the boundary drain_delivered published
    prev,           \* prev_ckpt: the last checkpoint's height and position
    anchored,       \* last_written_root is the manifest's: written since boot
    inPass,         \* in drain_delivered, since a block of this pass
    phase,          \* where the run loop or the recovery stands
    todo,           \* modules the open block has still to commit
    booting,        \* the open block is rolled forward by recover
    crashes         \* bound: crashes taken

diskVars == <<journal, start, synced, manifest, floor>>
nodeVars == <<live, tip, window, epoch, finalized, prev, anchored,
              inPass, phase, todo, booting>>
vars == <<agreed, diskVars, nodeVars, crashes>>

Height == 1..MaxHeight
Roots == [Module -> Seq(Height)]
Empty == [m \in Module |-> <<>>]

End == start + Len(journal)         \* oplog_pos

Init ==
    /\ agreed = <<>>
    /\ journal = <<>> /\ start = 0 /\ synced = 0
    /\ manifest = [height |-> 0, epoch |-> 0, roots |-> Empty, window |-> {}, pos |-> 0]
    /\ floor = 0
    /\ live = Empty /\ tip = 0 /\ window = {} /\ epoch = 0
    /\ finalized = [height |-> 0, roots |-> Empty]
    /\ prev = [height |-> 0, pos |-> 0]
    /\ anchored = FALSE
    /\ inPass = FALSE /\ phase = "idle" /\ todo = {} /\ booting = FALSE
    /\ crashes = 0

\* The newest heights the replay window has room for.
BugNewest(S) == S           \* the window is not trimmed

Newest(S) == {h \in S : Cardinality({g \in S : g > h}) < WindowDepth}

(***************************************************************************)
(* Records                                                                 *)
(***************************************************************************)
PinnedRec(b) == [kind |-> "pinned", batch |-> b]
BlockRec(h, b) == [kind |-> "block", height |-> h, batch |-> b]
ScheduleRec(h) == [kind |-> "schedule", height |-> h]
WitnessRec(h) == [kind |-> "witness", height |-> h]
SealRec(h, applied, roots) ==
    [kind |-> "seal", height |-> h, applied |-> applied, roots |-> roots]
CutoverRec(e) == [kind |-> "cutover", epoch |-> e]

PreApplyRecs(h, b) == <<BlockRec(h, b), ScheduleRec(h)>>

\* append_record buffers in userspace; sync_journal makes it durable, and no
\* write returns before its sync.
Write(recs) == journal' = journal \o recs /\ UNCHANGED <<start, manifest, floor>>
IsDurable == synced = End

Refused == phase \in {"corrupt", "torn", "verify"}
Running == phase # "down" /\ ~Refused

Sync ==
    /\ Running
    /\ ~IsDurable
    /\ synced' = End
    /\ UNCHANGED <<agreed, journal, start, manifest, floor, nodeVars, crashes>>

(***************************************************************************)
(* The engine, and propose_batch                                           *)
(***************************************************************************)
InJournal(b) ==
    \E i \in DOMAIN journal : journal[i].kind \in {"pinned", "block"} /\ journal[i].batch = b

\* A batch of this validator is finalized only after it was pinned and
\* proposed; anybody may propose a batch again.
Finalize(b) ==
    /\ Len(agreed) < MaxHeight
    /\ b \in Own => (IsDurable /\ InJournal(b)) \/ b \in ToSet(agreed)
    /\ agreed' = Append(agreed, b)
    /\ UNCHANGED <<diskVars, nodeVars, crashes>>

Idle == phase = "idle" /\ IsDurable

Pin(b) ==
    /\ Idle /\ ~inPass
    /\ ~InJournal(b) /\ b \notin ToSet(agreed)
    /\ Write(<<PinnedRec(b)>>)
    /\ UNCHANGED <<agreed, synced, nodeVars, crashes>>

(***************************************************************************)
(* drain_delivered: one batch                                              *)
(***************************************************************************)
NextHeight == tip + 1
HasDelivery == tip < Len(agreed)
IsReplayed(h) == \E g \in window : agreed[g] = agreed[h]

\* A batch of the replay window is refused with a seal and nothing else.
SealReplayed ==
    /\ Idle /\ HasDelivery /\ IsReplayed(NextHeight)
    /\ Write(<<SealRec(NextHeight, FALSE, live)>>)
    /\ phase' = "sealed"
    /\ inPass' = TRUE
    /\ UNCHANGED <<agreed, synced, live, tip, window, epoch, finalized, prev, anchored, todo,
                   booting, crashes>>

\* pre_apply: the batch and its prepared work are durable before it runs.
PreApply ==
    /\ Idle /\ HasDelivery /\ ~IsReplayed(NextHeight)
    /\ Write(PreApplyRecs(NextHeight, agreed[NextHeight]))
    /\ phase' = "apply"
    /\ inPass' = TRUE
    /\ UNCHANGED <<agreed, synced, live, tip, window, epoch, finalized, prev, anchored, todo,
                   booting, crashes>>

\* The block ran; what its units read is durable before anything commits.
Execute ==
    /\ phase = "apply" /\ IsDurable
    /\ agreed[NextHeight] \notin Rejected
    /\ Write(<<WitnessRec(NextHeight)>>)
    /\ phase' = "commit"
    /\ todo' = Writes[agreed[NextHeight]]
    /\ UNCHANGED <<agreed, synced, live, tip, window, epoch, finalized, prev, anchored, inPass,
                   booting, crashes>>

\* Each repeated member is skipped by the live drain; replay_batch runs it again.
Committed(state, h, b, replaying) ==
    IF replaying /\ b \in Repeating THEN state \o <<h, h>> ELSE Append(state, h)

\* commit_boundary: one module after the other, in the order of their ids.
IsFirst(m, S) ==
    \E i \in DOMAIN CommitOrder :
        m = CommitOrder[i] /\ \A j \in 1..(i - 1) : CommitOrder[j] \notin S

Commit ==
    /\ phase = "commit" /\ IsDurable
    /\ \E m \in todo :
          /\ IsFirst(m, todo)
          /\ live' = [live EXCEPT ![m] =
                        Committed(@, NextHeight, agreed[NextHeight], booting)]
          /\ todo' = todo \ {m}
    /\ UNCHANGED <<agreed, diskVars, tip, window, epoch, finalized, prev, anchored, inPass, phase,
                   booting, crashes>>

BugSealBlock ==             \* a rejected block is left unsealed
    /\ IsDurable /\ phase = "commit" /\ todo = {}
    /\ Write(<<SealRec(NextHeight, TRUE, live)>>)
    /\ phase' = "sealed"
    /\ UNCHANGED <<agreed, synced, live, tip, window, epoch, finalized, prev, anchored,
                   inPass, todo, booting, crashes>>

SealBlock ==
    /\ IsDurable
    /\ \/ phase = "commit" /\ todo = {}
          /\ Write(<<SealRec(NextHeight, TRUE, live)>>)
       \/ phase = "apply" /\ agreed[NextHeight] \in Rejected
          /\ Write(<<SealRec(NextHeight, FALSE, live)>>)
    /\ phase' = "sealed"
    /\ UNCHANGED <<agreed, synced, live, tip, window, epoch, finalized, prev, anchored, inPass,
                   todo, booting, crashes>>

\* The seal is durable: the height is the node's; remember_applied.
BugSettled == TRUE          \* the seal is not a barrier

Settled == IsDurable

Settle ==
    /\ phase = "sealed" /\ Settled
    /\ tip' = NextHeight
    /\ window' = Newest(window \cup {NextHeight})
    /\ finalized' = IF booting THEN [height |-> NextHeight, roots |-> live] ELSE finalized
    /\ phase' = "idle" /\ booting' = FALSE
    /\ UNCHANGED <<agreed, diskVars, live, epoch, prev, anchored, inPass, todo, crashes>>

\* The pass ends: with the boundary published, or stalled on missing code,
\* which returns before the assignment.
EndPass ==
    /\ Idle /\ inPass
    /\ inPass' = FALSE
    /\ finalized' = [height |-> tip, roots |-> live]
    /\ UNCHANGED <<agreed, diskVars, live, tip, window, epoch, prev, anchored, phase, todo, booting,
                   crashes>>

StallPass ==
    /\ Idle /\ inPass
    /\ inPass' = FALSE
    /\ UNCHANGED <<agreed, diskVars, live, tip, window, epoch, finalized, prev, anchored, phase,
                   todo, booting, crashes>>

(***************************************************************************)
(* After the pass: floor, cutover, checkpoint and prune                    *)
(***************************************************************************)
PersistFloor ==
    /\ Idle /\ ~inPass
    /\ floor < finalized.height
    /\ floor' = finalized.height
    /\ UNCHANGED <<agreed, journal, start, synced, manifest, nodeVars, crashes>>

\* A boundary is crossed by a pass that drained everything below it, so by one
\* that did not stall.
Cutover ==
    /\ Idle /\ ~inPass
    /\ epoch < MaxEpoch
    /\ finalized.height = tip
    /\ Write(<<CutoverRec(epoch + 1)>>)
    /\ phase' = "cutover"
    /\ UNCHANGED <<agreed, synced, live, tip, window, epoch, finalized, prev, anchored,
                   inPass, todo, booting, crashes>>

EnterEpoch ==
    /\ phase = "cutover" /\ IsDurable
    /\ epoch' = epoch + 1
    /\ phase' = "entered"
    /\ UNCHANGED <<agreed, diskVars, live, tip, window, finalized, prev, anchored, inPass,
                   todo, booting, crashes>>

Captured ==
    [height |-> finalized.height, epoch |-> epoch, roots |-> live, window |-> window,
     pos |-> End]

\* The post-cutover checkpoint compares no roots and prunes nothing; its write
\* may fail.
CutoverCheckpoint ==
    /\ phase = "entered"
    /\ phase' = "idle"
    /\ \/ /\ manifest' = Captured
          /\ prev' = [height |-> finalized.height, pos |-> End]
          /\ anchored' = TRUE
       \/ UNCHANGED <<manifest, prev, anchored>>
    /\ UNCHANGED <<agreed, journal, start, synced, floor, live, tip, window, epoch,
                   finalized, inPass, todo, booting, crashes>>

\* capture_timed refuses a live root that the labelled height did not seal.
MayCapture == live = finalized.roots

\* checkpoint_due: blocks were sealed, and the state moved since the manifest
\* this process wrote, or a great many blocks were.
SealsSince ==
    Cardinality({i \in DOMAIN journal : start + i > manifest.pos /\ journal[i].kind = "seal"})

CheckpointDue ==
    /\ finalized.height # 0
    /\ SealsSince > 0
    /\ anchored => finalized.roots # manifest.roots \/ SealsSince >= IdleBlocks

Checkpoint ==
    /\ Idle /\ ~inPass
    /\ CheckpointDue
    /\ MayCapture
    /\ manifest' = Captured
    /\ anchored' = TRUE
    /\ phase' = "pruning"
    /\ UNCHANGED <<agreed, journal, start, synced, floor, live, tip, window, epoch,
                   finalized, prev, inPass, todo, booting, crashes>>

\* decide_prune_action: below the previous checkpoint, once the floor passed it.
FloorPassed == floor >= prev.height

BugPrunePos == manifest.pos         \* below the checkpoint just written

PrunePos == prev.pos

Prune ==
    /\ phase = "pruning"
    /\ IF FloorPassed /\ PrunePos > start
       THEN /\ journal' = SubSeq(journal, PrunePos - start + 1, Len(journal))
            /\ start' = PrunePos
       ELSE UNCHANGED <<journal, start>>
    /\ prev' = [height |-> manifest.height, pos |-> manifest.pos]
    /\ phase' = "idle"
    /\ UNCHANGED <<agreed, synced, manifest, floor, live, tip, window, epoch, finalized,
                   anchored, inPass, todo, booting, crashes>>

(***************************************************************************)
(* Crash: the journal keeps what was synced and perhaps some of the rest;  *)
(* the Memory cohort is restored from the manifest.                        *)
(***************************************************************************)
Crash ==
    /\ Running
    /\ crashes < MaxCrashes /\ crashes' = crashes + 1
    /\ \E end \in synced..End :
          /\ journal' = SubSeq(journal, 1, end - start)
          /\ synced' = end
    /\ live' = [m \in Module |-> IF m \in Memory THEN manifest.roots[m] ELSE live[m]]
    /\ phase' = "down"
    /\ inPass' = FALSE /\ todo' = {} /\ booting' = FALSE
    /\ UNCHANGED <<agreed, start, manifest, floor, tip, window, epoch, finalized, prev,
                   anchored>>

(***************************************************************************)
(* recover_with_sink                                                       *)
(***************************************************************************)
MaxOf(S) == IF S = {} THEN 0 ELSE CHOOSE x \in S : \A y \in S : y <= x
HasHeight(r) == r.kind \in {"block", "schedule", "witness", "seal"}
InScope(r) == HasHeight(r) => r.height > manifest.height
InScopeAt(kind) == {i \in DOMAIN journal : journal[i].kind = kind /\ InScope(journal[i])}

\* The forward scan: the latest sealed height whose root is the one on disk.
SealedFloor(m) ==
    MaxOf({journal[i].height : i \in {j \in InScopeAt("seal") : journal[j].roots[m] = live[m]}})

\* trailing_wal_height
TrailingHeight ==
    LET last == MaxOf(InScopeAt("block"))
        sealedAfter == {j \in InScopeAt("seal") :
                          j > last /\ journal[j].height = journal[last].height}
    IN IF last = 0 \/ sealedAfter # {} THEN 0 ELSE journal[last].height

\* seed_trailing_claims: only a module at no recorded root may claim, and only
\* for the height of the open block.
Claims ==
    {m \in Cursor : /\ TrailingHeight # 0 /\ SealedFloor(m) = 0
                    /\ live[m] # manifest.roots[m]
                    /\ Last(live[m]) = TrailingHeight}

DiskFloor(m) ==
    IF m \in Claims THEN TrailingHeight ELSE IF m \in Disk THEN SealedFloor(m) ELSE 0

\* A sealed block: skipped when all it changed is durable, else re-executed
\* committing only what is still at its pre-block root.
BugToCommit(changed, atPre, durable, writes) == IF changed \subseteq durable THEN {} ELSE writes

ToCommit(changed, atPre, durable, writes) ==
    IF changed \subseteq durable THEN {}
    ELSE IF atPre = changed THEN writes
    ELSE writes \cap atPre

ReplaySealed(acc, r) ==
    LET open == acc.open[1]
        changed == {m \in Module : r.roots[m] # acc.expected[m]}
        atPre == {m \in changed : acc.live[m] = acc.expected[m]}
        ahead == {m \in changed : DiskFloor(m) > r.height}
        durable == ahead \cup {m \in changed : acc.live[m] = r.roots[m]}
        commits == ToCommit(changed, atPre, durable, Writes[open.batch])
        after == [m \in Module |->
                    IF m \in commits THEN Append(acc.live[m], r.height) ELSE acc.live[m]]
        reruns == ~(changed \subseteq durable)
        status ==
            IF ~open.scheduled \/ (r.applied /\ ~open.witnessed) THEN "corrupt"
            ELSE IF reruns /\ (atPre \cup durable # changed \/ open.batch \in Repeating)
                 THEN "torn"
            ELSE IF reruns /\ \E m \in changed \ ahead : after[m] # r.roots[m] THEN "verify"
            ELSE "ok"
    IN [status |-> status, live |-> after, expected |-> r.roots, tip |-> r.height,
        epoch |-> acc.epoch, window |-> acc.window \cup {r.height}, open |-> <<>>]

Opened(r) == <<[height |-> r.height, batch |-> r.batch, scheduled |-> FALSE, witnessed |-> FALSE]>>

\* One journaled record.  A record outside its block is corruption.
Replay(acc, r) ==
    LET inBlock == acc.open # <<>> /\ acc.open[1].height = r.height
    IN IF acc.status # "ok" \/ ~InScope(r) \/ r.kind = "pinned" THEN acc
       ELSE
       CASE r.kind = "cutover" -> [acc EXCEPT !.epoch = IF r.epoch > @ THEN r.epoch ELSE @]
         [] r.kind = "block" /\ acc.open = <<>> -> [acc EXCEPT !.open = Opened(r)]
         [] r.kind = "schedule" /\ inBlock /\ ~acc.open[1].scheduled ->
                [acc EXCEPT !.open = <<[acc.open[1] EXCEPT !.scheduled = TRUE]>>]
         [] r.kind = "witness" /\ inBlock /\ acc.open[1].scheduled /\ ~acc.open[1].witnessed ->
                [acc EXCEPT !.open = <<[acc.open[1] EXCEPT !.witnessed = TRUE]>>]
         [] r.kind = "seal" /\ inBlock -> ReplaySealed(acc, r)
         [] OTHER -> [acc EXCEPT !.status = "corrupt"]

\* The manifest, then the retained records in order.
Replayed ==
    LET upTo[i \in 0..Len(journal)] ==
            IF i = 0
            THEN [status |-> "ok", live |-> live, expected |-> manifest.roots,
                  tip |-> manifest.height, epoch |-> manifest.epoch,
                  window |-> manifest.window, open |-> <<>>]
            ELSE Replay(upTo[i - 1], journal[i])
    IN upTo[Len(journal)]

\* classify_trailing, and the check that the block explains what moved.
TrailingRefused(moved, batch) ==
    LET verified == moved \cap Claims
    IN \/ verified # {} /\ (moved # verified \/ Cardinality(verified) > 1)
       \/ ~(moved \subseteq Writes[batch])

\* What a boot makes of the journal: the phase it continues in, the modules
\* left to commit, and whether the open block is journaled afresh.
BugTrailingTodo(writes, moved) == writes       \* commits the movers again

TrailingTodo(writes, moved) == writes \ moved

Outcome(acc) ==
    LET open == acc.open[1]
        moved == {m \in Module : acc.live[m] # acc.expected[m]}
        refuse(why) == [phase |-> why, todo |-> {}]
    IN CASE acc.status # "ok" -> refuse(acc.status)
         [] acc.status = "ok" /\ acc.open = <<>> ->
                IF moved = {} THEN [phase |-> "idle", todo |-> {}] ELSE refuse("verify")
         [] acc.status = "ok" /\ acc.open # <<>> /\ ~open.witnessed ->
                IF moved = {} THEN [phase |-> "apply", todo |-> {}] ELSE refuse("torn")
         [] OTHER ->
                IF TrailingRefused(moved, open.batch) \/ open.batch \in Repeating
                THEN refuse("torn")
                ELSE [phase |-> "commit", todo |-> TrailingTodo(Writes[open.batch], moved)]

\* The journal rewound to the open block's record, which is then written again.
Rewound(acc) ==
    LET at == MaxOf(InScopeAt("block"))
    IN SubSeq(journal, 1, at - 1) \o PreApplyRecs(acc.open[1].height, acc.open[1].batch)

BugRecoveredWindow(acc) == Newest(acc.window \ manifest.window)    \* the journal's only

RecoveredWindow(acc) == Newest(acc.window)

Recover ==
    /\ phase = "down"
    /\ LET acc == Replayed
           out == Outcome(acc)
       IN /\ out.phase \in {"idle", "apply", "commit"}
          /\ phase' = out.phase /\ todo' = out.todo
          /\ booting' = (acc.open # <<>>)
          /\ live' = acc.live /\ tip' = acc.tip /\ epoch' = acc.epoch
          /\ window' = RecoveredWindow(acc)
          /\ finalized' = [height |-> acc.tip, roots |-> acc.expected]
          /\ prev' = [height |-> manifest.height, pos |-> manifest.pos]
          /\ anchored' = FALSE
          /\ IF out.phase = "apply"
             THEN /\ journal' = Rewound(acc)
                  /\ synced' = start + MaxOf(InScopeAt("block")) - 1
             ELSE UNCHANGED <<journal, synced>>
    /\ UNCHANGED <<agreed, start, manifest, floor, inPass, crashes>>

\* The error paths: the process exits.
RefuseBoot ==
    /\ phase = "down"
    /\ LET out == Outcome(Replayed)
       IN out.phase \notin {"idle", "apply", "commit"} /\ phase' = out.phase
    /\ UNCHANGED <<agreed, diskVars, live, tip, window, epoch, finalized, prev, anchored,
                   inPass, todo, booting, crashes>>

Next ==
    \/ \E b \in Batch : Finalize(b)
    \/ \E b \in Own : Pin(b)
    \/ Sync \/ SealReplayed \/ PreApply \/ Execute \/ Commit \/ SealBlock \/ Settle
    \/ EndPass \/ StallPass \/ PersistFloor \/ Cutover \/ EnterEpoch
    \/ CutoverCheckpoint \/ Checkpoint \/ Prune \/ Crash \/ Recover \/ RefuseBoot

\* What the process does next without being asked; a dead one is started again.
Proceed ==
    \/ Sync \/ SealReplayed \/ PreApply \/ Execute \/ Commit \/ SealBlock \/ Settle
    \/ EnterEpoch \/ CutoverCheckpoint \/ Prune

Spec == Init /\ [][Next]_vars
FairSpec == Spec /\ WF_vars(Proceed) /\ []<>(phase # "down")

(***************************************************************************)
(* Properties                                                              *)
(***************************************************************************)
Phase == {"idle", "apply", "commit", "sealed", "cutover", "entered", "pruning", "down",
          "corrupt", "torn", "verify"}
TypeOK ==
    /\ agreed \in Seq(Batch) /\ Len(agreed) <= MaxHeight
    /\ synced \in start..End
    /\ live \in Roots /\ tip \in 0..Len(agreed) /\ epoch \in 0..MaxEpoch
    /\ window \subseteq Height /\ Cardinality(window) <= WindowDepth
    /\ floor \in 0..MaxHeight /\ finalized.height \in 0..MaxHeight
    /\ phase \in Phase /\ {anchored, inPass, booting} \subseteq BOOLEAN
    /\ todo \subseteq Module

\* The heights that run: every validator refuses the same replayed batches.
RefusedHeight(log, h) == \E g \in Newest(1..(h - 1)) : log[g] = log[h]
RunsAt(log, h, m) == ~RefusedHeight(log, h) /\ m \in Writes[log[h]]

\* Module m after each height of the log: the blocks that ran, each once, in
\* order.
StatesOf(log, m) ==
    LET upTo[h \in 0..Len(log)] ==
            IF h = 0 THEN <<>>
            ELSE IF RunsAt(log, h, m) THEN Append(upTo[h - 1], h)
            ELSE upTo[h - 1]
    IN upTo

\* Each module holds exactly the agreed blocks up to the tip.
StateIsAgreed == \A m \in Module : live[m] = StatesOf(agreed, m)[tip]

\* The replay window is as deep as that of a validator that never crashed.
WindowAsDeep == window = Newest(1..tip)

\* Whenever the node is between blocks, freshly booted or not, it is where a
\* validator that never crashed would be: nothing is lost to a crash, nothing
\* is committed again by the replay, and it refuses the same replayed batches.
RecoveredIsAgreed == phase = "idle" => StateIsAgreed /\ WindowAsDeep

\* A boot is refused only for what recovery cannot verify: a seal without its
\* block above the checkpoint (a replay-refused batch), or an open block of
\* which a module without a cursor, or more than one module, is already
\* durable.  The final root comparison never fails.
RefusedForCause ==
    /\ phase # "verify"
    /\ phase = "corrupt" =>
           \E h \in (manifest.height + 1)..Len(agreed) : RefusedHeight(agreed, h)
    /\ phase = "torn" =>
           LET moved == {m \in Disk : live[m] # <<>> /\ Last(live[m]) = TrailingHeight}
           IN TrailingHeight # 0 /\ (moved \ Cursor # {} \/ Cardinality(moved) > 1)

\* A boot never goes back: it resumes at the sealed tip and in the epoch the
\* dead process had reached, or past them.
NothingForgotten ==
    [][phase = "down" /\ ~Refused' => tip' >= tip /\ epoch' >= epoch]_vars

\* A node that is behind the agreed log catches up with it, through any crash,
\* unless a boot is refused.
CatchesUp == HasDelivery ~> ~HasDelivery \/ Refused
================================================================================
