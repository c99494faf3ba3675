------------------------------ MODULE OrderedNode ------------------------------
(***************************************************************************)
(* One validator's ordered lane over the life of one process               *)
(* (crates/kernel/node/src/lib.rs, OrderedNode, driven by drain_pass of    *)
(* bin/node/src/validator/run/drain.rs): custody of accepted frames, the   *)
(* packing of frames into batches, the drain of finalized batches into     *)
(* sealed blocks, the cutover ceiling and the epoch cutover with its carry.*)
(*                                                                         *)
(* One task owns the node, so its turns (submit, flush, drain and the      *)
(* orchestration that follows a drain) never overlap: variable turn.  Only *)
(* the engine runs beside them; it is external, seen through what the      *)
(* inbox releases (module OrderedGate).                                    *)
(*                                                                         *)
(* A batch is the sequence of its member frames, and is its own content    *)
(* address; Junk is a batch that does not decode.  Views start at 1, and   *)
(* 0 stands for the None of every optional view and height.                *)
(***************************************************************************)
EXTENDS Naturals, Sequences, FiniteSets, FiniteSetsExt

CONSTANTS
    Frame,          \* frames whose signature verifies
    Origin,         \* their signers
    OriginOf, SeqOf, SizeOf,    \* frame_origin_seq, encoded length
    Junk,           \* a batch super-frame that does not parse
    Foreign,        \* batches other validators may get finalized
    Recovered,      \* the batches sealed before the restart, <<>> at genesis
    MaxCustodyFrames, MaxCustodyBytes, MaxPerOrigin,
    BatchBytes, BatchMembers, FlushBatches,
    WindowHeights,  \* REPLAY_WINDOW_HEIGHTS
    Delay,          \* CUTOVER_DELAY
    Clients,        \* "inorder": each frame once, to one validator, by seq;
                    \* "retry": any frame at any time
    Ascending,      \* does the inbox release views in ascending order?
    AdvanceRejects, \* may the once-per-block system work reject a block?
    MaxView,        \* bound: views per epoch
    MaxEpoch        \* bound: epochs

Elems(s) == {s[i] : i \in DOMAIN s}

ASSUME NodeAssumption ==
    /\ IsFiniteSet(Frame)
    /\ OriginOf \in [Frame -> Origin]
    /\ SeqOf \in [Frame -> Nat] /\ SizeOf \in [Frame -> Nat]
    /\ \A b \in Foreign : b # Junk => b \in Seq(Frame)
    /\ Junk \notin Seq(Frame)
    /\ \A i \in DOMAIN Recovered : Recovered[i] \in Seq(Frame)
    /\ Recovered \in Seq(Elems(Recovered))
    /\ MaxCustodyFrames \in Nat /\ MaxCustodyBytes \in Nat /\ MaxPerOrigin \in Nat
    /\ BatchBytes \in Nat /\ BatchMembers \in Nat /\ FlushBatches \in Nat \ {0}
    /\ WindowHeights \in Nat \ {0} /\ Delay \in Nat \ {0}
    /\ Clients \in {"inorder", "retry"}
    /\ Ascending \in BOOLEAN /\ AdvanceRejects \in BOOLEAN
    /\ MaxView \in Nat /\ MaxEpoch \in Nat
    /\ Len(Recovered) <= MaxView

VARIABLES
    outstanding,    \* frames in custody
    custodyBytes, perOrigin,
    pending,        \* pending_batch
    accepted,       \* history: frames submit_frame acknowledged
    turn,           \* whose turn the run loop is in, "halted" after an exit
    flushed,        \* batches of the flush in progress
    queue,          \* external: PendingProposals of the current engine
    seen,           \* external: the exactly-once gate of the current engine
    views,          \* external: views certified in the current epoch
    inbox,          \* external: what poll_delivered would return
    epoch, viewBase, ceiling, changed,
    lastEngineView, finalized, finalizedView,
    resumeFloor, appliedFloor,
    deferred, window,
    pass,           \* locals of drain_delivered: last_view, last_sealed_view
    chain           \* history: the sealed blocks

custodyVars == <<outstanding, custodyBytes, perOrigin, pending, accepted>>
engineVars  == <<queue, seen, views, inbox>>
epochVars   == <<epoch, viewBase, ceiling>>
boundary    == <<lastEngineView, finalized, finalizedView>>
drainVars   == <<changed, appliedFloor, deferred, window, pass, chain>>
vars == <<custodyVars, turn, flushed, engineVars, epochVars, boundary,
          resumeFloor, drainVars>>

View   == 1..MaxView
Height == 0..(MaxView * (MaxEpoch + 1))
Batch  == Seq(Frame) \cup {Junk}
Members(b) == IF b = Junk THEN {} ELSE Elems(b)
Batches(q) == {q[i].batch : i \in DOMAIN q}
NoPass == [last |-> 0, sealed |-> 0, broke |-> FALSE]

\* The last n entries of a queue (remember_applied, seed_replay_window).
Newest(q, n) == SubSeq(q, IF Len(q) > n THEN Len(q) - n + 1 ELSE 1, Len(q))

\* with_sink when Recovered is empty, else resume and seed_replay_window.
Init ==
    /\ outstanding = {} /\ custodyBytes = 0 /\ perOrigin = [o \in Origin |-> 0]
    /\ pending = <<>> /\ accepted = {}
    /\ turn = "idle" /\ flushed = 0
    /\ queue = <<>> /\ seen = {} /\ views = {} /\ inbox = <<>>
    /\ epoch = 0 /\ viewBase = 0 /\ ceiling = 0 /\ changed = FALSE
    /\ lastEngineView = 0 /\ finalizedView = 0
    /\ finalized = Len(Recovered)
    /\ resumeFloor = Len(Recovered) /\ appliedFloor = Len(Recovered)
    /\ deferred = <<>>
    /\ window = Newest(Recovered, WindowHeights)
    /\ pass = NoPass
    /\ chain = [i \in DOMAIN Recovered |->
                  [epoch |-> 0, height |-> i, batch |-> Recovered[i], ran |-> TRUE]]

(***************************************************************************)
(* Custody                                                                 *)
(***************************************************************************)
Held(o) == {f \in outstanding : OriginOf[f] = o}

\* What the clients do.  submit_frame itself takes any frame at any time.
ClientMay(f) ==
    Clients = "inorder" =>
      /\ f \notin accepted \cup UNION {Members(b) : b \in Foreign \cup Elems(Recovered)}
      /\ \A g \in accepted : OriginOf[g] = OriginOf[f] => SeqOf[g] < SeqOf[f]

\* submit_frame.  Every refusal (size, signature, caps) and the idempotent
\* acknowledgement of a frame already in custody leave the node as it is.
Submit(f) ==
    /\ turn = "idle"
    /\ ClientMay(f)
    /\ SizeOf[f] <= BatchBytes                      \* MAX_FRAME_BYTES
    /\ f \notin outstanding
    /\ Cardinality(outstanding) < MaxCustodyFrames
    /\ custodyBytes + SizeOf[f] <= MaxCustodyBytes
    /\ perOrigin[OriginOf[f]] < MaxPerOrigin
    /\ custodyBytes' = custodyBytes + SizeOf[f]
    /\ perOrigin' = [perOrigin EXCEPT ![OriginOf[f]] = @ + 1]
    /\ pending' = Append(pending, f)
    /\ outstanding' = outstanding \cup {f}
    /\ accepted' = accepted \cup {f}
    /\ UNCHANGED <<turn, flushed, engineVars, epochVars, boundary, resumeFloor,
                   drainVars>>

\* The encoded bytes of a set of frames.
BytesOf(R) == MapThenSumSet(LAMBDA f : SizeOf[f], R)

\* release_custody for every frame of R: a frame not in custody is skipped.
BugReleaseCustody(R) ==     \* the origin's quota is not given back
    /\ outstanding' = outstanding \ R
    /\ custodyBytes' = custodyBytes - BytesOf(R \cap outstanding)
    /\ UNCHANGED perOrigin

BugReleaseUnheld(R) ==      \* frames that were never in custody count too
    /\ outstanding' = outstanding \ R
    /\ custodyBytes' = custodyBytes - BytesOf(R)
    /\ perOrigin' = [o \in Origin |-> perOrigin[o] - Cardinality(R \cap Held(o))]

ReleaseCustody(R) ==
    /\ outstanding' = outstanding \ R
    /\ custodyBytes' = custodyBytes - BytesOf(R \cap outstanding)
    /\ perOrigin' = [o \in Origin |-> perOrigin[o] - Cardinality(R \cap Held(o))]

\* take_one_batch: the longest prefix within both caps, never empty.  A
\* frame's SizeOf stands for its length prefix and its bytes.
PrefixBytes(q) == [n \in 0..Len(q) |-> MapThenSumSet(LAMBDA i : SizeOf[q[i]], 1..n)]
Fits(q, n) == n <= 1 \/ (n <= BatchMembers /\ PrefixBytes(q)[n] <= BatchBytes)

IsBatch(q, n) == Fits(q, n) /\ \A m \in 1..Len(q) : Fits(q, m) => m <= n

BeginFlush ==
    /\ turn = "idle" /\ pending # <<>>
    /\ turn' = "flush" /\ flushed' = 0
    /\ UNCHANGED <<custodyVars, engineVars, epochVars, boundary, resumeFloor, drainVars>>

\* propose_batch, one iteration of flush_batch.
ProposeBatch ==
    /\ turn = "flush" /\ flushed < FlushBatches /\ pending # <<>>
    /\ \E n \in 1..Len(pending) :
          /\ IsBatch(pending, n)
          /\ queue' = Append(queue, SubSeq(pending, 1, n))
          /\ pending' = SubSeq(pending, n + 1, Len(pending))
    /\ flushed' = flushed + 1
    /\ UNCHANGED <<outstanding, custodyBytes, perOrigin, accepted, turn, seen, views,
                   inbox, epochVars, boundary, resumeFloor, drainVars>>

EndFlush ==
    /\ turn = "flush" /\ (flushed = FlushBatches \/ pending = <<>>)
    /\ turn' = "idle" /\ flushed' = 0
    /\ UNCHANGED <<custodyVars, engineVars, epochVars, boundary, resumeFloor, drainVars>>

(***************************************************************************)
(* The engine (external)                                                   *)
(***************************************************************************)
\* PendingProposals::remove on finalization: the first occurrence, if any.
Unqueue(b) ==
    \/ b \notin Elems(queue) /\ UNCHANGED queue
    \/ \E k \in DOMAIN queue :
          /\ queue[k] = b /\ \A j \in 1..(k-1) : queue[j] # b
          /\ queue' = SubSeq(queue, 1, k - 1) \o SubSeq(queue, k + 1, Len(queue))

\* The batch certified at a view: the head of this node's queue when it
\* leads, else another validator's.  A resumed engine re-reports the batches
\* of its journal at the views they were sealed at.
MayCertify(v, b) ==
    /\ v \notin views
    /\ Ascending => \A w \in views : w < v
    /\ IF epoch = 0 /\ v <= Len(Recovered)
       THEN b = Recovered[v]
       ELSE b \in Foreign \/ (queue # <<>> /\ b = Head(queue))

Certify(v, b) ==
    /\ turn # "halted"
    /\ MayCertify(v, b)
    /\ views' = views \cup {v}
    /\ Unqueue(b)
    /\ inbox' = IF b \in seen THEN inbox ELSE Append(inbox, [view |-> v, batch |-> b])
    /\ seen' = seen \cup {b}
    /\ UNCHANGED <<custodyVars, turn, flushed, epochVars, boundary, resumeFloor, drainVars>>

(***************************************************************************)
(* drain_delivered, one action per way a delivered batch can go            *)
(***************************************************************************)
Block  == Head(deferred)
AppHeight == viewBase + Block.view
Draining == turn = "drain" /\ deferred # <<>> /\ ~pass.broke

IsResumeReplay == AppHeight <= resumeFloor

BugIsOutOfOrder == FALSE                                    \* no monotonicity floor

BugIsDiscarded == ceiling # 0 /\ Block.view > ceiling       \* off by one

IsOutOfOrder   == ~IsResumeReplay /\ AppHeight <= appliedFloor
IsDiscarded    == ceiling # 0 /\ Block.view >= ceiling

BugIsReplayed ==            \* only the previous block is compared
    window # <<>> /\ window[Len(window)] = Block.batch

IsReplayed     == Block.batch \in Elems(window)
Reaches == Draining /\ ~IsResumeReplay /\ ~IsOutOfOrder

BeginDrain ==
    /\ turn = "idle"
    /\ deferred \o inbox # <<>>
    /\ turn' = "drain"
    /\ deferred' = deferred \o inbox
    /\ inbox' = <<>>
    /\ pass' = NoPass
    /\ UNCHANGED <<custodyVars, flushed, queue, seen, views, epochVars, boundary,
                   resumeFloor, changed, appliedFloor, window, chain>>

\* A view that is skipped or discarded moves the engine clock and nothing else.
PassOver ==
    /\ deferred' = Tail(deferred)
    /\ pass' = [pass EXCEPT !.last = Block.view]
    /\ UNCHANGED <<custodyVars, turn, flushed, engineVars, epochVars, boundary,
                   resumeFloor, changed, appliedFloor, window, chain>>

SkipResumeReplay == Draining /\ IsResumeReplay /\ PassOver
Discard == Reaches /\ IsDiscarded /\ PassOver

\* Error::OutOfOrder, on which drain_pass fail-stops.
RefuseOutOfOrder ==
    /\ Draining /\ IsOutOfOrder
    /\ turn' = "halted"
    /\ UNCHANGED <<custodyVars, flushed, engineVars, epochVars, boundary, resumeFloor,
                   drainVars>>

\* seal and remember_applied; ran tells whether the members were executed.
Seal(ran) ==
    /\ deferred' = Tail(deferred)
    /\ appliedFloor' = AppHeight
    /\ window' = Newest(Append(window, Block.batch), WindowHeights)
    /\ chain' = Append(chain, [epoch |-> epoch, height |-> AppHeight,
                               batch |-> Block.batch, ran |-> ran])

\* The replay window refuses the batch, the batch does not decode, or the
\* once-per-block system work rejects it: sealed whole, custody untouched.
SealRefused ==
    /\ Reaches /\ ~IsDiscarded
    /\ IsReplayed \/ Block.batch = Junk \/ AdvanceRejects
    /\ Seal(FALSE)
    /\ pass' = [pass EXCEPT !.last = Block.view, !.sealed = Block.view]
    /\ UNCHANGED <<custodyVars, turn, flushed, engineVars, epochVars, boundary,
                   resumeFloor, changed>>

\* realize_module_swaps fails: the block stays at the front and the pass ends
\* without reaching the assignments after the loop.
Stall ==
    /\ Reaches /\ ~IsDiscarded /\ ~IsReplayed
    /\ turn' = "tick" /\ pass' = NoPass
    /\ UNCHANGED <<custodyVars, flushed, engineVars, epochVars, boundary, resumeFloor,
                   changed, appliedFloor, deferred, window, chain>>

\* The members run as one block.  Each resolves, applied or rejected, and
\* leaves custody; moved tells whether the watched (valset) root changed.
Execute(moved) ==
    /\ Reaches /\ ~IsDiscarded /\ ~IsReplayed /\ Block.batch # Junk
    /\ Seal(TRUE)
    /\ ReleaseCustody(Members(Block.batch))
    /\ changed' = (changed \/ moved)
    /\ pass' = [last |-> Block.view, sealed |-> Block.view, broke |-> moved]
    /\ UNCHANGED <<pending, accepted, turn, flushed, engineVars, epochVars, boundary,
                   resumeFloor>>

\* SubmitError::Fatal: the block is journaled, the process exits.
HostFatal ==
    /\ Reaches /\ ~IsDiscarded /\ ~IsReplayed
    /\ turn' = "halted"
    /\ appliedFloor' = AppHeight
    /\ UNCHANGED <<custodyVars, flushed, engineVars, epochVars, boundary, resumeFloor,
                   changed, deferred, window, pass, chain>>

\* The assignments after the loop.
BugBoundaryView == pass.last    \* a discarded view counts as sealed

BoundaryView == pass.sealed

EndDrain ==
    /\ turn = "drain" /\ (deferred = <<>> \/ pass.broke)
    /\ turn' = "tick"
    /\ lastEngineView' = IF pass.last # 0 THEN pass.last ELSE lastEngineView
    /\ LET h == viewBase + BoundaryView
           advances == BoundaryView # 0 /\ h > finalized
       IN /\ finalized' = IF advances THEN h ELSE finalized
          /\ finalizedView' = IF advances THEN BoundaryView ELSE finalizedView
    /\ pass' = NoPass
    /\ UNCHANGED <<custodyVars, flushed, engineVars, epochVars, resumeFloor, changed,
                   appliedFloor, deferred, window, chain>>

(***************************************************************************)
(* The orchestration step of drain_pass                                    *)
(***************************************************************************)
\* observe_members: a change arms the boundary once, and it never moves.
Armed ==
    IF ceiling # 0 THEN ceiling
    ELSE IF changed /\ lastEngineView # 0 THEN lastEngineView + Delay ELSE 0
Due == turn = "tick" /\ Armed # 0 /\ lastEngineView >= Armed

Observe ==
    /\ turn = "tick" /\ ~Due
    /\ ceiling' = Armed
    /\ turn' = "idle"
    /\ UNCHANGED <<custodyVars, flushed, engineVars, epoch, viewBase, boundary,
                   resumeFloor, drainVars>>

\* cutover's carry: everything in custody, by seq.  The sort is unstable and
\* the map it sorts is unordered, so frames of equal seq come in any order.
BugCarryUnsorted ==         \* the map's own order
    {s \in [1..Cardinality(outstanding) -> outstanding] : Elems(s) = outstanding}

BugCarryNothing == {pending}        \* only what was never flushed

Carries ==
    {s \in [1..Cardinality(outstanding) -> outstanding] :
        /\ Elems(s) = outstanding
        /\ \A i, j \in DOMAIN s : i < j => SeqOf[s[i]] <= SeqOf[s[j]]}

BugNextBase == viewBase     \* heights restart with the engine's views

NextBase == viewBase + ceiling

\* respawn_if_due, the new orderer, and OrderedNode::cutover up to its flush.
Cutover ==
    /\ Due /\ epoch < MaxEpoch
    /\ epoch' = epoch + 1
    /\ viewBase' = NextBase
    /\ ceiling' = 0 /\ lastEngineView' = 0 /\ finalizedView' = 0
    /\ changed' = FALSE
    /\ queue' = <<>> /\ seen' = {} /\ views' = {} /\ inbox' = <<>>
    /\ deferred' = <<>>
    /\ pending' \in Carries
    /\ turn' = "flush" /\ flushed' = 0
    /\ UNCHANGED <<outstanding, custodyBytes, perOrigin, accepted, finalized,
                   resumeFloor, appliedFloor, window, pass, chain>>

\* The boundary set no longer holds this validator: the process exits.
Demoted ==
    /\ Due
    /\ turn' = "halted"
    /\ UNCHANGED <<custodyVars, flushed, engineVars, epochVars, boundary, resumeFloor,
                   drainVars>>

Drain ==
    \/ BeginDrain \/ SkipResumeReplay \/ RefuseOutOfOrder \/ Discard
    \/ SealRefused \/ Stall \/ HostFatal \/ EndDrain
    \/ \E moved \in BOOLEAN : Execute(moved)

Next ==
    \/ \E f \in Frame : Submit(f)
    \/ BeginFlush \/ ProposeBatch \/ EndFlush
    \/ \E v \in View : \E b \in Foreign \cup Elems(queue) \cup Elems(Recovered) :
          Certify(v, b)
    \/ Drain
    \/ Observe \/ Cutover \/ Demoted

Spec == Init /\ [][Next]_vars

\* The loop keeps taking turns, a stalled code fetch is retried until the
\* bytes land, and the engine finalizes what heads this node's queue: leaders
\* rotate, and propose peeks at the queue until its head finalizes.
CertifyOwn == \E v \in View : queue # <<>> /\ MayCertify(v, Head(queue)) /\ Certify(v, Head(queue))
Fairness ==
    /\ WF_vars(BeginFlush) /\ WF_vars(ProposeBatch) /\ WF_vars(EndFlush)
    /\ WF_vars(BeginDrain) /\ WF_vars(EndDrain)
    /\ WF_vars(SkipResumeReplay) /\ WF_vars(Discard) /\ WF_vars(SealRefused)
    /\ SF_vars(\E moved \in BOOLEAN : Execute(moved))
    /\ WF_vars(Observe) /\ WF_vars(Cutover)
    /\ WF_vars(CertifyOwn)

FairSpec == Spec /\ Fairness

(***************************************************************************)
(* Properties                                                              *)
(***************************************************************************)
TypeOK ==
    /\ outstanding \subseteq Frame /\ accepted \subseteq Frame
    /\ custodyBytes \in Nat
    /\ perOrigin \in [Origin -> Nat]
    /\ pending \in Seq(Frame)
    /\ turn \in {"idle", "flush", "drain", "tick", "halted"}
    /\ flushed \in 0..FlushBatches
    /\ views \subseteq View
    /\ epoch \in 0..MaxEpoch /\ viewBase \in Height
    /\ ceiling \in 0..(MaxView + Delay) /\ changed \in BOOLEAN
    /\ lastEngineView \in 0..MaxView /\ finalizedView \in 0..MaxView
    /\ finalized \in Height /\ resumeFloor \in Height /\ appliedFloor \in Height
    /\ pass \in [last : 0..MaxView, sealed : 0..MaxView, broke : BOOLEAN]

Ran(i) == chain[i].ran
Executions(f) == {i \in DOMAIN chain : Ran(i) /\ f \in Members(chain[i].batch)}

\* The counters the mempool caps compare against never drift from the custody
\* map, and the map stays within the caps, through drains that release frames
\* in bulk, foreign batches that release this node's frames, and cutovers that
\* drain and reinsert the whole map (release_custody: "the caps' counters
\* cannot drift from the map they bound").
CustodyAccounted ==
    /\ custodyBytes = BytesOf(outstanding)
    /\ \A o \in Origin : perOrigin[o] = Cardinality(Held(o))
    /\ Cardinality(outstanding) <= MaxCustodyFrames
    /\ custodyBytes <= MaxCustodyBytes
    /\ \A o \in Origin : perOrigin[o] <= MaxPerOrigin

\* pending_batch: "always a subset of `outstanding`", and no frame waits in
\* it twice.
PendingInCustody ==
    /\ Elems(pending) \subseteq outstanding
    /\ Cardinality(Elems(pending)) = Len(pending)

\* Where an accepted frame can be before it resolves: enqueued, proposed to
\* the current engine, delivered and not drained, or discarded past the
\* ceiling and waiting for the cutover that carries it.
AwaitingCarry == ceiling # 0 /\ (pass.last >= ceiling \/ lastEngineView >= ceiling)
InFlight ==
    Elems(pending) \cup UNION {Members(b) : b \in Elems(queue) \cup Batches(inbox) \cup Batches(deferred)}

\* "Ok => ordered, or deterministically rejected - never silently lost": every
\* frame in custody is still on its way to a block.
AcceptedInFlight == turn = "halted" \/ AwaitingCarry \/ outstanding \subseteq InFlight

\* A frame accepted here runs at most once, across re-proposals, the cutover carry
\* and the restart ("a carry can never double-apply").
FrameOnce == \A f \in accepted : Cardinality(Executions(f)) <= 1

\* A submitter that sends its frames in seq order sees them run in that order,
\* whatever batches they were packed in and however many cutovers carried
\* them (cutover: "this origin's ops keep the order their submitter observed
\* them acked in").
SubmitterOrder ==
    \A f, g \in accepted :
        OriginOf[f] = OriginOf[g] /\ SeqOf[f] < SeqOf[g] /\ Executions(g) # {}
        => /\ Executions(f) # {}
           /\ \A i \in Executions(f), j \in Executions(g) :
                 \/ i < j
                 \/ i = j /\ \E m, n \in DOMAIN chain[i].batch :
                        m < n /\ chain[i].batch[m] = f /\ chain[i].batch[n] = g

\* What an Ok to a submitter means, as long as its clients send each frame once
\* and in order: the frame is held once, is on its way until it resolves, runs
\* at most once and in its submitter's order, through packing, foreign batches,
\* discards at the ceiling and the carry into the next epoch.
AcceptedOnceInOrder == PendingInCustody /\ AcceptedInFlight /\ FrameOnce /\ SubmitterOrder

\* Blocks are sealed at strictly ascending heights, in whatever order the
\* inbox released them: qmdb roots depend on the order of application.
HeightsAscend == \A i, j \in DOMAIN chain : i < j => chain[i].height < chain[j].height

\* When the inbox keeps its promise of ascending views, the fail-stop on an
\* out-of-order height is never taken: neither a restart's re-reports nor a
\* new epoch's first views collide with what is already sealed.
NeverOutOfOrder == Ascending => ~(Draining /\ IsOutOfOrder)

\* Everything an epoch seals lies below the base of the next one, so a height
\* names one epoch: the ceiling discards the rest.
EpochsDisjoint == \A i \in DOMAIN chain : chain[i].epoch < epoch => chain[i].height < viewBase

\* A height names one block of one epoch, whatever order the inbox released
\* the views in.
ChainOrdered == HeightsAscend /\ EpochsDisjoint

\* The boundary served to state sync is a sealed height of this history (a
\* discarded view "would claim a height recovery cannot reproduce"), and its
\* view belongs to the current engine.
FinalizedSealed ==
    /\ finalized # 0 => \E i \in DOMAIN chain : chain[i].height = finalized
    /\ finalizedView # 0 => finalized = viewBase + finalizedView

\* finalized is "the latest APPLIED consensus boundary" whenever the loop is
\* between turns with nothing left to drain: a stall returns before the
\* boundary is assigned, and the pass that gets past it makes up for it.
FinalizedIsTip ==
    turn = "idle" /\ deferred = <<>> /\ chain # <<>> => finalized = chain[Len(chain)].height

\* The boundary is always sealed, and the tip once nothing waits: neither
\* stale nor ahead of what recovery can reproduce.
BoundaryIsTip == FinalizedSealed /\ FinalizedIsTip

\* Within WindowHeights sealed blocks a byte-identical batch runs once, across
\* cutovers (which reset the engine's own gate) and restarts.
NoReplayInWindow ==
    \A i, j \in DOMAIN chain :
        i < j /\ Ran(i) /\ Ran(j) /\ chain[i].batch = chain[j].batch
        => j - i > WindowHeights

\* An accepted frame is eventually resolved: stalls, barriers, the flush cap
\* and cutovers delay it and never strand it.  The bounds of the model (views,
\* epochs) and an exit of the process end the promise.
BoundReached == MaxView \in views \/ (Due /\ epoch = MaxEpoch)
AcceptedResolves ==
    \A f \in Frame :
        f \in outstanding ~> (f \notin outstanding \/ BoundReached \/ turn = "halted")
================================================================================
