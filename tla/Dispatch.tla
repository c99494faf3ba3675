------------------------------- MODULE Dispatch --------------------------------
(***************************************************************************)
(* The dispatch module's two queues (crates/modules/system/dispatch/src/   *)
(* lib.rs) and the host's block engine that drains them (apply_block,      *)
(* run_call, run_delivery of crates/kernel/host/src/lib.rs), over the saga *)
(* ledger as AsyncWork describes it.                                       *)
(*                                                                         *)
(* A block runs its members, then the calls and the mailbox items that     *)
(* were at the head of the committed queues when it was prepared; each is  *)
(* a unit that stages all it does or nothing.  A unit that rejects after   *)
(* staging costs one rollback and replay of the accepted units, and past   *)
(* MAX_BLOCK_REPLAYS nothing more is attempted.  The stage commits at the  *)
(* end, or is dropped when the boundary injection rejects, the witness     *)
(* cannot be written or the process dies; the queues are then prepared     *)
(* again from what is committed.                                           *)
(*                                                                         *)
(* A subject is a dispatch key or a call id: both are permanent claims.    *)
(* Receivers, call targets and the identity module's verdict on a call may *)
(* answer anything, and a receiver or a target may dispatch and call in    *)
(* its turn.  Recipes and record sizes are not modelled; that the reason   *)
(* of a rejection may not fit its receipt is.                              *)
(***************************************************************************)
EXTENDS Integers, FiniteSets, Sequences, SequencesExt, Functions

CONSTANTS
    Key,            \* dispatch keys
    Call,           \* call ids
    None,
    MaxNumber,      \* the last queue number (u64::MAX)
    MaxPerBlock,    \* MAX_DELIVERIES_PER_BLOCK
    MaxReplays,     \* MAX_BLOCK_REPLAYS
    MaxFaults       \* bound: runs of rejections by others plus blocks dropped

Subject == Key \cup Call
Outcome == {"ok", "err", "applied", "rejected", "refused", "unrepresentable"}

ASSUME DispatchAssumption ==
    /\ IsFiniteSet(Subject) /\ Key \cap Call = {} /\ None \notin Subject \cup Outcome
    /\ MaxPerBlock \in Nat \ {0}
    /\ {MaxNumber, MaxReplays, MaxFaults} \subseteq Nat

VARIABLES
    committed,  \* the modules' committed state
    staged,     \* the same with the open block's accepted units on top
    phase,      \* "idle", "members" or "work"
    todo,       \* prepared entries the block has still to run
    replays,    \* rollbacks the block has paid for
    faults      \* runs of rejections and dropped blocks so far, a bound

vars == <<committed, staged, phase, todo, replays, faults>>

\* The state of the modules.
\*   records   subject -> its record: waiting (AwaitingResult, Queued), ready
\*             (AwaitingDelivery, Completed) or delivered
\*   calls     the calls in queue order; callHead is the head's number
\*   mail      item number -> the subject it is about, for queued items
\*   reserved  mailbox numbers promised to open work
\*   open      dispatches whose saga is live
\*   agreed    how a dispatch's saga ended
\*   effects   times the target of a call took effect
\*   consumed  outcomes the receiver took in, in order
Fresh == [records |-> [s \in {} |-> {}],
          calls |-> <<>>, callHead |-> 0,
          mail |-> [n \in {} |-> {}], mailHead |-> 0, mailNext |-> 0,
          reserved |-> 0,
          open |-> {}, agreed |-> [k \in Key |-> None],
          effects |-> [c \in Call |-> 0],
          consumed |-> [s \in Subject |-> <<>>]]

Init ==
    /\ committed = Fresh /\ staged = Fresh
    /\ phase = "idle" /\ todo = <<>> /\ replays = 0
    /\ faults = 0

(***************************************************************************)
(* The dispatch module                                                     *)
(***************************************************************************)
\* A map with one entry more, or with one replaced.
With(f, x, v) == [y \in DOMAIN f \cup {x} |-> IF y = x THEN v ELSE f[y]]

BugCanReserve(w) == w.mailNext + 1 <= MaxNumber     \* open work is not counted

\* reserve_completion: a number is left for every open entry and this one.
CanReserve(w) == w.mailNext + w.reserved + 1 <= MaxNumber

Opened(w, s) ==
    [w EXCEPT !.records = With(@, s, [status |-> "waiting", outcome |-> None, delivery |-> None]),
              !.reserved = @ + 1]

\* on_dispatch; the trigger it emits runs in the same unit.  A key that is
\* taken is a no-op.
CanDispatch(w, k) == k \notin DOMAIN w.records /\ CanReserve(w)
OnDispatch(w, k) == [Opened(w, k) EXCEPT !.open = @ \cup {k}]

\* on_call, for an account its requester executes.
CanCall(w, c) ==
    /\ c \notin DOMAIN w.records
    /\ Len(w.calls) + 1 <= MaxNumber
    /\ CanReserve(w)
OnCall(w, c) == [Opened(w, c) EXCEPT !.calls = Append(@, c)]

\* The outcome is recorded and a mailbox item appended on a reserved number.
CanPost(w, s) ==
    /\ w.records[s].status = "waiting"
    /\ w.reserved > 0
    /\ w.mailNext + 1 <= MaxNumber

Posted(w, s, o) ==
    [w EXCEPT !.records[s] = [@ EXCEPT !.status = "ready", !.outcome = o],
              !.mail = With(@, w.mailNext, s),
              !.mailNext = @ + 1,
              !.reserved = @ - 1]

BugOnSagaCallback(w, k, o) == Posted(w, k, o)       \* the status is not read

\* on_saga_callback: a dispatch that has its outcome ignores another.
OnSagaCallback(w, k, o) ==
    IF w.records[k].status = "waiting" THEN Posted(w, k, o) ELSE w

\* The saga of a dispatch ends and calls back in the same unit.
CanEnd(w, k) == k \in w.open /\ (w.records[k].status = "waiting" => CanPost(w, k))
SagaEnds(w, k, o) ==
    [OnSagaCallback(w, k, o) EXCEPT !.open = @ \ {k}, !.agreed[k] = o]

\* on_complete_call of the call numbered n
CanComplete(w, n) ==
    n = w.callHead /\ n < Len(w.calls) /\ CanPost(w, w.calls[n + 1])

BugCompleteCall(w, n, o) == Posted(w, w.calls[n + 1], o)    \* the head stays

CompleteCall(w, n, o) ==
    [Posted(w, w.calls[n + 1], o) EXCEPT !.callHead = n + 1]

\* acknowledge: the item is retired, its outcome dropped, the receipt kept.
CanAcknowledge(w, n) ==
    /\ n = w.mailHead /\ n < w.mailNext
    /\ n \in DOMAIN w.mail /\ w.records[w.mail[n]].outcome # None

Acknowledge(w, n, o) ==
    LET s == w.mail[n]
        kept == IF s \in Key THEN None ELSE w.records[s].outcome
    IN  [w EXCEPT !.records[s] = [status |-> "delivered", outcome |-> kept, delivery |-> o],
                  !.mail = Restrict(@, DOMAIN @ \ {n}),
                  !.mailHead = n + 1]

\* on_cancel: the saga ends as cancelled and calls back in the same unit.
OnCancel(w, k) == SagaEnds(w, k, "err")

\* What one message a module emits may do to the plane.
Emits(w) ==
    {w} \cup {OnDispatch(w, k) : k \in {k \in Key : CanDispatch(w, k)}}
        \cup {OnCall(w, c) : c \in {c \in Call : CanCall(w, c)}}
        \cup {OnCancel(w, k) : k \in {k \in Key : CanEnd(w, k)}}

\* What a module's own unit may do to the plane besides its own work: up to
\* two messages of the MAX_DISPATCHES a unit may emit.
FollowUps(w) == UNION {Emits(v) : v \in Emits(w)}

(***************************************************************************)
(* Queue entries as the host runs them                                     *)
(***************************************************************************)
Entry == [kind : {"call", "item"}, number : Nat]

HeadBatch(kind, head, next) ==
    [i \in 1 .. (IF next - head < MaxPerBlock THEN next - head ELSE MaxPerBlock) |->
        [kind |-> kind, number |-> head + i - 1]]

\* prepare_work
PreparedWork(w) ==
    HeadBatch("call", w.callHead, Len(w.calls)) \o HeadBatch("item", w.mailHead, w.mailNext)

CanRetire(w, e) ==
    IF e.kind = "call" THEN CanComplete(w, e.number) ELSE CanAcknowledge(w, e.number)
Retire(w, e, o) ==
    IF e.kind = "call" THEN CompleteCall(w, e.number, o) ELSE Acknowledge(w, e.number, o)

\* The entry's op at its target: the call's effect, or the outcome taken in.
Ran(w, e) ==
    IF e.kind = "call"
    THEN [w EXCEPT !.effects[w.calls[e.number + 1]] = @ + 1]
    ELSE LET s == w.mail[e.number]
         IN  [w EXCEPT !.consumed[s] = Append(@, w.records[s].outcome)]

(***************************************************************************)
(* The block engine                                                        *)
(***************************************************************************)
BugBudgetExhausted(r) == FALSE      \* never checked

BudgetExhausted(r) == r > MaxReplays

\* The fixed marker, recorded in a unit of its own after r replays.
Marked(w, r, e) ==
    IF BudgetExhausted(r) THEN <<w, r>>
    ELSE IF CanRetire(w, e) THEN <<Retire(w, e, "unrepresentable"), r>>
    ELSE <<w, r + 1>>

BugFinalized(w, r, e, o, fits) ==       \* a receipt that does not fit stays queued
    IF BudgetExhausted(r) THEN <<w, r>>
    ELSE IF fits /\ CanRetire(w, e) THEN <<Retire(w, e, o), r>>
    ELSE <<w, r + 1>>

\* finalize_call and acknowledge_delivery: the outcome in a unit of its own,
\* else the marker, else the entry stays queued.
Finalized(w, r, e, o, fits) ==
    IF BudgetExhausted(r) THEN <<w, r>>
    ELSE IF fits /\ CanRetire(w, e) THEN <<Retire(w, e, o), r>>
    ELSE Marked(w, r + 1, e)

BugApplied(w, r, e) ==          \* the refused finalizer leaves the op's writes
    LET ran == FollowUps(Ran(w, e)) IN
    {<<Retire(f, e, "applied"), r>> : f \in {f \in ran : CanRetire(f, e)}}
        \cup {Marked(f, r + 1, e) : f \in ran}

\* The op applies and its finalizer joins its unit (extend_unit); a finalizer
\* that is refused takes the op's writes with it.  Admission makes room for
\* the largest applied record; the host does not rely on it.
Applied(w, r, e) ==
    {<<Retire(f, e, "applied"), r>> : f \in {f \in FollowUps(Ran(w, e)) : CanRetire(f, e)}}
        \cup {Marked(w, r + 1, e)}

\* The op rejects, before or after it staged something.
Rejected(w, r, e) ==
    {Finalized(w, r + cost, e, IF e.kind = "call" THEN "rejected" ELSE "failed", fits) :
        cost \in {0, 1}, fits \in BOOLEAN}

\* The identity module no longer vouches for the call.
Refused(w, r, e) ==
    IF e.kind = "call" THEN {Finalized(w, r, e, "refused", TRUE)} ELSE {}

\* The block's work is prepared from the committed queues.
Begin ==
    /\ phase = "idle"
    /\ phase' = "members"
    /\ todo' = PreparedWork(committed)
    /\ UNCHANGED <<committed, staged, replays, faults>>

\* When units that are not dispatch's own work run: the members, and between
\* dispatch's calls and its items and after them the items of the other
\* modules' queues (attribution's before dispatch's, runs' after), which the
\* same block prepared and which draw on the same rollback budget.
OthersTurn ==
    \/ phase = "members"
    \/ /\ phase = "work"
       /\ todo # <<>> => Head(todo) = [kind |-> "item", number |-> committed.mailHead]

\* A member, or an item of another module's queue, is accepted: a module
\* dispatches or calls, or a result, a cancel or a crank ends a saga (a unit
\* that does several is as many steps).  A saga that has ended calling back
\* again is beyond what AsyncWork allows; dispatch does not rely on that.
Member ==
    /\ OthersTurn
    /\ ~BudgetExhausted(replays)
    /\ \/ staged' \in Emits(staged) \ {staged}
       \/ \E k \in Key, o \in {"ok", "err"} :
             \/ CanEnd(staged, k) /\ staged' = SagaEnds(staged, k, o)
             \/ /\ k \in DOMAIN staged.records \ staged.open
                /\ staged' = OnSagaCallback(staged, k, o)
    /\ UNCHANGED <<committed, phase, todo, replays, faults>>

\* A member, or an item of another module's queue, rejects after staging and
\* its unit is rolled back; or several in a row do, up to the whole budget.
MemberRejected ==
    /\ OthersTurn
    /\ ~BudgetExhausted(replays)
    /\ faults < MaxFaults
    /\ faults' = faults + 1
    /\ replays' \in replays + 1 .. MaxReplays + 1
    /\ UNCHANGED <<committed, staged, phase, todo>>

BugMembersDone ==              \* prepared after the members
    /\ phase = "members"
    /\ phase' = "work"
    /\ todo' = PreparedWork(staged)
    /\ UNCHANGED <<committed, staged, replays, faults>>

MembersDone ==
    /\ phase = "members"
    /\ phase' = "work"
    /\ UNCHANGED <<committed, staged, todo, replays, faults>>

\* run_call and run_delivery
RunQueued ==
    /\ phase = "work"
    /\ todo # <<>>
    /\ ~BudgetExhausted(replays)
    /\ todo' = Tail(todo)
    /\ UNCHANGED <<committed, phase, faults>>
    /\ \E end \in Applied(staged, replays, Head(todo))
                  \cup Rejected(staged, replays, Head(todo))
                  \cup Refused(staged, replays, Head(todo)) :
          staged' = end[1] /\ replays' = end[2]

\* Unattempted: the rest stays queued for the next block.
BudgetOut ==
    /\ phase = "work"
    /\ todo # <<>>
    /\ BudgetExhausted(replays)
    /\ todo' = <<>>
    /\ UNCHANGED <<committed, staged, phase, replays, faults>>

Commit ==
    /\ phase = "work"
    /\ todo = <<>>
    /\ committed' = staged
    /\ phase' = "idle"
    /\ replays' = 0
    /\ UNCHANGED <<staged, todo, faults>>

BugAbandon ==                   \* the stage is left behind
    /\ phase # "idle"
    /\ faults < MaxFaults
    /\ faults' = faults + 1
    /\ phase' = "idle" /\ todo' = <<>> /\ replays' = 0
    /\ UNCHANGED <<committed, staged>>

\* The block is dropped before its commit boundary, its stage with it.
Abandon ==
    /\ phase # "idle"
    /\ faults < MaxFaults
    /\ faults' = faults + 1
    /\ phase' = "idle" /\ todo' = <<>> /\ replays' = 0
    /\ staged' = committed
    /\ UNCHANGED committed

Next == Begin \/ Member \/ MemberRejected \/ MembersDone \/ RunQueued
           \/ BudgetOut \/ Commit \/ Abandon

Spec == Init /\ [][Next]_vars

\* Blocks keep being made (an idle chain beats one nop block per block time)
\* and each runs to its boundary.
Engine == Begin \/ MembersDone \/ RunQueued \/ BudgetOut \/ Commit
FairSpec == Spec /\ WF_vars(Engine)

--------------------------------------------------------------------------------
Receipt == {None, "applied", "failed", "unrepresentable"}

WorldOK(w) ==
    /\ DOMAIN w.records \subseteq Subject
    /\ \A s \in DOMAIN w.records :
          w.records[s] \in [status : {"waiting", "ready", "delivered"},
                           outcome : Outcome \cup {None}, delivery : Receipt]
    /\ w.calls \in Seq(Call) /\ w.callHead \in 0 .. Len(w.calls)
    /\ w.mailNext \in 0 .. MaxNumber /\ w.mailHead \in 0 .. w.mailNext
    /\ w.reserved \in Nat /\ w.open \subseteq Key
    /\ w.effects \in [Call -> Nat]

\* Every variable holds a value of its type.
TypeOK ==
    /\ WorldOK(committed) /\ WorldOK(staged)
    /\ phase \in {"idle", "members", "work"}
    /\ todo \in Seq(Entry) /\ Len(todo) <= 2 * MaxPerBlock
    /\ replays \in 0 .. MaxReplays + 1
    /\ faults \in 0 .. MaxFaults

Waiting(w) == {s \in DOMAIN w.records : w.records[s].status = "waiting"}
Ready(w) == {s \in DOMAIN w.records : w.records[s].status = "ready"}

\* on_call's and on_dispatch's promise, kept to the last number: whatever is
\* admitted between, the outcome of every open entry can be posted, so a
\* finalized callback or completion is never refused for want of a number.
CompletionsFit ==
    \A w \in {committed, staged} :
        /\ w.reserved = Cardinality(Waiting(w))
        /\ w.mailNext + w.reserved <= MaxNumber
        /\ \A s \in Waiting(w) : CanPost(w, s)

\* The queues hold what the records say: a mailbox item for each outcome not
\* yet delivered, in unbroken numbers; the calls from the head on are the
\* ones still waiting; a dispatch waits exactly while its saga is live.
QueuesMatchRecords ==
    \A w \in {committed, staged} :
        /\ DOMAIN w.mail = w.mailHead .. w.mailNext - 1
        /\ IsInjective(w.mail) /\ Range(w.mail) = Ready(w)
        /\ {w.calls[i] : i \in w.callHead + 1 .. Len(w.calls)} = Waiting(w) \cap Call
        /\ IsInjective(w.calls) /\ Range(w.calls) = DOMAIN w.records \cap Call
        /\ w.open = Waiting(w) \cap Key

\* Within their types and the rollback budget, the queues, the reservations
\* and the records stay in step, committed and staged, through rollbacks and
\* dropped blocks.
QueuesSound == TypeOK /\ CompletionsFit /\ QueuesMatchRecords

\* A call takes effect exactly as often as its record says: once when it
\* applied, never when it was rejected, refused, could not be recorded or
\* has not run, however often its block was rolled back or dropped.
EffectOnce ==
    \A w \in {committed, staged} : \A c \in Call :
        w.effects[c] = IF c \in DOMAIN w.records /\ w.records[c].outcome = "applied"
                       THEN 1 ELSE 0

\* A receiver takes an outcome in exactly once, the one agreed for its
\* dispatch or call, and only under an "applied" receipt.
OutcomeOnce ==
    \A w \in {committed, staged} : \A s \in Subject :
        w.consumed[s] =
            IF s \in DOMAIN w.records /\ w.records[s].delivery = "applied"
            THEN << IF s \in Key THEN w.agreed[s] ELSE w.records[s].outcome >>
            ELSE <<>>

\* While the block has budget, the entry it turns to is its queue's head: an
\* entry left queued stops every later one of its batch, so none is
\* finalized out of order.
NextIsHead ==
    phase = "work" /\ todo # <<>> /\ ~BudgetExhausted(replays) =>
        LET e == Head(todo)
        IN  e.number = IF e.kind = "call" THEN staged.callHead ELSE staged.mailHead

\* Exactly once, in queue order: no rollback, marker or dropped block makes a
\* call or a delivery happen twice, not at all, or before an earlier one.
OnceInOrder == EffectOnce /\ OutcomeOnce /\ NextIsHead

\* What a step hands over or runs was committed as queued.
FromCommitted ==
    /\ \A s \in Subject :
          Len(staged'.consumed[s]) > Len(staged.consumed[s]) => s \in Ready(committed)
    /\ \A c \in Call :
          staged'.effects[c] > staged.effects[c] => c \in Waiting(committed)

\* The never-pop-stack rule: an outcome is handed to its receiver, and a call
\* run, only in a block after the one that committed it as queued.
NeverSameBlock == [][FromCommitted]_vars

\* Queued work is not lost: the committed queues are empty again and again,
\* every outcome delivered and every call completed, whatever receivers and
\* targets do, past any finite number of members that burn the block's
\* rollbacks and of blocks that are dropped.
QueuesDrain == []<>(PreparedWork(committed) = <<>>)

================================================================================
