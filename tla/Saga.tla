--------------------------------- MODULE Saga ----------------------------------
(***************************************************************************)
(* The saga ledger (crates/modules/system/saga/src/lib.rs): the replicated *)
(* record of asynchronous work.  A trigger opens a saga and leases its     *)
(* first attempt to a worker; the worker's result, a cancel or the         *)
(* permissionless Crank ends it; the ending emits one callback to the      *)
(* requester.  Operations arrive in consensus order, so every action is    *)
(* one executed op; refused ops and no-ops leave the ledger as it was.     *)
(*                                                                         *)
(* consensus_time is the height (ConsensusTimePolicy::HeightIsTime).  The  *)
(* assignment pool, read from valset and the capability registry, and the  *)
(* standing of a node that claims, may be anything at any op.  Specs,      *)
(* results and errors are their weights; the shards of the live index are  *)
(* one index; the saturation of u64 views is out of reach of any height.   *)
(***************************************************************************)
EXTENDS Integers, FiniteSets, FiniteSetsExt, Functions

CONSTANTS
    Id,             \* saga ids, in their byte order
    Origin, Owner,  \* origins, and the origin whose namespace an id is in
    LiveCap,        \* live_saga_cap
    Worker,         \* keys that may hold a lease
    None,
    Policy,         \* lease policy: who may complete an assigned attempt
    Requests,       \* origin -> what its triggers may ask for
    ResultBytes,    \* weights of a result or an error
    ExhaustedBytes, \* weight of "lease attempts exhausted"
    DefaultLease, CrankBudget, MaxRetained, MaxRetainedBytes,
    PendingPage, PendingPageBytes,
    MaxNow, MaxTriggers     \* bounds

OptNat == Nat \cup {None}
OptWorker == Worker \cup {None}
Request == [reply : BOOLEAN, spec : Nat, max : Nat \ {0}, pinned : OptWorker,
            window : OptNat, deadline : OptNat]

ASSUME SagaAssumption ==
    /\ IsFiniteSet(Id) /\ Id \subseteq Nat \ {0}
    /\ Owner \in [Id -> Origin]
    /\ LiveCap \in [Origin -> Nat]
    /\ None \notin Nat \cup Worker
    /\ Policy \in {"open", "strict"}
    /\ Requests \in [Origin -> SUBSET Request]
    /\ ResultBytes \subseteq Nat
    /\ {ExhaustedBytes, DefaultLease, MaxRetainedBytes, PendingPageBytes} \subseteq Nat
    /\ {CrankBudget, MaxRetained, PendingPage} \subseteq Nat \ {0}
    /\ {MaxNow, MaxTriggers} \subseteq Nat

VARIABLES
    now,        \* the height being executed
    sagas,      \* id -> its record
    pending,    \* live index: id -> when it is next due, whether it is leased
    terminal,   \* receipt index: id -> when it ended, what it weighs
    quota,      \* origin -> its live count
    callbacks,  \* callbacks emitted for an id since it was last triggered
    orders,     \* external: work orders neither answered nor cancelled
    triggers    \* bound: triggers taken

vars == <<now, sagas, pending, terminal, quota, callbacks, orders, triggers>>

Ended == {"done", "failed", "timedout", "cancelled"}    \* is_terminal
Live == {i \in DOMAIN sagas : sagas[i].status \notin Ended}

Init ==
    /\ now = 0
    /\ sagas = [i \in {} |-> {}]
    /\ pending = [i \in {} |-> {}]
    /\ terminal = [i \in {} |-> {}]
    /\ quota = [o \in Origin |-> 0]
    /\ callbacks = [i \in Id |-> 0]
    /\ orders = {}
    /\ triggers = 0

(***************************************************************************)
(* Leases                                                                  *)
(***************************************************************************)
\* The earlier of two instants that may be absent.
Earlier(a, b) == CASE a = None -> b
                   [] b = None -> a
                   [] OTHER -> IF a <= b THEN a ELSE b

Window(s) == IF s.window = None THEN DefaultLease ELSE s.window

BugLease(s, w) == IF w = None THEN None ELSE now + Window(s)    \* the deadline is ignored

\* bounded_lease_expiry
LeaseExpiry(s, w) == IF w = None THEN None ELSE Earlier(now + Window(s), s.deadline)

Leased(s, w) == [s EXCEPT !.assignee = w, !.lease = LeaseExpiry(s, w)]

\* The keys an attempt may be leased to: the pin, or a rendezvous over
\* whatever pool there is without the excluded key.
Candidates(s, excluded) ==
    IF s.pinned # None THEN {s.pinned} ELSE (Worker \ {excluded}) \cup {None}

\* The work order of an attempt; an unassigned one is only an announcement.
Order(i, s) == IF s.assignee = None THEN {} ELSE {<<i, s.attempt, s.assignee>>}

(***************************************************************************)
(* The writers                                                             *)
(***************************************************************************)
ReceiptBytes(s) == s.spec + s.result

BugPendingMeta(s) == [due |-> s.lease, assigned |-> s.assignee # None]

PendingMeta(s) == [due |-> Earlier(s.deadline, s.lease), assigned |-> s.assignee # None]

TerminalEntry(s) == [updated |-> s.updated, bytes |-> ReceiptBytes(s)]

\* A receipt is an id with its terminal entry; the id breaks ties.
Newer(r, q) == \/ r[2].updated > q[2].updated
               \/ r[2].updated = q[2].updated /\ r[1] > q[1]

Weight(receipts) == MapThenSumSet(LAMBDA r : r[2].bytes, receipts)

BugEvictions(receipts) ==       \* the byte budget is not checked
    {r[1] : r \in {r \in receipts :
        Cardinality({q \in receipts : Newer(q, r)}) >= MaxRetained}}

BugTrimNewest(receipts) ==      \* the oldest are kept
    {r[1] : r \in {r \in receipts :
        LET older == {q \in receipts : Newer(r, q)} IN
        \/ Cardinality(older) >= MaxRetained
        \/ Weight(older) > MaxRetainedBytes}}

\* terminal_evictions: the newest are kept while both budgets hold.
TerminalEvictions(receipts) ==
    {r[1] : r \in {r \in receipts :
        LET newer == {q \in receipts : Newer(q, r)} IN
        \/ Cardinality(newer) >= MaxRetained
        \/ Weight(newer) > MaxRetainedBytes}}

\* put, for each id of rec, its record; then the retention trim of execute.
Put(rec) ==
    LET S == DOMAIN rec
        ended == {i \in S : rec[i].status \in Ended}
        receipts == {<<i, terminal[i]>> : i \in DOMAIN terminal \ S}
                       \cup {<<i, TerminalEntry(rec[i])>> : i \in ended}
        evicted == TerminalEvictions(receipts)
    IN  /\ sagas' = [i \in (DOMAIN sagas \cup S) \ evicted |->
                        IF i \in S THEN rec[i] ELSE sagas[i]]
        /\ pending' = [i \in ((DOMAIN pending \ S) \cup (S \ ended)) \ evicted |->
                          IF i \in S THEN PendingMeta(rec[i]) ELSE pending[i]]
        /\ terminal' = [i \in ((DOMAIN terminal \ S) \cup ended) \ evicted |->
                           IF i \in S THEN TerminalEntry(rec[i]) ELSE terminal[i]]

BugRelease(rec) ==              \* by every write, unchecked
    quota' = [o \in Origin |-> quota[o] - Cardinality({i \in DOMAIN rec : rec[i].origin = o})]

\* The slots the sagas that end hand back; an underflow refuses the op.
Release(rec) ==
    LET ended(o) == {i \in DOMAIN rec : rec[i].status \in Ended /\ rec[i].origin = o}
    IN  /\ \A o \in Origin : Cardinality(ended(o)) <= quota[o]
        /\ quota' = [o \in Origin |-> quota[o] - Cardinality(ended(o))]

BugEmitCallback(rec) ==      \* a timeout is not reported
    callbacks' = [i \in Id |-> IF i \in DOMAIN rec /\ rec[i].reply /\ rec[i].status \in Ended \ {"timedout"}
                               THEN callbacks[i] + 1 ELSE callbacks[i]]

EmitCallback(rec) ==
    callbacks' = [i \in Id |-> IF i \in DOMAIN rec /\ rec[i].reply /\ rec[i].status \in Ended
                               THEN callbacks[i] + 1 ELSE callbacks[i]]

\* A write to live sagas and the orders it leaves: dropped ones are answered
\* or fenced, live records that ask for work issue theirs.
Write(rec, dropped, asking) ==
    /\ UNCHANGED <<now, triggers>>
    /\ orders' = (orders \ dropped) \cup UNION {Order(i, rec[i]) : i \in asking}
    /\ Release(rec)
    /\ EmitCallback(rec)
    /\ Put(rec)

WriteOne(i, s, dropped, asking) == Write([j \in {i} |-> s], dropped, asking)

(***************************************************************************)
(* Operations                                                              *)
(***************************************************************************)
\* An id already in the ledger, live or not, makes the trigger a no-op.
Trigger(o, i, r) ==
    /\ triggers < MaxTriggers
    /\ Owner[i] = o
    /\ i \notin DOMAIN sagas
    /\ quota[o] < LiveCap[o]
    /\ LET s == [origin |-> o, reply |-> r.reply, spec |-> r.spec,
                 status |-> "pending", attempt |-> 0, max |-> r.max,
                 assignee |-> None, pinned |-> r.pinned, window |-> r.window,
                 lease |-> None, deadline |-> r.deadline,
                 result |-> 0, updated |-> now]
       IN  \E w \in Candidates(s, None) :
               /\ Put([j \in {i} |-> Leased(s, w)])
               /\ orders' = orders \cup Order(i, Leased(s, w))
    /\ quota' = [quota EXCEPT ![o] = @ + 1]
    /\ callbacks' = [callbacks EXCEPT ![i] = 0]
    /\ triggers' = triggers + 1
    /\ UNCHANGED now

AttemptsRemain(s) == s.attempt + 1 < s.max

\* The lease gate of OracleResult.
MayAnswer(s, w) == Policy = "open" \/ s.assignee = w

\* w answers attempt a; a result for another attempt is a no-op.
OracleResult(i, w, a, ok, bytes) ==
    /\ i \in Live
    /\ a = sagas[i].attempt
    /\ MayAnswer(sagas[i], w)
    /\ LET s == [sagas[i] EXCEPT !.updated = now]
           answered == {<<i, a, w>>}
       IN  \/ /\ ok
              /\ WriteOne(i, [s EXCEPT !.status = "done", !.result = bytes], answered, {})
           \/ /\ ~ok /\ AttemptsRemain(s)
              /\ \E n \in Candidates(s, None) :
                    WriteOne(i, Leased([s EXCEPT !.attempt = @ + 1], n), answered, {i})
           \/ /\ ~ok /\ ~AttemptsRemain(s)
              /\ WriteOne(i, [s EXCEPT !.status = "failed", !.result = bytes], answered, {})

\* The lease a renewal leaves: a new one in the second half of the window,
\* when that is later.
Renewed(s) ==
    LET next == LeaseExpiry(s, s.assignee)
        half == Window(s) \div 2
    IN  IF now >= s.lease - half /\ next > s.lease THEN next ELSE s.lease

RenewLease(i, w, a) ==
    /\ i \in Live
    /\ a = sagas[i].attempt
    /\ sagas[i].assignee = w
    /\ sagas[i].lease # None /\ now < sagas[i].lease
    /\ WriteOne(i, [sagas[i] EXCEPT !.lease = Renewed(sagas[i]), !.updated = now], {}, {})

BugReassign(o, i, a) ==         \* the old holder is not fenced
    /\ i \in Live
    /\ a = sagas[i].attempt
    /\ sagas[i].origin = o
    /\ sagas[i].pinned = None
    /\ AttemptsRemain(sagas[i])
    /\ LET s == [sagas[i] EXCEPT !.updated = now, !.attempt = @ + 1]
       IN  \E w \in Worker \ {s.assignee} : WriteOne(i, Leased(s, w), {}, {i})

\* Refused for a pinned saga, a last attempt and an empty pool.
Reassign(o, i, a) ==
    /\ i \in Live
    /\ a = sagas[i].attempt
    /\ sagas[i].origin = o
    /\ sagas[i].pinned = None
    /\ AttemptsRemain(sagas[i])
    /\ LET s == [sagas[i] EXCEPT !.updated = now, !.attempt = @ + 1]
       IN  \E w \in Worker \ {s.assignee} :
               WriteOne(i, Leased(s, w), Order(i, sagas[i]), {i})

\* The claim lane: the first accept of an unassigned attempt wins its lease.
Accept(i, w, a) ==
    /\ i \in Live
    /\ a = sagas[i].attempt
    /\ sagas[i].assignee = None
    /\ WriteOne(i, Leased([sagas[i] EXCEPT !.updated = now], w), {}, {i})

\* The live sagas the index says are due, those of them that come before i,
\* and the slice one crank takes.
Due == {i \in DOMAIN pending : pending[i].due # None /\ pending[i].due <= now}

Ahead(i) ==
    {j \in Due : \/ pending[j].due < pending[i].due
                 \/ pending[j].due = pending[i].due /\ j < i}

BugCrankSlice == {i \in Due : Cardinality({j \in Due : j < i}) < CrankBudget}   \* in id order

CrankSlice == {i \in Due : Cardinality(Ahead(i)) < CrankBudget}

DeadlineHit(s) == s.deadline # None /\ s.deadline <= now

\* What the crank makes of one due saga, w being the pick for a retry.
Cranked(s, w) ==
    LET u == [s EXCEPT !.updated = now] IN
    CASE DeadlineHit(s) -> [u EXCEPT !.status = "timedout"]
      [] ~DeadlineHit(s) /\ AttemptsRemain(s) -> Leased([u EXCEPT !.attempt = @ + 1], w)
      [] OTHER -> [u EXCEPT !.status = "failed", !.result = ExhaustedBytes]

\* The outcomes of the slice, one for every way the pools may stand.
CrankOutcomes ==
    {[i \in CrankSlice |-> Cranked(sagas[i], pick[i])] :
        pick \in {p \in [CrankSlice -> OptWorker] :
            \A i \in CrankSlice : p[i] \in Candidates(sagas[i], sagas[i].assignee)}}

Crank ==
    /\ Due # {}
    /\ \E rec \in CrankOutcomes :
          Write(rec, UNION {Order(i, sagas[i]) : i \in DOMAIN rec},
                {i \in DOMAIN rec : rec[i].status \notin Ended})

BugCancel(o, i) ==              \* also an ended saga
    /\ i \in DOMAIN sagas
    /\ sagas[i].origin = o
    /\ WriteOne(i, [sagas[i] EXCEPT !.status = "cancelled", !.updated = now],
                Order(i, sagas[i]), {})

Cancel(o, i) ==
    /\ i \in Live
    /\ sagas[i].origin = o
    /\ WriteOne(i, [sagas[i] EXCEPT !.status = "cancelled", !.updated = now],
                Order(i, sagas[i]), {})

BugPrune(o, S) ==               \* a live saga goes too, and keeps its slot
    LET gone == {i \in S \cap DOMAIN sagas : sagas[i].origin = o}
    IN  /\ gone # {}
        /\ sagas' = Restrict(sagas, DOMAIN sagas \ gone)
        /\ pending' = Restrict(pending, DOMAIN pending \ gone)
        /\ terminal' = Restrict(terminal, DOMAIN terminal \ gone)
        /\ UNCHANGED <<now, quota, callbacks, orders, triggers>>

\* The owner reclaims ended sagas; other ids of the op are skipped.
Prune(o, S) ==
    LET gone == {i \in S \cap DOMAIN sagas :
                    sagas[i].status \in Ended /\ sagas[i].origin = o}
        kept == DOMAIN terminal \ gone
        all == gone \cup TerminalEvictions({<<i, terminal[i]>> : i \in kept})
    IN  /\ gone # {}
        /\ sagas' = Restrict(sagas, DOMAIN sagas \ all)
        /\ pending' = Restrict(pending, DOMAIN pending \ all)
        /\ terminal' = Restrict(terminal, kept \ all)
        /\ UNCHANGED <<now, quota, callbacks, orders, triggers>>

\* Consensus moves on to the next height.
Tick ==
    /\ now < MaxNow
    /\ now' = now + 1
    /\ UNCHANGED <<sagas, pending, terminal, quota, callbacks, orders, triggers>>

\* The attempts a message may name.
Attempt == UNION {0 .. r.max - 1 : r \in UNION Range(Requests)}

Next ==
    \/ \E i \in Id : \E r \in Requests[Owner[i]] : Trigger(Owner[i], i, r)
    \/ \E i \in Id, w \in Worker, a \in Attempt, ok \in BOOLEAN, b \in ResultBytes :
          OracleResult(i, w, a, ok, b)
    \/ \E i \in Id, w \in Worker, a \in Attempt : RenewLease(i, w, a)
    \/ \E i \in Id, a \in Attempt : Reassign(Owner[i], i, a)
    \/ \E i \in Id, w \in Worker, a \in Attempt : Accept(i, w, a)
    \/ Crank
    \/ \E i \in Id : Cancel(Owner[i], i)
    \/ \E o \in Origin, S \in {{i} : i \in Id} \cup {Id} : Prune(o, S)
    \/ Tick

Spec == Init /\ [][Next]_vars

\* Views pass, and some node submits a crank when one would do something.
FairSpec == Spec /\ WF_vars(Tick) /\ WF_vars(Crank)

(***************************************************************************)
(* The pending projections                                                 *)
(***************************************************************************)
\* The live ids after the cursor whose meta is in the lane: leased ones for
\* a key, unclaimed ones for None.
LaneAfter(lane, after) ==
    {i \in DOMAIN pending : i > after /\ pending[i].assigned = (lane # None)}

Admitted(lane, i) == sagas[i].assignee = lane

BugPage(lane, after) ==         \* a spec over the byte budget is examined and dropped
    LET all == LaneAfter(lane, after)
        page == {i \in all : Cardinality({j \in all : j < i}) < PendingPage}
        weight(i) == MapThenSumSet(LAMBDA j : sagas[j].spec,
                                   {j \in page : j <= i /\ Admitted(lane, j)})
        fits == {i \in page : i = Min(page) \/ weight(i) <= PendingPageBytes}
    IN  [requests |-> {i \in fits : Admitted(lane, i)},
         next |-> IF page = all THEN None ELSE Max(page)]

\* pending_page: at most PendingPage candidates are examined, up to the
\* first that would carry the page over its bytes; never none.
Page(lane, after) ==
    LET all == LaneAfter(lane, after)
        page == {i \in all : Cardinality({j \in all : j < i}) < PendingPage}
        weight(i) == MapThenSumSet(LAMBDA j : sagas[j].spec,
                                   {j \in page : j <= i /\ Admitted(lane, j)})
        over(i) == Admitted(lane, i) /\ i # Min(page) /\ weight(i) > PendingPageBytes
        examined == {i \in page : \A j \in page : j <= i => ~over(j)}
    IN  [requests |-> {i \in examined : Admitted(lane, i)},
         next |-> IF examined = all THEN None ELSE Max(examined)]

\* The requests a pump collects by following the cursor to the end.
Walk(lane) ==
    LET from[c \in {0} \cup Id] ==
            LET p == Page(lane, c) IN
            p.requests \cup (IF p.next = None THEN {} ELSE from[p.next])
    IN  from[0]

--------------------------------------------------------------------------------
Status == {"pending"} \cup Ended
Record == [origin : Origin, reply : BOOLEAN, spec : Nat, status : Status,
           attempt : Nat, max : Nat \ {0}, assignee : OptWorker,
           pinned : OptWorker, window : OptNat, lease : OptNat,
           deadline : OptNat, result : Nat, updated : Nat]
Meta == [due : OptNat, assigned : BOOLEAN]
Receipt == [updated : Nat, bytes : Nat]

\* Every variable holds a value of its type.
TypeOK ==
    /\ now \in Nat /\ triggers \in Nat
    /\ DOMAIN sagas \subseteq Id /\ sagas \in [DOMAIN sagas -> Record]
    /\ DOMAIN pending \subseteq Id /\ pending \in [DOMAIN pending -> Meta]
    /\ DOMAIN terminal \subseteq Id /\ terminal \in [DOMAIN terminal -> Receipt]
    /\ quota \in [Origin -> Nat]
    /\ callbacks \in [Id -> Nat]
    /\ orders \subseteq Id \X Nat \X Worker

\* The indexes the crank, the expiry query, the projections and the trim
\* decide on say of every saga what its record says: the live ones are
\* exactly the pending entries, due at the first of their instants, the
\* ended ones exactly the receipts.
RowsAgree ==
    /\ DOMAIN pending = Live
    /\ DOMAIN terminal = DOMAIN sagas \ Live
    /\ \A i \in Live :
          LET instants == {sagas[i].deadline, sagas[i].lease} \ {None}
          IN  /\ pending[i].due \in instants \/ (pending[i].due = None /\ instants = {})
              /\ \A t \in instants : pending[i].due <= t
              /\ pending[i].assigned = (sagas[i].assignee # None)
    /\ \A i \in DOMAIN terminal : terminal[i] = TerminalEntry(sagas[i])

\* An origin's live count is the number of its live sagas, never over its
\* cap: a slot comes back exactly once, through whatever end, and neither
\* Prune nor the trim returns a second one.
QuotaIsLive ==
    \A o \in Origin :
        /\ quota[o] = Cardinality({i \in Live : sagas[i].origin = o})
        /\ quota[o] <= LiveCap[o]

\* A live attempt carries a lease exactly when it has a holder, and no lease
\* outlives the saga's deadline; attempts stay within the trigger's budget,
\* and a pinned saga is only ever its key's.
LeaseHasHolder ==
    \A i \in DOMAIN sagas :
        LET s == sagas[i] IN
        /\ (s.lease = None) <=> (s.assignee = None)
        /\ s.lease # None /\ s.deadline # None => s.lease <= s.deadline
        /\ s.attempt < s.max
        /\ s.pinned # None => s.assignee = s.pinned

\* Under Strict, what is out for work is exactly the current lease of each
\* live saga: a holder that lost its attempt was told to stop, no two nodes
\* pay for one saga, and nobody works for an ended one, also when the id
\* was pruned and triggered again.
SingleExecutor ==
    Policy = "strict" => orders = UNION {Order(i, sagas[i]) : i \in Live}

\* The lease discipline, whatever order results, renewals, reassignments,
\* claims and cranks are agreed in.
LeasesSound == LeaseHasHolder /\ SingleExecutor

\* The receipts the ledger retains.
Retained == {<<i, terminal[i]>> : i \in DOMAIN terminal}

\* The retained tail is within the count, and within the bytes but for its
\* oldest receipt.
TailBounded ==
    LET butOldest == {r \in Retained : \E q \in Retained : Newer(r, q)}
    IN  /\ Cardinality(Retained) <= MaxRetained
        /\ Weight(butOldest) <= MaxRetainedBytes

WithinBounds == TypeOK /\ QuotaIsLive /\ TailBounded

\* A receipt is lost only to its owner's prune, or to the trim when every
\* receipt kept is newer and those kept fill the count or pass the bytes;
\* that of a saga trimmed in the op that ended it counts too.
TrimsOldest ==
    LET lost == (Retained \ Retained')
                   \cup {<<i, [updated |-> now, bytes |-> 0]>> : i \in Live \ DOMAIN sagas'}
    IN  \A r \in lost :
            \/ \E S \in SUBSET Id : Prune(sagas[r[1]].origin, S) /\ r[1] \in S
            \/ /\ \A q \in Retained' : Newer(q, r)
               /\ \/ Cardinality(Retained') >= MaxRetained
                  \/ Weight(Retained') > MaxRetainedBytes

\* The ledger stays within its types and bounds and never wedges an origin:
\* the live slots and the retained receipts are counted exactly, and no
\* receipt is trimmed before it must be or instead of an older one.
LedgerBounded == []WithinBounds /\ [][TrimsOldest]_vars

\* A pump that follows the cursor finds every live saga of its lane and
\* nothing else, wherever the two page bounds cut.
WalkFindsLane ==
    \A lane \in OptWorker : Walk(lane) = {i \in Live : sagas[i].assignee = lane}

\* Nobody reads a derived row that its record contradicts, and nobody misses
\* a record for want of a row.
IndexesAgree == RowsAgree /\ WalkFindsLane

\* A saga that ended is final until it is collected, an attempt is never
\* taken back, and while it lasts it keeps its holder and its lease only
\* moves out.
AttemptKept ==
    \A i \in DOMAIN sagas \cap DOMAIN sagas' :
        LET s == sagas[i]
            t == sagas'[i]
        IN  /\ s.status \in Ended => t = s
            /\ t.attempt >= s.attempt
            /\ t.attempt = s.attempt /\ s.assignee # None
                  => t.assignee = s.assignee /\ t.lease >= s.lease

\* One executor at a time: in every state the lease discipline, in every step
\* the attempt's.
OneExecutor == []LeasesSound /\ [][AttemptKept]_vars

Work == INSTANCE AsyncWork WITH
    known <- DOMAIN sagas, open <- Live,
    wants <- {i \in Live : sagas[i].reply}, called <- callbacks

\* The ledger is AsyncWork: through leases, retries, cranks and the trim, a
\* requester sees its work open once and end once, with one callback.
ImplementsAsyncWork == Work!Spec

\* Sagas a crank should have taken at an earlier height, and what a step may
\* do to the ones before them.
Overdue == {i \in DOMAIN pending : pending[i].due # None /\ pending[i].due < now}

NearsCrank ==
    \A i \in Overdue :
        i \in DOMAIN pending' /\ pending'[i].due = pending[i].due =>
            /\ Ahead(i)' \subseteq Ahead(i) \cup (Id \ DOMAIN sagas)
            /\ Crank => Ahead(i) \ Ahead(i)' # {}

\* The crank's slice is fair among the sagas in the ledger: nothing gets
\* ahead of one that is overdue by renewing, retrying, being reassigned or
\* claimed, and every crank that passes it over takes one from before it.
\* Only a new trigger can get ahead, with a deadline already past.
OverdueReached == [][NearsCrank]_vars

\* P7: a saga with a deadline ends, whatever its workers do, as long as
\* somebody cranks.
DeadlineHonoured ==
    \A i \in Id : (i \in Live /\ sagas[i].deadline # None) ~> (i \notin Live)

================================================================================
