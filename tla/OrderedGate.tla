------------------------------ MODULE OrderedGate ------------------------------
(***************************************************************************)
(* The consensus seam of one validator during one epoch                    *)
(* (crates/kernel/consensus/src/lib.rs): the content store that resolves   *)
(* digests back to frame bytes, the FIFO of own proposals, the reporter    *)
(* the simplex engine calls on every certificate, the lazy payload fetch,  *)
(* and the view-keyed inbox that releases finalized frames to the node.    *)
(*                                                                         *)
(* The engine is external.  It is seen only through report(): it certifies *)
(* at most one digest per view, may repeat a report, and may report the    *)
(* live tip before the gap views below it; the history variable ascending  *)
(* remembers whether it has done so, because some guarantees of the inbox  *)
(* end there.  With Refinalize one digest may be certified at two views    *)
(* (propose peeks, so the next leader may re-propose a digest whose        *)
(* finalization it has not seen yet).                                      *)
(* A payload is its digest: bytes that do not hash to the requested digest *)
(* are refused by PayloadConsumer and change nothing.                      *)
(***************************************************************************)
EXTENDS Naturals, Sequences, FiniteSets

CONSTANTS
    Digest,       \* content addresses of batches
    None,         \* no digest
    MaxView,      \* bound: engine views of the epoch
    CacheCap,     \* PAYLOAD_CACHE_CAP
    Retain,       \* RETAINED_FINALIZATIONS
    MaxQueue,     \* bound: entries of the eviction queue plus pins
    MaxPending,   \* bound: own proposals queued at once
    Resolver,     \* is a payload resolver wired (spawn_with_resolver)?
    Refinalize    \* may one digest be certified at two views?

ASSUME GateAssumption ==
    /\ None \notin Digest
    /\ MaxView \in Nat
    /\ CacheCap \in Nat \ {0}
    /\ Retain \in Nat \ {0}
    /\ Resolver \in BOOLEAN /\ Refinalize \in BOOLEAN

VARIABLES
    certified,  \* external: view -> digest the engine has reported here
    ascending,  \* history: every new view came above all reported ones
    pinned,     \* StoreInner::pinned
    cached,     \* StoreInner::cached
    order,      \* StoreInner::order, the FIFO eviction queue
    pending,    \* PendingProposals::queue
    log,        \* FinalizedInner::log, view -> unreleased digest
    ready,      \* keys of FinalizedInner::ready
    seen,       \* FinalizedInner::seen
    inflight,   \* external: fetches the resolver mailbox accepted
    deferred,   \* PayloadFetcher::deferred
    retained,   \* views of RetainedFinalizations
    released,   \* history: view -> digest handed to the node
    cert,       \* view of the certificate drain_pass has read, 0 if none
    floor       \* view of the persisted floor certificate, 0 if none

storeVars == <<pinned, cached, order>>
inboxVars == <<log, ready, seen>>
fetchVars == <<inflight, deferred>>
floorVars == <<cert, floor>>
vars == <<certified, ascending, storeVars, pending, inboxVars, fetchVars, retained,
          released, floorVars>>

View == 1..MaxView
Slot == Digest \cup {None}
Elems(s) == {s[i] : i \in DOMAIN s}

Certified == {certified[v] : v \in View} \ {None}
Logged    == {log[v] : v \in View} \ {None}
Released  == {released[v] : v \in View} \ {None}
Reported  == {v \in View : certified[v] # None}

Init ==
    /\ certified = [v \in View |-> None] /\ ascending = TRUE
    /\ pinned = {} /\ cached = {} /\ order = <<>>
    /\ pending = <<>>
    /\ log = [v \in View |-> None]
    /\ ready = {} /\ seen = {}
    /\ inflight = {} /\ deferred = {}
    /\ retained = {}
    /\ released = [v \in View |-> None]
    /\ cert = 0 /\ floor = 0

(***************************************************************************)
(* ContentStore                                                            *)
(***************************************************************************)
Contains(d) == d \in pinned \/ d \in cached

\* insert_cached's eviction loop.  The cache was within its cap before the
\* insertion, so the loop ends at the first queued key that is still cached;
\* the stale keys in front of it (left behind by pin) are popped with it.
Evict(c, q) ==
    IF Cardinality(c) <= CacheCap
    THEN [cached |-> c, order |-> q]
    ELSE LET k == CHOOSE i \in 1..Len(q) :
                    q[i] \in c /\ \A j \in 1..(i-1) : q[j] \notin c
         IN [cached |-> c \ {q[k]}, order |-> SubSeq(q, k + 1, Len(q))]

InsertCached(p, d) ==
    LET st == IF d \in p \cup cached
              THEN [cached |-> cached, order |-> order]
              ELSE Evict(cached \cup {d}, Append(order, d))
    IN /\ cached' = st.cached
       /\ order' = st.order

Put(d) ==
    /\ InsertCached(pinned, d)
    /\ UNCHANGED pinned

BugPinKeepsCached(d) ==     \* the cached copy is not lifted out
    /\ pinned' = pinned \cup {d}
    /\ UNCHANGED <<cached, order>>

BugPinIsPut(d) == Put(d)    \* own bytes staged in the evictable class

Pin(d) ==
    /\ pinned' = pinned \cup {d}
    /\ cached' = cached \ {d}
    /\ UNCHANGED order

Demote(d) ==
    \/ /\ d \in pinned
       /\ pinned' = pinned \ {d}
       /\ InsertCached(pinned \ {d}, d)
    \/ /\ d \notin pinned
       /\ UNCHANGED storeVars

(***************************************************************************)
(* Own proposals                                                           *)
(***************************************************************************)
\* PendingProposals::remove, by value: the first occurrence or nothing.
RemovePending(q, d) ==
    IF d \in Elems(q)
    THEN LET k == CHOOSE i \in DOMAIN q : q[i] = d /\ \A j \in 1..(i-1) : q[j] # d
         IN SubSeq(q, 1, k - 1) \o SubSeq(q, k + 1, Len(q))
    ELSE q

\* ConsensusHandle::submit.
Submit(d) ==
    /\ Len(pending) < MaxPending                        \* bound
    /\ Len(order) + Cardinality(pinned) < MaxQueue      \* bound
    /\ Pin(d)
    /\ pending' = Append(pending, d)
    /\ UNCHANGED <<certified, ascending, inboxVars, fetchVars, retained, released,
                   floorVars>>

\* spawn_payload_drain: gossip lands in the store and nowhere else.
PayloadDrain(d) ==
    /\ Len(order) + Cardinality(pinned) < MaxQueue      \* bound
    /\ Put(d)
    /\ UNCHANGED <<certified, ascending, pending, inboxVars, fetchVars, retained,
                   released, floorVars>>

(***************************************************************************)
(* The reporter                                                            *)
(***************************************************************************)
\* FinalizedInbox::record.
BugFreshUngated(v, d) == log[v] \in {None, d}      \* no seen gate

BugFreshCursor(v, d) ==                            \* a release watermark
    /\ d \notin seen /\ log[v] \in {None, d}
    /\ \A w \in View : released[w] # None => w < v

Fresh(v, d) == d \notin seen /\ log[v] \in {None, d}
Miss(v, d)  == Fresh(v, d) /\ ~Contains(d)
NeedFetch(v, d) == Miss(v, d) /\ Resolver

Record(v, d) ==
    /\ seen' = seen \cup {d}
    /\ log' = IF Fresh(v, d) /\ (Contains(d) \/ Resolver)
              THEN [log EXCEPT ![v] = d] ELSE log
    /\ ready' = IF Fresh(v, d) /\ Contains(d) THEN ready \cup {d} ELSE ready

\* PayloadFetcher: every parked fetch is offered to the mailbox once more,
\* then the new one; acc is the set of digests the mailbox accepts now.  The
\* parked digests are a set: each is retried on every report, so the order
\* they are parked in decides nothing.
BugFetchDropped(want, acc) ==       \* an unaccepted fetch is not parked
    /\ inflight' = inflight \cup ((deferred \cup want) \cap acc)
    /\ deferred' = {}

FetchOrDefer(want, acc) ==
    /\ inflight' = inflight \cup ((deferred \cup want) \cap acc)
    /\ deferred' = (deferred \cup want) \ acc

\* retain_finalization: the newest Retain views.
Newest(S) == {v \in S : Cardinality({w \in S : w > v}) < Retain}

\* What the engine may report next: one digest per view.
MayReport(v, d) ==
    /\ certified[v] \in {None, d}
    /\ ~Refinalize => \A w \in View \ {v} : certified[w] # d

\* SimplexReporter::report on Activity::Finalization.
Report(v, d) ==
    /\ MayReport(v, d)
    /\ certified' = [certified EXCEPT ![v] = d]
    /\ ascending' = (ascending /\ (certified[v] = None => \A w \in Reported : w < v))
    /\ pending' = RemovePending(pending, d)
    /\ Record(v, d)
    /\ \E acc \in SUBSET (deferred \cup {d}) :
          FetchOrDefer(IF NeedFetch(v, d) THEN {d} ELSE {}, acc)
    /\ Demote(d)
    /\ retained' = Newest(retained \cup {v})
    /\ UNCHANGED <<released, floorVars>>

\* SimplexReporter::report on any other activity.
ReportOther(acc) ==
    /\ deferred # {}
    /\ FetchOrDefer({}, acc)
    /\ UNCHANGED <<certified, ascending, storeVars, pending, inboxVars, retained,
                   released, floorVars>>

\* PayloadConsumer::deliver with bytes that hash to the key.
FetchDeliver(d) ==
    /\ d \in inflight
    /\ inflight' = inflight \ {d}
    /\ Put(d)
    /\ ready' = ready \cup {d}                          \* fill_fetched
    /\ UNCHANGED <<certified, ascending, pending, log, seen, deferred, retained,
                   released, floorVars>>

(***************************************************************************)
(* The node side of the inbox                                              *)
(***************************************************************************)
\* FinalizedInbox::drain: the views of the longest all-ready prefix.
BugReleasable == {v \in View : log[v] # None /\ log[v] \in ready}

Releasable ==
    {v \in View : /\ log[v] # None
                  /\ \A w \in View : w <= v /\ log[w] # None => log[w] \in ready}

Drain ==
    /\ cert = 0                    \* one thread drains and persists the floor
    /\ Releasable # {}
    /\ released' = [v \in View |-> IF v \in Releasable THEN log[v] ELSE released[v]]
    /\ log' = [v \in View |-> IF v \in Releasable THEN None ELSE log[v]]
    /\ ready' = ready \ {log[v] : v \in Releasable}
    /\ UNCHANGED <<certified, ascending, storeVars, pending, seen, fetchVars, retained,
                   floorVars>>

\* drain_pass, first half: read the newest retained certificate at or below
\* the sealed tip.  What is sealed is the node's business (OrderedNode): its
\* tip may be any view it was handed.
SealedTips == {v \in View : released[v] # None}

FloorCandidate(c, tip) ==           \* finalization_at_or_below
    /\ c \in retained /\ c <= tip
    /\ \A w \in retained : w <= tip => w <= c

ReadFloor ==
    /\ cert = 0
    /\ \E tip \in SealedTips, c \in View : FloorCandidate(c, tip) /\ cert' = c
    /\ UNCHANGED <<certified, ascending, storeVars, pending, inboxVars, fetchVars,
                   retained, released, floor>>

\* Second half: the engine may have reported meanwhile.  The certificate is
\* persisted if everything still unreleased now is above it; otherwise, and
\* when the write fails, it is read again on a later pass.
FullyDrained == \A w \in View : log[w] # None => w > cert    \* min_unreleased_view

BugPersistNewest ==                 \* the newest certificate, drained or not
    /\ cert # 0
    /\ cert' = 0
    /\ \E c \in retained : (\A w \in retained : w <= c) /\ c > floor /\ floor' = c
    /\ UNCHANGED <<certified, ascending, storeVars, pending, inboxVars, fetchVars,
                   retained, released>>

PersistFloor ==
    /\ cert # 0
    /\ cert' = 0
    /\ \/ FullyDrained /\ cert > floor /\ floor' = cert        \* last_cert_height
       \/ UNCHANGED floor
    /\ UNCHANGED <<certified, ascending, storeVars, pending, inboxVars, fetchVars,
                   retained, released>>

Next ==
    \/ \E d \in Digest : Submit(d) \/ PayloadDrain(d) \/ FetchDeliver(d)
    \/ \E v \in View, d \in Digest : Report(v, d)
    \/ \E acc \in SUBSET deferred : ReportOther(acc)
    \/ Drain
    \/ ReadFloor
    \/ PersistFloor

Spec == Init /\ [][Next]_vars

\* The run loop drains on every tick before it comes to the floor (strong
\* fairness: the same thread is at the floor in between), the resolver retries a fetch until a
\* peer serves it, and the engine keeps reporting activities (votes and
\* nullifications flow in every view), each of which offers the parked
\* fetches to a mailbox that is not full forever.
Fairness ==
    /\ SF_vars(Drain)
    /\ WF_vars(PersistFloor)
    /\ \A d \in Digest : WF_vars(FetchDeliver(d))
    /\ WF_vars(ReportOther(deferred))

FairSpec == Spec /\ Fairness
(***************************************************************************)
(* Properties                                                              *)
(***************************************************************************)
\* Every variable holds a value of its type, and the cache stays within
\* PAYLOAD_CACHE_CAP however pins, demotions and gossip interleave: every
\* cached digest is reachable from the eviction queue (insert_cached could
\* otherwise pop the queue dry and keep the entry for ever) and no digest is
\* held in both classes.
TypeOK ==
    /\ certified \in [View -> Slot] /\ ascending \in BOOLEAN
    /\ pinned \subseteq Digest /\ cached \subseteq Digest
    /\ Cardinality(cached) <= CacheCap
    /\ cached \subseteq Elems(order) /\ pinned \cap cached = {}
    /\ order \in Seq(Digest) /\ pending \in Seq(Digest)
    /\ log \in [View -> Slot]
    /\ ready \subseteq Digest /\ seen \subseteq Digest
    /\ inflight \subseteq Digest /\ deferred \subseteq Digest
    /\ retained \subseteq View
    /\ released \in [View -> Slot]
    /\ cert \in 0..MaxView /\ floor \in 0..MaxView

\* An own submission keeps its bytes exempt from eviction until it finalizes:
\* propose re-offers the head of the queue across nullified views and peers
\* can fetch it from here (the PINNED class of ContentStore).
OwnSubmissionPinned == \A d \in Elems(pending) : d \in pinned \/ d \in Certified

\* One digest reaches the node at most once, and never while a second copy is
\* still queued: the seen gate of FinalizedInbox::record, against repeated
\* reports and digests certified at two views.
ExactlyOnce ==
    /\ \A v, w \in View : released[v] = released[w] /\ released[v] # None => v = w
    /\ \A v, w \in View : log[v] = log[w] /\ log[v] # None => v = w
    /\ Logged \cap Released = {}

\* With a resolver wired, no reported finalization is dropped: its digest has
\* been released or still holds a slot of the log.
NothingDropped == Resolver => Certified = Logged \cup Released

\* The slots without bytes are exactly the outstanding fetches, each at the
\* resolver or parked for retry but not both: a lost fetch would halt the
\* release prefix for ever, a surplus one would fill a slot already released.
AwaitingIsFetched ==
    /\ inflight \cup deferred = Logged \ ready
    /\ inflight \cap deferred = {}

\* Bytes wait in ready only for a slot of the log, so the map is bounded by
\* the unreleased window.
ReadyIsLogged == ready \subseteq Logged

\* Between the engine and the node nothing is lost and nothing left over: no
\* reported finalization is dropped, no fetch forgotten, no bytes kept for a
\* slot that is gone, and an own proposal is never evicted before it
\* finalizes, in any order of reports, gossip, fetches and drains.
NothingLost == NothingDropped /\ AwaitingIsFetched /\ ReadyIsLogged /\ OwnSubmissionPinned

\* While reports ascend, poll_delivered emits in ascending view order over the
\* whole epoch, not only within one drain: nothing is released at or below a
\* view already released.
AscendingRelease ==
    [][ascending => \A v, w \in View :
          released[v] = None /\ released'[v] # None /\ released[w] # None => v > w]_vars

\* While reports ascend, every validator that releases a digest releases it at
\* the same view, the lowest one it was certified at.
CanonicalSlot ==
    ascending =>
      \A v, w \in View : released[v] # None /\ w < v => certified[w] # released[v]

\* What the node may rely on while reports ascend: it is handed each digest at
\* its canonical view, and views in ascending order over the whole epoch.
CanonicalRelease == []CanonicalSlot /\ AscendingRelease

\* A persisted floor certificate suppresses the replay of everything at or
\* below it on restart, so while reports ascend all of that has reached the
\* node.
FloorCoversReleased ==
    ascending /\ Resolver =>
      \A v \in View : v <= floor /\ certified[v] # None => certified[v] \in Released

\* A finalization the engine reports is eventually released to the node, even
\* when its payload was never gossiped here and the mailbox refused the first
\* fetches.
EveryFinalizationReleased ==
    \A d \in Digest : (Resolver /\ d \in Certified) ~> (d \in Released)
================================================================================
