--------------------------- MODULE OrderedGateProofs ---------------------------
(***************************************************************************)
(* The inbox of OrderedGate, for every set of digests, every number of     *)
(* views, every report order and every mailbox behaviour: a finalization   *)
(* is released exactly once, none is dropped and none is left without its  *)
(* fetch.                                                                  *)
(*                                                                         *)
(* None of the three is inductive by itself.  A fresh digest may take the  *)
(* slot of view v only if that slot was never used, which needs that log   *)
(* and released agree with what the engine certified (SlotsAgree) and that *)
(* seen is exactly what it certified (SeenIsCertified); a delivered fetch  *)
(* may fill ready only if its slot still waits, which is the exactness in  *)
(* AwaitingIsFetched.                                                      *)
(***************************************************************************)
EXTENDS OrderedGate, FiniteSetTheorems, WellFoundedInduction, TLAPS

InboxTypeOK ==
    /\ certified \in [View -> Slot]
    /\ log \in [View -> Slot]
    /\ released \in [View -> Slot]
    /\ ready \subseteq Digest /\ seen \subseteq Digest
    /\ inflight \subseteq Digest /\ deferred \subseteq Digest

SeenIsCertified == seen = Certified

SlotsAgree ==
    \A v \in View : /\ log[v] # None => certified[v] = log[v] /\ released[v] = None
                    /\ released[v] # None => certified[v] = released[v]

GateInv ==
    /\ InboxTypeOK
    /\ SeenIsCertified
    /\ SlotsAgree
    /\ ExactlyOnce
    /\ NothingDropped
    /\ AwaitingIsFetched
    /\ ReadyIsLogged

gateVars == <<certified, log, ready, seen, inflight, deferred, released>>

\* A set of naturals that is not empty has a least element.
LEMMA NatLeast ==
    ASSUME NEW S \in SUBSET Nat, S # {}
    PROVE  \E n \in S : \A i \in S : n <= i
<1> DEFINE R == OpToRel(<, Nat)
<1>1. IsWellFoundedOn(R, Nat)
  BY NatLessThanWellFounded
<1>2. \A x, y \in Nat : <<x, y>> \in R <=> x < y
  BY DEF OpToRel
<1> HIDE DEF R
<1>3. PICK n \in S : \A i \in S : ~(<<i, n>> \in R)
  BY <1>1, WFMin
<1>4. \A i \in S : ~(i < n)
  BY <1>2, <1>3
<1>5. n \in Nat /\ \A i \in S : i \in Nat
  BY <1>3
<1>6. \A i \in S : n <= i
  BY <1>4, <1>5
<1> QED
  BY <1>3, <1>6

LEMMA ElemsAppend ==
    ASSUME NEW q \in Seq(Digest), NEW d \in Digest
    PROVE  Append(q, d) \in Seq(Digest) /\ Elems(Append(q, d)) = Elems(q) \cup {d}
<1>1. Append(q, d) \in Seq(Digest) /\ DOMAIN Append(q, d) = 1..(Len(q) + 1)
  OBVIOUS
<1>2. \A i \in 1..Len(q) : Append(q, d)[i] = q[i]
  OBVIOUS
<1>3. Append(q, d)[Len(q) + 1] = d /\ Len(q) + 1 \in 1..(Len(q) + 1)
  OBVIOUS
<1> QED
  BY <1>1, <1>2, <1>3 DEF Elems

LEMMA ElemsConcat ==
    ASSUME NEW p \in Seq(Digest), NEW q \in Seq(Digest)
    PROVE  p \o q \in Seq(Digest) /\ Elems(p \o q) \subseteq Elems(p) \cup Elems(q)
<1>1. p \o q \in Seq(Digest) /\ DOMAIN (p \o q) = 1..(Len(p) + Len(q))
  OBVIOUS
<1>2. ASSUME NEW i \in 1..(Len(p) + Len(q))
      PROVE  (p \o q)[i] \in Elems(p) \cup Elems(q)
  <2>1. CASE i <= Len(p)
    BY <2>1 DEF Elems
  <2>2. CASE i > Len(p)
    <3>1. i - Len(p) \in DOMAIN q /\ (p \o q)[i] = q[i - Len(p)]
      BY <2>2
    <3> QED BY <3>1 DEF Elems
  <2> QED BY <2>1, <2>2
<1> QED
  BY <1>1, <1>2 DEF Elems

LEMMA InitGate == Init => GateInv
BY GateAssumption
DEF Init, GateInv, InboxTypeOK, SeenIsCertified, SlotsAgree, ExactlyOnce, NothingDropped,
    AwaitingIsFetched, ReadyIsLogged, Certified, Logged, Released, Slot

LEMMA StutterGate == GateInv /\ UNCHANGED gateVars => GateInv'
<1> SUFFICES ASSUME GateInv, UNCHANGED gateVars PROVE GateInv'
  OBVIOUS
<1>1. /\ certified' = certified /\ log' = log /\ ready' = ready /\ seen' = seen
      /\ inflight' = inflight /\ deferred' = deferred /\ released' = released
  BY DEF gateVars
<1>2. Certified' = Certified /\ Logged' = Logged /\ Released' = Released
  BY <1>1 DEF Certified, Logged, Released
<1>3. InboxTypeOK' /\ SeenIsCertified' /\ SlotsAgree'
  BY <1>1, <1>2 DEF GateInv, InboxTypeOK, SeenIsCertified, SlotsAgree
<1>4. ExactlyOnce' /\ NothingDropped' /\ AwaitingIsFetched' /\ ReadyIsLogged'
  BY <1>1, <1>2 DEF GateInv, ExactlyOnce, NothingDropped, AwaitingIsFetched, ReadyIsLogged
<1> QED
  BY <1>3, <1>4 DEF GateInv

\* SimplexReporter::report on a finalization.
LEMMA ReportGate ==
    ASSUME GateInv, NEW v \in View, NEW d \in Digest, Report(v, d)
    PROVE  GateInv'
<1> USE GateAssumption
<1>0. PICK acc \in SUBSET (deferred \cup {d}) :
          FetchOrDefer(IF NeedFetch(v, d) THEN {d} ELSE {}, acc)
  BY DEF Report
<1>1. /\ certified' = [certified EXCEPT ![v] = d]
      /\ certified[v] \in {None, d}
      /\ released' = released
      /\ seen' = seen \cup {d}
  BY DEF Report, MayReport, Record
<1>2. InboxTypeOK
  BY DEF GateInv
<1>3. Certified' = Certified \cup {d}
  BY <1>1, <1>2 DEF InboxTypeOK, Certified, Slot
<1>4. Released' = Released
  BY <1>1 DEF Released
<1>5. SeenIsCertified'
  BY <1>1, <1>3 DEF GateInv, SeenIsCertified
<1>6. InboxTypeOK'
  BY <1>0, <1>1, <1>2 DEF InboxTypeOK, Report, Record, FetchOrDefer, Slot
<1>7. CASE Fresh(v, d) /\ (Contains(d) \/ Resolver)
  <2>1. d \notin Certified /\ certified[v] = None /\ log[v] = None /\ released[v] = None
    BY <1>1, <1>2, <1>7 DEF GateInv, SeenIsCertified, SlotsAgree, Fresh, Certified, InboxTypeOK
  <2>2. log' = [log EXCEPT ![v] = d]
    BY <1>7 DEF Report, Record
  <2>3. Logged' = Logged \cup {d}
    BY <1>2, <2>1, <2>2 DEF InboxTypeOK, Logged
  <2>4. d \notin Logged /\ d \notin Released
    BY <1>2, <2>1 DEF GateInv, SlotsAgree, Logged, Released, Certified, InboxTypeOK
  <2>5. SlotsAgree'
    BY <1>1, <1>2, <2>1, <2>2 DEF GateInv, SlotsAgree, InboxTypeOK
  <2>6. ExactlyOnce'
    <3>1. \A x, y \in View : log'[x] = log'[y] /\ log'[x] # None => x = y
      BY <1>2, <2>2, <2>4 DEF GateInv, ExactlyOnce, InboxTypeOK, Logged
    <3>2. \A x, y \in View : released'[x] = released'[y] /\ released'[x] # None => x = y
      BY <1>1 DEF GateInv, ExactlyOnce
    <3>3. Logged' \cap Released' = {}
      BY <1>4, <2>3, <2>4 DEF GateInv, ExactlyOnce
    <3> QED BY <3>1, <3>2, <3>3 DEF ExactlyOnce
  <2>7. NothingDropped'
    BY <1>3, <1>4, <2>3 DEF GateInv, NothingDropped
  <2>8. CASE Contains(d)
    <3>1. /\ ready' = ready \cup {d}
          /\ inflight' = inflight \cup (deferred \cap acc)
          /\ deferred' = deferred \ acc
      BY <1>0, <1>7, <2>8 DEF Report, Record, FetchOrDefer, NeedFetch, Miss
    <3>2. AwaitingIsFetched' /\ ReadyIsLogged'
      BY <2>3, <2>4, <3>1 DEF GateInv, AwaitingIsFetched, ReadyIsLogged
    <3> QED BY <1>5, <1>6, <2>5, <2>6, <2>7, <3>2 DEF GateInv
  <2>9. CASE ~Contains(d)
    <3>1. /\ ready' = ready
          /\ inflight' = inflight \cup ((deferred \cup {d}) \cap acc)
          /\ deferred' = (deferred \cup {d}) \ acc
      BY <1>0, <1>7, <2>9 DEF Report, Record, FetchOrDefer, NeedFetch, Miss
    <3>2. AwaitingIsFetched' /\ ReadyIsLogged'
      BY <2>3, <2>4, <3>1 DEF GateInv, AwaitingIsFetched, ReadyIsLogged
    <3> QED BY <1>5, <1>6, <2>5, <2>6, <2>7, <3>2 DEF GateInv
  <2> QED BY <2>8, <2>9
<1>8. CASE ~(Fresh(v, d) /\ (Contains(d) \/ Resolver))
  <2>1. log' = log /\ ready' = ready
    BY <1>8 DEF Report, Record
  <2>2. /\ inflight' = inflight \cup (deferred \cap acc)
        /\ deferred' = deferred \ acc
    BY <1>0, <1>8 DEF FetchOrDefer, NeedFetch, Miss
  <2>3. Logged' = Logged
    BY <2>1 DEF Logged
  <2>4. SlotsAgree'
    BY <1>1, <1>2, <2>1 DEF GateInv, SlotsAgree, InboxTypeOK
  <2>5. ExactlyOnce'
    BY <1>1, <1>4, <2>1, <2>3 DEF GateInv, ExactlyOnce
  <2>6. Resolver => d \in seen
    <3>1. certified[v] = None => log[v] = None
      BY <1>2 DEF GateInv, SlotsAgree, InboxTypeOK
    <3>2. certified[v] = d => d \in Certified
      BY DEF Certified
    <3> QED BY <1>1, <1>8, <3>1, <3>2 DEF Fresh, GateInv, SeenIsCertified
  <2>7. NothingDropped'
    BY <1>3, <1>4, <2>3, <2>6 DEF GateInv, NothingDropped, SeenIsCertified
  <2>8. AwaitingIsFetched' /\ ReadyIsLogged'
    BY <2>1, <2>2, <2>3 DEF GateInv, AwaitingIsFetched, ReadyIsLogged
  <2> QED BY <1>5, <1>6, <2>4, <2>5, <2>7, <2>8 DEF GateInv
<1> QED BY <1>7, <1>8

\* SimplexReporter::report on any other activity: parked fetches only move.
LEMMA ReportOtherGate ==
    ASSUME GateInv, NEW acc \in SUBSET deferred, ReportOther(acc)
    PROVE  GateInv'
<1>1. /\ certified' = certified /\ log' = log /\ ready' = ready /\ seen' = seen
      /\ released' = released
      /\ inflight' = inflight \cup (deferred \cap acc)
      /\ deferred' = deferred \ acc
  BY DEF ReportOther, FetchOrDefer, inboxVars
<1>2. Certified' = Certified /\ Logged' = Logged /\ Released' = Released
  BY <1>1 DEF Certified, Logged, Released
<1>3. InboxTypeOK' /\ SeenIsCertified' /\ SlotsAgree'
  BY <1>1, <1>2 DEF GateInv, InboxTypeOK, SeenIsCertified, SlotsAgree
<1>4. ExactlyOnce' /\ NothingDropped' /\ ReadyIsLogged'
  BY <1>1, <1>2 DEF GateInv, ExactlyOnce, NothingDropped, ReadyIsLogged
<1>5. AwaitingIsFetched'
  BY <1>1, <1>2 DEF GateInv, AwaitingIsFetched
<1> QED
  BY <1>3, <1>4, <1>5 DEF GateInv

\* PayloadConsumer::deliver: the slot it fills still waits.
LEMMA FetchDeliverGate ==
    ASSUME GateInv, NEW d \in Digest, FetchDeliver(d)
    PROVE  GateInv'
<1>1. /\ certified' = certified /\ log' = log /\ seen' = seen /\ released' = released
      /\ d \in inflight /\ inflight' = inflight \ {d} /\ deferred' = deferred
      /\ ready' = ready \cup {d}
  BY DEF FetchDeliver
<1>2. Certified' = Certified /\ Logged' = Logged /\ Released' = Released
  BY <1>1 DEF Certified, Logged, Released
<1>3. InboxTypeOK' /\ SeenIsCertified' /\ SlotsAgree'
  BY <1>1, <1>2 DEF GateInv, InboxTypeOK, SeenIsCertified, SlotsAgree
<1>4. ExactlyOnce' /\ NothingDropped'
  BY <1>1, <1>2 DEF GateInv, ExactlyOnce, NothingDropped
<1>5. AwaitingIsFetched' /\ ReadyIsLogged'
  BY <1>1, <1>2 DEF GateInv, AwaitingIsFetched, ReadyIsLogged
<1> QED
  BY <1>3, <1>4, <1>5 DEF GateInv

\* FinalizedInbox::drain: slots move from log to released, bytes leave ready.
LEMMA DrainGate == ASSUME GateInv, Drain PROVE GateInv'
<1> USE GateAssumption
<1> DEFINE R == Releasable
           D == {log[v] : v \in R}
<1>1. /\ certified' = certified /\ seen' = seen
      /\ inflight' = inflight /\ deferred' = deferred
      /\ released' = [v \in View |-> IF v \in R THEN log[v] ELSE released[v]]
      /\ log' = [v \in View |-> IF v \in R THEN None ELSE log[v]]
      /\ ready' = ready \ D
  BY DEF Drain, fetchVars
<1>2. R \subseteq View /\ (\A v \in R : log[v] # None /\ log[v] \in ready)
  BY DEF Releasable, View
<1> HIDE DEF R
<1>3. InboxTypeOK
  BY DEF GateInv
<1>4. InboxTypeOK'
  BY <1>1, <1>2, <1>3 DEF InboxTypeOK, Slot
<1>5. Certified' = Certified
  BY <1>1 DEF Certified
<1>6. D \subseteq Logged
  BY <1>2, <1>3 DEF InboxTypeOK, Logged
<1>7. Logged' = Logged \ D
  BY <1>1, <1>2, <1>3 DEF GateInv, ExactlyOnce, InboxTypeOK, Logged
<1>8. Released' = Released \cup D
  <2>1. \A v \in R : released[v] = None
    BY <1>2 DEF GateInv, SlotsAgree
  <2> QED BY <1>1, <1>2, <2>1 DEF Released
<1>9. SeenIsCertified' /\ SlotsAgree'
  BY <1>1, <1>2, <1>3, <1>5 DEF GateInv, SeenIsCertified, SlotsAgree, InboxTypeOK
<1>10. ExactlyOnce'
  <2>1. \A v, w \in View : log'[v] = log'[w] /\ log'[v] # None => v = w
    BY <1>1 DEF GateInv, ExactlyOnce
  <2>2. \A v \in View : released[v] # None => released[v] \notin Logged
    BY DEF GateInv, ExactlyOnce, Released
  <2>3. \A v, w \in View : released'[v] = released'[w] /\ released'[v] # None => v = w
    BY <1>1, <1>2, <1>6, <2>2 DEF GateInv, ExactlyOnce
  <2>4. Logged' \cap Released' = {}
    BY <1>7, <1>8 DEF GateInv, ExactlyOnce
  <2> QED BY <2>1, <2>3, <2>4 DEF ExactlyOnce
<1>11. NothingDropped'
  BY <1>5, <1>6, <1>7, <1>8 DEF GateInv, NothingDropped
<1>12. D \subseteq ready
  BY <1>2
<1>13. AwaitingIsFetched' /\ ReadyIsLogged'
  BY <1>1, <1>7, <1>12 DEF GateInv, AwaitingIsFetched, ReadyIsLogged
<1> QED
  BY <1>4, <1>9, <1>10, <1>11, <1>13 DEF GateInv

LEMMA NextGate == GateInv /\ [Next]_vars => GateInv'
<1> SUFFICES ASSUME GateInv, [Next]_vars PROVE GateInv'
  OBVIOUS
<1>1. ASSUME NEW d \in Digest, Submit(d) PROVE GateInv'
  BY <1>1, StutterGate DEF Submit, gateVars, inboxVars, fetchVars
<1>2. ASSUME NEW d \in Digest, PayloadDrain(d) PROVE GateInv'
  BY <1>2, StutterGate DEF PayloadDrain, gateVars, inboxVars, fetchVars
<1>3. ASSUME NEW d \in Digest, FetchDeliver(d) PROVE GateInv'
  BY <1>3, FetchDeliverGate
<1>4. ASSUME NEW v \in View, NEW d \in Digest, Report(v, d) PROVE GateInv'
  BY <1>4, ReportGate
<1>5. ASSUME NEW acc \in SUBSET deferred, ReportOther(acc) PROVE GateInv'
  BY <1>5, ReportOtherGate
<1>6. CASE Drain
  BY <1>6, DrainGate
<1>7. CASE ReadFloor \/ PersistFloor
  BY <1>7, StutterGate DEF ReadFloor, PersistFloor, gateVars, inboxVars, fetchVars
<1>8. CASE UNCHANGED vars
  BY <1>8, StutterGate DEF vars, gateVars, inboxVars, fetchVars
<1> QED
  BY <1>1, <1>2, <1>3, <1>4, <1>5, <1>6, <1>7, <1>8 DEF Next

\* The inductive invariant holds in every reachable state.
THEOREM GateInvariant == Spec => []GateInv
BY InitGate, NextGate, PTL DEF Spec

\* A finalized digest reaches the node at most once: FinalizedInbox::record
\* and drain, whatever the engine repeats or reorders.
THEOREM GateExactlyOnce == Spec => []ExactlyOnce
<1>1. GateInv => ExactlyOnce
  BY DEF GateInv
<1> QED
  BY <1>1, GateInvariant, PTL

\* With a resolver wired the gate drops no finalization.
THEOREM GateNothingDropped == Spec => []NothingDropped
<1>1. GateInv => NothingDropped
  BY DEF GateInv
<1> QED
  BY <1>1, GateInvariant, PTL

\* Every slot that waits for its payload has exactly one fetch under way or
\* parked for retry.
THEOREM GateAwaitingIsFetched == Spec => []AwaitingIsFetched
<1>1. GateInv => AwaitingIsFetched
  BY DEF GateInv
<1> QED
  BY <1>1, GateInvariant, PTL

(***************************************************************************)
(* Own proposals: a digest leaves the pinned class only in the report that *)
(* certifies it, which is also what takes it out of the queue.             *)
(***************************************************************************)
PinInv ==
    /\ InboxTypeOK
    /\ pinned \subseteq Digest
    /\ pending \in Seq(Digest)
    /\ OwnSubmissionPinned

\* PendingProposals::remove adds nothing to the queue.
LEMMA RemoveKeeps ==
    ASSUME NEW q \in Seq(Digest), NEW d \in Digest
    PROVE  RemovePending(q, d) \in Seq(Digest) /\ Elems(RemovePending(q, d)) \subseteq Elems(q)
<1>1. CASE d \in Elems(q)
  <2> DEFINE P(i) == q[i] = d /\ \A j \in 1..(i-1) : q[j] # d
             k == CHOOSE i \in DOMAIN q : P(i)
  <2>1. \E i \in DOMAIN q : P(i)
    <3>1. PICK m \in DOMAIN q : q[m] = d
      BY <1>1 DEF Elems
    <3> DEFINE S == {i \in Nat : i \in DOMAIN q /\ q[i] = d}
    <3>2. m \in S /\ S \subseteq Nat
      BY <3>1
    <3>3. PICK n \in S : \A i \in S : n <= i
      BY <3>2, NatLeast
    <3>4. \A j \in 1..(n-1) : q[j] # d
      BY <3>3
    <3> QED BY <3>3, <3>4
  <2>2. k \in DOMAIN q
    BY <2>1
  <2>3. RemovePending(q, d) = SubSeq(q, 1, k - 1) \o SubSeq(q, k + 1, Len(q))
    BY <1>1 DEF RemovePending
  <2> HIDE DEF k
  <2>4. k \in 1..Len(q)
    BY <2>2
  <2>5. /\ SubSeq(q, 1, k - 1) \in Seq(Digest) /\ SubSeq(q, k + 1, Len(q)) \in Seq(Digest)
        /\ Elems(SubSeq(q, 1, k - 1)) \subseteq Elems(q)
        /\ Elems(SubSeq(q, k + 1, Len(q))) \subseteq Elems(q)
    BY <2>4 DEF Elems
  <2> DEFINE a == SubSeq(q, 1, k - 1)
             b == SubSeq(q, k + 1, Len(q))
  <2>6. RemovePending(q, d) = a \o b
    BY <2>3
  <2>7. a \in Seq(Digest) /\ b \in Seq(Digest) /\ Elems(a) \cup Elems(b) \subseteq Elems(q)
    BY <2>5
  <2> HIDE DEF a, b
  <2> QED
    BY <2>6, <2>7, ElemsConcat
<1>2. CASE d \notin Elems(q)
  BY <1>2 DEF RemovePending
<1> QED
  BY <1>1, <1>2

\* No own submission is evicted before it finalizes.
LEMMA NextPin == PinInv /\ InboxTypeOK' /\ [Next]_vars => PinInv'
<1> SUFFICES ASSUME PinInv, InboxTypeOK', [Next]_vars PROVE PinInv'
  OBVIOUS
<1>t. pending \in Seq(Digest) /\ pinned \subseteq Digest
  BY DEF PinInv
<1>1. ASSUME NEW d \in Digest, Submit(d) PROVE PinInv'
  <2>1. pinned' = pinned \cup {d} /\ pending' = Append(pending, d) /\ certified' = certified
    BY <1>1 DEF Submit, Pin
  <2>2. pending' \in Seq(Digest) /\ Elems(pending') = Elems(pending) \cup {d}
    BY <1>t, <2>1, ElemsAppend
  <2> QED
    BY <2>1, <2>2, <1>t DEF PinInv, OwnSubmissionPinned, Certified
<1>2. ASSUME NEW v \in View, NEW d \in Digest, Report(v, d) PROVE PinInv'
  <2>1. pinned \ {d} \subseteq pinned' /\ pinned' \subseteq pinned
    BY <1>2 DEF Report, Demote, storeVars
  <2>2. pending' = RemovePending(pending, d) /\ certified' = [certified EXCEPT ![v] = d]
    BY <1>2 DEF Report
  <2>3. pending' \in Seq(Digest) /\ Elems(pending') \subseteq Elems(pending)
    BY <1>t, <2>2, RemoveKeeps
  <2>4. Certified \cup {d} \subseteq Certified'
    <3>1. certified[v] \in {None, d} /\ certified \in [View -> Slot]
      BY <1>2 DEF Report, MayReport, PinInv, InboxTypeOK
    <3>2. d # None
      BY GateAssumption
    <3>3. \A w \in View : certified[w] # None => certified'[w] = certified[w]
      BY <3>1, <2>2
    <3>4. certified'[v] = d
      BY <3>1, <2>2
    <3> QED BY <3>2, <3>3, <3>4 DEF Certified
  <2> QED
    BY <2>1, <2>3, <2>4, <1>t DEF PinInv, OwnSubmissionPinned
<1>3. CASE /\ ~(\E d \in Digest : Submit(d))
           /\ ~(\E v \in View, d \in Digest : Report(v, d))
  <2>1. pinned' = pinned /\ pending' = pending /\ certified' = certified
    BY <1>3 DEF Next, PayloadDrain, FetchDeliver, Put, ReportOther, Drain, ReadFloor,
                PersistFloor, storeVars, vars
  <2> QED
    BY <2>1 DEF PinInv, OwnSubmissionPinned, Certified
<1> QED
  BY <1>1, <1>2, <1>3

\* Nothing is lost between the engine and the node, for every cache size,
\* number of views and order of events: record, drain, PayloadFetcher and
\* the PINNED class of ContentStore.
THEOREM GateNothingLost == Spec => []NothingLost
<1>1. Init => PinInv
  <2> SUFFICES ASSUME Init PROVE PinInv
    OBVIOUS
  <2>1. InboxTypeOK
    BY InitGate DEF GateInv
  <2>2. pinned = {} /\ pending = <<>>
    BY DEF Init
  <2> QED
    BY <2>1, <2>2 DEF PinInv, OwnSubmissionPinned, Elems
<1>2. GateInv => InboxTypeOK
  BY DEF GateInv
<1>3. GateInv /\ PinInv => NothingLost
  BY DEF GateInv, PinInv, NothingLost
<1> QED
  BY <1>1, <1>2, <1>3, NextPin, GateInvariant, PTL DEF Spec

(***************************************************************************)
(* What more holds while the engine reports in ascending view order.       *)
(***************************************************************************)
Pinpoint == \A v, w \in View : w < v =>
    /\ released[v] # None => certified[w] # released[v]
    /\ log[v] # None => certified[w] # log[v]

ReleasedBelowLog ==
    \A v, w \in View : released[v] # None /\ log[w] # None => v < w

FloorCertified ==
    /\ retained \subseteq Reported
    /\ cert \in Reported \cup {0}
    /\ floor \in Nat
    /\ \A v \in View : v <= floor => \E t \in Reported : v <= t

FloorCovered ==
    \A v \in View : v <= floor /\ certified[v] # None => certified[v] \in Released

OrderInv ==
    /\ Pinpoint
    /\ ReleasedBelowLog
    /\ FloorCertified
    /\ Resolver => FloorCovered

LEMMA InitOrder == Init => OrderInv
BY GateAssumption
DEF Init, OrderInv, Pinpoint, ReleasedBelowLog, FloorCertified, FloorCovered, View

LEMMA StutterOrder ==
    ASSUME OrderInv, certified' = certified, log' = log, released' = released,
           retained' = retained, cert' = cert, floor' = floor
    PROVE  OrderInv'
<1>1. Released' = Released /\ Reported' = Reported
  BY DEF Released, Reported
<1> QED
  BY <1>1 DEF OrderInv, Pinpoint, ReleasedBelowLog, FloorCertified, FloorCovered

LEMMA ReportOrder ==
    ASSUME ascending', GateInv, OrderInv, NEW v \in View, NEW d \in Digest, Report(v, d)
    PROVE  OrderInv'
<1> USE GateAssumption
<1>1. InboxTypeOK /\ View \subseteq Nat
  BY DEF GateInv, View
<1>2. /\ certified' = [certified EXCEPT ![v] = d]
      /\ certified[v] \in {None, d}
      /\ certified[v] = None => \A w \in Reported : w < v
      /\ released' = released /\ cert' = cert /\ floor' = floor
      /\ log' = log \/ (d \notin seen /\ log' = [log EXCEPT ![v] = d])
      /\ retained' \subseteq retained \cup {v}
  BY DEF Report, MayReport, Record, Fresh, Newest, floorVars
<1>3. Reported' = Reported \cup {v}
  BY <1>1, <1>2 DEF Reported, InboxTypeOK, Slot
<1>4. FloorCertified'
  BY <1>2, <1>3 DEF OrderInv, FloorCertified
<1>5. \A w \in View : (log[w] # None \/ released[w] # None) => w \in Reported
  BY DEF GateInv, SlotsAgree, Reported
<1>6. CASE certified[v] = d
  <2>1. certified' = certified /\ d \in seen
    BY <1>1, <1>2, <1>6 DEF InboxTypeOK, GateInv, SeenIsCertified, Certified
  <2>2. log' = log
    BY <1>2, <2>1
  <2>3. Released' = Released
    BY <1>2 DEF Released
  <2>4. Pinpoint' /\ ReleasedBelowLog' /\ (Resolver => FloorCovered')
    BY <1>2, <2>1, <2>2, <2>3 DEF OrderInv, Pinpoint, ReleasedBelowLog, FloorCovered
  <2> QED BY <1>4, <2>4 DEF OrderInv
<1>7. CASE certified[v] = None
  <2>1. \A w \in Reported : w < v
    BY <1>2, <1>7
  <2>2. Pinpoint'
    <3> SUFFICES ASSUME NEW x \in View, NEW y \in View, y < x
                 PROVE  /\ released'[x] # None => certified'[y] # released'[x]
                        /\ log'[x] # None => certified'[y] # log'[x]
      BY DEF Pinpoint
    <3>1. released'[x] # None => certified'[y] # released'[x]
      BY <1>1, <1>2, <1>5, <2>1 DEF OrderInv, Pinpoint, InboxTypeOK
    <3>2. log'[x] # None => certified'[y] # log'[x]
      <4>1. CASE x = v /\ log' # log
        <5>1. d \notin seen /\ log'[x] = d /\ certified'[y] = certified[y]
          BY <1>1, <1>2, <4>1 DEF InboxTypeOK
        <5> QED BY <5>1 DEF GateInv, SeenIsCertified, Certified
      <4>2. CASE ~(x = v /\ log' # log)
        <5>1. log'[x] = log[x]
          BY <1>1, <1>2, <4>2 DEF InboxTypeOK
        <5> QED BY <1>1, <1>2, <1>5, <2>1, <5>1 DEF OrderInv, Pinpoint, InboxTypeOK
      <4> QED BY <4>1, <4>2
    <3> QED BY <3>1, <3>2
  <2>3. ReleasedBelowLog'
    BY <1>1, <1>2, <1>5, <2>1 DEF OrderInv, ReleasedBelowLog, InboxTypeOK
  <2>4. Resolver => FloorCovered'
    <3>1. ~(v <= floor)
      BY <1>1, <2>1 DEF OrderInv, FloorCertified, Reported
    <3>2. Released' = Released
      BY <1>2 DEF Released
    <3> QED BY <1>1, <1>2, <3>1, <3>2 DEF OrderInv, FloorCovered, InboxTypeOK
  <2> QED BY <1>4, <2>2, <2>3, <2>4 DEF OrderInv
<1> QED BY <1>2, <1>6, <1>7

LEMMA DrainOrder ==
    ASSUME GateInv, OrderInv, Drain
    PROVE  OrderInv' /\ (\A v, w \in View :
               released[v] = None /\ released'[v] # None /\ released[w] # None => v > w)
<1> USE GateAssumption
<1>1. InboxTypeOK /\ View \subseteq Nat
  BY DEF GateInv, View
<1>2. /\ certified' = certified /\ retained' = retained
      /\ cert' = cert /\ floor' = floor
      /\ released' = [v \in View |-> IF v \in Releasable THEN log[v] ELSE released[v]]
      /\ log' = [v \in View |-> IF v \in Releasable THEN None ELSE log[v]]
  BY DEF Drain, floorVars
<1>3. \A v \in Releasable : v \in View /\ log[v] # None
  BY DEF Releasable
<1>4. \A v, w \in View : v \in Releasable /\ log[w] # None /\ w \notin Releasable => v < w
  BY <1>1 DEF Releasable
<1>5. Pinpoint'
  BY <1>2, <1>3 DEF OrderInv, Pinpoint
<1>6. ReleasedBelowLog'
  BY <1>2, <1>3, <1>4 DEF OrderInv, ReleasedBelowLog
<1>7. Reported' = Reported
  BY <1>2 DEF Reported
<1>8. FloorCertified'
  BY <1>2, <1>7 DEF OrderInv, FloorCertified
<1>9. Released \subseteq Released'
  <2>1. \A v \in View : released[v] # None => released'[v] = released[v]
    BY <1>2, <1>3 DEF GateInv, SlotsAgree
  <2> QED BY <2>1 DEF Released
<1>10. Resolver => FloorCovered'
  BY <1>2, <1>9 DEF OrderInv, FloorCovered
<1>11. \A v, w \in View :
          released[v] = None /\ released'[v] # None /\ released[w] # None => v > w
  BY <1>1, <1>2, <1>3 DEF OrderInv, ReleasedBelowLog
<1> QED BY <1>5, <1>6, <1>8, <1>10, <1>11 DEF OrderInv

LEMMA ReadFloorOrder ==
    ASSUME OrderInv, ReadFloor
    PROVE  OrderInv'
<1>1. /\ cert' \in retained
      /\ certified' = certified /\ log' = log /\ released' = released
      /\ retained' = retained /\ floor' = floor
  BY DEF ReadFloor, FloorCandidate, inboxVars
<1>2. Released' = Released /\ Reported' = Reported
  BY <1>1 DEF Released, Reported
<1> QED
  BY <1>1, <1>2 DEF OrderInv, Pinpoint, ReleasedBelowLog, FloorCertified, FloorCovered

\* A certificate with everything unreleased above it covers only what the node
\* has: a report since it was read can only have added unreleased views.
LEMMA PersistFloorOrder ==
    ASSUME GateInv, OrderInv, PersistFloor
    PROVE  OrderInv'
<1>1. View \subseteq Nat
  BY GateAssumption DEF View
<1>2. /\ cert # 0 /\ cert' = 0
      /\ certified' = certified /\ log' = log /\ released' = released
      /\ retained' = retained
      /\ floor' = floor \/ (floor' = cert /\ FullyDrained)
  BY DEF PersistFloor, inboxVars
<1>3. Released' = Released /\ Reported' = Reported
  BY <1>2 DEF Released, Reported
<1>4. cert \in Reported /\ Reported \subseteq View
  BY <1>2 DEF OrderInv, FloorCertified, Reported
<1>5. FloorCertified'
  BY <1>1, <1>2, <1>3, <1>4 DEF OrderInv, FloorCertified
<1>6. Resolver => FloorCovered'
  <2> SUFFICES ASSUME Resolver, FullyDrained,
                      NEW v \in View, v <= cert, certified[v] # None
               PROVE  certified[v] \in Released
    BY <1>2, <1>3 DEF FloorCovered, OrderInv
  <2>1. certified[v] \in Logged \cup Released
    BY DEF GateInv, NothingDropped, Certified
  <2>2. ASSUME certified[v] \in Logged PROVE FALSE
    <3>1. PICK w \in View : log[w] = certified[v] /\ log[w] # None
      BY <2>2 DEF Logged
    <3>2. ~(v < w)
      BY <3>1 DEF OrderInv, Pinpoint
    <3>3. w > cert
      BY <3>1 DEF FullyDrained
    <3> QED BY <1>1, <1>4, <3>2, <3>3
  <2> QED BY <2>1, <2>2
<1>7. Pinpoint' /\ ReleasedBelowLog'
  BY <1>2 DEF OrderInv, Pinpoint, ReleasedBelowLog
<1> QED BY <1>5, <1>6, <1>7 DEF OrderInv

LEMMA NextOrder ==
    GateInv /\ (ascending => OrderInv) /\ [Next]_vars => (ascending => OrderInv)'
<1> SUFFICES ASSUME GateInv, ascending => OrderInv, [Next]_vars, ascending' PROVE OrderInv'
  OBVIOUS
<1>0. OrderInv
  <2>1. ascending
    BY DEF Next, Submit, PayloadDrain, FetchDeliver, Report, ReportOther, Drain,
           ReadFloor, PersistFloor, vars
  <2> QED BY <2>1
<1>1. ASSUME NEW d \in Digest, Submit(d) PROVE OrderInv'
  BY <1>0, <1>1, StutterOrder DEF Submit, inboxVars, floorVars
<1>2. ASSUME NEW d \in Digest, PayloadDrain(d) PROVE OrderInv'
  BY <1>0, <1>2, StutterOrder DEF PayloadDrain, inboxVars, floorVars
<1>3. ASSUME NEW d \in Digest, FetchDeliver(d) PROVE OrderInv'
  BY <1>0, <1>3, StutterOrder DEF FetchDeliver, floorVars
<1>4. ASSUME NEW v \in View, NEW d \in Digest, Report(v, d) PROVE OrderInv'
  BY <1>0, <1>4, ReportOrder
<1>5. ASSUME NEW acc \in SUBSET deferred, ReportOther(acc) PROVE OrderInv'
  BY <1>0, <1>5, StutterOrder DEF ReportOther, inboxVars, floorVars
<1>6. CASE Drain
  BY <1>0, <1>6, DrainOrder
<1>7. CASE PersistFloor
  BY <1>0, <1>7, PersistFloorOrder
<1>8. CASE ReadFloor
  BY <1>0, <1>8, ReadFloorOrder
<1>9. CASE UNCHANGED vars
  BY <1>0, <1>9, StutterOrder DEF vars, inboxVars, floorVars
<1> QED
  BY <1>1, <1>2, <1>3, <1>4, <1>5, <1>6, <1>7, <1>8, <1>9 DEF Next

\* The ordering invariant holds as long as reports ascend.
THEOREM OrderInvariant == Spec => [](ascending => OrderInv)
<1>1. Init => (ascending => OrderInv)
  BY InitOrder
<1>2. GateInv /\ (ascending => OrderInv) /\ [Next]_vars => (ascending => OrderInv)'
  BY NextOrder
<1> QED
  BY <1>1, <1>2, GateInvariant, PTL DEF Spec

\* While reports ascend, every digest is released at the lowest view it was
\* certified at, so all validators stamp it with the same height.
THEOREM GateCanonicalSlot == Spec => []CanonicalSlot
<1>1. (ascending => OrderInv) => CanonicalSlot
  BY DEF OrderInv, Pinpoint, CanonicalSlot
<1> QED
  BY <1>1, OrderInvariant, PTL

\* While reports ascend and a resolver is wired, the persisted floor
\* certificate never covers a finalization the node has not been handed.
THEOREM GateFloorCovers == Spec => []FloorCoversReleased
<1>1. (ascending => OrderInv) => FloorCoversReleased
  BY DEF OrderInv, FloorCovered, FloorCoversReleased
<1> QED
  BY <1>1, OrderInvariant, PTL

\* While reports ascend, releases ascend over the whole epoch.
THEOREM GateAscendingRelease == Spec => AscendingRelease
<1>1. ASSUME GateInv, ascending => OrderInv, [Next]_vars
      PROVE  [ascending => \A v, w \in View :
                released[v] = None /\ released'[v] # None /\ released[w] # None => v > w]_vars
  <2>1. CASE Drain
    BY <1>1, <2>1, DrainOrder
  <2>2. CASE ~Drain
    <3>1. released' = released
      BY <1>1, <2>2 DEF Next, Submit, PayloadDrain, FetchDeliver, Report, ReportOther,
                        ReadFloor, PersistFloor, vars
    <3> QED BY <3>1
  <2> QED BY <2>1, <2>2
<1> QED
  BY <1>1, GateInvariant, OrderInvariant, PTL DEF Spec, AscendingRelease

\* While reports ascend, the node is handed every digest at its canonical view
\* and views in ascending order.
THEOREM GateCanonicalRelease == Spec => CanonicalRelease
<1>1. Spec => []CanonicalSlot
  BY GateCanonicalSlot
<1>2. Spec => AscendingRelease
  BY GateAscendingRelease
<1> QED
  BY <1>1, <1>2 DEF CanonicalRelease
--------------------------------------------------------------------------------
(***************************************************************************)
(* The content store: the cache within its cap                             *)
(***************************************************************************)
\* What insert_cached keeps of the cache c and its eviction queue q.
StoreSound(c, q) ==
    /\ q \in Seq(Digest)
    /\ IsFiniteSet(c) /\ Cardinality(c) <= CacheCap
    /\ c \subseteq Elems(q)

StoreInv ==
    /\ StoreSound(cached, order)
    /\ pinned \subseteq Digest /\ cached \subseteq Digest
    /\ pinned \cap cached = {}

\* What is left of a queue without its first k entries.
LEMMA DropFirst ==
    ASSUME NEW q \in Seq(Digest), NEW k \in 1..Len(q)
    PROVE  /\ SubSeq(q, k + 1, Len(q)) \in Seq(Digest)
           /\ Len(SubSeq(q, k + 1, Len(q))) = Len(q) - k
           /\ \A i \in 1..(Len(q) - k) : SubSeq(q, k + 1, Len(q))[i] = q[k + i]
<1> DEFINE n == Len(q)
<1>1. n \in Nat /\ k \in Nat /\ k <= n
  OBVIOUS
<1> HIDE DEF n
<1>2. k + 1 \in 1..(n + 1) /\ n \in k..n
  BY <1>1
<1>3. SubSeq(q, k + 1, n) = [i \in 1..(n - k) |-> q[k + i]]
  <2>1. (n - (k + 1)) + 1 = n - k /\ n - k \in Nat
    BY <1>1
  <2>2. \A i \in 1..(n - k) : (k + 1) + i - 1 = k + i
    BY <1>1
  <2>3. SubSeq(q, k + 1, n) = [i \in 1..((n - (k + 1)) + 1) |-> q[(k + 1) + i - 1]]
    BY <1>1 DEF n
  <2> QED
    BY <2>1, <2>2, <2>3
<1>4. \A i \in 1..(n - k) : q[k + i] \in Digest
  BY <1>1 DEF n
<1>5. n - k \in Nat
  BY <1>1
<1> QED
  BY <1>3, <1>4, <1>5 DEF n

\* The eviction loop finds a queued key that is still cached, and drops only
\* keys that are no longer cached in front of it.
LEMMA EvictSound ==
    ASSUME NEW c, NEW q \in Seq(Digest), IsFiniteSet(c), Cardinality(c) <= CacheCap + 1,
           c \subseteq Elems(q)
    PROVE  /\ StoreSound(Evict(c, q).cached, Evict(c, q).order)
           /\ Evict(c, q).cached \subseteq c
<1>0. CacheCap \in Nat /\ Cardinality(c) \in Nat
  BY GateAssumption, FS_CardinalityType
<1>1. CASE Cardinality(c) <= CacheCap
  BY <1>1 DEF Evict, StoreSound
<1>2. CASE ~(Cardinality(c) <= CacheCap)
  <2> DEFINE Hit == {i \in 1..Len(q) : q[i] \in c}
             First(i) == q[i] \in c /\ \A j \in 1..(i-1) : q[j] \notin c
             k == CHOOSE i \in 1..Len(q) : First(i)
  <2>0. Len(q) \in Nat /\ DOMAIN q = 1..Len(q)
    OBVIOUS
  <2>1. Hit # {}
    <3>1. c # {}
      BY <1>0, <1>2, FS_EmptySet
    <3> QED
      BY <2>0, <3>1 DEF Elems
  <2>2. PICK m \in Hit : \A i \in Hit : m <= i
    <3>1. Hit \in SUBSET Nat
      BY <2>0
    <3> QED
      BY <2>1, <3>1, NatLeast
  <2>3. m \in 1..Len(q) /\ First(m)
    <3>1. \A j \in 1..(m-1) : j \in 1..Len(q) /\ ~(m <= j)
      BY <2>0, <2>2
    <3> QED
      BY <2>2, <3>1
  <2>4. k \in 1..Len(q) /\ First(k)
    BY <2>3
  <2>5. Evict(c, q) = [cached |-> c \ {q[k]}, order |-> SubSeq(q, k + 1, Len(q))]
    BY <1>2 DEF Evict
  <2> HIDE DEF k
  <2>6. IsFiniteSet(c \ {q[k]}) /\ Cardinality(c \ {q[k]}) = Cardinality(c) - 1
    BY <2>4, FS_RemoveElement
  <2>7. Cardinality(c \ {q[k]}) <= CacheCap
    BY <1>0, <2>6
  <2> DEFINE s == SubSeq(q, k + 1, Len(q))
  <2>8. /\ s \in Seq(Digest) /\ Len(s) = Len(q) - k
        /\ \A i \in 1..(Len(q) - k) : s[i] = q[k + i]
    BY <2>4, DropFirst
  <2> HIDE DEF s
  <2>9. ASSUME NEW x \in c \ {q[k]} PROVE x \in Elems(s)
    <3>1. PICK j \in 1..Len(q) : x = q[j]
      BY <2>0, <2>9 DEF Elems
    <3>2. j # k /\ j \notin 1..(k - 1)
      BY <2>4, <2>9, <3>1
    <3>3. j - k \in 1..(Len(q) - k) /\ k + (j - k) = j
      BY <2>0, <2>4, <3>1, <3>2
    <3>4. s[j - k] = x /\ j - k \in DOMAIN s
      BY <2>0, <2>4, <2>8, <3>1, <3>3
    <3> QED
      BY <3>4 DEF Elems
  <2> QED
    BY <2>5, <2>6, <2>7, <2>8, <2>9 DEF StoreSound, s
<1> QED
  BY <1>1, <1>2

\* insert_cached.
LEMMA InsertSound ==
    ASSUME StoreInv, NEW p, NEW d \in Digest, InsertCached(p, d)
    PROVE  StoreSound(cached', order') /\ cached' \subseteq cached \cup {d}
           /\ (d \in p => cached' = cached)
<1>1. CASE d \in p \cup cached
  BY <1>1 DEF InsertCached, StoreInv
<1>2. CASE d \notin p \cup cached
  <2> DEFINE c == cached \cup {d}
             q == Append(order, d)
  <2>1. cached' = Evict(c, q).cached /\ order' = Evict(c, q).order
    BY <1>2 DEF InsertCached
  <2>2. IsFiniteSet(cached) /\ Cardinality(cached) <= CacheCap /\ order \in Seq(Digest)
        /\ cached \subseteq Elems(order)
    BY DEF StoreInv, StoreSound
  <2>3. IsFiniteSet(c) /\ Cardinality(c) = Cardinality(cached) + 1
    BY <1>2, <2>2, FS_AddElement
  <2>4. Cardinality(c) <= CacheCap + 1
    BY <2>2, <2>3, GateAssumption, FS_CardinalityType
  <2>5. q \in Seq(Digest) /\ c \subseteq Elems(q)
    BY <2>2, ElemsAppend
  <2> HIDE DEF c, q
  <2>6. StoreSound(Evict(c, q).cached, Evict(c, q).order) /\ Evict(c, q).cached \subseteq c
    BY <2>3, <2>4, <2>5, EvictSound
  <2> QED
    BY <1>2, <2>1, <2>6 DEF c
<1> QED
  BY <1>1, <1>2

LEMMA NextStore == StoreInv /\ [Next]_vars => StoreInv'
<1> SUFFICES ASSUME StoreInv, [Next]_vars PROVE StoreInv'
  OBVIOUS
<1>1. ASSUME NEW d \in Digest, Put(d) PROVE StoreInv'
  <2>1. InsertCached(pinned, d) /\ pinned' = pinned
    BY <1>1 DEF Put
  <2>2. StoreSound(cached', order') /\ cached' \subseteq cached \cup {d}
        /\ (d \in pinned => cached' = cached)
    BY <2>1, InsertSound
  <2> QED
    BY <2>1, <2>2 DEF StoreInv, StoreSound
<1>2. ASSUME NEW d \in Digest, Pin(d) PROVE StoreInv'
  <2>1. pinned' = pinned \cup {d} /\ cached' = cached \ {d} /\ order' = order
    BY <1>2 DEF Pin
  <2>2. IsFiniteSet(cached) /\ Cardinality(cached) <= CacheCap /\ cached \subseteq Elems(order)
    BY DEF StoreInv, StoreSound
  <2>3. IsFiniteSet(cached \ {d}) /\ Cardinality(cached \ {d}) <= Cardinality(cached)
    BY <2>2, FS_Subset
  <2>4. Cardinality(cached \ {d}) <= CacheCap
    BY <2>2, <2>3, GateAssumption, FS_CardinalityType
  <2> QED
    BY <2>1, <2>2, <2>3, <2>4 DEF StoreInv, StoreSound
<1>3. ASSUME NEW d \in Digest, Demote(d) PROVE StoreInv'
  <2>1. CASE d \notin pinned
    BY <1>3, <2>1 DEF Demote, storeVars, StoreInv, StoreSound
  <2>2. CASE d \in pinned
    <3>1. pinned' = pinned \ {d} /\ InsertCached(pinned \ {d}, d)
      BY <1>3, <2>2 DEF Demote
    <3>2. StoreSound(cached', order') /\ cached' \subseteq cached \cup {d}
      BY <3>1, InsertSound
    <3> QED
      BY <3>1, <3>2 DEF StoreInv, StoreSound
  <2> QED
    BY <2>1, <2>2
<1>4. ASSUME UNCHANGED storeVars PROVE StoreInv'
  BY <1>4 DEF storeVars, StoreInv, StoreSound
<1>5. CASE \E d \in Digest : Submit(d)
  BY <1>5, <1>2 DEF Submit
<1>6. CASE \E d \in Digest : PayloadDrain(d)
  BY <1>6, <1>1 DEF PayloadDrain
<1>7. CASE \E d \in Digest : FetchDeliver(d)
  BY <1>7, <1>1 DEF FetchDeliver
<1>8. CASE \E v \in View, d \in Digest : Report(v, d)
  BY <1>8, <1>3 DEF Report
<1>9. CASE \E acc \in SUBSET deferred : ReportOther(acc)
  BY <1>9, <1>4 DEF ReportOther
<1>10. CASE Drain
  BY <1>10, <1>4 DEF Drain
<1>11. CASE ReadFloor \/ PersistFloor
  BY <1>11, <1>4 DEF ReadFloor, PersistFloor
<1>12. CASE UNCHANGED vars
  BY <1>12, <1>4 DEF vars
<1> QED
  BY <1>5, <1>6, <1>7, <1>8, <1>9, <1>10, <1>11, <1>12 DEF Next

\* What is left of TypeOK.
RestTypeOK ==
    /\ ascending \in BOOLEAN
    /\ pending \in Seq(Digest)
    /\ retained \subseteq View
    /\ cert \in 0..MaxView /\ floor \in 0..MaxView

LEMMA NextRest == RestTypeOK /\ [Next]_vars => RestTypeOK'
<1> SUFFICES ASSUME RestTypeOK, [Next]_vars PROVE RestTypeOK'
  OBVIOUS
<1>1. ASSUME NEW d \in Digest, Submit(d) PROVE RestTypeOK'
  BY <1>1 DEF Submit, RestTypeOK, floorVars
<1>2. ASSUME NEW v \in View, NEW d \in Digest, Report(v, d) PROVE RestTypeOK'
  <2>1. pending' \in Seq(Digest)
    <3>1. pending' = RemovePending(pending, d)
      BY <1>2 DEF Report
    <3> QED
      BY <3>1, RemoveKeeps DEF RestTypeOK
  <2>2. retained' \subseteq View
    BY <1>2 DEF Report, Newest, RestTypeOK
  <2>3. ascending' \in BOOLEAN
    BY <1>2 DEF Report
  <2>4. cert' = cert /\ floor' = floor
    BY <1>2 DEF Report, floorVars
  <2> QED
    BY <2>1, <2>2, <2>3, <2>4 DEF RestTypeOK
<1>3. CASE ReadFloor \/ PersistFloor
  <2>1. /\ UNCHANGED <<ascending, pending, retained>>
        /\ floor' \in {floor, cert} /\ cert' \in View \cup {0}
    BY <1>3 DEF ReadFloor, PersistFloor
  <2>2. View \cup {0} \subseteq 0..MaxView
    BY GateAssumption DEF View
  <2> QED
    BY <2>1, <2>2 DEF RestTypeOK
<1>4. ASSUME UNCHANGED <<ascending, pending, retained, floorVars>> PROVE RestTypeOK'
  BY <1>4 DEF RestTypeOK, floorVars
<1>5. CASE \/ \E d \in Digest : PayloadDrain(d) \/ FetchDeliver(d)
           \/ \E acc \in SUBSET deferred : ReportOther(acc)
           \/ Drain \/ UNCHANGED vars
  BY <1>4, <1>5 DEF PayloadDrain, FetchDeliver, ReportOther, Drain, vars
<1> QED
  BY <1>1, <1>2, <1>3, <1>5 DEF Next

\* The cache stays within PAYLOAD_CACHE_CAP, every cached digest within reach of
\* the eviction queue and no digest in both classes, however pins, demotions,
\* gossip and fetched payloads interleave; the other fields keep their types.
THEOREM GateTypeOK == Spec => []TypeOK
<1>1. Init => StoreInv
  <2> SUFFICES ASSUME Init PROVE StoreInv
    OBVIOUS
  <2>1. pinned = {} /\ cached = {} /\ order = <<>>
    BY DEF Init
  <2>2. Cardinality({}) = 0 /\ IsFiniteSet({})
    BY FS_EmptySet
  <2> QED
    BY <2>1, <2>2, GateAssumption DEF StoreInv, StoreSound
<1>2. Init => RestTypeOK
  BY GateAssumption DEF Init, RestTypeOK
<1>3. GateInv /\ StoreInv /\ RestTypeOK => TypeOK
  BY DEF GateInv, InboxTypeOK, StoreInv, StoreSound, RestTypeOK, TypeOK
<1> QED
  BY <1>1, <1>2, <1>3, NextStore, NextRest, GateInvariant, PTL DEF Spec
================================================================================
