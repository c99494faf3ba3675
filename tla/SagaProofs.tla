------------------------------- MODULE SagaProofs ------------------------------
(***************************************************************************)
(* The saga ledger, proved for every set of ids, origins, workers and      *)
(* requests, every cap, budget and page size.  Every operation but Prune   *)
(* and Tick is one Put of records, and a Put of legal successors keeps the *)
(* rows, the quota, the leases and the retained tail; so the argument is   *)
(* about Put once, and about each operation only that what it writes is a  *)
(* legal successor of what it read.                                        *)
(***************************************************************************)
EXTENDS Saga, FiniteSetTheorems, TLAPS

\* The derived rows are functions of the records (put).
RowsInv ==
    /\ DOMAIN pending = Live
    /\ DOMAIN terminal = DOMAIN sagas \ Live
    /\ \A i \in Live : pending[i] = PendingMeta(sagas[i])
    /\ \A i \in DOMAIN terminal : terminal[i] = TerminalEntry(sagas[i])

\* What LeaseHasHolder says of one record.
Discipline(s) ==
    /\ (s.lease = None) <=> (s.assignee = None)
    /\ s.lease # None /\ s.deadline # None => s.lease <= s.deadline
    /\ s.attempt < s.max
    /\ s.pinned # None => s.assignee = s.pinned

RecordsInv ==
    \A i \in DOMAIN sagas : sagas[i].origin = Owner[i] /\ Discipline(sagas[i])

LedgerInv == TypeOK /\ RowsInv /\ RecordsInv /\ QuotaIsLive

\* The lease of t ends no earlier than that of s, or than now, or ends with
\* the deadline: t is not due before s is, unless it is not overdue.
Postpones(s, t) ==
    /\ t.deadline = s.deadline
    /\ \/ t.lease = None \/ t.lease >= now \/ t.lease = t.deadline
       \/ s.lease # None /\ t.lease >= s.lease

\* t may follow the live record s of saga i.
Successor(i, s, t) ==
    /\ t \in Record /\ t.origin = s.origin /\ t.reply = s.reply
    /\ t.updated = now /\ Postpones(s, t)
    /\ Discipline(t)
    /\ t.attempt >= s.attempt
    /\ t.attempt = s.attempt /\ s.assignee # None
          => t.assignee = s.assignee /\ t.lease >= s.lease

\* The ids a write ends.
EndedBy(rec) == {i \in DOMAIN rec : rec[i].status \in Ended}

--------------------------------------------------------------------------------
(***************************************************************************)
(* Put                                                                     *)
(***************************************************************************)
\* terminal_evictions names receipts only.
LEMMA EvictedAreReceipts ==
    ASSUME NEW R
    PROVE  TerminalEvictions(R) \subseteq {r[1] : r \in R}
BY DEF TerminalEvictions

\* The types of the rows a record derives.
LEMMA RowTypes ==
    ASSUME NEW s \in Record
    PROVE  PendingMeta(s) \in Meta /\ TerminalEntry(s) \in Receipt
<1>1. /\ s.deadline \in OptNat /\ s.lease \in OptNat
      /\ s.updated \in Nat /\ s.spec \in Nat /\ s.result \in Nat
    BY DEF Record
<1>2. Earlier(s.deadline, s.lease) \in OptNat
    BY <1>1, SagaAssumption DEF Earlier, OptNat
<1>. QED
    BY <1>1, <1>2 DEF PendingMeta, TerminalEntry, ReceiptBytes, Meta, Receipt

\* What a put of rec leaves in the ledger.
PutStep(rec) ==
    /\ DOMAIN sagas' \subseteq DOMAIN sagas \cup DOMAIN rec
    /\ \A i \in DOMAIN sagas' : sagas'[i] = IF i \in DOMAIN rec THEN rec[i] ELSE sagas[i]
    /\ Live' = (Live \ DOMAIN rec) \cup (DOMAIN rec \ EndedBy(rec))
    /\ RowsInv'
    /\ DOMAIN sagas' \subseteq Id /\ sagas' \in [DOMAIN sagas' -> Record]
    /\ DOMAIN pending' \subseteq Id /\ pending' \in [DOMAIN pending' -> Meta]
    /\ DOMAIN terminal' \subseteq Id /\ terminal' \in [DOMAIN terminal' -> Receipt]

\* put and the trim: the rows follow the records, a live saga is never
\* evicted, and nothing outside rec changes.
LEMMA PutMoves ==
    ASSUME TypeOK, RowsInv, NEW rec, DOMAIN rec \subseteq Id,
           \A i \in DOMAIN rec : rec[i] \in Record, Put(rec)
    PROVE  PutStep(rec)
<1>. DEFINE S == DOMAIN rec
            ended == EndedBy(rec)
            receipts == {<<i, terminal[i]>> : i \in DOMAIN terminal \ S}
                           \cup {<<i, TerminalEntry(rec[i])>> : i \in ended}
            evicted == TerminalEvictions(receipts)
<1>1. /\ sagas' = [i \in (DOMAIN sagas \cup S) \ evicted |->
                      IF i \in S THEN rec[i] ELSE sagas[i]]
      /\ pending' = [i \in ((DOMAIN pending \ S) \cup (S \ ended)) \ evicted |->
                        IF i \in S THEN PendingMeta(rec[i]) ELSE pending[i]]
      /\ terminal' = [i \in ((DOMAIN terminal \ S) \cup ended) \ evicted |->
                         IF i \in S THEN TerminalEntry(rec[i]) ELSE terminal[i]]
    BY DEF Put, EndedBy
<1>2. evicted \subseteq (DOMAIN terminal \ S) \cup ended
    <2>1. {r[1] : r \in receipts} \subseteq (DOMAIN terminal \ S) \cup ended
        OBVIOUS
    <2>. HIDE DEF receipts
    <2>. QED
        BY <2>1, EvictedAreReceipts
<1>. HIDE DEF evicted
<1>3. /\ DOMAIN sagas' = (DOMAIN sagas \cup S) \ evicted
      /\ \A i \in DOMAIN sagas' : sagas'[i] = IF i \in S THEN rec[i] ELSE sagas[i]
    BY <1>1
<1>4. /\ DOMAIN pending = Live /\ DOMAIN terminal = DOMAIN sagas \ Live
      /\ Live \subseteq DOMAIN sagas /\ ended \subseteq S
    BY DEF RowsInv, Live, EndedBy
<1>5. Live' = (Live \ S) \cup (S \ ended)
    <2>1. \A i \in DOMAIN sagas \cup S : i \in evicted => i \notin (Live \ S) \cup (S \ ended)
        BY <1>2, <1>4
    <2>. QED
        BY <1>2, <1>3, <1>4, <2>1 DEF Live, EndedBy
<1>6. DOMAIN pending' = Live'
    BY <1>1, <1>2, <1>4, <1>5
<1>7. DOMAIN terminal' = DOMAIN sagas' \ Live'
    BY <1>1, <1>2, <1>3, <1>4, <1>5
<1>8. \A i \in Live' : pending'[i] = PendingMeta(sagas'[i])
    <2>. SUFFICES ASSUME NEW i \in Live' PROVE pending'[i] = PendingMeta(sagas'[i])
        OBVIOUS
    <2>1. i \in DOMAIN sagas' /\ i \in DOMAIN pending'
        BY <1>6 DEF Live
    <2>2. CASE i \in S
        BY <1>1, <1>3, <2>1, <2>2
    <2>3. CASE i \notin S
        <3>1. i \in Live
            BY <1>5, <2>3
        <3>. QED
            BY <1>1, <1>3, <2>1, <2>3, <3>1 DEF RowsInv
    <2>. QED
        BY <2>2, <2>3
<1>9. \A i \in DOMAIN terminal' : terminal'[i] = TerminalEntry(sagas'[i])
    <2>. SUFFICES ASSUME NEW i \in DOMAIN terminal' PROVE terminal'[i] = TerminalEntry(sagas'[i])
        OBVIOUS
    <2>1. i \in DOMAIN sagas'
        BY <1>7
    <2>2. CASE i \in S
        BY <1>1, <1>3, <2>1, <2>2
    <2>3. CASE i \notin S
        <3>1. i \in DOMAIN terminal
            BY <1>1, <1>4, <2>3
        <3>. QED
            BY <1>1, <1>3, <2>1, <2>3, <3>1 DEF RowsInv
    <2>. QED
        BY <2>2, <2>3
<1>10. RowsInv'
    BY <1>6, <1>7, <1>8, <1>9 DEF RowsInv
<1>11. /\ DOMAIN sagas' \subseteq Id /\ sagas' \in [DOMAIN sagas' -> Record]
    <2>1. \A i \in DOMAIN sagas' : sagas'[i] \in Record
        BY <1>3 DEF TypeOK
    <2>. QED
        BY <1>1, <1>3, <2>1 DEF TypeOK
<1>12. /\ DOMAIN pending' \subseteq Id /\ pending' \in [DOMAIN pending' -> Meta]
    <2>1. \A i \in DOMAIN pending' : pending'[i] \in Meta
        BY <1>1, RowTypes DEF TypeOK
    <2>. QED
        BY <1>1, <2>1, <1>4 DEF TypeOK
<1>13. /\ DOMAIN terminal' \subseteq Id /\ terminal' \in [DOMAIN terminal' -> Receipt]
    <2>1. \A i \in DOMAIN terminal' : terminal'[i] \in Receipt
        BY <1>1, <1>4, RowTypes DEF TypeOK
    <2>. QED
        BY <1>1, <2>1, <1>4 DEF TypeOK
<1>. QED
    BY <1>3, <1>5, <1>10, <1>11, <1>12, <1>13 DEF PutStep

\* A write to live sagas puts a legal successor of each.
LegalWrite(rec) ==
    /\ DOMAIN rec \subseteq Live
    /\ \A i \in DOMAIN rec : Successor(i, sagas[i], rec[i])

\* The work orders of live records are well typed.
LEMMA OrderType ==
    ASSUME NEW i \in Id, NEW s \in Record
    PROVE  Order(i, s) \subseteq Id \X Nat \X Worker
BY DEF Order, Record, OptWorker

\* The live sagas of an origin.
LiveOf(o) == {i \in Live : sagas[i].origin = o}

\* Live sagas are finitely many.
LEMMA LiveOfFinite ==
    ASSUME TypeOK, NEW o
    PROVE  IsFiniteSet(LiveOf(o)) /\ Cardinality(LiveOf(o)) \in Nat
<1>1. LiveOf(o) \in SUBSET Id
    BY DEF LiveOf, Live, TypeOK
<1>2. IsFiniteSet(LiveOf(o))
    BY <1>1, SagaAssumption, FS_Subset
<1>. QED
    BY <1>2, FS_CardinalityType

\* release_quota: an origin gets back one slot for each of its sagas that ends.
LEMMA ReleaseKeeps ==
    ASSUME LedgerInv, NEW rec, LegalWrite(rec), PutStep(rec), Release(rec)
    PROVE  QuotaIsLive' /\ quota' \in [Origin -> Nat]
<1>. DEFINE B(o) == {i \in DOMAIN rec : rec[i].status \in Ended /\ rec[i].origin = o}
<1>1. /\ \A o \in Origin : Cardinality(B(o)) <= quota[o]
      /\ quota' = [o \in Origin |-> quota[o] - Cardinality(B(o))]
    BY DEF Release
<1>2. ASSUME NEW o \in Origin
      PROVE  /\ quota'[o] = Cardinality({i \in Live' : sagas'[i].origin = o})
             /\ quota'[o] <= LiveCap[o] /\ quota'[o] \in Nat
    <2>. DEFINE A == LiveOf(o)
                AA == {i \in Live' : sagas'[i].origin = o}
    <2>1. B(o) \subseteq A
        BY DEF LegalWrite, Successor, LiveOf
    <2>2. AA = A \ B(o)
        <3>1. \A i \in Live' : /\ i \in DOMAIN sagas'
                               /\ sagas'[i] = IF i \in DOMAIN rec THEN rec[i] ELSE sagas[i]
            BY DEF PutStep, Live
        <3>2. \A i \in Live' : sagas'[i].origin = sagas[i].origin /\ i \in Live
            BY <3>1 DEF PutStep, LegalWrite, Successor
        <3>3. \A i \in A : i \notin B(o) => i \in Live'
            BY DEF PutStep, LegalWrite, Successor, LiveOf, EndedBy
        <3>4. \A i \in Live' : i \notin B(o)
            BY DEF PutStep, EndedBy, LegalWrite
        <3>. QED
            BY <3>2, <3>3, <3>4, <2>1 DEF LiveOf
    <2>. HIDE DEF A, AA, B
    <2>3. IsFiniteSet(A) /\ Cardinality(A) \in Nat
        BY LiveOfFinite DEF A, LedgerInv
    <2>4. A \cap B(o) = B(o)
        BY <2>1
    <2>5. Cardinality(A \ B(o)) = Cardinality(A) - Cardinality(B(o))
        BY <2>3, <2>4, FS_Difference
    <2>6. IsFiniteSet(B(o)) /\ Cardinality(B(o)) \in Nat
        BY <2>1, <2>3, FS_Subset, FS_CardinalityType
    <2>7. quota[o] = Cardinality(A) /\ quota[o] <= LiveCap[o] /\ LiveCap[o] \in Nat
        BY SagaAssumption DEF LedgerInv, QuotaIsLive, A, LiveOf
    <2>8. quota'[o] = quota[o] - Cardinality(B(o)) /\ Cardinality(B(o)) <= quota[o]
        BY <1>1
    <2>9. quota'[o] = Cardinality(AA) /\ quota'[o] <= LiveCap[o] /\ quota'[o] \in Nat
        BY <2>2, <2>3, <2>5, <2>6, <2>7, <2>8
    <2>. QED
        BY <2>9 DEF AA
<1>3. QuotaIsLive'
    BY <1>2 DEF QuotaIsLive
<1>. HIDE DEF B
<1>. QED
    BY <1>1, <1>2, <1>3

\* Write keeps the ledger, whatever legal successors it writes.
LEMMA WriteKeeps ==
    ASSUME LedgerInv, NEW rec, LegalWrite(rec), NEW dropped, NEW asking,
           asking \subseteq DOMAIN rec, Write(rec, dropped, asking)
    PROVE  LedgerInv' /\ PutStep(rec)
<1>1. /\ UNCHANGED <<now, triggers>>
      /\ orders' = (orders \ dropped) \cup UNION {Order(i, rec[i]) : i \in asking}
      /\ Release(rec) /\ EmitCallback(rec) /\ Put(rec)
    BY DEF Write
<1>2. DOMAIN rec \subseteq Id /\ \A i \in DOMAIN rec : rec[i] \in Record
    BY DEF LegalWrite, Successor, LedgerInv, TypeOK, Live
<1>3. PutStep(rec)
    BY <1>1, <1>2, PutMoves DEF LedgerInv
<1>4. QuotaIsLive' /\ quota' \in [Origin -> Nat]
    BY <1>1, <1>3, ReleaseKeeps
<1>5. RecordsInv'
    <2>. SUFFICES ASSUME NEW i \in DOMAIN sagas'
                  PROVE  sagas'[i].origin = Owner[i] /\ Discipline(sagas'[i])
        BY DEF RecordsInv, Discipline
    <2>1. sagas'[i] = IF i \in DOMAIN rec THEN rec[i] ELSE sagas[i]
        BY <1>3 DEF PutStep
    <2>2. i \in DOMAIN sagas \cup DOMAIN rec
        BY <1>3 DEF PutStep
    <2>3. \A j \in DOMAIN sagas : sagas[j].origin = Owner[j] /\ Discipline(sagas[j])
        BY DEF LedgerInv, RecordsInv
    <2>4. \A j \in DOMAIN rec : /\ j \in DOMAIN sagas /\ Discipline(rec[j])
                               /\ rec[j].origin = sagas[j].origin
        BY DEF LegalWrite, Successor, Live
    <2>. QED
        BY <2>1, <2>2, <2>3, <2>4
<1>6. callbacks' \in [Id -> Nat]
    BY <1>1 DEF EmitCallback, LedgerInv, TypeOK
<1>7. orders' \subseteq Id \X Nat \X Worker
    <2>1. \A i \in asking : Order(i, rec[i]) \subseteq Id \X Nat \X Worker
        BY <1>2, OrderType
    <2>2. orders \subseteq Id \X Nat \X Worker
        BY DEF LedgerInv, TypeOK
    <2>. QED
        BY <1>1, <2>1, <2>2
<1>8. TypeOK'
    BY <1>1, <1>3, <1>4, <1>6, <1>7 DEF TypeOK, PutStep, LedgerInv
<1>. QED
    BY <1>3, <1>4, <1>5, <1>8 DEF LedgerInv, PutStep

--------------------------------------------------------------------------------
(***************************************************************************)
(* What each operation writes                                              *)
(***************************************************************************)
\* bounded_lease_expiry: a lease exactly with a holder, within the deadline.
LEMMA LeaseBounded ==
    ASSUME TypeOK, NEW s \in Record, NEW w \in OptWorker
    PROVE  /\ LeaseExpiry(s, w) \in OptNat
           /\ LeaseExpiry(s, w) = None <=> w = None
           /\ w # None /\ s.deadline # None => LeaseExpiry(s, w) <= s.deadline
<1>1. s.window \in OptNat /\ s.deadline \in OptNat /\ now \in Nat
    BY DEF Record, TypeOK
<1>2. now + Window(s) \in Nat
    BY <1>1, SagaAssumption DEF Window, OptNat
<1>. QED
    BY <1>1, <1>2, SagaAssumption DEF LeaseExpiry, Earlier, OptNat

\* A record leased to w, field by field.
LEMMA LeasedFields ==
    ASSUME NEW s \in Record, NEW w \in OptWorker, TypeOK
    PROVE  /\ Leased(s, w) \in Record
           /\ Leased(s, w).assignee = w /\ Leased(s, w).lease = LeaseExpiry(s, w)
           /\ Leased(s, w).origin = s.origin /\ Leased(s, w).reply = s.reply
           /\ Leased(s, w).attempt = s.attempt /\ Leased(s, w).max = s.max
           /\ Leased(s, w).pinned = s.pinned /\ Leased(s, w).deadline = s.deadline
           /\ Leased(s, w).status = s.status /\ Leased(s, w).updated = s.updated
<1>1. LeaseExpiry(s, w) \in OptNat
    BY LeaseBounded
<1>. QED
    BY <1>1 DEF Leased, Record

\* A new lease ends no earlier than now, or with the deadline.
LEMMA LeasePostpones ==
    ASSUME TypeOK, NEW s \in Record, NEW w \in OptWorker
    PROVE  LeaseExpiry(s, w) = None \/ LeaseExpiry(s, w) >= now \/ LeaseExpiry(s, w) = s.deadline
<1>1. s.window \in OptNat /\ s.deadline \in OptNat /\ now \in Nat
    BY DEF Record, TypeOK
<1>2. now + Window(s) \in Nat /\ now + Window(s) >= now
    BY <1>1, SagaAssumption DEF Window, OptNat
<1>. QED
    BY <1>1, <1>2, SagaAssumption DEF LeaseExpiry, Earlier, OptNat

\* A pick keeps the pin and is a worker or nobody.
LEMMA CandidatesFit ==
    ASSUME NEW s \in Record, NEW x, NEW w \in Candidates(s, x)
    PROVE  w \in OptWorker /\ (s.pinned # None => w = s.pinned)
BY SagaAssumption DEF Candidates, OptWorker, Record

\* Leasing a record whose attempt is within its budget to a key it may go to.
LEMMA LeasingDisciplined ==
    ASSUME NEW s \in Record, NEW w \in OptWorker, TypeOK, s.attempt < s.max,
           s.pinned # None => w = s.pinned
    PROVE  Discipline(Leased(s, w))
<1>1. /\ LeaseExpiry(s, w) = None <=> w = None
      /\ w # None /\ s.deadline # None => LeaseExpiry(s, w) <= s.deadline
    BY LeaseBounded
<1>2. /\ Leased(s, w).assignee = w /\ Leased(s, w).lease = LeaseExpiry(s, w)
      /\ Leased(s, w).attempt = s.attempt /\ Leased(s, w).max = s.max
      /\ Leased(s, w).pinned = s.pinned /\ Leased(s, w).deadline = s.deadline
    BY LeasedFields
<1>. QED
    BY <1>1, <1>2 DEF Discipline

\* The next attempt, leased to a pick.
LEMMA RetrySucceeds ==
    ASSUME TypeOK, NEW i, NEW s \in Record, Discipline(s), NEW t \in Record,
           t.origin = s.origin, t.reply = s.reply, t.max = s.max, t.pinned = s.pinned,
           t.attempt = s.attempt + 1, AttemptsRemain(s), NEW w \in OptWorker,
           s.pinned # None => w = s.pinned, t.updated = now, t.deadline = s.deadline
    PROVE  Successor(i, s, Leased(t, w)) /\ Leased(t, w).status = t.status
<1>1. t.attempt < t.max /\ s.attempt \in Nat
    BY DEF AttemptsRemain, Record
<1>2. Discipline(Leased(t, w))
    BY <1>1, LeasingDisciplined
<1>3. Postpones(s, Leased(t, w))
    BY LeasedFields, LeasePostpones DEF Postpones
<1>. QED
    BY <1>1, <1>2, <1>3, LeasedFields DEF Successor

\* An ending, or any change of a record that leaves its lease and attempt.
LEMMA SameLeaseSucceeds ==
    ASSUME NEW i, NEW s \in Record, Discipline(s), NEW t \in Record,
           t.origin = s.origin, t.reply = s.reply, t.max = s.max, t.pinned = s.pinned,
           t.attempt = s.attempt, t.assignee = s.assignee, t.lease = s.lease,
           t.deadline = s.deadline, t.updated = now
    PROVE  Successor(i, s, t)
<1>1. Discipline(t)
    BY DEF Discipline
<1>2. s.attempt \in Nat /\ s.lease \in OptNat
    BY DEF Record
<1>3. s.assignee # None => s.lease \in Nat
    BY <1>2 DEF Discipline, OptNat
<1>4. Postpones(s, t)
    BY <1>2 DEF Postpones, OptNat
<1>. QED
    BY <1>1, <1>2, <1>3, <1>4 DEF Successor

\* A write of one saga.
LEMMA OneLegal ==
    ASSUME NEW i \in Live, NEW s, Successor(i, sagas[i], s)
    PROVE  LegalWrite([j \in {i} |-> s])
BY DEF LegalWrite

\* What is known of a live record.
LEMMA LiveRecord ==
    ASSUME LedgerInv, NEW i \in Live
    PROVE  /\ i \in Id /\ sagas[i] \in Record /\ Discipline(sagas[i])
           /\ sagas[i].status = "pending"
BY DEF LedgerInv, TypeOK, RecordsInv, Live, Record, Status

\* A write of legal successors whose orders are squared under Strict: what is
\* dropped is orders of the sagas written, and what is left and issued for
\* each is the order of its new record, none when it ended.
LegalStep(rec, dropped, asking) ==
    /\ LegalWrite(rec)
    /\ asking \subseteq DOMAIN rec
    /\ Policy = "strict" =>
          /\ \A x \in dropped : \E i \in DOMAIN rec : x \in Order(i, sagas[i])
          /\ \A i \in DOMAIN rec :
                (Order(i, sagas[i]) \ dropped) \cup (IF i \in asking THEN Order(i, rec[i]) ELSE {})
                   = IF rec[i].status \in Ended THEN {} ELSE Order(i, rec[i])

Rewrites == \E rec, dropped, asking : LegalStep(rec, dropped, asking) /\ Write(rec, dropped, asking)

\* One saga written.
LEMMA OneRewrites ==
    ASSUME LedgerInv, NEW i \in Live, NEW s, Successor(i, sagas[i], s),
           NEW dropped, NEW asking \in SUBSET {i}, WriteOne(i, s, dropped, asking),
           Policy = "strict" =>
              /\ dropped \subseteq Order(i, sagas[i])
              /\ (Order(i, sagas[i]) \ dropped) \cup (IF i \in asking THEN Order(i, s) ELSE {})
                    = IF s.status \in Ended THEN {} ELSE Order(i, s)
    PROVE  Rewrites
<1>. DEFINE rec == [j \in {i} |-> s]
<1>1. DOMAIN rec = {i} /\ rec[i] = s
    OBVIOUS
<1>2. LegalWrite(rec) /\ Write(rec, dropped, asking)
    BY OneLegal DEF WriteOne
<1>. HIDE DEF rec
<1>3. LegalStep(rec, dropped, asking)
    BY <1>1, <1>2 DEF LegalStep
<1>. QED
    BY <1>2, <1>3 DEF Rewrites

LEMMA ResultRewrites ==
    ASSUME LedgerInv, NEW i \in Id, NEW w \in Worker, NEW a, NEW ok \in BOOLEAN,
           NEW b \in ResultBytes, OracleResult(i, w, a, ok, b)
    PROVE  Rewrites
<1>. DEFINE s == [sagas[i] EXCEPT !.updated = now]
            answered == {<<i, a, w>>}
<1>1. i \in Live /\ a = sagas[i].attempt /\ MayAnswer(sagas[i], w)
    BY DEF OracleResult
<1>2. /\ sagas[i] \in Record /\ Discipline(sagas[i]) /\ sagas[i].status = "pending"
      /\ TypeOK /\ now \in Nat /\ b \in Nat
    BY <1>1, LiveRecord, SagaAssumption DEF LedgerInv, TypeOK
<1>3. /\ s \in Record /\ s.origin = sagas[i].origin /\ s.reply = sagas[i].reply
      /\ s.max = sagas[i].max /\ s.pinned = sagas[i].pinned /\ s.attempt = sagas[i].attempt
      /\ s.assignee = sagas[i].assignee /\ s.lease = sagas[i].lease
      /\ s.deadline = sagas[i].deadline /\ s.status = "pending" /\ s.updated = now
    BY <1>2 DEF Record
<1>4. Policy = "strict" => Order(i, sagas[i]) = answered
    BY <1>1, SagaAssumption DEF MayAnswer, Order
<1>5. \/ WriteOne(i, [s EXCEPT !.status = "done", !.result = b], answered, {})
      \/ /\ AttemptsRemain(s)
         /\ \E n \in Candidates(s, None) :
               WriteOne(i, Leased([s EXCEPT !.attempt = @ + 1], n), answered, {i})
      \/ WriteOne(i, [s EXCEPT !.status = "failed", !.result = b], answered, {})
    BY DEF OracleResult
<1>. HIDE DEF s, answered
<1>6. ASSUME NEW e \in Ended, WriteOne(i, [s EXCEPT !.status = e, !.result = b], answered, {})
      PROVE  Rewrites
    <2>. DEFINE t == [s EXCEPT !.status = e, !.result = b]
    <2>1. /\ t \in Record /\ t.origin = s.origin /\ t.reply = s.reply
          /\ t.max = s.max /\ t.pinned = s.pinned /\ t.attempt = s.attempt
          /\ t.assignee = s.assignee /\ t.lease = s.lease
          /\ t.deadline = s.deadline /\ t.status = e /\ t.updated = now
        BY <1>2, <1>3 DEF Record, Status
    <2>. HIDE DEF t
    <2>2. Successor(i, sagas[i], t)
        BY <1>2, <1>3, <2>1, SameLeaseSucceeds
    <2>3. WriteOne(i, t, answered, {})
        BY <1>6 DEF t
    <2>4. Policy = "strict" =>
              /\ answered \subseteq Order(i, sagas[i])
              /\ (Order(i, sagas[i]) \ answered) \cup (IF i \in {} THEN Order(i, t) ELSE {})
                    = IF t.status \in Ended THEN {} ELSE Order(i, t)
        BY <1>4, <2>1
    <2>. QED
        BY <1>1, <2>2, <2>3, <2>4, OneRewrites
<1>7. ASSUME AttemptsRemain(s), NEW n \in Candidates(s, None),
             WriteOne(i, Leased([s EXCEPT !.attempt = @ + 1], n), answered, {i})
      PROVE  Rewrites
    <2>. DEFINE t == [s EXCEPT !.attempt = @ + 1]
    <2>1. /\ t \in Record /\ t.origin = s.origin /\ t.reply = s.reply
          /\ t.max = s.max /\ t.pinned = s.pinned /\ t.attempt = s.attempt + 1
          /\ t.status = "pending" /\ t.updated = now /\ t.deadline = s.deadline
        BY <1>3 DEF Record, Status
    <2>2. WriteOne(i, Leased(t, n), answered, {i})
        BY <1>7
    <2>. HIDE DEF t
    <2>3. n \in OptWorker /\ (s.pinned # None => n = s.pinned)
        BY <1>3, CandidatesFit
    <2>4. AttemptsRemain(sagas[i])
        BY <1>3, <1>7 DEF AttemptsRemain
    <2>5. Successor(i, sagas[i], Leased(t, n)) /\ Leased(t, n).status = "pending"
        BY <1>2, <1>3, <2>1, <2>3, <2>4, RetrySucceeds
    <2>6. Policy = "strict" =>
              /\ answered \subseteq Order(i, sagas[i])
              /\ (Order(i, sagas[i]) \ answered) \cup (IF i \in {i} THEN Order(i, Leased(t, n)) ELSE {})
                    = IF Leased(t, n).status \in Ended THEN {} ELSE Order(i, Leased(t, n))
        BY <1>4, <2>5 DEF Ended
    <2>. QED
        BY <1>1, <2>2, <2>5, <2>6, OneRewrites
<1>. QED
    BY <1>5, <1>6, <1>7 DEF Ended

\* renew_lease: the lease only moves out.
LEMMA RenewRewrites ==
    ASSUME LedgerInv, NEW i \in Id, NEW w \in Worker, NEW a, RenewLease(i, w, a)
    PROVE  Rewrites
<1>. DEFINE s == sagas[i]
            t == [s EXCEPT !.lease = Renewed(s), !.updated = now]
<1>1. i \in Live /\ s.assignee = w /\ s.lease # None /\ WriteOne(i, t, {}, {})
    BY DEF RenewLease
<1>2. s \in Record /\ Discipline(s) /\ s.status = "pending" /\ TypeOK /\ now \in Nat
    BY <1>1, LiveRecord DEF LedgerInv, TypeOK
<1>. HIDE DEF s
<1>3. /\ LeaseExpiry(s, s.assignee) \in Nat
      /\ s.deadline # None => LeaseExpiry(s, s.assignee) <= s.deadline
    BY <1>1, <1>2, LeaseBounded, SagaAssumption DEF OptWorker, OptNat
<1>4. s.lease \in Nat
    BY <1>1, <1>2 DEF Record, OptNat
<1>5. /\ Renewed(s) \in Nat /\ Renewed(s) >= s.lease
      /\ s.deadline # None => Renewed(s) <= s.deadline
    <2>1. Renewed(s) \in {LeaseExpiry(s, s.assignee), s.lease}
        BY DEF Renewed
    <2>2. Renewed(s) = s.lease \/ (Renewed(s) = LeaseExpiry(s, s.assignee) /\ LeaseExpiry(s, s.assignee) > s.lease)
        BY DEF Renewed
    <2>. QED
        BY <1>1, <1>2, <1>3, <1>4, <2>2 DEF Discipline
<1>6. /\ t \in Record /\ t.origin = s.origin /\ t.reply = s.reply
      /\ t.max = s.max /\ t.pinned = s.pinned /\ t.attempt = s.attempt
      /\ t.assignee = s.assignee /\ t.lease = Renewed(s)
      /\ t.deadline = s.deadline /\ t.status = s.status /\ t.updated = now
    BY <1>2, <1>5 DEF Record, OptNat
<1>. HIDE DEF t
<1>7. Discipline(t)
    BY <1>1, <1>2, <1>5, <1>6, SagaAssumption DEF Discipline
<1>8. Successor(i, s, t)
    BY <1>1, <1>2, <1>5, <1>6, <1>7 DEF Successor, Postpones, Record
<1>9. (Order(i, s) \ {}) \cup (IF i \in {} THEN Order(i, t) ELSE {})
         = IF t.status \in Ended THEN {} ELSE Order(i, t)
    BY <1>2, <1>6 DEF Order, Ended
<1>. QED
    BY <1>1, <1>8, <1>9, OneRewrites DEF s

LEMMA ReassignRewrites ==
    ASSUME LedgerInv, NEW i \in Id, NEW a, NEW o, Reassign(o, i, a)
    PROVE  Rewrites
<1>. DEFINE s == sagas[i]
            t == [s EXCEPT !.updated = now, !.attempt = @ + 1]
<1>1. i \in Live /\ s.pinned = None /\ AttemptsRemain(s)
    BY DEF Reassign
<1>2. PICK w \in Worker \ {t.assignee} : WriteOne(i, Leased(t, w), Order(i, s), {i})
    BY DEF Reassign
<1>3. s \in Record /\ Discipline(s) /\ s.status = "pending" /\ TypeOK /\ now \in Nat
    BY <1>1, LiveRecord DEF LedgerInv, TypeOK
<1>. HIDE DEF s
<1>4. /\ t \in Record /\ t.origin = s.origin /\ t.reply = s.reply
      /\ t.max = s.max /\ t.pinned = s.pinned /\ t.attempt = s.attempt + 1
      /\ t.status = "pending" /\ t.updated = now /\ t.deadline = s.deadline
    <2>1. s.attempt \in Nat /\ s.attempt + 1 \in Nat
        BY <1>3 DEF Record
    <2>. DEFINE n == s.attempt + 1
    <2>2. t = [s EXCEPT !.updated = now, !.attempt = n]
        OBVIOUS
    <2>. HIDE DEF n, t
    <2>3. /\ t \in Record /\ t.origin = s.origin /\ t.reply = s.reply
          /\ t.max = s.max /\ t.pinned = s.pinned /\ t.attempt = n
          /\ t.status = "pending" /\ t.updated = now /\ t.deadline = s.deadline
        BY <1>3, <2>1, <2>2 DEF Record, n
    <2>. QED
        BY <2>3 DEF n
<1>. HIDE DEF t
<1>5. Successor(i, s, Leased(t, w)) /\ Leased(t, w).status = "pending"
    BY <1>1, <1>3, <1>4, RetrySucceeds DEF OptWorker
<1>6. (Order(i, s) \ Order(i, s)) \cup (IF i \in {i} THEN Order(i, Leased(t, w)) ELSE {})
         = IF Leased(t, w).status \in Ended THEN {} ELSE Order(i, Leased(t, w))
    BY <1>5 DEF Ended
<1>. QED
    BY <1>1, <1>2, <1>5, <1>6, OneRewrites DEF s

\* accept: an unassigned attempt is not pinned, so anyone may claim it.
LEMMA AcceptRewrites ==
    ASSUME LedgerInv, NEW i \in Id, NEW w \in Worker, NEW a, Accept(i, w, a)
    PROVE  Rewrites
<1>. DEFINE s == sagas[i]
            t == [s EXCEPT !.updated = now]
<1>1. i \in Live /\ s.assignee = None /\ WriteOne(i, Leased(t, w), {}, {i})
    BY DEF Accept
<1>2. s \in Record /\ Discipline(s) /\ s.status = "pending" /\ TypeOK /\ now \in Nat
    BY <1>1, LiveRecord DEF LedgerInv, TypeOK
<1>. HIDE DEF s
<1>3. /\ t \in Record /\ t.origin = s.origin /\ t.reply = s.reply
      /\ t.max = s.max /\ t.pinned = s.pinned /\ t.attempt = s.attempt
      /\ t.status = "pending" /\ t.updated = now /\ t.deadline = s.deadline
    BY <1>2 DEF Record, Status
<1>. HIDE DEF t
<1>4. s.pinned = None /\ s.attempt < s.max /\ s.attempt \in Nat
    BY <1>1, <1>2 DEF Discipline, Record
<1>5. Discipline(Leased(t, w))
    BY <1>2, <1>3, <1>4, LeasingDisciplined DEF OptWorker
<1>6. /\ Leased(t, w) \in Record /\ Leased(t, w).attempt = s.attempt
      /\ Leased(t, w).origin = s.origin /\ Leased(t, w).reply = s.reply
      /\ Leased(t, w).status = "pending" /\ Leased(t, w).updated = now
      /\ Leased(t, w).deadline = s.deadline /\ Leased(t, w).lease = LeaseExpiry(t, w)
    BY <1>2, <1>3, LeasedFields DEF OptWorker
<1>9. Postpones(s, Leased(t, w))
    BY <1>2, <1>3, <1>6, LeasePostpones DEF Postpones, OptWorker
<1>7. Successor(i, s, Leased(t, w))
    BY <1>1, <1>4, <1>5, <1>6, <1>9 DEF Successor
<1>8. (Order(i, s) \ {}) \cup (IF i \in {i} THEN Order(i, Leased(t, w)) ELSE {})
         = IF Leased(t, w).status \in Ended THEN {} ELSE Order(i, Leased(t, w))
    BY <1>1, <1>6 DEF Ended, Order
<1>. QED
    BY <1>1, <1>7, <1>8, OneRewrites DEF s

LEMMA CancelRewrites ==
    ASSUME LedgerInv, NEW i \in Id, NEW o, Cancel(o, i)
    PROVE  Rewrites
<1>. DEFINE s == sagas[i]
            t == [s EXCEPT !.status = "cancelled", !.updated = now]
<1>1. i \in Live /\ WriteOne(i, t, Order(i, s), {})
    BY DEF Cancel
<1>2. s \in Record /\ Discipline(s) /\ now \in Nat
    BY <1>1, LiveRecord DEF LedgerInv, TypeOK
<1>. HIDE DEF s
<1>3. /\ t \in Record /\ t.origin = s.origin /\ t.reply = s.reply
      /\ t.max = s.max /\ t.pinned = s.pinned /\ t.attempt = s.attempt
      /\ t.assignee = s.assignee /\ t.lease = s.lease
      /\ t.deadline = s.deadline /\ t.status \in Ended /\ t.updated = now
    BY <1>2 DEF Record, Status, Ended
<1>. HIDE DEF t
<1>4. Successor(i, s, t)
    BY <1>2, <1>3, SameLeaseSucceeds
<1>5. (Order(i, s) \ Order(i, s)) \cup (IF i \in {} THEN Order(i, t) ELSE {})
         = IF t.status \in Ended THEN {} ELSE Order(i, t)
    BY <1>3
<1>. QED
    BY <1>1, <1>4, <1>5, OneRewrites DEF s

\* crank: each due saga of the slice times out, retries or fails.
LEMMA CrankedSucceeds ==
    ASSUME LedgerInv, NEW i \in Live, NEW w \in Candidates(sagas[i], sagas[i].assignee)
    PROVE  Successor(i, sagas[i], Cranked(sagas[i], w))
<1>. DEFINE s == sagas[i]
            u == [s EXCEPT !.updated = now]
<1>1. s \in Record /\ Discipline(s) /\ now \in Nat /\ ExhaustedBytes \in Nat /\ TypeOK
    BY LiveRecord, SagaAssumption DEF LedgerInv, TypeOK
<1>2. w \in OptWorker /\ (s.pinned # None => w = s.pinned)
    BY <1>1, CandidatesFit
<1>. HIDE DEF s
<1>0. /\ u \in Record /\ u.origin = s.origin /\ u.reply = s.reply
      /\ u.max = s.max /\ u.pinned = s.pinned /\ u.attempt = s.attempt
      /\ u.assignee = s.assignee /\ u.lease = s.lease
      /\ u.deadline = s.deadline /\ s.attempt \in Nat /\ u.updated = now
    BY <1>1 DEF Record
<1>3. CASE DeadlineHit(s)
    <2>. DEFINE t == [u EXCEPT !.status = "timedout"]
    <2>1. Cranked(s, w) = t
        BY <1>3 DEF Cranked
    <2>2. /\ t \in Record /\ t.origin = s.origin /\ t.reply = s.reply
          /\ t.max = s.max /\ t.pinned = s.pinned /\ t.attempt = s.attempt
          /\ t.assignee = s.assignee /\ t.lease = s.lease
          /\ t.deadline = s.deadline /\ t.updated = now
        BY <1>1 DEF Record, Status, Ended
    <2>. HIDE DEF t
    <2>. QED
        BY <1>1, <2>1, <2>2, SameLeaseSucceeds DEF s
<1>4. CASE ~DeadlineHit(s) /\ AttemptsRemain(s)
    <2>. DEFINE t == [u EXCEPT !.attempt = @ + 1]
    <2>1. Cranked(s, w) = Leased(t, w)
        BY <1>4 DEF Cranked
    <2>. HIDE DEF u
    <2>2. /\ t \in Record /\ t.origin = s.origin /\ t.reply = s.reply
          /\ t.max = s.max /\ t.pinned = s.pinned /\ t.attempt = s.attempt + 1
          /\ t.updated = now /\ t.deadline = s.deadline
        BY <1>0 DEF Record
    <2>. HIDE DEF t
    <2>. QED
        BY <1>1, <1>2, <1>4, <2>1, <2>2, RetrySucceeds DEF s
<1>5. CASE ~DeadlineHit(s) /\ ~AttemptsRemain(s)
    <2>. DEFINE t == [u EXCEPT !.status = "failed", !.result = ExhaustedBytes]
    <2>1. Cranked(s, w) = t
        BY <1>5 DEF Cranked
    <2>2. /\ t \in Record /\ t.origin = s.origin /\ t.reply = s.reply
          /\ t.max = s.max /\ t.pinned = s.pinned /\ t.attempt = s.attempt
          /\ t.assignee = s.assignee /\ t.lease = s.lease
          /\ t.deadline = s.deadline /\ t.updated = now
        BY <1>1 DEF Record, Status, Ended
    <2>. HIDE DEF t
    <2>. QED
        BY <1>1, <2>1, <2>2, SameLeaseSucceeds DEF s
<1>. QED
    BY <1>3, <1>4, <1>5

LEMMA CrankRewrites ==
    ASSUME LedgerInv, Crank
    PROVE  Rewrites
<1>. DEFINE D(rec) == UNION {Order(i, sagas[i]) : i \in DOMAIN rec}
            A(rec) == {i \in DOMAIN rec : rec[i].status \notin Ended}
<1>1. PICK rec \in CrankOutcomes : Write(rec, D(rec), A(rec))
    BY DEF Crank
<1>2. PICK pick \in [CrankSlice -> OptWorker] :
          /\ \A i \in CrankSlice : pick[i] \in Candidates(sagas[i], sagas[i].assignee)
          /\ rec = [i \in CrankSlice |-> Cranked(sagas[i], pick[i])]
    BY DEF CrankOutcomes
<1>3. CrankSlice \subseteq Live
    BY DEF CrankSlice, Due, LedgerInv, RowsInv
<1>4. LegalWrite(rec)
    BY <1>2, <1>3, CrankedSucceeds DEF LegalWrite
<1>5. \A x \in D(rec) : \E i \in DOMAIN rec : x \in Order(i, sagas[i])
    OBVIOUS
<1>6. \A i \in DOMAIN rec : Order(i, sagas[i]) \subseteq D(rec)
    OBVIOUS
<1>7. A(rec) \subseteq DOMAIN rec /\ \A i \in DOMAIN rec : i \in A(rec) <=> rec[i].status \notin Ended
    OBVIOUS
<1>. HIDE DEF D, A
<1>8. LegalStep(rec, D(rec), A(rec))
    BY <1>4, <1>5, <1>6, <1>7 DEF LegalStep
<1>. QED
    BY <1>1, <1>8 DEF Rewrites

\* Every step opens a saga, rewrites live ones, prunes ended ones or lets a
\* height pass.
LEMMA NextCases ==
    ASSUME LedgerInv, Next
    PROVE  \/ \E i \in Id : \E r \in Requests[Owner[i]] : Trigger(Owner[i], i, r)
           \/ Rewrites
           \/ \E o \in Origin, S \in SUBSET Id : Prune(o, S)
           \/ Tick
<1>1. ASSUME NEW i \in Id, NEW w \in Worker, NEW a \in Attempt, NEW ok \in BOOLEAN,
             NEW b \in ResultBytes, OracleResult(i, w, a, ok, b)
      PROVE  Rewrites
    BY <1>1, ResultRewrites
<1>2. ASSUME NEW i \in Id, NEW w \in Worker, NEW a \in Attempt, RenewLease(i, w, a)
      PROVE  Rewrites
    BY <1>2, RenewRewrites
<1>3. ASSUME NEW i \in Id, NEW a \in Attempt, Reassign(Owner[i], i, a)
      PROVE  Rewrites
    BY <1>3, ReassignRewrites
<1>4. ASSUME NEW i \in Id, NEW w \in Worker, NEW a \in Attempt, Accept(i, w, a)
      PROVE  Rewrites
    BY <1>4, AcceptRewrites
<1>5. ASSUME NEW i \in Id, Cancel(Owner[i], i)
      PROVE  Rewrites
    BY <1>5, CancelRewrites
<1>6. Crank => Rewrites
    BY CrankRewrites
<1>7. ASSUME NEW o \in Origin, NEW S \in {{i} : i \in Id} \cup {Id}, Prune(o, S)
      PROVE  \E p \in Origin, T \in SUBSET Id : Prune(p, T)
    <2>1. S \in SUBSET Id
        OBVIOUS
    <2>. QED
        BY <1>7, <2>1
<1>. QED
    BY <1>1, <1>2, <1>3, <1>4, <1>5, <1>6, <1>7 DEF Next

--------------------------------------------------------------------------------
(***************************************************************************)
(* Trigger and Prune                                                       *)
(***************************************************************************)
\* The record a trigger opens.
Opened(o, r) ==
    [origin |-> o, reply |-> r.reply, spec |-> r.spec,
     status |-> "pending", attempt |-> 0, max |-> r.max,
     assignee |-> None, pinned |-> r.pinned, window |-> r.window,
     lease |-> None, deadline |-> r.deadline,
     result |-> 0, updated |-> now]

\* Trigger, with the record named.
LEMMA TriggerOpens ==
    ASSUME LedgerInv, NEW i \in Id, NEW r \in Requests[Owner[i]], Trigger(Owner[i], i, r)
    PROVE  \E t \in Record :
              /\ Discipline(t) /\ t.origin = Owner[i] /\ t.reply = r.reply /\ t.status = "pending"
              /\ t.updated = now
              /\ Put([j \in {i} |-> t])
              /\ orders' = orders \cup Order(i, t)
<1>. DEFINE o == Owner[i]
            s == Opened(o, r)
<1>1. o \in Origin /\ r \in Request /\ now \in Nat
    BY SagaAssumption DEF LedgerInv, TypeOK
<1>2. PICK w \in Candidates(s, None) :
          Put([j \in {i} |-> Leased(s, w)]) /\ orders' = orders \cup Order(i, Leased(s, w))
    BY DEF Trigger, Opened
<1>3. /\ s \in Record /\ s.origin = o /\ s.reply = r.reply /\ s.status = "pending"
      /\ s.attempt = 0 /\ s.max = r.max /\ r.max \in Nat \ {0} /\ s.updated = now
    BY <1>1 DEF Opened, Record, Request, OptNat, OptWorker, Status
<1>. HIDE DEF s
<1>4. w \in OptWorker /\ (s.pinned # None => w = s.pinned)
    BY <1>3, CandidatesFit
<1>5. s.attempt < s.max
    BY <1>3
<1>6. Discipline(Leased(s, w))
    BY <1>3, <1>4, <1>5, LeasingDisciplined DEF LedgerInv
<1>7. /\ Leased(s, w) \in Record /\ Leased(s, w).origin = o
      /\ Leased(s, w).reply = r.reply /\ Leased(s, w).status = "pending" /\ Leased(s, w).updated = now
    BY <1>3, <1>4, LeasedFields DEF LedgerInv
<1>. QED
    BY <1>2, <1>6, <1>7

\* What a trigger leaves: one more live saga, nothing else changed but for
\* what the trim collects.
TriggerStep(i, r, t) ==
    /\ t \in Record /\ Discipline(t) /\ t.origin = Owner[i]
    /\ t.reply = r.reply /\ t.status = "pending"
    /\ i \notin DOMAIN sagas
    /\ Put([j \in {i} |-> t])
    /\ PutStep([j \in {i} |-> t])
    /\ orders' = orders \cup Order(i, t)
    /\ Live' = Live \cup {i}
    /\ \A j \in DOMAIN sagas' : sagas'[j] = IF j = i THEN t ELSE sagas[j]

LEMMA TriggerMoves ==
    ASSUME LedgerInv, NEW i \in Id, NEW r \in Requests[Owner[i]], Trigger(Owner[i], i, r)
    PROVE  LedgerInv' /\ \E t : TriggerStep(i, r, t)
<1>. DEFINE o == Owner[i]
<1>1. PICK t \in Record :
          /\ Discipline(t) /\ t.origin = Owner[i] /\ t.reply = r.reply /\ t.status = "pending"
          /\ Put([j \in {i} |-> t])
          /\ orders' = orders \cup Order(i, t)
    BY TriggerOpens
<1>. DEFINE rec == [j \in {i} |-> t]
<1>2. DOMAIN rec = {i} /\ rec[i] = t /\ EndedBy(rec) = {}
    BY <1>1 DEF EndedBy, Ended
<1>3. /\ i \notin DOMAIN sagas /\ quota[o] < LiveCap[o]
      /\ quota' = [quota EXCEPT ![o] = @ + 1]
      /\ callbacks' = [callbacks EXCEPT ![i] = 0]
      /\ triggers' = triggers + 1 /\ now' = now
    BY DEF Trigger
<1>4. PutStep(rec)
    <2>1. Put(rec) /\ DOMAIN rec \subseteq Id /\ \A j \in DOMAIN rec : rec[j] \in Record
        BY <1>1
    <2>. HIDE DEF rec
    <2>. QED
        BY <2>1, PutMoves DEF LedgerInv
<1>5. TriggerStep(i, r, t)
    <2>1. Live' = Live \cup {i}
        BY <1>2, <1>3, <1>4 DEF PutStep, Live
    <2>2. \A j \in DOMAIN sagas' : sagas'[j] = IF j = i THEN t ELSE sagas[j]
        BY <1>2, <1>4 DEF PutStep
    <2>. QED
        BY <1>1, <1>3, <1>4, <2>1, <2>2 DEF TriggerStep
<1>6. RecordsInv'
    <2>. SUFFICES ASSUME NEW j \in DOMAIN sagas'
                  PROVE  sagas'[j].origin = Owner[j] /\ Discipline(sagas'[j])
        BY DEF RecordsInv, Discipline
    <2>1. sagas'[j] = IF j = i THEN t ELSE sagas[j]
        BY <1>5 DEF TriggerStep
    <2>2. j \in DOMAIN sagas \cup {i}
        BY <1>2, <1>4 DEF PutStep
    <2>. QED
        BY <1>1, <2>1, <2>2 DEF LedgerInv, RecordsInv
<1>. HIDE DEF rec
<1>7. quota' \in [Origin -> Nat] /\ QuotaIsLive'
    <2>1. o \in Origin /\ quota \in [Origin -> Nat] /\ LiveCap \in [Origin -> Nat]
        BY SagaAssumption DEF LedgerInv, TypeOK
    <2>2. \A p \in Origin : quota'[p] = IF p = o THEN quota[p] + 1 ELSE quota[p]
        BY <1>3, <2>1
    <2>3. quota' \in [Origin -> Nat]
        BY <1>3, <2>1
    <2>4. ASSUME NEW p \in Origin
          PROVE  /\ quota'[p] = Cardinality({j \in Live' : sagas'[j].origin = p})
                 /\ quota'[p] <= LiveCap[p]
        <3>. DEFINE AA == {j \in Live' : sagas'[j].origin = p}
        <3>1. AA = IF p = o THEN LiveOf(p) \cup {i} ELSE LiveOf(p)
            <4>1. Live' = Live \cup {i} /\ i \notin Live
                BY <1>3, <1>5 DEF TriggerStep, Live
            <4>2. Live' \subseteq DOMAIN sagas'
                BY DEF Live
            <4>3. \A j \in Live' : sagas'[j] = IF j = i THEN t ELSE sagas[j]
                BY <1>5, <4>2 DEF TriggerStep
            <4>4. \A j \in Live' : sagas'[j].origin = IF j = i THEN o ELSE sagas[j].origin
                BY <1>1, <4>3
            <4>. QED
                BY <4>1, <4>4 DEF LiveOf
        <3>2. IsFiniteSet(LiveOf(p)) /\ Cardinality(LiveOf(p)) \in Nat
            BY LiveOfFinite DEF LedgerInv
        <3>3. i \notin LiveOf(p)
            BY <1>3 DEF LiveOf, Live
        <3>4. Cardinality(LiveOf(p) \cup {i}) = Cardinality(LiveOf(p)) + 1
            BY <3>2, <3>3, FS_AddElement
        <3>5. quota[p] = Cardinality(LiveOf(p)) /\ quota[p] <= LiveCap[p]
            BY DEF LedgerInv, QuotaIsLive, LiveOf
        <3>. HIDE DEF AA
        <3>6. quota'[p] = Cardinality(AA) /\ quota'[p] <= LiveCap[p]
            BY <1>3, <2>1, <2>2, <3>1, <3>2, <3>4, <3>5
        <3>. QED
            BY <3>6 DEF AA
    <2>. QED
        BY <2>3, <2>4 DEF QuotaIsLive
<1>8. callbacks' \in [Id -> Nat] /\ orders' \subseteq Id \X Nat \X Worker
    BY <1>1, <1>3, OrderType DEF LedgerInv, TypeOK
<1>9. TypeOK'
    BY <1>3, <1>4, <1>7, <1>8 DEF TypeOK, PutStep, LedgerInv
<1>. QED
    BY <1>4, <1>5, <1>6, <1>7, <1>9 DEF LedgerInv, PutStep

\* A record of the ledger that has ended, or one of its receipts.
LEMMA EndedRecord ==
    ASSUME RowsInv
    PROVE  DOMAIN terminal = {i \in DOMAIN sagas : sagas[i].status \in Ended}
BY DEF RowsInv, Live

\* Prune and the trim behind it take ended sagas only.
LEMMA PruneMoves ==
    ASSUME LedgerInv, NEW o, NEW S, Prune(o, S)
    PROVE  /\ LedgerInv' /\ Live' = Live
           /\ DOMAIN sagas' \subseteq DOMAIN sagas
           /\ \A i \in DOMAIN sagas' : sagas'[i] = sagas[i]
           /\ UNCHANGED <<now, quota, callbacks, orders, triggers>>
<1>. DEFINE gone == {i \in S \cap DOMAIN sagas :
                       sagas[i].status \in Ended /\ sagas[i].origin = o}
            kept == DOMAIN terminal \ gone
            evicted == TerminalEvictions({<<i, terminal[i]>> : i \in kept})
            all == gone \cup evicted
<1>1. /\ sagas' = Restrict(sagas, DOMAIN sagas \ all)
      /\ pending' = Restrict(pending, DOMAIN pending \ all)
      /\ terminal' = Restrict(terminal, kept \ all)
      /\ UNCHANGED <<now, quota, callbacks, orders, triggers>>
    BY DEF Prune
<1>2. gone \subseteq DOMAIN terminal
    BY EndedRecord DEF LedgerInv
<1>3. evicted \subseteq DOMAIN terminal
    <2>. DEFINE R == {<<i, terminal[i]>> : i \in kept}
    <2>1. {r[1] : r \in R} \subseteq DOMAIN terminal
        OBVIOUS
    <2>. HIDE DEF R
    <2>2. TerminalEvictions(R) \subseteq DOMAIN terminal
        BY <2>1, EvictedAreReceipts
    <2>. QED
        BY <2>2 DEF R
<1>. HIDE DEF gone, evicted
<1>4. /\ DOMAIN pending = Live /\ DOMAIN terminal = DOMAIN sagas \ Live
      /\ Live \subseteq DOMAIN sagas
      /\ all \subseteq DOMAIN terminal
    BY <1>2, <1>3 DEF LedgerInv, RowsInv, Live
<1>5. /\ DOMAIN sagas' = DOMAIN sagas \ all
      /\ \A i \in DOMAIN sagas' : sagas'[i] = sagas[i]
      /\ DOMAIN pending' = DOMAIN pending \ all
      /\ \A i \in DOMAIN pending' : pending'[i] = pending[i]
      /\ DOMAIN terminal' = DOMAIN terminal \ all
      /\ \A i \in DOMAIN terminal' : terminal'[i] = terminal[i]
    BY <1>1 DEF Restrict
<1>6. Live' = Live
    BY <1>4, <1>5 DEF Live
<1>7. RowsInv'
    BY <1>4, <1>5, <1>6 DEF LedgerInv, RowsInv, Live
<1>8. RecordsInv'
    <2>. SUFFICES ASSUME NEW i \in DOMAIN sagas'
                  PROVE  sagas'[i].origin = Owner[i] /\ Discipline(sagas'[i])
        BY DEF RecordsInv, Discipline
    <2>. QED
        BY <1>5 DEF LedgerInv, RecordsInv
<1>9. QuotaIsLive'
    <2>. SUFFICES ASSUME NEW p \in Origin
                  PROVE  /\ quota'[p] = Cardinality({i \in Live' : sagas'[i].origin = p})
                         /\ quota'[p] <= LiveCap[p]
        BY DEF QuotaIsLive
    <2>1. {i \in Live' : sagas'[i].origin = p} = {i \in Live : sagas[i].origin = p}
        BY <1>4, <1>5, <1>6
    <2>. QED
        BY <1>1, <2>1 DEF LedgerInv, QuotaIsLive
<1>10. TypeOK'
    <2>1. sagas' = [i \in DOMAIN sagas \ all |-> sagas[i]]
        BY <1>1 DEF Restrict
    <2>2. pending' = [i \in DOMAIN pending \ all |-> pending[i]]
        BY <1>1 DEF Restrict
    <2>3. terminal' = [i \in DOMAIN terminal \ all |-> terminal[i]]
        BY <1>1 DEF Restrict
    <2>. HIDE DEF all
    <2>. QED
        BY <1>1, <1>5, <2>1, <2>2, <2>3 DEF LedgerInv, TypeOK
<1>. QED
    BY <1>1, <1>5, <1>6, <1>7, <1>8, <1>9, <1>10 DEF LedgerInv

--------------------------------------------------------------------------------
(***************************************************************************)
(* The weight of a set of receipts (kept_bytes).  The fold of the          *)
(* community modules is a recursive function; its unfolding and what       *)
(* follows from it are proved by the least counterexample, over the        *)
(* well-founded order of the subsets of a finite set.                      *)
(***************************************************************************)
Pick(s) == CHOOSE x \in s : TRUE
Step(g, s) == IF s = {} THEN 0 ELSE Pick(s)[2].bytes + g[s \ {Pick(s)}]
Folds(g, T) == g = [s \in SUBSET T |-> Step(g, s)]
Folded(T) == CHOOSE g : Folds(g, T)

\* The weight is the fold above, at its whole index set.
LEMMA WeightIsFold ==
    ASSUME NEW T
    PROVE  Weight(T) = Folded(T)[T]
BY DEF Weight, MapThenSumSet, MapThenFoldSet, Folded, Folds, Step, Pick

\* The element the fold takes next is one of the set.
LEMMA PickIn ==
    ASSUME NEW s, s # {}
    PROVE  Pick(s) \in s
BY DEF Pick

\* A non-empty family of subsets of a finite set has a least member: every
\* induction below takes a least counterexample.
LEMMA LeastSubset ==
    ASSUME NEW S, IsFiniteSet(S), NEW B \in SUBSET SUBSET S, B # {}
    PROVE  \E T \in B : \A U \in B : U \subseteq T => U = T
<1>1. IsWellFoundedOn(StrictSubsetOrdering(S), SUBSET S)
    BY FS_StrictSubsetOrderingWellFounded, FS_FiniteSubsetsOfFinite
<1>2. PICK T \in B : \A U \in B : ~(<<U, T>> \in StrictSubsetOrdering(S))
    BY <1>1, WFMin
<1>. QED
    BY <1>2 DEF StrictSubsetOrdering

\* Two solutions of the recursion agree where both are defined.
LEMMA FoldsAgree ==
    ASSUME NEW S, IsFiniteSet(S), NEW T \in SUBSET S, NEW U \in SUBSET T,
           NEW g, Folds(g, T), NEW h, Folds(h, U)
    PROVE  g[U] = h[U]
<1>. DEFINE B == {s \in SUBSET U : g[s] # h[s]}
<1>1. SUFFICES ASSUME B # {} PROVE FALSE
    OBVIOUS
<1>2. B \in SUBSET SUBSET S
    OBVIOUS
<1>3. PICK s \in B : \A r \in B : r \subseteq s => r = s
    <2>. HIDE DEF B
    <2>. QED BY <1>1, <1>2, LeastSubset
<1>4. g[s] = Step(g, s) /\ h[s] = Step(h, s)
    BY DEF Folds
<1>5. s # {}
    BY <1>4 DEF Step
<1>6. Pick(s) \in s
    BY <1>5, PickIn
<1>7. s \ {Pick(s)} \notin B
    BY <1>3, <1>6
<1>. QED
    BY <1>4, <1>5, <1>7 DEF Step

\* The recursion has a solution on every finite set.
LEMMA FoldsExists ==
    ASSUME NEW S, IsFiniteSet(S)
    PROVE  \A T \in SUBSET S : Folds(Folded(T), T)
<1>. DEFINE B == {T \in SUBSET S : ~\E g : Folds(g, T)}
<1>1. SUFFICES ASSUME B # {} PROVE FALSE
    BY DEF Folded
<1>2. PICK U \in B : \A T \in B : T \subseteq U => T = U
    <2>1. B \in SUBSET SUBSET S
        OBVIOUS
    <2>. HIDE DEF B
    <2>. QED BY <1>1, <2>1, LeastSubset
<1>. DEFINE h(T) == Folded(T)
            g == [T \in SUBSET U |->
                    IF T = U THEN Step([s \in SUBSET U |-> h(s)[s]], U) ELSE h(T)[T]]
<1>3. \A T \in SUBSET U : T # U => Folds(h(T), T)
    BY <1>2 DEF Folded
<1>4. \A T \in SUBSET U : g[T] = Step(g, T)
    <2>. SUFFICES ASSUME NEW T \in SUBSET U PROVE g[T] = Step(g, T)
        OBVIOUS
    <2>1. CASE T = {}
        <3>1. CASE T = U
            BY <2>1, <3>1 DEF Step
        <3>2. CASE T # U
            BY <2>1, <3>2, <1>3 DEF Step, Folds
        <3>. QED BY <3>1, <3>2
    <2>2. CASE T # {}
        <3>. DEFINE r == T \ {Pick(T)}
        <3>1. Pick(T) \in T /\ r \in SUBSET T /\ r # U /\ r \in SUBSET U
            BY <2>2, PickIn
        <3>2. g[r] = h(r)[r]
            BY <3>1
        <3>3. CASE T = U
            BY <2>2, <3>1, <3>2, <3>3 DEF Step
        <3>4. CASE T # U
            <4>1. Folds(h(T), T) /\ Folds(h(r), r)
                BY <1>3, <3>1, <3>4
            <4>2. h(T)[r] = h(r)[r]
                <5>. HIDE DEF h, r
                <5>. QED BY <4>1, <3>1, FoldsAgree
            <4>3. h(T)[T] = Step(h(T), T)
                BY <4>1 DEF Folds
            <4>. QED
                BY <2>2, <3>2, <3>4, <4>2, <4>3 DEF Step
        <3>. QED BY <3>3, <3>4
    <2>. QED BY <2>1, <2>2
<1>5. Folds(g, U)
    BY <1>4 DEF Folds
<1>. QED
    BY <1>2, <1>5

\* The sum unfolds: the picked element and the sum of the rest.
LEMMA WeightUnfold ==
    ASSUME NEW S, IsFiniteSet(S)
    PROVE  Weight(S) =
             IF S = {} THEN 0
             ELSE Pick(S)[2].bytes + Weight(S \ {Pick(S)})
<1>. DEFINE r == S \ {Pick(S)}
<1>1. Folds(Folded(S), S) /\ Folds(Folded(r), r)
    BY FoldsExists
<1>2. Folded(S)[S] = Step(Folded(S), S)
    BY <1>1 DEF Folds
<1>3. Folded(S)[r] = Folded(r)[r]
    BY <1>1, FoldsAgree
<1>. QED
    BY <1>2, <1>3, WeightIsFold DEF Step

\* No receipts weigh nothing.
LEMMA WeightEmpty == Weight({}) = 0
BY WeightUnfold, FS_EmptySet

\* A sum of naturals is one.
LEMMA WeightType ==
    ASSUME NEW S, IsFiniteSet(S), \A x \in S : x[2].bytes \in Nat
    PROVE  \A T \in SUBSET S : Weight(T) \in Nat
<1>. DEFINE B == {T \in SUBSET S : Weight(T) \notin Nat}
<1>1. SUFFICES ASSUME B # {} PROVE FALSE
    OBVIOUS
<1>2. PICK U \in B : \A T \in B : T \subseteq U => T = U
    <2>1. B \in SUBSET SUBSET S
        OBVIOUS
    <2>. HIDE DEF B
    <2>. QED BY <1>1, <2>1, LeastSubset
<1>. DEFINE r == U \ {Pick(U)}
<1>3. IsFiniteSet(U)
    BY FS_Subset
<1>4. U # {}
    <2>1. Weight(U) \notin Nat
        BY <1>2
    <2>. QED
        BY <2>1, WeightEmpty
<1>5. Pick(U) \in U
    BY <1>4, PickIn
<1>6. Weight(r) \in Nat
    BY <1>2, <1>5
<1>7. Weight(U) = Pick(U)[2].bytes + Weight(r)
    BY <1>3, <1>4, WeightUnfold
<1>. QED
    BY <1>2, <1>5, <1>6, <1>7

\* Any element may be taken first: the sum does not depend on the order.
LEMMA WeightRemove ==
    ASSUME NEW S, IsFiniteSet(S), \A x \in S : x[2].bytes \in Nat
    PROVE  \A T \in SUBSET S : \A x \in T :
              Weight(T) = x[2].bytes + Weight(T \ {x})
<1>. DEFINE P(T) == \A x \in T :
                      Weight(T) = x[2].bytes + Weight(T \ {x})
            B == {T \in SUBSET S : ~P(T)}
<1>1. SUFFICES ASSUME B # {} PROVE FALSE
    OBVIOUS
<1>2. PICK U \in B : \A T \in B : T \subseteq U => T = U
    <2>1. B \in SUBSET SUBSET S
        OBVIOUS
    <2>. HIDE DEF B
    <2>. QED BY <1>1, <2>1, LeastSubset
<1>3. PICK x \in U : Weight(U) # x[2].bytes + Weight(U \ {x})
    BY <1>2
<1>. DEFINE c == Pick(U)
            sum(T) == Weight(T)
<1>4. c \in U /\ sum(U) = c[2].bytes + sum(U \ {c})
    <2>1. IsFiniteSet(U)
        BY FS_Subset
    <2>. QED BY <2>1, PickIn, WeightUnfold
<1>5. c # x
    BY <1>3, <1>4
<1>6. P(U \ {c}) /\ P(U \ {x})
    BY <1>2, <1>3, <1>4
<1>. DEFINE rest == (U \ {x}) \ {c}
<1>8. (U \ {c}) \ {x} = rest
    OBVIOUS
<1>7. sum(U \ {c}) = x[2].bytes + sum(rest) /\ sum(U \ {x}) = c[2].bytes + sum(rest)
    BY <1>3, <1>4, <1>5, <1>6, <1>8
<1>9. sum(rest) \in Nat /\ x[2].bytes \in Nat /\ c[2].bytes \in Nat
    BY <1>3, <1>4, WeightType
<1>. HIDE DEF sum, c, P, rest
<1>10. sum(U) = x[2].bytes + sum(U \ {x})
    BY <1>4, <1>7, <1>9
<1>. QED
    BY <1>3, <1>10 DEF sum

\* Disjoint parts add up.
LEMMA WeightUnion ==
    ASSUME NEW S, IsFiniteSet(S), \A x \in S : x[2].bytes \in Nat, NEW A \in SUBSET S
    PROVE  \A T \in SUBSET (S \ A) :
              Weight(A \cup T) = Weight(A) + Weight(T)
<1>. DEFINE sum(T) == Weight(T)
            B == {T \in SUBSET (S \ A) : sum(A \cup T) # sum(A) + sum(T)}
<1>1. SUFFICES ASSUME B # {} PROVE FALSE
    OBVIOUS
<1>2. PICK U \in B : \A T \in B : T \subseteq U => T = U
    <2>1. B \in SUBSET SUBSET S
        OBVIOUS
    <2>. HIDE DEF B
    <2>. QED BY <1>1, <2>1, LeastSubset
<1>3. sum({}) = 0 /\ sum(A) \in Nat
    BY WeightUnfold, FS_EmptySet, WeightType
<1>4. U # {}
    <2>1. sum(A \cup U) # sum(A) + sum(U)
        BY <1>2
    <2>2. ASSUME U = {} PROVE sum(A \cup U) = sum(A) /\ sum(U) = 0
        <3>1. A \cup U = A
            BY <2>2
        <3>. HIDE DEF sum
        <3>. QED BY <1>3, <2>2, <3>1
    <2>. HIDE DEF sum
    <2>. QED BY <1>3, <2>1, <2>2
<1>5. PICK x \in U : TRUE
    BY <1>4
<1>6. /\ sum(A \cup U) = x[2].bytes + sum((A \cup U) \ {x})
      /\ sum(U) = x[2].bytes + sum(U \ {x})
    BY WeightRemove
<1>7. (A \cup U) \ {x} = A \cup (U \ {x})
    OBVIOUS
<1>8. U \ {x} \in SUBSET (S \ A) /\ U \ {x} \notin B
    BY <1>2
<1>9. sum(U \ {x}) \in Nat /\ x[2].bytes \in Nat
    BY WeightType
<1>. HIDE DEF sum
<1>. QED
    BY <1>2, <1>3, <1>6, <1>7, <1>8, <1>9

\* Fewer receipts weigh no more.
LEMMA WeightMonotone ==
    ASSUME NEW S, IsFiniteSet(S), \A x \in S : x[2].bytes \in Nat, NEW A \in SUBSET S
    PROVE  Weight(A) <= Weight(S) /\ Weight(A) \in Nat /\ Weight(S) \in Nat
<1>1. Weight(A \cup (S \ A)) = Weight(A) + Weight(S \ A)
    BY WeightUnion
<1>2. A \cup (S \ A) = S
    OBVIOUS
<1>3. Weight(A) \in Nat /\ Weight(S \ A) \in Nat /\ Weight(S) \in Nat
    BY WeightType
<1>4. Weight(S) = Weight(A) + Weight(S \ A)
    BY <1>1, <1>2
<1>. QED
    BY <1>3, <1>4

--------------------------------------------------------------------------------
(***************************************************************************)
(* The retained tail                                                       *)
(***************************************************************************)
\* Sets of receipts of distinct sagas.
Receipts(R) ==
    /\ IsFiniteSet(R) /\ R \subseteq Id \X Receipt
    /\ \A p, q \in R : p[1] = q[1] => p = q

\* The order of the trim is total on them and strict.
LEMMA NewerOrders ==
    ASSUME NEW R, Receipts(R)
    PROVE  /\ \A p, q \in R : p = q \/ Newer(p, q) \/ Newer(q, p)
           /\ \A p, q \in R : Newer(p, q) => ~Newer(q, p)
           /\ \A p, q, r \in R : Newer(p, q) /\ Newer(q, r) => Newer(p, r)
<1>1. \A p \in R : p[1] \in Nat /\ p[2].updated \in Nat
    BY SagaAssumption DEF Receipts, Receipt
<1>2. \A p, q \in R : p[1] = q[1] => p = q
    BY DEF Receipts
<1>. QED
    BY <1>1, <1>2 DEF Newer

\* Some receipt is the oldest.
LEMMA OldestReceipt ==
    ASSUME NEW R, Receipts(R), R # {}
    PROVE  \E r \in R : \A q \in R : ~Newer(r, q)
<1>. DEFINE older(r) == {q \in R : Newer(r, q)}
            B == {older(r) : r \in R}
<1>1. PICK T \in B : \A U \in B : U \subseteq T => U = T
    <2>1. B \in SUBSET SUBSET R
        OBVIOUS
    <2>2. B # {}
        OBVIOUS
    <2>3. IsFiniteSet(R)
        BY DEF Receipts
    <2>. HIDE DEF B
    <2>. QED
        BY <2>1, <2>2, <2>3, LeastSubset
<1>2. PICK r \in R : T = older(r)
    OBVIOUS
<1>3. ASSUME NEW q \in R, Newer(r, q)
      PROVE  FALSE
    <2>1. older(q) \subseteq older(r)
        BY <1>3, NewerOrders
    <2>2. q \in older(r) /\ q \notin older(q)
        BY <1>3, NewerOrders
    <2>3. older(q) \in B
        OBVIOUS
    <2>. HIDE DEF older, B
    <2>. QED
        BY <1>1, <1>2, <2>1, <2>2, <2>3
<1>. QED
    BY <1>3

\* Some receipt is the newest.
LEMMA NewestReceipt ==
    ASSUME NEW R, Receipts(R), R # {}
    PROVE  \E r \in R : \A q \in R : ~Newer(q, r)
<1>. DEFINE newer(r) == {q \in R : Newer(q, r)}
            B == {newer(r) : r \in R}
<1>1. PICK T \in B : \A U \in B : U \subseteq T => U = T
    <2>1. B \in SUBSET SUBSET R
        OBVIOUS
    <2>2. B # {}
        OBVIOUS
    <2>3. IsFiniteSet(R)
        BY DEF Receipts
    <2>. HIDE DEF B
    <2>. QED
        BY <2>1, <2>2, <2>3, LeastSubset
<1>2. PICK r \in R : T = newer(r)
    OBVIOUS
<1>3. ASSUME NEW q \in R, Newer(q, r)
      PROVE  FALSE
    <2>1. newer(q) \subseteq newer(r)
        BY <1>3, NewerOrders
    <2>2. q \in newer(r) /\ q \notin newer(q)
        BY <1>3, NewerOrders
    <2>3. newer(q) \in B
        OBVIOUS
    <2>. HIDE DEF newer, B
    <2>. QED
        BY <1>1, <1>2, <2>1, <2>2, <2>3
<1>. QED
    BY <1>3

\* A set of receipts that takes the whole count or more than the bytes.
Full(R) == Cardinality(R) >= MaxRetained \/ Weight(R) > MaxRetainedBytes

LEMMA FullGrows ==
    ASSUME NEW R, Receipts(R), NEW B \in SUBSET R, NEW A \in SUBSET B, Full(A)
    PROVE  Full(B)
<1>1. IsFiniteSet(B) /\ IsFiniteSet(A)
    BY FS_Subset DEF Receipts
<1>2. \A x \in B : x[2].bytes \in Nat
    BY DEF Receipts, Receipt
<1>3. Cardinality(A) <= Cardinality(B) /\ Cardinality(A) \in Nat /\ Cardinality(B) \in Nat
    BY <1>1, FS_Subset, FS_CardinalityType
<1>4. Weight(A) <= Weight(B) /\ Weight(A) \in Nat /\ Weight(B) \in Nat
    BY <1>1, <1>2, WeightMonotone
<1>5. MaxRetained \in Nat /\ MaxRetainedBytes \in Nat
    BY SagaAssumption
<1>. QED
    BY <1>3, <1>4, <1>5 DEF Full

\* terminal_evictions: what it takes is older than all it leaves, and what it
\* leaves is full.
LEMMA TrimTakesOldest ==
    ASSUME NEW R, Receipts(R), NEW K, K = {r \in R : r[1] \notin TerminalEvictions(R)},
           NEW x \in R, x \notin K
    PROVE  (\A q \in K : Newer(q, x)) /\ Full(K)
<1>. DEFINE newer(r) == {q \in R : Newer(q, r)}
<1>1. \A r \in R : r \notin K <=> Full(newer(r))
    <2>1. ASSUME NEW r \in R
          PROVE  r[1] \in TerminalEvictions(R) <=> Full(newer(r))
        <3>1. TerminalEvictions(R) = {q[1] : q \in {q \in R : Full(newer(q))}}
            BY DEF TerminalEvictions, Full
        <3>2. \A q \in R : q[1] = r[1] => q = r
            BY DEF Receipts
        <3>. HIDE DEF newer
        <3>. QED
            BY <3>1, <3>2
    <2>. HIDE DEF newer
    <2>. QED
        BY <2>1
<1>2. ASSUME NEW r \in R, r \notin K, NEW q \in K
      PROVE  Newer(q, r)
    <2>1. q \in R /\ q # r
        BY <1>2
    <2>2. SUFFICES ASSUME Newer(r, q) PROVE FALSE
        BY <2>1, NewerOrders
    <2>3. newer(r) \subseteq newer(q) /\ newer(q) \subseteq R
        BY <2>1, <2>2, NewerOrders
    <2>4. Full(newer(r))
        BY <1>1, <1>2
    <2>. HIDE DEF newer
    <2>5. Full(newer(q))
        BY <2>3, <2>4, FullGrows
    <2>. QED
        BY <1>1, <1>2, <2>1, <2>5
<1>3. Full(K)
    <2>. DEFINE E == R \ K
    <2>1. Receipts(E) /\ E # {}
        BY FS_Subset DEF Receipts
    <2>2. PICK m \in E : \A q \in E : ~Newer(q, m)
        <3>. HIDE DEF E
        <3>. QED
            BY <2>1, NewestReceipt
    <2>3. newer(m) = K
        <3>1. \A q \in K : q \in R /\ Newer(q, m)
            BY <1>2
        <3>2. \A q \in R : Newer(q, m) => q \in K
            BY <2>2
        <3>. QED
            BY <3>1, <3>2
    <2>4. Full(newer(m))
        BY <1>1
    <2>. QED
        BY <2>3, <2>4
<1>. QED
    BY <1>2, <1>3

\* terminal_evictions: what it leaves is within the count, and within the
\* bytes but for the oldest it leaves.
LEMMA TrimBounds ==
    ASSUME NEW R, Receipts(R), NEW K, K = {r \in R : r[1] \notin TerminalEvictions(R)}
    PROVE  /\ Cardinality(K) <= MaxRetained
           /\ Weight({r \in K : \E q \in K : Newer(r, q)}) <= MaxRetainedBytes
<1>. DEFINE newer(r) == {q \in R : Newer(q, r)}
            rest == {r \in K : \E q \in K : Newer(r, q)}
<1>1. K \subseteq R /\ rest \subseteq K
    OBVIOUS
<1>2. \A r \in K : /\ ~(Cardinality(newer(r)) >= MaxRetained)
                   /\ ~(Weight(newer(r)) > MaxRetainedBytes)
    BY DEF TerminalEvictions
<1>3. Receipts(K)
    BY <1>1, FS_Subset DEF Receipts
<1>4. MaxRetained \in Nat \ {0} /\ MaxRetainedBytes \in Nat
    BY SagaAssumption
<1>5. CASE K = {}
    <2>1. rest = {}
        BY <1>5
    <2>. HIDE DEF rest
    <2>2. Cardinality(K) = 0 /\ Weight(rest) = 0
        BY <1>5, <2>1, FS_EmptySet, WeightEmpty
    <2>. QED
        BY <1>4, <2>2 DEF rest
<1>6. CASE K # {}
    <2>1. PICK r \in K : \A q \in K : ~Newer(r, q)
        BY <1>3, <1>6, OldestReceipt
    <2>2. K \subseteq newer(r) \cup {r}
        BY <1>1, <1>3, <2>1, NewerOrders
    <2>3. rest \subseteq newer(r)
        BY <2>1, <2>2
    <2>4. newer(r) \subseteq R /\ IsFiniteSet(newer(r)) /\ r \notin newer(r)
        <3>1. newer(r) \subseteq R
            OBVIOUS
        <3>2. r \notin newer(r)
            BY <2>1
        <3>. QED
            BY <3>1, <3>2, FS_Subset DEF Receipts
    <2>5. \A x \in newer(r) : x[2].bytes \in Nat
        BY <2>4 DEF Receipts, Receipt
    <2>6. ~(Cardinality(newer(r)) >= MaxRetained) /\ ~(Weight(newer(r)) > MaxRetainedBytes)
        BY <1>2
    <2>. HIDE DEF newer, rest
    <2>7. Cardinality(newer(r) \cup {r}) = Cardinality(newer(r)) + 1
        BY <2>4, FS_AddElement
    <2>8. IsFiniteSet(newer(r) \cup {r}) /\ Cardinality(newer(r)) \in Nat
        BY <2>4, FS_AddElement, FS_CardinalityType
    <2>9. Cardinality(K) <= Cardinality(newer(r) \cup {r}) /\ Cardinality(K) \in Nat
        BY <2>2, <2>8, FS_Subset, FS_CardinalityType
    <2>10. Weight(rest) <= Weight(newer(r)) /\ Weight(rest) \in Nat /\ Weight(newer(r)) \in Nat
        BY <2>3, <2>4, <2>5, WeightMonotone
    <2>11. Cardinality(K) <= MaxRetained
        BY <1>4, <2>6, <2>7, <2>8, <2>9
    <2>12. Weight(rest) <= MaxRetainedBytes
        BY <1>4, <2>6, <2>10
    <2>. QED
        BY <2>11, <2>12 DEF rest
<1>. QED
    BY <1>5, <1>6

\* The receipts of an index are receipts of distinct sagas.
LEMMA IndexReceipts ==
    ASSUME NEW D \in SUBSET Id, NEW t, \A i \in D : t[i] \in Receipt
    PROVE  Receipts({<<i, t[i]>> : i \in D})
<1>. DEFINE R == {<<i, t[i]>> : i \in D}
<1>1. IsFiniteSet(D)
    BY SagaAssumption, FS_Subset
<1>2. IsFiniteSet(R)
    <2>. DEFINE f == [i \in D |-> <<i, t[i]>>]
    <2>1. f \in Surjection(D, R)
        BY DEF Surjection
    <2>. HIDE DEF f, R
    <2>. QED
        BY <1>1, <2>1, FS_Surjection
<1>3. R \subseteq Id \X Receipt /\ \A p, q \in R : p[1] = q[1] => p = q
    OBVIOUS
<1>. QED
    BY <1>2, <1>3 DEF Receipts

\* Trimming an index leaves a bounded one.
LEMMA TrimmedTail ==
    ASSUME NEW D \in SUBSET Id, NEW t, \A i \in D : t[i] \in Receipt,
           terminal' = [i \in D \ TerminalEvictions({<<j, t[j]>> : j \in D}) |-> t[i]]
    PROVE  TailBounded'
<1>. DEFINE R == {<<j, t[j]>> : j \in D}
            K == {r \in R : r[1] \notin TerminalEvictions(R)}
            RR == {<<i, terminal'[i]>> : i \in DOMAIN terminal'}
<1>1. Receipts(R)
    BY IndexReceipts
<1>2. RR = K
    <2>. DEFINE E == TerminalEvictions(R)
    <2>1. terminal' = [i \in D \ E |-> t[i]]
        OBVIOUS
    <2>2. K = {r \in R : r[1] \notin E}
        OBVIOUS
    <2>. HIDE DEF E, K
    <2>3. DOMAIN terminal' = D \ E /\ \A i \in D \ E : terminal'[i] = t[i]
        BY <2>1
    <2>4. RR = {<<i, t[i]>> : i \in D \ E}
        BY <2>3
    <2>5. K = {<<i, t[i]>> : i \in D \ E}
        BY <2>2
    <2>. QED
        BY <2>4, <2>5
<1>3. /\ Cardinality(K) <= MaxRetained
      /\ Weight({r \in K : \E q \in K : Newer(r, q)}) <= MaxRetainedBytes
    <2>1. K = {r \in R : r[1] \notin TerminalEvictions(R)}
        OBVIOUS
    <2>. HIDE DEF R, K
    <2>. QED
        BY <1>1, <2>1, TrimBounds
<1>. HIDE DEF K
<1>4. /\ Cardinality(RR) <= MaxRetained
      /\ Weight({r \in RR : \E q \in RR : Newer(r, q)}) <= MaxRetainedBytes
    BY <1>2, <1>3
<1>. QED
    BY <1>4 DEF TailBounded, Retained, Newer

\* A receipt that trimming an index takes is older than all it leaves.
LEMMA TrimmedOldest ==
    ASSUME NEW D \in SUBSET Id, NEW t, \A i \in D : t[i] \in Receipt,
           terminal' = [i \in D \ TerminalEvictions({<<j, t[j]>> : j \in D}) |-> t[i]],
           NEW i \in D, i \notin DOMAIN terminal'
    PROVE  (\A q \in Retained' : Newer(q, <<i, t[i]>>)) /\ Full(Retained')
<1>. DEFINE R == {<<j, t[j]>> : j \in D}
            E == TerminalEvictions(R)
            K == {r \in R : r[1] \notin E}
            x == <<i, t[i]>>
<1>1. Receipts(R)
    BY IndexReceipts
<1>2. terminal' = [j \in D \ E |-> t[j]]
    OBVIOUS
<1>3. K = {r \in R : r[1] \notin E} /\ x \in R /\ x[1] = i
    OBVIOUS
<1>. HIDE DEF E
<1>4. DOMAIN terminal' = D \ E /\ \A j \in D \ E : terminal'[j] = t[j]
    BY <1>2
<1>5. i \in E
    BY <1>4
<1>6. Retained' = K
    BY <1>4 DEF Retained
<1>7. x \notin K
    BY <1>3, <1>5
<1>. HIDE DEF R, K, x
<1>8. (\A q \in K : Newer(q, x)) /\ Full(K)
    BY <1>1, <1>3, <1>7, TrimTakesOldest DEF E
<1>. QED
    BY <1>6, <1>8 DEF x

\* put and the trim leave the tail bounded, however large it was.
LEMMA PutTail ==
    ASSUME TypeOK, NEW rec, DOMAIN rec \subseteq Id,
           \A i \in DOMAIN rec : rec[i] \in Record, Put(rec)
    PROVE  TailBounded'
<1>. DEFINE S == DOMAIN rec
            ended == {i \in S : rec[i].status \in Ended}
            D == (DOMAIN terminal \ S) \cup ended
            t == [i \in D |-> IF i \in S THEN TerminalEntry(rec[i]) ELSE terminal[i]]
            receipts == {<<i, terminal[i]>> : i \in DOMAIN terminal \ S}
                           \cup {<<i, TerminalEntry(rec[i])>> : i \in ended}
<1>1. terminal' = [i \in D \ TerminalEvictions(receipts) |->
                      IF i \in S THEN TerminalEntry(rec[i]) ELSE terminal[i]]
    BY DEF Put
<1>2. receipts = {<<j, t[j]>> : j \in D}
    OBVIOUS
<1>3. D \in SUBSET Id /\ \A i \in D : t[i] \in Receipt
    BY RowTypes DEF TypeOK
<1>4. \A i \in D : t[i] = IF i \in S THEN TerminalEntry(rec[i]) ELSE terminal[i]
    OBVIOUS
<1>. HIDE DEF receipts, D
<1>5. terminal' = [i \in D \ TerminalEvictions(receipts) |-> t[i]]
    BY <1>1, <1>4
<1>. HIDE DEF t
<1>6. terminal' = [i \in D \ TerminalEvictions({<<j, t[j]>> : j \in D}) |-> t[i]]
    BY <1>2, <1>5
<1>. QED
    BY <1>3, <1>6, TrimmedTail

\* Prune trims what it leaves.
LEMMA PruneTail ==
    ASSUME TypeOK, NEW o, NEW S, Prune(o, S)
    PROVE  TailBounded'
<1>. DEFINE gone == {i \in S \cap DOMAIN sagas :
                       sagas[i].status \in Ended /\ sagas[i].origin = o}
            kept == DOMAIN terminal \ gone
            E == TerminalEvictions({<<i, terminal[i]>> : i \in kept})
<1>1. terminal' = Restrict(terminal, kept \ (gone \cup E))
    BY DEF Prune
<1>2. kept \in SUBSET Id /\ \A i \in kept : terminal[i] \in Receipt
    BY DEF TypeOK
<1>3. kept \ (gone \cup E) = kept \ E
    OBVIOUS
<1>. HIDE DEF E
<1>4. terminal' = [i \in kept \ E |-> terminal[i]]
    BY <1>1, <1>3 DEF Restrict
<1>. HIDE DEF kept
<1>. QED
    BY <1>2, <1>4, TrimmedTail DEF E

--------------------------------------------------------------------------------
(***************************************************************************)
(* The invariant                                                           *)
(***************************************************************************)
SagaInv == LedgerInv /\ SingleExecutor /\ TailBounded

\* A work order names its saga.
LEMMA OrderNames ==
    ASSUME NEW i, NEW s, NEW x \in Order(i, s)
    PROVE  x[1] = i
BY DEF Order

\* Under Strict the orders follow the records through every write.
LEMMA OrdersFollow ==
    ASSUME SingleExecutor, NEW rec, NEW dropped, NEW asking,
           LegalStep(rec, dropped, asking), PutStep(rec),
           orders' = (orders \ dropped) \cup UNION {Order(i, rec[i]) : i \in asking}
    PROVE  SingleExecutor'
<1>. SUFFICES ASSUME Policy = "strict"
              PROVE  orders' = UNION {Order(i, sagas'[i]) : i \in Live'}
    BY DEF SingleExecutor, Order
<1>1. \A x : x \in orders <=> \E i \in Live : x \in Order(i, sagas[i])
    BY DEF SingleExecutor
<1>2. /\ asking \subseteq DOMAIN rec /\ DOMAIN rec \subseteq Live
      /\ \A x \in dropped : \E i \in DOMAIN rec : x \in Order(i, sagas[i])
      /\ \A i \in DOMAIN rec :
            (Order(i, sagas[i]) \ dropped) \cup (IF i \in asking THEN Order(i, rec[i]) ELSE {})
               = IF rec[i].status \in Ended THEN {} ELSE Order(i, rec[i])
    BY DEF LegalStep, LegalWrite
<1>3. /\ Live' = (Live \ DOMAIN rec) \cup (DOMAIN rec \ EndedBy(rec))
      /\ \A i \in Live' : sagas'[i] = IF i \in DOMAIN rec THEN rec[i] ELSE sagas[i]
    BY DEF PutStep, Live
<1>4. ASSUME NEW x \in orders'
      PROVE  \E i \in Live' : x \in Order(i, sagas'[i])
    <2>1. CASE x \in orders \ dropped
        <3>1. PICK i \in Live : x \in Order(i, sagas[i])
            BY <1>1, <2>1
        <3>2. CASE i \in DOMAIN rec
            BY <1>2, <1>3, <2>1, <3>1, <3>2 DEF EndedBy
        <3>3. CASE i \notin DOMAIN rec
            BY <1>3, <3>1, <3>3
        <3>. QED
            BY <3>2, <3>3
    <2>2. CASE x \notin orders \ dropped
        <3>1. PICK i \in asking : x \in Order(i, rec[i])
            BY <1>4, <2>2
        <3>2. rec[i].status \notin Ended
            BY <1>2, <3>1
        <3>. QED
            BY <1>2, <1>3, <3>1, <3>2 DEF EndedBy
    <2>. QED
        BY <2>1, <2>2
<1>5. ASSUME NEW i \in Live', NEW x \in Order(i, sagas'[i])
      PROVE  x \in orders'
    <2>1. CASE i \in DOMAIN rec
        <3>1. rec[i].status \notin Ended /\ x \in Order(i, rec[i])
            BY <1>3, <2>1 DEF EndedBy
        <3>2. x \in (Order(i, sagas[i]) \ dropped) \cup (IF i \in asking THEN Order(i, rec[i]) ELSE {})
            BY <1>2, <2>1, <3>1
        <3>3. CASE x \in Order(i, sagas[i]) \ dropped
            BY <1>1, <1>2, <2>1, <3>3
        <3>4. CASE i \in asking
            BY <3>1, <3>4
        <3>. QED
            BY <3>2, <3>3, <3>4
    <2>2. CASE i \notin DOMAIN rec
        <3>1. i \in Live /\ x \in Order(i, sagas[i])
            BY <1>3, <2>2
        <3>2. x \notin dropped
            BY <1>2, <2>2, <3>1, OrderNames
        <3>. QED
            BY <1>1, <3>1, <3>2
    <2>. QED
        BY <2>1, <2>2
<1>. QED
    BY <1>4, <1>5

\* A write to live sagas, in every respect.
LEMMA RewritesKeep ==
    ASSUME SagaInv, Rewrites
    PROVE  SagaInv' /\ AttemptKept
<1>1. PICK rec, dropped, asking : LegalStep(rec, dropped, asking) /\ Write(rec, dropped, asking)
    BY DEF Rewrites
<1>2. LegalWrite(rec) /\ asking \subseteq DOMAIN rec
    BY <1>1 DEF LegalStep
<1>3. LedgerInv' /\ PutStep(rec)
    BY <1>1, <1>2, WriteKeeps DEF SagaInv
<1>4. SingleExecutor'
    BY <1>1, <1>3, OrdersFollow DEF Write, SagaInv
<1>5. TailBounded'
    <2>1. DOMAIN rec \subseteq Id /\ (\A i \in DOMAIN rec : rec[i] \in Record) /\ Put(rec)
        BY <1>1, <1>2 DEF LegalWrite, Successor, SagaInv, LedgerInv, TypeOK, Live, Write
    <2>. QED
        BY <2>1, PutTail DEF SagaInv, LedgerInv
<1>6. AttemptKept
    <2>. SUFFICES ASSUME NEW i \in DOMAIN sagas, i \in DOMAIN sagas'
                  PROVE  /\ sagas[i].status \in Ended => sagas'[i] = sagas[i]
                         /\ sagas'[i].attempt >= sagas[i].attempt
                         /\ sagas'[i].attempt = sagas[i].attempt /\ sagas[i].assignee # None
                               => /\ sagas'[i].assignee = sagas[i].assignee
                                  /\ sagas'[i].lease >= sagas[i].lease
        BY DEF AttemptKept
    <2>1. sagas'[i] = IF i \in DOMAIN rec THEN rec[i] ELSE sagas[i]
        BY <1>3 DEF PutStep
    <2>2. CASE i \in DOMAIN rec
        BY <1>2, <2>1, <2>2 DEF LegalWrite, Successor, Live
    <2>3. CASE i \notin DOMAIN rec
        <3>1. sagas[i] \in Record /\ Discipline(sagas[i])
            BY DEF SagaInv, LedgerInv, TypeOK, RecordsInv
        <3>2. sagas[i].attempt \in Nat /\ (sagas[i].assignee # None => sagas[i].lease \in Nat)
            BY <3>1 DEF Discipline, Record, OptNat
        <3>. QED
            BY <2>1, <2>3, <3>2
    <2>. QED
        BY <2>2, <2>3
<1>. QED
    BY <1>3, <1>4, <1>5, <1>6 DEF SagaInv

\* A record a step leaves alone.
LEMMA KeptRecord ==
    ASSUME LedgerInv, \A i \in DOMAIN sagas \cap DOMAIN sagas' : sagas'[i] = sagas[i]
    PROVE  AttemptKept
<1>. SUFFICES ASSUME NEW i \in DOMAIN sagas, i \in DOMAIN sagas'
              PROVE  /\ sagas[i].status \in Ended => sagas'[i] = sagas[i]
                     /\ sagas'[i].attempt >= sagas[i].attempt
                     /\ sagas'[i].attempt = sagas[i].attempt /\ sagas[i].assignee # None
                           => /\ sagas'[i].assignee = sagas[i].assignee
                              /\ sagas'[i].lease >= sagas[i].lease
    BY DEF AttemptKept
<1>1. sagas[i] \in Record /\ Discipline(sagas[i])
    BY DEF LedgerInv, TypeOK, RecordsInv
<1>2. sagas[i].attempt \in Nat /\ (sagas[i].assignee # None => sagas[i].lease \in Nat)
    BY <1>1 DEF Discipline, Record, OptNat
<1>. QED
    BY <1>2

LEMMA TriggerKeeps ==
    ASSUME SagaInv, NEW i \in Id, NEW r \in Requests[Owner[i]], Trigger(Owner[i], i, r)
    PROVE  SagaInv' /\ AttemptKept
<1>1. LedgerInv' /\ \E t : TriggerStep(i, r, t)
    BY TriggerMoves DEF SagaInv
<1>2. PICK t : TriggerStep(i, r, t)
    BY <1>1
<1>3. TailBounded'
    <2>. DEFINE rec == [j \in {i} |-> t]
    <2>1. DOMAIN rec \subseteq Id /\ (\A j \in DOMAIN rec : rec[j] \in Record) /\ Put(rec)
        BY <1>2 DEF TriggerStep
    <2>. HIDE DEF rec
    <2>. QED
        BY <2>1, PutTail DEF SagaInv, LedgerInv
<1>4. SingleExecutor'
    <2>. SUFFICES ASSUME Policy = "strict"
                  PROVE  orders' = UNION {Order(j, sagas'[j]) : j \in Live'}
        BY DEF SingleExecutor, Order
    <2>1. orders = UNION {Order(j, sagas[j]) : j \in Live}
        BY DEF SagaInv, SingleExecutor
    <2>2. i \notin Live /\ Live' = Live \cup {i} /\ orders' = orders \cup Order(i, t)
        BY <1>2 DEF TriggerStep, Live
    <2>3. \A j \in Live' : sagas'[j] = IF j = i THEN t ELSE sagas[j]
        BY <1>2 DEF TriggerStep, Live
    <2>4. \A j \in Live : sagas'[j] = sagas[j]
        BY <2>2, <2>3
    <2>5. sagas'[i] = t
        BY <2>2, <2>3
    <2>. QED
        BY <2>1, <2>2, <2>4, <2>5
<1>5. AttemptKept
    <2>1. \A j \in DOMAIN sagas \cap DOMAIN sagas' : sagas'[j] = sagas[j]
        BY <1>2 DEF TriggerStep
    <2>. QED
        BY <2>1, KeptRecord DEF SagaInv
<1>. QED
    BY <1>1, <1>3, <1>4, <1>5 DEF SagaInv

LEMMA PruneKeeps ==
    ASSUME SagaInv, NEW o, NEW S, Prune(o, S)
    PROVE  SagaInv' /\ AttemptKept
<1>1. /\ LedgerInv' /\ Live' = Live /\ DOMAIN sagas' \subseteq DOMAIN sagas
      /\ \A i \in DOMAIN sagas' : sagas'[i] = sagas[i]
      /\ orders' = orders
    BY PruneMoves DEF SagaInv
<1>2. TailBounded'
    BY PruneTail DEF SagaInv, LedgerInv
<1>3. SingleExecutor'
    <2>1. \A i \in Live' : sagas'[i] = sagas[i]
        BY <1>1 DEF Live
    <2>2. UNION {Order(i, sagas'[i]) : i \in Live'} = UNION {Order(i, sagas[i]) : i \in Live}
        BY <1>1, <2>1
    <2>. QED
        BY <1>1, <2>2 DEF SagaInv, SingleExecutor, Order
<1>4. AttemptKept
    BY <1>1, KeptRecord DEF SagaInv
<1>. QED
    BY <1>1, <1>2, <1>3, <1>4 DEF SagaInv

\* A height passes, or nothing happens.
LEMMA QuietKeeps ==
    ASSUME SagaInv, now' \in Nat,
           UNCHANGED <<sagas, pending, terminal, quota, callbacks, orders, triggers>>
    PROVE  SagaInv' /\ AttemptKept
<1>1. Live' = Live
    BY DEF Live
<1>2. TypeOK'
    BY DEF SagaInv, LedgerInv, TypeOK
<1>3. RowsInv'
    BY <1>1 DEF SagaInv, LedgerInv, RowsInv, PendingMeta, TerminalEntry, ReceiptBytes
<1>4. RecordsInv'
    BY DEF SagaInv, LedgerInv, RecordsInv, Discipline
<1>5. QuotaIsLive'
    BY <1>1 DEF SagaInv, LedgerInv, QuotaIsLive
<1>6. SingleExecutor'
    BY <1>1 DEF SagaInv, SingleExecutor, Order
<1>7. TailBounded'
    BY DEF SagaInv, TailBounded, Retained, Newer
<1>8. AttemptKept
    BY KeptRecord DEF SagaInv
<1>. QED
    BY <1>2, <1>3, <1>4, <1>5, <1>6, <1>7, <1>8 DEF SagaInv, LedgerInv

LEMMA NextKeeps == SagaInv /\ [Next]_vars => SagaInv' /\ AttemptKept
<1>. SUFFICES ASSUME SagaInv, [Next]_vars
              PROVE  SagaInv' /\ AttemptKept
    OBVIOUS
<1>1. CASE Next
    <2>1. \/ \E i \in Id : \E r \in Requests[Owner[i]] : Trigger(Owner[i], i, r)
          \/ Rewrites
          \/ \E o \in Origin, S \in SUBSET Id : Prune(o, S)
          \/ Tick
        BY <1>1, NextCases DEF SagaInv
    <2>2. ASSUME Tick PROVE SagaInv' /\ AttemptKept
        <3>1. now' \in Nat
            BY <2>2 DEF Tick, SagaInv, LedgerInv, TypeOK
        <3>. QED
            BY <2>2, <3>1, QuietKeeps DEF Tick
    <2>. QED
        BY <2>1, <2>2, TriggerKeeps, RewritesKeep, PruneKeeps
<1>2. CASE UNCHANGED vars
    <2>1. now' \in Nat
        BY <1>2 DEF vars, SagaInv, LedgerInv, TypeOK
    <2>. QED
        BY <1>2, <2>1, QuietKeeps DEF vars
<1>. QED
    BY <1>1, <1>2

LEMMA InitInv == Init => SagaInv
<1>. SUFFICES ASSUME Init PROVE SagaInv
    OBVIOUS
<1>1. DOMAIN sagas = {} /\ DOMAIN pending = {} /\ DOMAIN terminal = {} /\ Live = {}
    BY DEF Init, Live
<1>2. TypeOK
    BY <1>1 DEF Init, TypeOK
<1>3. RowsInv /\ RecordsInv
    BY <1>1 DEF RowsInv, RecordsInv
<1>4. QuotaIsLive
    <2>. SUFFICES ASSUME NEW o \in Origin
                  PROVE  /\ quota[o] = Cardinality({i \in Live : sagas[i].origin = o})
                         /\ quota[o] <= LiveCap[o]
        BY DEF QuotaIsLive
    <2>1. {i \in Live : sagas[i].origin = o} = {}
        BY <1>1
    <2>2. quota[o] = 0 /\ LiveCap[o] \in Nat
        BY SagaAssumption DEF Init
    <2>3. Cardinality({i \in Live : sagas[i].origin = o}) = 0
        BY <2>1, FS_EmptySet
    <2>. QED
        BY <2>2, <2>3
<1>5. SingleExecutor
    BY <1>1 DEF Init, SingleExecutor
<1>6. TailBounded
    <2>. DEFINE R == {<<i, terminal[i]>> : i \in DOMAIN terminal}
                rest == {r \in R : \E q \in R : Newer(r, q)}
    <2>1. R = {} /\ rest = {}
        BY <1>1
    <2>. HIDE DEF R, rest
    <2>2. Cardinality(R) = 0 /\ Weight(rest) = 0
        BY <2>1, FS_EmptySet, WeightEmpty
    <2>3. Cardinality(R) <= MaxRetained /\ Weight(rest) <= MaxRetainedBytes
        BY <2>2, SagaAssumption
    <2>. QED
        BY <2>3 DEF TailBounded, Retained, R, rest
<1>. QED
    BY <1>2, <1>3, <1>4, <1>5, <1>6 DEF SagaInv, LedgerInv

--------------------------------------------------------------------------------
(***************************************************************************)
(* What the trim takes                                                     *)
(***************************************************************************)
\* A put loses a receipt only to the trim.
LEMMA PutTrims ==
    ASSUME LedgerInv, NEW rec, DOMAIN rec \subseteq Id, DOMAIN rec \cap DOMAIN terminal = {},
           \A i \in DOMAIN rec : rec[i] \in Record /\ rec[i].updated = now,
           Put(rec), PutStep(rec)
    PROVE  TrimsOldest
<1>. DEFINE S == DOMAIN rec
            ended == EndedBy(rec)
            D == (DOMAIN terminal \ S) \cup ended
            t == [i \in D |-> IF i \in S THEN TerminalEntry(rec[i]) ELSE terminal[i]]
            receipts == {<<i, terminal[i]>> : i \in DOMAIN terminal \ S}
                           \cup {<<i, TerminalEntry(rec[i])>> : i \in ended}
<1>1. terminal' = [i \in D \ TerminalEvictions(receipts) |->
                      IF i \in S THEN TerminalEntry(rec[i]) ELSE terminal[i]]
    BY DEF Put, EndedBy
<1>2. receipts = {<<j, t[j]>> : j \in D}
    BY DEF EndedBy
<1>3. D \in SUBSET Id /\ \A i \in D : t[i] \in Receipt
    BY RowTypes DEF LedgerInv, TypeOK, EndedBy
<1>4. \A i \in D : t[i] = IF i \in S THEN TerminalEntry(rec[i]) ELSE terminal[i]
    OBVIOUS
<1>5. DOMAIN terminal \subseteq D /\ \A i \in DOMAIN terminal : t[i] = terminal[i]
    BY <1>4
<1>6. ended \subseteq D /\ \A i \in ended : t[i].updated = now
    BY <1>4 DEF EndedBy, TerminalEntry
<1>7. DOMAIN terminal' \subseteq D
    BY <1>1
<1>. HIDE DEF receipts, D
<1>8. terminal' = [i \in D \ TerminalEvictions(receipts) |-> t[i]]
    BY <1>1, <1>4
<1>. HIDE DEF t
<1>9. terminal' = [i \in D \ TerminalEvictions({<<j, t[j]>> : j \in D}) |-> t[i]]
    BY <1>2, <1>8
<1>10. \A i \in DOMAIN terminal' : terminal'[i] = t[i]
    BY <1>8
<1>11. \A i \in D : i \notin DOMAIN terminal' =>
          (\A q \in Retained' : Newer(q, <<i, t[i]>>)) /\ Full(Retained')
    BY <1>3, <1>9, TrimmedOldest
<1>12. ASSUME NEW r \in Retained, r \notin Retained'
       PROVE  (\A q \in Retained' : Newer(q, r)) /\ Full(Retained')
    <2>1. PICK i \in DOMAIN terminal : r = <<i, terminal[i]>>
        BY <1>12 DEF Retained
    <2>2. i \in D /\ r = <<i, t[i]>>
        BY <1>5, <2>1
    <2>3. i \notin DOMAIN terminal'
        BY <1>10, <1>12, <2>2 DEF Retained
    <2>. QED
        BY <1>11, <2>2, <2>3
<1>13. ASSUME NEW i \in Live, i \notin DOMAIN sagas'
       PROVE  /\ \A q \in Retained' : Newer(q, <<i, [updated |-> now, bytes |-> 0]>>)
              /\ Full(Retained')
    <2>1. i \notin Live' /\ i \notin DOMAIN terminal'
        BY <1>13 DEF Live, PutStep, RowsInv
    <2>2. i \in ended
        BY <1>13, <2>1 DEF PutStep
    <2>3. i \in D /\ t[i].updated = now
        BY <1>6, <2>2
    <2>4. (\A q \in Retained' : Newer(q, <<i, t[i]>>)) /\ Full(Retained')
        BY <1>11, <2>1, <2>3
    <2>5. \A q : Newer(q, <<i, t[i]>>) => Newer(q, <<i, [updated |-> now, bytes |-> 0]>>)
        BY <2>3 DEF Newer
    <2>. QED
        BY <2>4, <2>5
<1>. HIDE DEF S, ended
<1>. QED
    BY <1>12, <1>13 DEF TrimsOldest, Full

\* A prune loses what its owner named, and otherwise only to the trim.
LEMMA PruneTrims ==
    ASSUME LedgerInv, NEW o, NEW S \in SUBSET Id, Prune(o, S)
    PROVE  TrimsOldest
<1>. DEFINE gone == {i \in S \cap DOMAIN sagas :
                       sagas[i].status \in Ended /\ sagas[i].origin = o}
            kept == DOMAIN terminal \ gone
            E == TerminalEvictions({<<i, terminal[i]>> : i \in kept})
<1>1. terminal' = Restrict(terminal, kept \ (gone \cup E))
    BY DEF Prune
<1>2. kept \in SUBSET Id /\ \A i \in kept : terminal[i] \in Receipt
    BY DEF LedgerInv, TypeOK
<1>3. kept \ (gone \cup E) = kept \ E
    OBVIOUS
<1>. HIDE DEF E
<1>4. terminal' = [i \in kept \ E |-> terminal[i]]
    BY <1>1, <1>3 DEF Restrict
<1>5. \A i \in gone : i \in S /\ sagas[i].origin = o
    OBVIOUS
<1>6. \A i \in DOMAIN terminal : i \notin kept => i \in gone
    OBVIOUS
<1>. HIDE DEF kept, gone
<1>7. \A i \in kept : i \notin DOMAIN terminal' =>
         (\A q \in Retained' : Newer(q, <<i, terminal[i]>>)) /\ Full(Retained')
    BY <1>2, <1>4, TrimmedOldest DEF E
<1>8. ASSUME NEW r \in Retained, r \notin Retained'
      PROVE  \/ \E T \in SUBSET Id : Prune(sagas[r[1]].origin, T) /\ r[1] \in T
             \/ (\A q \in Retained' : Newer(q, r)) /\ Full(Retained')
    <2>1. PICK i \in DOMAIN terminal : r = <<i, terminal[i]>>
        BY <1>8 DEF Retained
    <2>2. CASE i \in kept
        <3>1. i \notin DOMAIN terminal'
            BY <1>4, <1>8, <2>1 DEF Retained
        <3>. QED
            BY <1>7, <2>1, <2>2, <3>1
    <2>3. CASE i \notin kept
        <3>1. r[1] = i /\ i \in S /\ sagas[i].origin = o
            BY <1>5, <1>6, <2>1, <2>3
        <3>2. Prune(sagas[r[1]].origin, S) /\ r[1] \in S
            BY <3>1
        <3>. QED
            BY <3>2
    <2>. QED
        BY <2>2, <2>3
<1>9. Live \ DOMAIN sagas' = {}
    BY PruneMoves DEF Live
<1>. QED
    BY <1>8, <1>9 DEF TrimsOldest, Full

LEMMA NextTrims == SagaInv /\ [Next]_vars => [TrimsOldest]_vars
<1>. SUFFICES ASSUME SagaInv, Next PROVE TrimsOldest
    OBVIOUS
<1>1. LedgerInv
    BY DEF SagaInv
<1>2. ASSUME NEW i \in Id, NEW r \in Requests[Owner[i]], Trigger(Owner[i], i, r)
      PROVE  TrimsOldest
    <2>1. PICK t : TriggerStep(i, r, t)
        BY <1>1, <1>2, TriggerMoves
    <2>2. PICK u : Put([j \in {i} |-> u]) /\ u \in Record /\ u.updated = now
        BY <1>1, <1>2, TriggerOpens
    <2>. DEFINE rec == [j \in {i} |-> u]
    <2>3. i \notin DOMAIN sagas /\ i \notin DOMAIN terminal
        BY <1>1, <2>1 DEF TriggerStep, LedgerInv, RowsInv
    <2>4. /\ DOMAIN rec \subseteq Id /\ DOMAIN rec \cap DOMAIN terminal = {}
          /\ \A j \in DOMAIN rec : rec[j] \in Record /\ rec[j].updated = now
          /\ Put(rec)
        BY <2>2, <2>3
    <2>. HIDE DEF rec
    <2>5. PutStep(rec)
        BY <1>1, <2>4, PutMoves DEF LedgerInv
    <2>. QED
        BY <1>1, <2>4, <2>5, PutTrims
<1>3. ASSUME Rewrites PROVE TrimsOldest
    <2>1. PICK rec, dropped, asking : LegalStep(rec, dropped, asking) /\ Write(rec, dropped, asking)
        BY <1>3 DEF Rewrites
    <2>2. LegalWrite(rec) /\ asking \subseteq DOMAIN rec
        BY <2>1 DEF LegalStep
    <2>3. PutStep(rec)
        BY <1>1, <2>1, <2>2, WriteKeeps
    <2>4. /\ DOMAIN rec \subseteq Id /\ DOMAIN rec \cap DOMAIN terminal = {}
          /\ \A i \in DOMAIN rec : rec[i] \in Record /\ rec[i].updated = now
          /\ Put(rec)
        BY <1>1, <2>1, <2>2 DEF LegalWrite, Successor, LedgerInv, RowsInv, TypeOK, Live, Write
    <2>. QED
        BY <1>1, <2>3, <2>4, PutTrims
<1>4. ASSUME Tick PROVE TrimsOldest
    <2>1. Retained' = Retained /\ Live \ DOMAIN sagas' = {}
        BY <1>4 DEF Tick, Retained, Live
    <2>. QED
        BY <2>1 DEF TrimsOldest
<1>5. \/ \E i \in Id : \E r \in Requests[Owner[i]] : Trigger(Owner[i], i, r)
      \/ Rewrites
      \/ \E o \in Origin, S \in SUBSET Id : Prune(o, S)
      \/ Tick
    BY <1>1, NextCases
<1>. QED
    BY <1>1, <1>2, <1>3, <1>4, <1>5, PruneTrims

\* The inductive invariant of the ledger: types, rows that say what the
\* records say, disciplined leases, exact quotas, squared orders and a
\* bounded tail, after every op in whatever order consensus agrees them.
THEOREM SagaInvariant == Spec => []SagaInv
<1>. QED
    BY InitInv, NextKeeps, PTL DEF Spec

\* The live slots of an origin are exactly its live sagas and the retained
\* receipts stay within both budgets, through every end, prune and trim; the
\* trim takes no receipt before it must, and none before an older one.
THEOREM SagaLedgerBounded == Spec => LedgerBounded
<1>1. SagaInv => WithinBounds
    BY DEF SagaInv, LedgerInv, WithinBounds
<1>2. SagaInv /\ [Next]_vars => [TrimsOldest]_vars
    BY NextTrims
<1>. QED
    BY <1>1, <1>2, SagaInvariant, PTL DEF Spec, LedgerBounded

\* One executor at a time: no lease without a holder, past the deadline or
\* past the attempts; under Strict the orders out are the current leases; an
\* ended saga never changes and an attempt never changes hands.
THEOREM SagaOneExecutor == Spec => OneExecutor
<1>1. SagaInv => LeasesSound
    BY DEF SagaInv, LedgerInv, RecordsInv, Discipline, LeasesSound, LeaseHasHolder
<1>2. SagaInv /\ [Next]_vars => [AttemptKept]_vars
    BY NextKeeps
<1>. QED
    BY <1>1, <1>2, SagaInvariant, PTL DEF Spec, OneExecutor

--------------------------------------------------------------------------------
(***************************************************************************)
(* The crank's slice.  An overdue saga waits behind the due ones ahead of  *)
(* it, and that set only shrinks but for new triggers; the slice is a      *)
(* beginning of the order, so a crank that passes the saga over takes the  *)
(* first of them.                                                          *)
(***************************************************************************)
\* The row of a live saga.
LEMMA DueOf ==
    ASSUME LedgerInv, NEW i \in Live
    PROVE  /\ pending[i].due = Earlier(sagas[i].deadline, sagas[i].lease)
           /\ sagas[i].deadline \in OptNat /\ sagas[i].lease \in OptNat
           /\ pending[i].due \in OptNat
<1>1. sagas[i] \in Record /\ pending[i] = PendingMeta(sagas[i])
    BY LiveRecord DEF LedgerInv, RowsInv
<1>2. pending[i].due = Earlier(sagas[i].deadline, sagas[i].lease)
    BY <1>1 DEF PendingMeta
<1>. QED
    BY <1>1, <1>2, SagaAssumption DEF Record, Earlier, OptNat

\* A record that follows another is not due before it, unless from now on.
LEMMA PostponedDue ==
    ASSUME NEW s, NEW u, Postpones(s, u), now \in Nat,
           s.deadline \in OptNat, s.lease \in OptNat, u.lease \in OptNat,
           Earlier(u.deadline, u.lease) # None, Earlier(u.deadline, u.lease) < now
    PROVE  /\ Earlier(s.deadline, s.lease) # None
           /\ Earlier(s.deadline, s.lease) <= Earlier(u.deadline, u.lease)
BY SagaAssumption DEF Postpones, Earlier, OptNat

\* What a step does to the due instants of live sagas: none moves back, but
\* for sagas opened by the step.
Defers ==
    /\ now' = now \/ (now' \in Nat /\ now' >= now)
    /\ Live' \subseteq Live \cup (Id \ DOMAIN sagas)
    /\ \A j \in Live \cap Live' : sagas'[j] = sagas[j] \/ Postpones(sagas[j], sagas'[j])

LEMMA AheadShrinks ==
    ASSUME LedgerInv, LedgerInv', Defers, NEW i \in Overdue, i \in DOMAIN pending',
           pending'[i].due = pending[i].due
    PROVE  Ahead(i)' \subseteq Ahead(i) \cup (Id \ DOMAIN sagas)
<1>. SUFFICES ASSUME NEW j \in Ahead(i)', j \in DOMAIN sagas
              PROVE  j \in Ahead(i)
    <2>1. Ahead(i)' \subseteq Id
        BY DEF Ahead, Due, LedgerInv, TypeOK
    <2>. QED
        BY <2>1
<1>1. now \in Nat /\ DOMAIN pending = Live /\ DOMAIN pending' = Live' /\ None \notin Nat
    BY SagaAssumption DEF LedgerInv, TypeOK, RowsInv
<1>2. i \in Live /\ pending[i].due \in Nat /\ pending[i].due < now
    BY <1>1, DueOf DEF Overdue, OptNat
<1>3. /\ j \in Live' /\ pending'[j].due # None
      /\ \/ pending'[j].due < pending[i].due
         \/ pending'[j].due = pending[i].due /\ j < i
    BY <1>1 DEF Ahead, Due
<1>4. j \in Live
    BY <1>3 DEF Defers
<1>5. /\ pending[j].due = Earlier(sagas[j].deadline, sagas[j].lease)
      /\ sagas[j].deadline \in OptNat /\ sagas[j].lease \in OptNat
      /\ pending[j].due \in OptNat
    BY <1>4, DueOf
<1>6. /\ pending'[j].due = Earlier(sagas'[j].deadline, sagas'[j].lease)
      /\ sagas'[j].lease \in OptNat /\ pending'[j].due \in OptNat
    <2>1. sagas'[j] \in Record /\ pending'[j] = PendingMeta(sagas'[j])
        BY <1>3 DEF LedgerInv, TypeOK, RowsInv, Live, PendingMeta
    <2>2. pending'[j].due = Earlier(sagas'[j].deadline, sagas'[j].lease)
        BY <2>1 DEF PendingMeta
    <2>. QED
        BY <2>1, <2>2, SagaAssumption DEF Record, Earlier, OptNat
<1>7. pending'[j].due \in Nat /\ pending'[j].due < now
    BY <1>1, <1>2, <1>3, <1>6 DEF OptNat
<1>8. pending[j].due # None /\ pending[j].due <= pending'[j].due
    <2>1. CASE sagas'[j] = sagas[j]
        BY <1>5, <1>6, <1>7, <2>1, <1>1
    <2>2. CASE Postpones(sagas[j], sagas'[j])
        BY <1>1, <1>5, <1>6, <1>7, <2>2, PostponedDue
    <2>. QED
        BY <1>3, <1>4, <2>1, <2>2 DEF Defers
<1>9. pending[j].due \in Nat
    BY <1>5, <1>8 DEF OptNat
<1>10. j \in Due
    BY <1>1, <1>4, <1>7, <1>8, <1>9 DEF Due
<1>. QED
    BY <1>2, <1>3, <1>7, <1>8, <1>9, <1>10 DEF Ahead

\* Every step defers.
LEMMA NextDefers ==
    ASSUME SagaInv, Next
    PROVE  Defers
<1>1. LedgerInv /\ now \in Nat
    BY DEF SagaInv, LedgerInv, TypeOK
<1>2. ASSUME NEW i \in Id, NEW r \in Requests[Owner[i]], Trigger(Owner[i], i, r)
      PROVE  Defers
    <2>1. PICK t : TriggerStep(i, r, t)
        BY <1>1, <1>2, TriggerMoves
    <2>2. now' = now
        BY <1>2 DEF Trigger
    <2>3. \A j \in Live \cap Live' : sagas'[j] = sagas[j]
        BY <2>1 DEF TriggerStep, Live
    <2>. QED
        BY <2>1, <2>2, <2>3 DEF TriggerStep, Defers
<1>3. ASSUME Rewrites PROVE Defers
    <2>1. PICK rec, dropped, asking : LegalStep(rec, dropped, asking) /\ Write(rec, dropped, asking)
        BY <1>3 DEF Rewrites
    <2>2. LegalWrite(rec) /\ asking \subseteq DOMAIN rec
        BY <2>1 DEF LegalStep
    <2>3. PutStep(rec) /\ now' = now
        BY <1>1, <2>1, <2>2, WriteKeeps DEF Write
    <2>4. Live' \subseteq Live
        BY <2>2, <2>3 DEF PutStep, LegalWrite
    <2>5. \A j \in Live' : sagas'[j] = IF j \in DOMAIN rec THEN rec[j] ELSE sagas[j]
        BY <2>3 DEF PutStep, Live
    <2>6. \A j \in DOMAIN rec : Postpones(sagas[j], rec[j])
        BY <2>2 DEF LegalWrite, Successor
    <2>7. ASSUME NEW j \in Live \cap Live'
          PROVE  sagas'[j] = sagas[j] \/ Postpones(sagas[j], sagas'[j])
        <3>1. CASE j \in DOMAIN rec
            BY <2>5, <2>6, <3>1
        <3>2. CASE j \notin DOMAIN rec
            BY <2>5, <3>2
        <3>. QED
            BY <3>1, <3>2
    <2>. QED
        BY <2>3, <2>4, <2>7 DEF Defers
<1>4. ASSUME NEW o \in Origin, NEW S \in SUBSET Id, Prune(o, S)
      PROVE  Defers
    <2>1. now' = now /\ Live' = Live /\ \A j \in DOMAIN sagas' : sagas'[j] = sagas[j]
        BY <1>1, <1>4, PruneMoves
    <2>2. Live' \subseteq DOMAIN sagas'
        BY DEF Live
    <2>. QED
        BY <2>1, <2>2 DEF Defers
<1>5. ASSUME Tick PROVE Defers
    <2>1. now' \in Nat /\ now' >= now /\ sagas' = sagas
        BY <1>1, <1>5 DEF Tick
    <2>2. Live' = Live
        BY <2>1 DEF Live
    <2>. QED
        BY <2>1, <2>2 DEF Defers
<1>6. \/ \E i \in Id : \E r \in Requests[Owner[i]] : Trigger(Owner[i], i, r)
      \/ Rewrites
      \/ \E o \in Origin, S \in SUBSET Id : Prune(o, S)
      \/ Tick
    BY <1>1, NextCases
<1>. QED
    BY <1>2, <1>3, <1>4, <1>5, <1>6

\* What the crank leaves of a saga it takes is over, or due from now on.
LEMMA CrankedLater ==
    ASSUME LedgerInv, NEW i \in Live, NEW w \in Candidates(sagas[i], sagas[i].assignee)
    PROVE  LET u == Cranked(sagas[i], w) IN
           \/ u.status \in Ended
           \/ PendingMeta(u).due = None \/ PendingMeta(u).due >= now
<1>. DEFINE s == sagas[i]
            v == [s EXCEPT !.updated = now]
<1>1. s \in Record /\ now \in Nat /\ ExhaustedBytes \in Nat /\ TypeOK
    BY LiveRecord, SagaAssumption DEF LedgerInv, TypeOK
<1>2. w \in OptWorker
    BY <1>1, CandidatesFit
<1>. HIDE DEF s
<1>3. v \in Record /\ v.deadline = s.deadline /\ v.attempt = s.attempt /\ s.attempt \in Nat
    BY <1>1 DEF Record
<1>4. CASE DeadlineHit(s)
    <2>1. Cranked(s, w) = [v EXCEPT !.status = "timedout"]
        BY <1>4 DEF Cranked
    <2>2. Cranked(s, w).status = "timedout"
        BY <1>3, <2>1 DEF Record
    <2>. QED
        BY <2>2 DEF s, Ended
<1>5. CASE ~DeadlineHit(s) /\ ~AttemptsRemain(s)
    <2>1. Cranked(s, w) = [v EXCEPT !.status = "failed", !.result = ExhaustedBytes]
        BY <1>5 DEF Cranked
    <2>2. Cranked(s, w).status = "failed"
        BY <1>3, <2>1 DEF Record
    <2>. QED
        BY <2>2 DEF s, Ended
<1>6. CASE ~DeadlineHit(s) /\ AttemptsRemain(s)
    <2>. DEFINE x == [v EXCEPT !.attempt = @ + 1]
    <2>1. Cranked(s, w) = Leased(x, w)
        BY <1>6 DEF Cranked
    <2>. HIDE DEF v
    <2>2. x \in Record /\ x.deadline = s.deadline
        BY <1>3 DEF Record
    <2>. HIDE DEF x
    <2>3. Leased(x, w).deadline = s.deadline /\ Leased(x, w).lease = LeaseExpiry(x, w)
        BY <1>1, <1>2, <2>2, LeasedFields
    <2>4. /\ LeaseExpiry(x, w) = None \/ LeaseExpiry(x, w) >= now \/ LeaseExpiry(x, w) = s.deadline
          /\ LeaseExpiry(x, w) \in OptNat
        BY <1>1, <1>2, <2>2, LeasePostpones, LeaseBounded
    <2>5. s.deadline = None \/ (s.deadline \in Nat /\ s.deadline > now)
        BY <1>1, <1>6 DEF DeadlineHit, Record, OptNat
    <2>6. PendingMeta(Leased(x, w)).due = Earlier(s.deadline, LeaseExpiry(x, w))
        BY <2>3 DEF PendingMeta
    <2>. QED
        BY <1>1, <2>1, <2>4, <2>5, <2>6, SagaAssumption DEF s, Earlier, OptNat
<1>. QED
    BY <1>4, <1>5, <1>6 DEF s

\* The first of the due ones ahead of a saga is in the slice.
LEMMA FirstAhead ==
    ASSUME LedgerInv, NEW i \in Due, Ahead(i) # {}
    PROVE  \E j \in Ahead(i) : j \in CrankSlice
<1>1. /\ \A j \in Due : j \in Id /\ j \in Nat /\ pending[j].due \in Nat
      /\ IsFiniteSet(Due)
    <2>1. Due \subseteq Id
        BY DEF Due, LedgerInv, TypeOK
    <2>2. \A j \in Due : pending[j].due \in Nat
        BY DueOf DEF Due, LedgerInv, RowsInv, OptNat
    <2>. QED
        BY <2>1, <2>2, FS_Subset, SagaAssumption
<1>. DEFINE B == {Ahead(j) : j \in Ahead(i)}
<1>2. PICK T \in B : \A U \in B : U \subseteq T => U = T
    <2>1. B \in SUBSET SUBSET Due /\ B # {}
        BY DEF Ahead
    <2>. HIDE DEF B
    <2>. QED
        BY <1>1, <2>1, LeastSubset
<1>3. PICK j \in Ahead(i) : T = Ahead(j)
    OBVIOUS
<1>4. ASSUME NEW k \in Ahead(j)
      PROVE  FALSE
    <2>1. i \in Due /\ j \in Due /\ k \in Due
        BY DEF Ahead
    <2>2. k \in Ahead(i)
        BY <1>1, <2>1 DEF Ahead
    <2>3. Ahead(k) \subseteq Ahead(j) /\ k \notin Ahead(k)
        BY <1>1, <2>1 DEF Ahead
    <2>. QED
        BY <1>2, <1>3, <1>4, <2>2, <2>3
<1>5. Ahead(j) = {} /\ j \in Due
    BY <1>4 DEF Ahead
<1>6. Cardinality(Ahead(j)) < CrankBudget
    BY <1>5, FS_EmptySet, SagaAssumption
<1>. QED
    BY <1>5, <1>6 DEF CrankSlice

\* A crank that leaves an overdue saga as it is takes one ahead of it.
LEMMA CrankTakesAhead ==
    ASSUME SagaInv, Crank, NEW i \in Overdue, i \in DOMAIN pending',
           pending'[i].due = pending[i].due
    PROVE  Ahead(i) \ Ahead(i)' # {}
<1>1. LedgerInv /\ now \in Nat
    BY DEF SagaInv, LedgerInv, TypeOK
<1>. DEFINE D(rec) == UNION {Order(j, sagas[j]) : j \in DOMAIN rec}
            A(rec) == {j \in DOMAIN rec : rec[j].status \notin Ended}
<1>2. PICK rec \in CrankOutcomes : Write(rec, D(rec), A(rec))
    BY DEF Crank
<1>3. PICK pick \in [CrankSlice -> OptWorker] :
          /\ \A j \in CrankSlice : pick[j] \in Candidates(sagas[j], sagas[j].assignee)
          /\ rec = [j \in CrankSlice |-> Cranked(sagas[j], pick[j])]
    BY DEF CrankOutcomes
<1>4. CrankSlice \subseteq Live /\ DOMAIN rec = CrankSlice /\ A(rec) \subseteq DOMAIN rec
    BY <1>1, <1>3 DEF CrankSlice, Due, LedgerInv, RowsInv
<1>5. LegalWrite(rec)
    BY <1>1, <1>3, <1>4, CrankedSucceeds DEF LegalWrite
<1>. HIDE DEF D, A
<1>6. PutStep(rec) /\ now' = now
    BY <1>1, <1>2, <1>4, <1>5, WriteKeeps DEF Write
<1>7. ASSUME NEW j \in CrankSlice, j \in DOMAIN pending'
      PROVE  pending'[j].due = None \/ pending'[j].due >= now
    <2>1. j \in Live' /\ j \in DOMAIN sagas' /\ pending'[j] = PendingMeta(sagas'[j])
        BY <1>6, <1>7 DEF PutStep, RowsInv, Live, PendingMeta
    <2>2. sagas'[j] = rec[j] /\ rec[j] = Cranked(sagas[j], pick[j])
        BY <1>3, <1>4, <1>6, <2>1 DEF PutStep
    <2>3. rec[j].status \notin Ended
        BY <2>1, <2>2 DEF Live
    <2>. QED
        BY <1>1, <1>3, <1>4, <2>1, <2>2, <2>3, CrankedLater
<1>8. i \in Due /\ pending[i].due \in Nat /\ pending[i].due < now
    <2>1. i \in Live
        BY <1>1 DEF Overdue, LedgerInv, RowsInv
    <2>2. pending[i].due \in Nat /\ pending[i].due < now
        BY <1>1, <2>1, DueOf DEF Overdue, OptNat
    <2>. QED
        BY <1>1, <2>2 DEF Overdue, Due
<1>9. i \notin CrankSlice
    BY <1>1, <1>7, <1>8, SagaAssumption
<1>10. Ahead(i) # {}
    <2>1. ~(Cardinality(Ahead(i)) < CrankBudget)
        BY <1>8, <1>9 DEF CrankSlice
    <2>2. 0 < CrankBudget
        BY SagaAssumption
    <2>3. Cardinality({}) = 0
        BY FS_EmptySet
    <2>. QED
        BY <2>1, <2>2, <2>3
<1>11. PICK j \in Ahead(i) : j \in CrankSlice
    BY <1>1, <1>8, <1>10, FirstAhead
<1>12. j \notin Ahead(i)'
    <2>. SUFFICES ASSUME j \in Ahead(i)' PROVE FALSE
        OBVIOUS
    <2>1. /\ j \in DOMAIN pending' /\ pending'[j].due # None
          /\ pending'[j].due < pending[i].due \/ pending'[j].due = pending[i].due
        BY DEF Ahead, Due
    <2>2. pending'[j].due \in Nat
        BY <1>6, <2>1 DEF PutStep, Meta, OptNat
    <2>3. pending'[j].due >= now
        BY <1>7, <1>11, <2>1
    <2>. QED
        BY <1>1, <1>8, <2>1, <2>2, <2>3
<1>. QED
    BY <1>11, <1>12

\* An overdue saga is passed over by a crank only for one ahead of it, and
\* nothing in the ledger gets ahead of it by renewing, retrying, being
\* reassigned or claimed: at most as many cranks pass it over as sagas were
\* ahead, and triggers since then got there.
THEOREM SagaOverdueReached == Spec => OverdueReached
<1>1. SagaInv /\ SagaInv' /\ [Next]_vars => [NearsCrank]_vars
    <2>. SUFFICES ASSUME SagaInv, SagaInv', Next PROVE NearsCrank
        OBVIOUS
    <2>1. LedgerInv /\ LedgerInv' /\ Defers
        BY NextDefers DEF SagaInv
    <2>. QED
        BY <2>1, AheadShrinks, CrankTakesAhead DEF NearsCrank
<1>. QED
    BY <1>1, SagaInvariant, PTL DEF Spec, OverdueReached

--------------------------------------------------------------------------------
(***************************************************************************)
(* The refinement of AsyncWork                                             *)
(***************************************************************************)
\* Forgetting: what is known after is what is open and some of what was known.
LEMMA Forgetting ==
    ASSUME NEW k, Live' \subseteq DOMAIN sagas', DOMAIN sagas' \subseteq k \cup Live'
    PROVE  Work!Forgets(k)
<1>. DEFINE kept == DOMAIN sagas' \ Live'
<1>1. kept \in SUBSET (k \ Live') /\ DOMAIN sagas' = Live' \cup kept
    OBVIOUS
<1>. QED
    BY <1>1 DEF Work!Forgets

LEMMA TriggerImplements ==
    ASSUME SagaInv, NEW i \in Id, NEW r \in Requests[Owner[i]], Trigger(Owner[i], i, r)
    PROVE  Work!Trigger(i, r.reply) /\ r.reply \in BOOLEAN
<1>1. PICK t : TriggerStep(i, r, t)
    BY TriggerMoves DEF SagaInv
<1>2. /\ i \notin DOMAIN sagas /\ i \notin Live /\ t.reply = r.reply
      /\ Live' = Live \cup {i} /\ Live' \subseteq DOMAIN sagas'
      /\ DOMAIN sagas' \subseteq DOMAIN sagas \cup {i}
      /\ \A j \in Live' : sagas'[j] = IF j = i THEN t ELSE sagas[j]
    BY <1>1 DEF TriggerStep, PutStep, Live
<1>3. Work!Forgets(DOMAIN sagas \cup {i})
    BY <1>2, Forgetting
<1>4. callbacks' = [callbacks EXCEPT ![i] = 0]
    BY DEF Trigger
<1>5. r.reply \in BOOLEAN
    <2>1. Owner[i] \in Origin
        BY SagaAssumption
    <2>2. r \in Request
        BY <2>1, SagaAssumption
    <2>. QED
        BY <2>2 DEF Request
<1>6. {j \in Live' : sagas'[j].reply}
         = IF r.reply THEN {j \in Live : sagas[j].reply} \cup {i} ELSE {j \in Live : sagas[j].reply}
    <2>1. \A j \in Live : sagas'[j] = sagas[j]
        BY <1>2
    <2>2. sagas'[i].reply = r.reply
        BY <1>2
    <2>3. CASE r.reply = TRUE
        BY <1>2, <2>1, <2>2, <2>3
    <2>4. CASE r.reply = FALSE
        BY <1>2, <2>1, <2>2, <2>4
    <2>. QED
        BY <1>5, <2>3, <2>4
<1>. QED
    BY <1>2, <1>3, <1>4, <1>5, <1>6 DEF Work!Trigger

LEMMA RewriteImplements ==
    ASSUME SagaInv, Rewrites
    PROVE  Work!Next
<1>1. PICK rec, dropped, asking : LegalStep(rec, dropped, asking) /\ Write(rec, dropped, asking)
    BY DEF Rewrites
<1>2. LegalWrite(rec) /\ asking \subseteq DOMAIN rec
    BY <1>1 DEF LegalStep
<1>3. PutStep(rec)
    BY <1>1, <1>2, WriteKeeps DEF SagaInv
<1>. DEFINE S == EndedBy(rec)
            W == {i \in Live : sagas[i].reply}
<1>4. /\ S \subseteq DOMAIN rec /\ DOMAIN rec \subseteq Live /\ Live \subseteq DOMAIN sagas
      /\ Live' = Live \ S /\ Live' \subseteq DOMAIN sagas' /\ DOMAIN sagas \subseteq Id
      /\ DOMAIN sagas' \subseteq DOMAIN sagas
    BY <1>2, <1>3 DEF LegalWrite, EndedBy, PutStep, Live, SagaInv, LedgerInv, TypeOK
<1>5. \A i \in DOMAIN rec : rec[i].reply = sagas[i].reply
    BY <1>2 DEF LegalWrite, Successor
<1>6. {i \in Live' : sagas'[i].reply} = W \ S
    <2>1. \A i \in Live' : sagas'[i] = IF i \in DOMAIN rec THEN rec[i] ELSE sagas[i]
        BY <1>3, <1>4 DEF PutStep
    <2>2. \A i \in Live' : sagas'[i].reply = sagas[i].reply
        BY <1>5, <2>1
    <2>. QED
        BY <1>4, <2>2
<1>7. callbacks' = [i \in Id |-> IF i \in S \cap W THEN callbacks[i] + 1 ELSE callbacks[i]]
    <2>1. \A i \in Id : (i \in DOMAIN rec /\ rec[i].reply /\ rec[i].status \in Ended) <=> i \in S \cap W
        BY <1>4, <1>5 DEF EndedBy
    <2>. HIDE DEF S, W
    <2>. QED
        BY <1>1, <2>1 DEF Write, EmitCallback
<1>8. Work!Forgets(DOMAIN sagas)
    BY <1>4, Forgetting
<1>9. CASE S # {}
    <2>1. Work!Finish(S)
        <3>. HIDE DEF S
        <3>. QED
            BY <1>4, <1>6, <1>7, <1>8, <1>9 DEF Work!Finish
    <2>. QED
        BY <1>4, <2>1 DEF Work!Next
<1>10. CASE S = {}
    <2>1. Live' = Live /\ {i \in Live' : sagas'[i].reply} = W
        BY <1>4, <1>6, <1>10
    <2>2. callbacks' = callbacks
        BY <1>7, <1>10 DEF SagaInv, LedgerInv, TypeOK
    <2>3. Work!Forget
        BY <1>8, <2>1, <2>2 DEF Work!Forget
    <2>. QED
        BY <2>3 DEF Work!Next
<1>. QED
    BY <1>9, <1>10

LEMMA PruneImplements ==
    ASSUME SagaInv, NEW o, NEW S, Prune(o, S)
    PROVE  Work!Next
<1>1. /\ Live' = Live /\ DOMAIN sagas' \subseteq DOMAIN sagas
      /\ \A i \in DOMAIN sagas' : sagas'[i] = sagas[i]
      /\ callbacks' = callbacks /\ Live' \subseteq DOMAIN sagas'
    BY PruneMoves DEF SagaInv, Live
<1>2. {i \in Live' : sagas'[i].reply} = {i \in Live : sagas[i].reply}
    BY <1>1
<1>3. Work!Forgets(DOMAIN sagas)
    BY <1>1, Forgetting
<1>4. Work!Forget
    BY <1>1, <1>2, <1>3 DEF Work!Forget
<1>. QED
    BY <1>4 DEF Work!Next

LEMMA StepImplements == SagaInv /\ [Next]_vars => [Work!Next]_(Work!vars)
<1>. SUFFICES ASSUME SagaInv, [Next]_vars PROVE [Work!Next]_(Work!vars)
    OBVIOUS
<1>1. ASSUME UNCHANGED <<sagas, callbacks>> PROVE UNCHANGED Work!vars
    <2>1. Live' = Live
        BY <1>1 DEF Live
    <2>2. {i \in Live' : sagas'[i].reply} = {i \in Live : sagas[i].reply}
        BY <1>1, <2>1
    <2>. QED
        BY <1>1, <2>1, <2>2 DEF Work!vars
<1>2. ASSUME NEW i \in Id, NEW r \in Requests[Owner[i]], Trigger(Owner[i], i, r)
      PROVE  Work!Next
    BY <1>2, TriggerImplements DEF Work!Next
<1>3. CASE Next
    <2>1. \/ \E i \in Id : \E r \in Requests[Owner[i]] : Trigger(Owner[i], i, r)
          \/ Rewrites
          \/ \E o \in Origin, S \in SUBSET Id : Prune(o, S)
          \/ Tick
        BY <1>3, NextCases DEF SagaInv
    <2>2. Tick => UNCHANGED Work!vars
        BY <1>1 DEF Tick
    <2>. QED
        BY <1>2, <2>1, <2>2, RewriteImplements, PruneImplements
<1>4. CASE UNCHANGED vars
    BY <1>1, <1>4 DEF vars
<1>. QED
    BY <1>3, <1>4

\* The ledger implements AsyncWork: a requester sees its work open once and
\* end once, with one callback when it asked for one, whatever leases,
\* retries, cranks, prunes and trims happen below.
THEOREM SagaImplementsAsyncWork == Spec => ImplementsAsyncWork
<1>1. Init => Work!Init
    <2>. SUFFICES ASSUME Init PROVE Work!Init
        OBVIOUS
    <2>1. DOMAIN sagas = {} /\ Live = {} /\ callbacks = [i \in Id |-> 0]
        BY DEF Init, Live
    <2>2. {i \in Live : sagas[i].reply} = {}
        BY <2>1
    <2>. QED
        BY <2>1, <2>2 DEF Work!Init
<1>. QED
    BY <1>1, StepImplements, SagaInvariant, PTL DEF Spec, ImplementsAsyncWork, Work!Spec

--------------------------------------------------------------------------------
(***************************************************************************)
(* The pending projections                                                 *)
(***************************************************************************)
\* Finite sets of naturals have a greatest and a least member.
LEMMA Extremes ==
    ASSUME NEW S, \A x \in S : x \in Nat, IsFiniteSet(S), S # {}
    PROVE  /\ \E m \in S : \A q \in S : m >= q
           /\ \E m \in S : \A q \in S : m <= q
<1>1. \E m \in S : \A q \in S : m >= q
    <2>. DEFINE above(r) == {q \in S : q > r}
                B == {above(r) : r \in S}
    <2>1. PICK T \in B : \A U \in B : U \subseteq T => U = T
        <3>1. B \in SUBSET SUBSET S
            OBVIOUS
        <3>2. B # {}
            OBVIOUS
        <3>. HIDE DEF B
        <3>. QED
            BY <3>1, <3>2, LeastSubset
    <2>2. PICK r \in S : T = above(r)
        OBVIOUS
    <2>3. ASSUME NEW q \in S, q > r
          PROVE  FALSE
        <3>1. above(q) \subseteq above(r) /\ q \in above(r) /\ q \notin above(q)
            BY <2>3
        <3>2. above(q) \in B
            OBVIOUS
        <3>. HIDE DEF above, B
        <3>. QED
            BY <2>1, <2>2, <3>1, <3>2
    <2>4. \A q \in S : r >= q
        BY <2>3
    <2>. QED
        BY <2>4
<1>2. \E m \in S : \A q \in S : m <= q
    <2>. DEFINE below(r) == {q \in S : q < r}
                B == {below(r) : r \in S}
    <2>1. PICK T \in B : \A U \in B : U \subseteq T => U = T
        <3>1. B \in SUBSET SUBSET S
            OBVIOUS
        <3>2. B # {}
            OBVIOUS
        <3>. HIDE DEF B
        <3>. QED
            BY <3>1, <3>2, LeastSubset
    <2>2. PICK r \in S : T = below(r)
        OBVIOUS
    <2>3. ASSUME NEW q \in S, q < r
          PROVE  FALSE
        <3>1. below(q) \subseteq below(r) /\ q \in below(r) /\ q \notin below(q)
            BY <2>3
        <3>2. below(q) \in B
            OBVIOUS
        <3>. HIDE DEF below, B
        <3>. QED
            BY <2>1, <2>2, <3>1, <3>2
    <2>4. \A q \in S : r <= q
        BY <2>3
    <2>. QED
        BY <2>4
<1>. QED
    BY <1>1, <1>2

LEMMA MaxMin ==
    ASSUME NEW S, \A x \in S : x \in Nat, IsFiniteSet(S), S # {}
    PROVE  /\ Max(S) \in S /\ \A q \in S : Max(S) >= q
           /\ Min(S) \in S /\ \A q \in S : Min(S) <= q
BY Extremes DEF Max, Min

LEMMA IdFacts == IsFiniteSet(Id) /\ (\A i \in Id : i \in Nat /\ i > 0) /\ None \notin Nat
BY SagaAssumption

\* What a pump should find after a cursor.
Found(lane, c) == {i \in Live : i > c /\ sagas[i].assignee = lane}

\* pending_page: the page, and what the next one starts after, lose nothing
\* and move the cursor on.
LEMMA PageSplits ==
    ASSUME SagaInv, NEW lane \in OptWorker, NEW c \in {0} \cup Id
    PROVE  LET p == Page(lane, c) IN
           \/ p.next = None /\ Found(lane, c) = p.requests
           \/ /\ p.next \in Id /\ p.next # None /\ p.next > c
              /\ Found(lane, c) = p.requests \cup Found(lane, p.next)
<1>. DEFINE all == LaneAfter(lane, c)
            page == {i \in all : Cardinality({j \in all : j < i}) < PendingPage}
            weight(i) == MapThenSumSet(LAMBDA j : sagas[j].spec,
                                       {j \in page : j <= i /\ Admitted(lane, j)})
            heavy(i) == weight(i) > PendingPageBytes
            over(i) == Admitted(lane, i) /\ i # Min(page) /\ heavy(i)
            examined == {i \in page : \A j \in page : j <= i => ~over(j)}
            p == Page(lane, c)
<1>1. p.requests = {i \in examined : Admitted(lane, i)}
    BY DEF Page
<1>2. p.next = IF examined = all THEN None ELSE Max(examined)
    BY DEF Page
<1>. HIDE DEF heavy, p
<1>3. /\ \A i \in all : i \in Id /\ i \in Nat
      /\ IsFiniteSet(all) /\ c \in Nat /\ None \notin Nat
    <2>1. all \subseteq Id
        BY DEF LaneAfter, SagaInv, LedgerInv, TypeOK
    <2>2. IsFiniteSet(all)
        BY <2>1, SagaAssumption, FS_Subset
    <2>. HIDE DEF all
    <2>. QED
        BY <2>1, <2>2, IdFacts
<1>4. \A i \in all : i > c
    BY DEF LaneAfter
<1>5. \A d \in {0} \cup Id : \A i : i \in Found(lane, d) <=> (i \in LaneAfter(lane, d) /\ Admitted(lane, i))
    BY SagaAssumption DEF Found, LaneAfter, Admitted, SagaInv, LedgerInv, RowsInv, PendingMeta
<1>6. \A i \in all : \A d \in {0} \cup Id : i \in LaneAfter(lane, d) <=> i > d
    BY DEF LaneAfter
<1>7. \A d \in all : LaneAfter(lane, d) \subseteq all
    BY <1>3, <1>4, SagaAssumption DEF LaneAfter, SagaInv, LedgerInv, TypeOK
<1>. HIDE DEF all
<1>8. ASSUME NEW i \in examined, NEW j \in all, j < i
      PROVE  j \in examined
    <2>1. i \in page /\ i \in all /\ i \in Nat /\ j \in Nat
        BY <1>3, <1>8
    <2>2. j \in page
        <3>. DEFINE A == {k \in all : k < j}
                    BB == {k \in all : k < i}
        <3>1. A \subseteq BB /\ BB \subseteq all
            <4>1. \A k \in all : k < j => k < i
                <5>. HIDE DEF examined
                <5>. QED
                    BY <1>3, <1>8, <2>1
            <4>. QED
                BY <4>1
        <3>2. IsFiniteSet(BB) /\ IsFiniteSet(A) /\ Cardinality(A) <= Cardinality(BB)
            BY <1>3, <3>1, FS_Subset
        <3>3. Cardinality(A) \in Nat /\ Cardinality(BB) \in Nat /\ PendingPage \in Nat
            BY <3>2, FS_CardinalityType, SagaAssumption
        <3>4. Cardinality(BB) < PendingPage
            BY <2>1
        <3>. HIDE DEF A, BB
        <3>5. Cardinality(A) < PendingPage
            BY <3>2, <3>3, <3>4
        <3>. QED
            BY <3>5 DEF A
    <2>3. \A k \in page : k <= j => k <= i
        BY <1>3, <1>8, <2>1
    <2>. HIDE DEF page, over
    <2>. QED
        BY <1>8, <2>2, <2>3
<1>9. CASE examined = all
    <2>1. p.next = None
        BY <1>2, <1>9
    <2>2. Found(lane, c) = p.requests
        BY <1>1, <1>5, <1>9 DEF all
    <2>. QED
        BY <2>1, <2>2 DEF p
<1>10. CASE examined # all
    <2>1. all # {} /\ examined \subseteq all
        BY <1>10
    <2>2. examined # {}
        <3>1. Min(all) \in all /\ \A q \in all : Min(all) <= q
            BY <1>3, <2>1, MaxMin
        <3>2. {j \in all : j < Min(all)} = {}
            BY <1>3, <3>1
        <3>3. Cardinality({j \in all : j < Min(all)}) < PendingPage
            BY <3>2, FS_EmptySet, SagaAssumption
        <3>4. Min(all) \in page
            BY <3>1, <3>3
        <3>5. (\A i \in page : i \in Nat) /\ IsFiniteSet(page) /\ page # {} /\ page \subseteq all
            <4>1. page \subseteq all
                OBVIOUS
            <4>2. IsFiniteSet(page)
                BY <1>3, <4>1, FS_Subset
            <4>. QED
                BY <1>3, <3>4, <4>1, <4>2
        <3>6. Min(page) \in page /\ \A q \in page : Min(page) <= q
            <4>. HIDE DEF page
            <4>. QED
                BY <3>5, MaxMin
        <3>7. Min(page) = Min(all)
            <4>1. Min(page) \in all /\ Min(page) <= Min(all) /\ Min(all) <= Min(page)
                <5>. HIDE DEF page
                <5>. QED
                    BY <3>1, <3>4, <3>5, <3>6
            <4>2. Min(page) \in Nat /\ Min(all) \in Nat
                <5>. HIDE DEF page
                <5>. QED
                    BY <1>3, <3>1, <4>1
            <4>. HIDE DEF page
            <4>. QED
                BY <4>1, <4>2
        <3>8. \A j \in page : j <= Min(all) => ~over(j)
            BY <1>3, <3>1, <3>5, <3>7
        <3>. QED
            BY <3>4, <3>8
    <2>. DEFINE m == Max(examined)
    <2>3. m \in examined /\ \A q \in examined : m >= q
        <3>1. (\A i \in examined : i \in Nat) /\ IsFiniteSet(examined)
            BY <1>3, <2>1, FS_Subset
        <3>. HIDE DEF examined
        <3>. QED
            BY <2>2, <3>1, MaxMin
    <2>4. p.next = m
        BY <1>2, <1>10
    <2>. HIDE DEF examined, m
    <2>5. m \in all /\ m \in Id /\ m \in Nat /\ m # None /\ m > c
        BY <1>3, <1>4, <2>1, <2>3
    <2>6. ASSUME NEW i
          PROVE  i \in Found(lane, c) <=> i \in p.requests \cup Found(lane, m)
        <3>1. i \in Found(lane, c) <=> (i \in all /\ Admitted(lane, i))
            BY <1>5 DEF all
        <3>2. i \in Found(lane, m) <=> (i \in LaneAfter(lane, m) /\ Admitted(lane, i))
            BY <1>5, <2>5
        <3>3. i \in p.requests <=> (i \in examined /\ Admitted(lane, i))
            BY <1>1
        <3>4. CASE i \in all
            <4>1. i \in Nat /\ (i \in LaneAfter(lane, m) <=> i > m)
                BY <1>3, <1>6, <2>5, <3>4
            <4>2. i \in examined \/ i > m
                BY <1>8, <2>3, <2>5, <3>4, <4>1
            <4>. QED
                BY <3>1, <3>2, <3>3, <3>4, <4>1, <4>2
        <3>5. CASE i \notin all
            BY <1>7, <2>1, <2>5, <3>1, <3>2, <3>3, <3>5
        <3>. QED
            BY <3>4, <3>5
    <2>7. Found(lane, c) = p.requests \cup Found(lane, m)
        BY <2>6
    <2>. QED
        BY <2>4, <2>5, <2>7 DEF p
<1>. QED
    BY <1>9, <1>10

\* The recursion a walk is.
Walks(g, lane) ==
    g = [c \in {0} \cup Id |->
            LET p == Page(lane, c) IN
            p.requests \cup (IF p.next = None THEN {} ELSE g[p.next])]

\* A walk finds the lane: what should be found solves the recursion, and a
\* solution that differs has a greatest cursor where it does.
LEMMA WalkFinds ==
    ASSUME SagaInv
    PROVE  WalkFindsLane
<1>. SUFFICES ASSUME NEW lane \in OptWorker
              PROVE  Walk(lane) = {i \in Live : sagas[i].assignee = lane}
    BY DEF WalkFindsLane
<1>. DEFINE D == {0} \cup Id
            F == [c \in D |-> Found(lane, c)]
<1>1. Walk(lane) = (CHOOSE g : Walks(g, lane))[0]
    BY DEF Walk, Walks
<1>2. Walks(F, lane)
    <2>1. ASSUME NEW c \in D
          PROVE  LET p == Page(lane, c) IN
                 F[c] = p.requests \cup (IF p.next = None THEN {} ELSE F[p.next])
        <3>. DEFINE p == Page(lane, c)
        <3>1. \/ p.next = None /\ Found(lane, c) = p.requests
              \/ /\ p.next \in Id /\ p.next # None /\ p.next > c
                 /\ Found(lane, c) = p.requests \cup Found(lane, p.next)
            BY PageSplits
        <3>. HIDE DEF p
        <3>2. F[c] = p.requests \cup (IF p.next = None THEN {} ELSE F[p.next])
            BY <3>1
        <3>. QED
            BY <3>2 DEF p
    <2>2. F = [c \in D |-> F[c]]
        OBVIOUS
    <2>. HIDE DEF F
    <2>. QED
        BY <2>1, <2>2 DEF Walks
<1>3. ASSUME NEW g, Walks(g, lane)
      PROVE  g[0] = Found(lane, 0)
    <2>. DEFINE B == {c \in D : g[c] # Found(lane, c)}
    <2>1. SUFFICES ASSUME B # {} PROVE FALSE
        OBVIOUS
    <2>2. (\A c \in D : c \in Nat) /\ IsFiniteSet(D)
        <3>1. IsFiniteSet({0}) /\ IsFiniteSet(Id)
            BY SagaAssumption, FS_Singleton
        <3>2. IsFiniteSet(D)
            BY <3>1, FS_Union
        <3>. QED
            BY <3>2, IdFacts
    <2>3. PICK m \in B : \A q \in B : m >= q
        <3>1. (\A b \in B : b \in Nat) /\ IsFiniteSet(B)
            BY <2>2, FS_Subset
        <3>. HIDE DEF B
        <3>. QED
            BY <2>1, <3>1, Extremes
    <2>. DEFINE p == Page(lane, m)
    <2>4. \/ p.next = None /\ Found(lane, m) = p.requests
          \/ /\ p.next \in Id /\ p.next # None /\ p.next > m
             /\ Found(lane, m) = p.requests \cup Found(lane, p.next)
        BY PageSplits
    <2>5. g[m] = p.requests \cup (IF p.next = None THEN {} ELSE g[p.next])
        BY <1>3 DEF Walks
    <2>. HIDE DEF p
    <2>6. CASE p.next = None
        BY <2>3, <2>4, <2>5, <2>6
    <2>7. CASE p.next # None
        <3>1. p.next \in D /\ p.next > m /\ p.next \in Nat /\ m \in Nat
            BY <2>2, <2>4, <2>7
        <3>2. p.next \notin B
            BY <2>3, <3>1
        <3>3. g[p.next] = Found(lane, p.next)
            BY <3>1, <3>2
        <3>. QED
            BY <2>3, <2>4, <2>5, <2>7, <3>3
    <2>. QED
        BY <2>6, <2>7
<1>4. Walk(lane) = Found(lane, 0)
    <2>1. \E g : Walks(g, lane)
        BY <1>2
    <2>2. Walks(CHOOSE g : Walks(g, lane), lane)
        BY <2>1
    <2>. QED
        BY <1>1, <1>3, <2>2
<1>5. \A i \in Live : i > 0
    BY SagaAssumption DEF SagaInv, LedgerInv, TypeOK, Live
<1>. QED
    BY <1>4, <1>5 DEF Found

\* The rows as RowsAgree reads them.
LEMMA RowsFollow ==
    ASSUME LedgerInv
    PROVE  RowsAgree
<1>1. ASSUME NEW i \in Live
      PROVE  LET instants == {sagas[i].deadline, sagas[i].lease} \ {None}
             IN  /\ pending[i].due \in instants \/ (pending[i].due = None /\ instants = {})
                 /\ \A t \in instants : pending[i].due <= t
                 /\ pending[i].assigned = (sagas[i].assignee # None)
    <2>1. pending[i] = PendingMeta(sagas[i]) /\ sagas[i].deadline \in OptNat /\ sagas[i].lease \in OptNat
        BY LiveRecord DEF LedgerInv, RowsInv, Record
    <2>2. pending[i].due = Earlier(sagas[i].deadline, sagas[i].lease)
          /\ pending[i].assigned = (sagas[i].assignee # None)
        BY <2>1 DEF PendingMeta
    <2>. QED
        BY <2>1, <2>2, SagaAssumption DEF Earlier, OptNat
<1>. QED
    BY <1>1 DEF RowsAgree, LedgerInv, RowsInv

\* The live and receipt indexes say what the records say, and a pump that
\* follows the cursor finds every live saga of its lane and nothing else,
\* wherever the page's count and bytes cut.
THEOREM SagaIndexesAgree == Spec => []IndexesAgree
<1>1. SagaInv => IndexesAgree
    BY WalkFinds, RowsFollow DEF IndexesAgree, SagaInv
<1>. QED
    BY <1>1, SagaInvariant, PTL
================================================================================
