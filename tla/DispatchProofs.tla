----------------------------- MODULE DispatchProofs ----------------------------
(***************************************************************************)
(* The dispatch module and the block engine, proved for every set of keys  *)
(* and calls, every queue number limit, batch size and rollback budget.    *)
(* What the queues, the reservations and the records owe each other is a   *)
(* property of one world (Plane); each operation of the module keeps it    *)
(* and only adds to what was there (Grows); so a block's stage is sound    *)
(* and grows from the committed state unit by unit, and what is left of    *)
(* the batch stays at the heads of the queues.                             *)
(***************************************************************************)
EXTENDS Dispatch, FiniteSetTheorems, SequenceTheorems, TLAPS

Rec == [status : {"waiting", "ready", "delivered"}, outcome : Outcome \cup {None},
        delivery : Receipt]

\* A world has its fields.
IsWorld(w) ==
    w \in [records : {w.records}, calls : {w.calls}, callHead : {w.callHead},
           mail : {w.mail}, mailHead : {w.mailHead}, mailNext : {w.mailNext},
           reserved : {w.reserved}, open : {w.open}, agreed : {w.agreed},
           effects : {w.effects}, consumed : {w.consumed}]

\* A record's status says what else it holds.
RecordsInv(w) ==
    /\ DOMAIN w.records \subseteq Subject
    /\ w.records \in [DOMAIN w.records -> Rec]
    /\ \A s \in DOMAIN w.records :
          /\ w.records[s].status # "delivered" => w.records[s].delivery = None
          /\ w.records[s].status = "waiting" => w.records[s].outcome = None
          /\ w.records[s].status = "ready" => w.records[s].outcome # None

\* The mailbox holds each outcome not yet delivered once, in unbroken numbers.
MailInv(w) ==
    /\ w.mailHead \in Nat /\ w.mailNext \in Nat /\ w.mailHead <= w.mailNext
    /\ DOMAIN w.mail = w.mailHead .. w.mailNext - 1
    /\ w.mail = [n \in DOMAIN w.mail |-> w.mail[n]]
    /\ \A n \in DOMAIN w.mail : w.mail[n] \in Ready(w)
    /\ \A m, n \in DOMAIN w.mail : w.mail[m] = w.mail[n] => m = n
    /\ \A s \in Ready(w) : \E n \in DOMAIN w.mail : w.mail[n] = s

\* Every open entry has a number left.
ReservedInv(w) ==
    /\ w.reserved = Cardinality(Waiting(w))
    /\ w.mailNext + w.reserved <= MaxNumber

\* The calls from the head on are the ones still waiting.
CallsInv(w) ==
    /\ w.calls \in Seq(Call) /\ w.callHead \in 0 .. Len(w.calls)
    /\ \A i \in 1 .. Len(w.calls) :
          /\ w.calls[i] \in DOMAIN w.records
          /\ w.calls[i] \in Waiting(w) <=> i > w.callHead
    /\ \A i, j \in 1 .. Len(w.calls) : w.calls[i] = w.calls[j] => i = j
    /\ \A c \in DOMAIN w.records \cap Call : \E i \in 1 .. Len(w.calls) : w.calls[i] = c

\* A dispatch waits exactly while its saga is live, and its outcome is what
\* the saga's end agreed.
SagasInv(w) ==
    /\ w.open = Waiting(w) \cap Key
    /\ w.agreed \in [Key -> Outcome \cup {None}]
    /\ \A k \in Ready(w) \cap Key : w.records[k].outcome = w.agreed[k]

Plane(w) == IsWorld(w) /\ RecordsInv(w) /\ MailInv(w) /\ ReservedInv(w)
               /\ CallsInv(w) /\ SagasInv(w)

\* What a receiver is owed for s.
Owed(w, s) == IF s \in Key THEN w.agreed[s] ELSE w.records[s].outcome

\* Effects and deliveries so far, x being a call that has run and y a subject
\* that was handed over, neither yet finalized.
LogInv(w, x, y) ==
    /\ w.effects \in [Call -> Nat]
    /\ \A c \in Call :
          w.effects[c] = IF c = x \/ (c \in DOMAIN w.records /\ w.records[c].outcome = "applied")
                         THEN 1 ELSE 0
    /\ w.consumed = [s \in Subject |-> w.consumed[s]]
    /\ \A s \in Subject :
          w.consumed[s] = IF s = y \/ (s \in DOMAIN w.records /\ w.records[s].delivery = "applied")
                          THEN << Owed(w, s) >> ELSE <<>>

Sound(w) == Plane(w) /\ LogInv(w, None, None)

\* w has all that v has.
Grows(v, w) ==
    /\ DOMAIN v.records \subseteq DOMAIN w.records
    /\ \A s \in DOMAIN v.records :
          /\ v.records[s].delivery = "applied" => w.records[s].delivery = "applied"
          /\ s \in Call /\ v.records[s].outcome = "applied" => w.records[s].outcome = "applied"
    /\ Len(v.calls) <= Len(w.calls)
    /\ \A i \in 1 .. Len(v.calls) : w.calls[i] = v.calls[i]
    /\ v.mailNext <= w.mailNext
    /\ \A n \in DOMAIN w.mail : n < v.mailNext => n \in DOMAIN v.mail /\ w.mail[n] = v.mail[n]

\* The numbers of a world.
LEMMA PlaneNats ==
    ASSUME NEW w, Plane(w)
    PROVE  /\ w.mailHead \in Nat /\ w.mailNext \in Nat /\ w.callHead \in Nat
           /\ Len(w.calls) \in Nat /\ w.calls \in Seq(Call)
           /\ \A n \in DOMAIN w.mail : n \in Nat /\ n < w.mailNext /\ w.mailHead <= n
<1>1. w.mailHead \in Nat /\ w.mailNext \in Nat /\ DOMAIN w.mail = w.mailHead .. w.mailNext - 1
    BY DEF Plane, MailInv
<1>2. w.calls \in Seq(Call) /\ w.callHead \in 0 .. Len(w.calls)
    BY DEF Plane, CallsInv
<1>3. Len(w.calls) \in Nat
    BY <1>2
<1>. QED
    BY <1>1, <1>2, <1>3

LEMMA GrowsRefl ==
    ASSUME NEW w, Plane(w)
    PROVE  Grows(w, w)
BY PlaneNats DEF Grows

LEMMA GrowsTrans ==
    ASSUME NEW u, NEW v, NEW w, Plane(u), Plane(v), Plane(w), Grows(u, v), Grows(v, w)
    PROVE  Grows(u, w)
<1>1. /\ u.mailNext \in Nat /\ v.mailNext \in Nat /\ w.mailNext \in Nat
      /\ Len(u.calls) \in Nat /\ Len(v.calls) \in Nat /\ Len(w.calls) \in Nat
    BY PlaneNats
<1>2. \A n \in DOMAIN w.mail : n \in Nat
    BY PlaneNats
<1>3. /\ DOMAIN u.records \subseteq DOMAIN w.records
      /\ \A s \in DOMAIN u.records :
            /\ u.records[s].delivery = "applied" => w.records[s].delivery = "applied"
            /\ s \in Call /\ u.records[s].outcome = "applied" => w.records[s].outcome = "applied"
    BY DEF Grows
<1>4. Len(u.calls) <= Len(w.calls) /\ \A i \in 1 .. Len(u.calls) : w.calls[i] = u.calls[i]
    BY <1>1 DEF Grows
<1>5. u.mailNext <= w.mailNext
    BY <1>1 DEF Grows
<1>6. \A n \in DOMAIN w.mail : n < u.mailNext => n \in DOMAIN u.mail /\ w.mail[n] = u.mail[n]
    BY <1>1, <1>2 DEF Grows
<1>. QED
    BY <1>3, <1>4, <1>5, <1>6 DEF Grows

--------------------------------------------------------------------------------
(***************************************************************************)
(* Opening an entry                                                        *)
(***************************************************************************)
\* Waiting subjects are finitely many.
LEMMA WaitingFinite ==
    ASSUME NEW w, RecordsInv(w)
    PROVE  IsFiniteSet(Waiting(w)) /\ Cardinality(Waiting(w)) \in Nat /\ Waiting(w) \subseteq Subject
<1>1. Waiting(w) \subseteq Subject
    BY DEF Waiting, RecordsInv
<1>2. IsFiniteSet(Waiting(w))
    BY <1>1, DispatchAssumption, FS_Subset
<1>. QED
    BY <1>1, <1>2, FS_CardinalityType

NewRec == [status |-> "waiting", outcome |-> None, delivery |-> None]

\* v is w with s opened, as far as the records, the mailbox and the
\* reservations go, and what that leaves.
Opens(w, v, s) ==
    /\ s \in Subject /\ s \notin DOMAIN w.records /\ CanReserve(w)
    /\ v.records = With(w.records, s, NewRec) /\ v.reserved = w.reserved + 1
    /\ v.mail = w.mail /\ v.mailHead = w.mailHead /\ v.mailNext = w.mailNext

OpenedIn(w, v, s) ==
    /\ RecordsInv(v) /\ MailInv(v) /\ ReservedInv(v)
    /\ Waiting(v) = Waiting(w) \cup {s} /\ Ready(v) = Ready(w)
    /\ DOMAIN v.records = DOMAIN w.records \cup {s}
    /\ \A t \in DOMAIN w.records : v.records[t] = w.records[t]
    /\ v.records[s] = NewRec

\* Opening an entry leaves every other record as it was.
LEMMA OpenRecords ==
    ASSUME NEW w, Plane(w), NEW s, NEW v, Opens(w, v, s)
    PROVE  OpenedIn(w, v, s)
<1>. USE DEF Opens
<1>1. /\ DOMAIN v.records = DOMAIN w.records \cup {s}
      /\ \A t \in DOMAIN w.records : v.records[t] = w.records[t]
      /\ v.records[s] = NewRec
    BY DEF With
<1>2. NewRec \in Rec /\ NewRec.status = "waiting" /\ NewRec.outcome = None /\ NewRec.delivery = None
    BY DEF NewRec, Rec, Receipt
<1>3. RecordsInv(v)
    <2>1. \A t \in DOMAIN v.records : v.records[t] \in Rec
        BY <1>1, <1>2 DEF Plane, RecordsInv
    <2>2. v.records \in [DOMAIN v.records -> Rec]
        BY <2>1 DEF With
    <2>. QED
        BY <1>1, <1>2, <2>2 DEF Plane, RecordsInv
<1>4. Waiting(v) = Waiting(w) \cup {s}
    BY <1>1, <1>2 DEF Waiting
<1>5. Ready(v) = Ready(w)
    BY <1>1, <1>2 DEF Ready
<1>6. MailInv(v)
    BY <1>5 DEF Plane, MailInv
<1>7. ReservedInv(v)
    <2>1. s \notin Waiting(w)
        BY DEF Waiting
    <2>2. Cardinality(Waiting(w) \cup {s}) = Cardinality(Waiting(w)) + 1
        BY <2>1, WaitingFinite, FS_AddElement DEF Plane
    <2>3. w.reserved = Cardinality(Waiting(w)) /\ w.reserved \in Nat /\ w.mailNext \in Nat /\ MaxNumber \in Nat
        BY WaitingFinite, DispatchAssumption DEF Plane, ReservedInv, MailInv
    <2>. QED
        BY <1>4, <2>2, <2>3 DEF ReservedInv, CanReserve
<1>. QED
    BY <1>1, <1>3, <1>4, <1>5, <1>6, <1>7 DEF OpenedIn

\* on_dispatch: the saga is live from the same unit on.
LEMMA DispatchGrows ==
    ASSUME NEW w, Plane(w), NEW k \in Key, CanDispatch(w, k), NEW v, v = OnDispatch(w, k)
    PROVE  /\ Plane(v) /\ Grows(w, v) /\ v.effects = w.effects /\ v.consumed = w.consumed
           /\ v.callHead = w.callHead /\ v.mailHead = w.mailHead /\ v.agreed = w.agreed
           /\ DOMAIN v.records = DOMAIN w.records \cup {k} /\ v.records[k] = NewRec
           /\ \A t \in DOMAIN w.records : v.records[t] = w.records[t]
<1>1. k \in Subject /\ k \notin Call /\ k \notin DOMAIN w.records /\ CanReserve(w)
    BY DispatchAssumption DEF Subject, CanDispatch
<1>2. /\ IsWorld(v) /\ v.records = With(w.records, k, NewRec) /\ v.reserved = w.reserved + 1
      /\ v.mail = w.mail /\ v.mailHead = w.mailHead /\ v.mailNext = w.mailNext
      /\ v.calls = w.calls /\ v.callHead = w.callHead /\ v.open = w.open \cup {k}
      /\ v.agreed = w.agreed /\ v.effects = w.effects /\ v.consumed = w.consumed
    BY DEF Plane, IsWorld, OnDispatch, Opened, NewRec
<1>3. /\ RecordsInv(v) /\ MailInv(v) /\ ReservedInv(v)
      /\ Waiting(v) = Waiting(w) \cup {k} /\ Ready(v) = Ready(w)
      /\ DOMAIN v.records = DOMAIN w.records \cup {k}
      /\ \A t \in DOMAIN w.records : v.records[t] = w.records[t]
      /\ v.records[k] = NewRec
    <2>1. Opens(w, v, k)
        BY <1>1, <1>2 DEF Opens
    <2>2. OpenedIn(w, v, k)
        BY <2>1, OpenRecords
    <2>. QED
        BY <2>2 DEF OpenedIn
<1>4. CallsInv(v)
    <2>1. \A c \in Call : c # k
        BY <1>1
    <2>2. \A i \in 1 .. Len(w.calls) : w.calls[i] \in Call
        BY PlaneNats
    <2>. QED
        BY <1>2, <1>3, <2>1, <2>2 DEF Plane, CallsInv
<1>5. SagasInv(v)
    <2>1. k \notin Ready(w)
        BY <1>1 DEF Ready
    <2>2. \A t \in Ready(w) : t \in DOMAIN w.records
        BY DEF Ready
    <2>. QED
        BY <1>2, <1>3, <2>2 DEF Plane, SagasInv
<1>6. Grows(w, v)
    BY <1>2, <1>3, PlaneNats DEF Grows
<1>. QED
    BY <1>2, <1>3, <1>4, <1>5, <1>6 DEF Plane

\* on_call: the call joins the tail of its queue.
LEMMA CallGrows ==
    ASSUME NEW w, Plane(w), NEW c \in Call, CanCall(w, c), NEW v, v = OnCall(w, c)
    PROVE  /\ Plane(v) /\ Grows(w, v) /\ v.effects = w.effects /\ v.consumed = w.consumed
           /\ v.callHead = w.callHead /\ v.mailHead = w.mailHead /\ v.agreed = w.agreed
           /\ DOMAIN v.records = DOMAIN w.records \cup {c} /\ v.records[c] = NewRec
           /\ \A t \in DOMAIN w.records : v.records[t] = w.records[t]
<1>1. c \in Subject /\ c \notin Key /\ c \notin DOMAIN w.records /\ CanReserve(w)
    BY DispatchAssumption DEF Subject, CanCall
<1>2. /\ IsWorld(v) /\ v.records = With(w.records, c, NewRec) /\ v.reserved = w.reserved + 1
      /\ v.mail = w.mail /\ v.mailHead = w.mailHead /\ v.mailNext = w.mailNext
      /\ v.calls = Append(w.calls, c) /\ v.callHead = w.callHead /\ v.open = w.open
      /\ v.agreed = w.agreed /\ v.effects = w.effects /\ v.consumed = w.consumed
    BY DEF Plane, IsWorld, OnCall, Opened, NewRec
<1>3. /\ RecordsInv(v) /\ MailInv(v) /\ ReservedInv(v)
      /\ Waiting(v) = Waiting(w) \cup {c} /\ Ready(v) = Ready(w)
      /\ DOMAIN v.records = DOMAIN w.records \cup {c}
      /\ \A t \in DOMAIN w.records : v.records[t] = w.records[t]
      /\ v.records[c] = NewRec
    <2>1. Opens(w, v, c)
        BY <1>1, <1>2 DEF Opens
    <2>2. OpenedIn(w, v, c)
        BY <2>1, OpenRecords
    <2>. QED
        BY <2>2 DEF OpenedIn
<1>. DEFINE n == Len(w.calls)
<1>4. /\ w.calls \in Seq(Call) /\ n \in Nat /\ w.callHead \in 0 .. n
      /\ v.calls \in Seq(Call) /\ Len(v.calls) = n + 1
      /\ v.calls[n + 1] = c
      /\ \A i \in 1 .. n : v.calls[i] = w.calls[i] /\ w.calls[i] \in DOMAIN w.records
    <2>1. w.calls \in Seq(Call) /\ n \in Nat /\ w.callHead \in 0 .. n
        BY PlaneNats DEF Plane, CallsInv
    <2>2. v.calls \in Seq(Call) /\ Len(v.calls) = n + 1 /\ v.calls[n + 1] = c
        BY <1>2, <2>1
    <2>3. \A i \in 1 .. n : v.calls[i] = w.calls[i]
        BY <1>2, <2>1
    <2>. QED
        BY <2>1, <2>2, <2>3 DEF Plane, CallsInv
<1>. HIDE DEF n
<1>5. \A i \in 1 .. n + 1 : i = n + 1 \/ i \in 1 .. n
    BY <1>4
<1>6. CallsInv(v)
    <2>1. ASSUME NEW i \in 1 .. n + 1
          PROVE  v.calls[i] \in DOMAIN v.records /\ (v.calls[i] \in Waiting(v) <=> i > v.callHead)
        <3>1. CASE i = n + 1
            BY <1>2, <1>3, <1>4, <3>1
        <3>2. CASE i \in 1 .. n
            <4>1. w.calls[i] \in Waiting(w) <=> i > w.callHead
                BY <3>2 DEF Plane, CallsInv, n
            <4>2. w.calls[i] # c
                BY <1>1, <1>4, <3>2
            <4>. QED
                BY <1>2, <1>3, <1>4, <3>2, <4>1, <4>2
        <3>. QED
            BY <1>5, <3>1, <3>2
    <2>2. ASSUME NEW i \in 1 .. n + 1, NEW j \in 1 .. n + 1, v.calls[i] = v.calls[j]
          PROVE  i = j
        <3>1. \A p, q \in 1 .. n : w.calls[p] = w.calls[q] => p = q
            BY DEF Plane, CallsInv, n
        <3>2. \A p \in 1 .. n : w.calls[p] # c
            BY <1>1, <1>4
        <3>. QED
            BY <1>4, <1>5, <2>2, <3>1, <3>2
    <2>3. \A d \in DOMAIN v.records \cap Call : \E i \in 1 .. n + 1 : v.calls[i] = d
        <3>1. \A d \in DOMAIN w.records \cap Call : \E i \in 1 .. n : w.calls[i] = d
            BY DEF Plane, CallsInv, n
        <3>2. n + 1 \in 1 .. n + 1 /\ \A i \in 1 .. n : i \in 1 .. n + 1
            BY <1>4
        <3>. QED
            BY <1>3, <1>4, <3>1, <3>2
    <2>4. v.callHead \in 0 .. n + 1
        BY <1>2, <1>4
    <2>. QED
        BY <1>4, <2>1, <2>2, <2>3, <2>4 DEF CallsInv
<1>7. SagasInv(v)
    <2>1. \A t \in Ready(w) : t \in DOMAIN w.records
        BY DEF Ready
    <2>2. \A k \in Key : k # c
        BY <1>1
    <2>. QED
        BY <1>2, <1>3, <2>1, <2>2 DEF Plane, SagasInv
<1>8. Grows(w, v)
    <2>1. Len(w.calls) <= Len(v.calls) /\ \A i \in 1 .. Len(w.calls) : v.calls[i] = w.calls[i]
        BY <1>4 DEF n
    <2>. QED
        BY <1>2, <1>3, <2>1, PlaneNats DEF Grows
<1>. QED
    BY <1>2, <1>3, <1>6, <1>7, <1>8 DEF Plane

--------------------------------------------------------------------------------
(***************************************************************************)
(* Posting an outcome                                                      *)
(***************************************************************************)
\* A waiting entry can always be posted: its number is reserved.
LEMMA WaitingPosts ==
    ASSUME NEW w, Plane(w), NEW s \in Waiting(w)
    PROVE  CanPost(w, s) /\ w.reserved \in Nat /\ w.reserved > 0
<1>1. w.reserved = Cardinality(Waiting(w)) /\ w.mailNext + w.reserved <= MaxNumber
    BY DEF Plane, ReservedInv
<1>2. IsFiniteSet(Waiting(w)) /\ Cardinality(Waiting(w)) \in Nat
    BY WaitingFinite DEF Plane
<1>3. Cardinality(Waiting(w)) # 0
    BY <1>2, FS_EmptySet
<1>4. w.mailNext \in Nat /\ MaxNumber \in Nat
    BY PlaneNats, DispatchAssumption
<1>. QED
    BY <1>1, <1>2, <1>3, <1>4 DEF CanPost, Waiting

PostRec(r, o) == [r EXCEPT !.status = "ready", !.outcome = o]

\* v is w with the outcome o of s posted, likewise.
Posts(w, v, s, o) ==
    /\ s \in Waiting(w) /\ o \in Outcome
    /\ v.records = [w.records EXCEPT ![s] = PostRec(@, o)]
    /\ v.mail = With(w.mail, w.mailNext, s) /\ v.mailNext = w.mailNext + 1
    /\ v.mailHead = w.mailHead /\ v.reserved = w.reserved - 1

PostedIn(w, v, s, o) ==
    /\ RecordsInv(v) /\ MailInv(v) /\ ReservedInv(v)
    /\ Waiting(v) = Waiting(w) \ {s} /\ Ready(v) = Ready(w) \cup {s}
    /\ DOMAIN v.records = DOMAIN w.records
    /\ \A t \in DOMAIN w.records : t # s => v.records[t] = w.records[t]
    /\ v.records[s].outcome = o /\ v.records[s].delivery = None
    /\ v.records[s].status = "ready"
    /\ \A n \in DOMAIN v.mail : n < w.mailNext => n \in DOMAIN w.mail /\ v.mail[n] = w.mail[n]

\* The outcome takes the next number, and no other record moves.
LEMMA PostRecords ==
    ASSUME NEW w, Plane(w), NEW s, NEW o, NEW v, Posts(w, v, s, o)
    PROVE  PostedIn(w, v, s, o)
<1>. USE DEF Posts
<1>1. /\ s \in DOMAIN w.records /\ w.records \in [DOMAIN w.records -> Rec]
      /\ w.records[s].status = "waiting" /\ w.records[s].delivery = None
    BY DEF Waiting, Plane, RecordsInv
<1>2. /\ DOMAIN v.records = DOMAIN w.records
      /\ \A t \in DOMAIN w.records : t # s => v.records[t] = w.records[t]
      /\ v.records[s] = PostRec(w.records[s], o)
    BY <1>1
<1>3. /\ PostRec(w.records[s], o) \in Rec
      /\ PostRec(w.records[s], o).status = "ready" /\ PostRec(w.records[s], o).outcome = o
      /\ PostRec(w.records[s], o).delivery = None
    BY <1>1 DEF PostRec, Rec
<1>4. o # None
    BY DispatchAssumption
<1>5. RecordsInv(v)
    <2>1. v.records \in [DOMAIN v.records -> Rec]
        BY <1>1, <1>2, <1>3
    <2>. QED
        BY <1>2, <1>3, <1>4, <2>1 DEF Plane, RecordsInv
<1>6. Waiting(v) = Waiting(w) \ {s}
    BY <1>2, <1>3 DEF Waiting
<1>7. Ready(v) = Ready(w) \cup {s} /\ s \notin Ready(w)
    BY <1>1, <1>2, <1>3 DEF Ready
<1>8. /\ DOMAIN v.mail = DOMAIN w.mail \cup {w.mailNext} /\ v.mail[w.mailNext] = s
      /\ w.mailNext \notin DOMAIN w.mail
      /\ \A n \in DOMAIN w.mail : v.mail[n] = w.mail[n] /\ n \in Nat /\ n < w.mailNext
      /\ v.mail = [n \in DOMAIN v.mail |-> v.mail[n]]
    <2>1. \A n \in DOMAIN w.mail : n \in Nat /\ n < w.mailNext
        BY PlaneNats
    <2>2. w.mailNext \notin DOMAIN w.mail
        BY <2>1, PlaneNats
    <2>. QED
        BY <2>1, <2>2 DEF With
<1>9. MailInv(v)
    <2>1. DOMAIN w.mail = w.mailHead .. w.mailNext - 1 /\ w.mailHead <= w.mailNext
        BY DEF Plane, MailInv
    <2>2. DOMAIN v.mail = v.mailHead .. v.mailNext - 1
        BY <1>8, <2>1, PlaneNats
    <2>3. v.mailHead \in Nat /\ v.mailNext \in Nat /\ v.mailHead <= v.mailNext
        BY <2>1, PlaneNats
    <2>4. \A n \in DOMAIN w.mail : w.mail[n] \in Ready(w)
        BY DEF Plane, MailInv
    <2>5. \A n \in DOMAIN v.mail : v.mail[n] \in Ready(v)
        BY <1>7, <1>8, <2>4
    <2>6. \A m, n \in DOMAIN v.mail : v.mail[m] = v.mail[n] => m = n
        BY <1>7, <1>8, <2>4 DEF Plane, MailInv
    <2>7. \A t \in Ready(v) : \E n \in DOMAIN v.mail : v.mail[n] = t
        <3>1. \A t \in Ready(w) : \E n \in DOMAIN w.mail : w.mail[n] = t
            BY DEF Plane, MailInv
        <3>. QED
            BY <1>7, <1>8, <3>1
    <2>. QED
        BY <1>8, <2>2, <2>3, <2>5, <2>6, <2>7 DEF MailInv
<1>10. ReservedInv(v)
    <2>1. IsFiniteSet(Waiting(w)) /\ Cardinality(Waiting(w)) \in Nat
        BY WaitingFinite DEF Plane
    <2>2. Cardinality(Waiting(w) \ {s}) = Cardinality(Waiting(w)) - 1
        BY <2>1, FS_RemoveElement
    <2>3. w.reserved = Cardinality(Waiting(w)) /\ w.mailNext + w.reserved <= MaxNumber
        BY DEF Plane, ReservedInv
    <2>4. w.mailNext \in Nat /\ MaxNumber \in Nat
        BY PlaneNats, DispatchAssumption
    <2>. QED
        BY <1>6, <2>1, <2>2, <2>3, <2>4 DEF ReservedInv
<1>11. \A n \in DOMAIN v.mail : n < w.mailNext => n \in DOMAIN w.mail /\ v.mail[n] = w.mail[n]
    BY <1>8, PlaneNats
<1>. QED
    BY <1>2, <1>3, <1>5, <1>6, <1>7, <1>9, <1>10, <1>11 DEF PostedIn

\* The saga of a dispatch ends and its outcome is posted in the same unit.
LEMMA EndsGrows ==
    ASSUME NEW w, Plane(w), NEW k \in Key, CanEnd(w, k), NEW o \in Outcome,
           NEW v, v = SagaEnds(w, k, o)
    PROVE  /\ Plane(v) /\ Grows(w, v) /\ v.effects = w.effects /\ v.consumed = w.consumed
           /\ v.callHead = w.callHead /\ v.mailHead = w.mailHead
           /\ k \in Waiting(w) /\ DOMAIN v.records = DOMAIN w.records
           /\ v.agreed = [w.agreed EXCEPT ![k] = o]
           /\ \A t \in DOMAIN w.records : t # k => v.records[t] = w.records[t]
           /\ v.records[k].delivery = None
<1>1. k \in Waiting(w) /\ k \notin Call
    BY DispatchAssumption DEF CanEnd, Plane, SagasInv
<1>2. w.records[k].status = "waiting" /\ k \in DOMAIN w.records
    BY <1>1 DEF Waiting
<1>3. v = [Posted(w, k, o) EXCEPT !.open = @ \ {k}, !.agreed[k] = o]
    BY <1>2 DEF SagaEnds, OnSagaCallback
<1>. DEFINE p == Posted(w, k, o)
<1>4. /\ IsWorld(p) /\ p.records = [w.records EXCEPT ![k] = PostRec(@, o)]
      /\ p.mail = With(w.mail, w.mailNext, k) /\ p.mailNext = w.mailNext + 1
      /\ p.mailHead = w.mailHead /\ p.reserved = w.reserved - 1
      /\ p.calls = w.calls /\ p.callHead = w.callHead /\ p.open = w.open
      /\ p.agreed = w.agreed /\ p.effects = w.effects /\ p.consumed = w.consumed
    BY DEF Plane, IsWorld, Posted, PostRec
<1>. HIDE DEF p
<1>5. /\ IsWorld(v) /\ v.records = p.records /\ v.mail = p.mail /\ v.mailNext = p.mailNext
      /\ v.mailHead = p.mailHead /\ v.reserved = p.reserved
      /\ v.calls = p.calls /\ v.callHead = p.callHead /\ v.open = p.open \ {k}
      /\ v.agreed = [p.agreed EXCEPT ![k] = o]
      /\ v.effects = p.effects /\ v.consumed = p.consumed
    BY <1>3, <1>4 DEF IsWorld, p
<1>6. /\ IsWorld(v) /\ v.records = [w.records EXCEPT ![k] = PostRec(@, o)]
      /\ v.mail = With(w.mail, w.mailNext, k) /\ v.mailNext = w.mailNext + 1
      /\ v.mailHead = w.mailHead /\ v.reserved = w.reserved - 1
    BY <1>4, <1>5
<1>7. /\ RecordsInv(v) /\ MailInv(v) /\ ReservedInv(v)
      /\ Waiting(v) = Waiting(w) \ {k} /\ Ready(v) = Ready(w) \cup {k}
      /\ DOMAIN v.records = DOMAIN w.records
      /\ \A t \in DOMAIN w.records : t # k => v.records[t] = w.records[t]
      /\ v.records[k].outcome = o /\ v.records[k].delivery = None
      /\ v.records[k].status = "ready"
      /\ \A n \in DOMAIN v.mail : n < w.mailNext => n \in DOMAIN w.mail /\ v.mail[n] = w.mail[n]
    <2>1. Posts(w, v, k, o)
        BY <1>1, <1>6 DEF Posts
    <2>2. PostedIn(w, v, k, o)
        BY <2>1, PostRecords
    <2>. QED
        BY <2>2 DEF PostedIn
<1>8. CallsInv(v)
    <2>1. v.calls = w.calls /\ v.callHead = w.callHead
        BY <1>4, <1>5
    <2>2. \A i \in 1 .. Len(w.calls) : w.calls[i] # k
        BY <1>1, PlaneNats
    <2>. QED
        BY <1>7, <2>1, <2>2 DEF Plane, CallsInv
<1>9. SagasInv(v)
    <2>1. w.agreed \in [Key -> Outcome \cup {None}] /\ w.open = Waiting(w) \cap Key
        BY DEF Plane, SagasInv
    <2>2. v.agreed = [w.agreed EXCEPT ![k] = o] /\ v.open = w.open \ {k}
        BY <1>4, <1>5
    <2>3. v.agreed \in [Key -> Outcome \cup {None}] /\ v.agreed[k] = o
        BY <2>1, <2>2
    <2>4. \A j \in Ready(v) \cap Key : v.records[j].outcome = v.agreed[j]
        <3>1. \A j \in Ready(w) \cap Key : j # k /\ w.records[j].outcome = w.agreed[j]
            BY <1>2 DEF Plane, SagasInv, Ready
        <3>2. \A j \in Ready(w) : j \in DOMAIN w.records
            BY DEF Ready
        <3>. QED
            BY <1>7, <2>1, <2>2, <2>3, <3>1, <3>2
    <2>. QED
        BY <1>7, <2>1, <2>2, <2>3, <2>4 DEF SagasInv
<1>10. Grows(w, v)
    <2>1. w.records[k].delivery = None /\ None # "applied"
        BY <1>2, DispatchAssumption DEF Plane, RecordsInv, Outcome
    <2>2. v.calls = w.calls
        BY <1>4, <1>5
    <2>3. w.mailNext <= v.mailNext
        BY <1>6, PlaneNats
    <2>. QED
        BY <1>1, <1>7, <2>1, <2>2, <2>3, PlaneNats DEF Grows
<1>. QED
    BY <1>1, <1>4, <1>5, <1>7, <1>8, <1>9, <1>10 DEF Plane

--------------------------------------------------------------------------------
(***************************************************************************)
(* Finalizing an entry                                                     *)
(***************************************************************************)
\* Of w's records v moves at most that of z, which was not handed over, and
\* which neither took effect nor was delivered.
Touches(w, v, z, y) ==
    /\ v.effects = w.effects /\ v.consumed = w.consumed
    /\ DOMAIN w.records \subseteq DOMAIN v.records
    /\ DOMAIN v.records \subseteq DOMAIN w.records \cup {z}
    /\ \A t \in DOMAIN w.records : t # z => v.records[t] = w.records[t]
    /\ \A t \in Key : t # z => v.agreed[t] = w.agreed[t]
    /\ z # y /\ z \in DOMAIN v.records
    /\ z \in DOMAIN w.records => w.records[z].delivery # "applied"
    /\ v.records[z].delivery # "applied"
    /\ z \in Call /\ z \in DOMAIN w.records => w.records[z].outcome # "applied"
    /\ z \in Call => v.records[z].outcome # "applied"

\* A subject whose record moves without an effect or a delivery leaves the
\* log as it was.
LEMMA LogStays ==
    ASSUME NEW w, NEW v, NEW x, NEW y, NEW z, LogInv(w, x, y), Touches(w, v, z, y),
           y \in DOMAIN w.records \cup {None}
    PROVE  LogInv(v, x, y)
<1>. USE DEF Touches
<1>1. \A c \in Call : (c \in DOMAIN v.records /\ v.records[c].outcome = "applied")
                         <=> (c \in DOMAIN w.records /\ w.records[c].outcome = "applied")
    OBVIOUS
<1>2. \A s \in Subject : (s \in DOMAIN v.records /\ v.records[s].delivery = "applied")
                            <=> (s \in DOMAIN w.records /\ w.records[s].delivery = "applied")
    OBVIOUS
<1>3. \A s \in Subject : (s = y \/ (s \in DOMAIN w.records /\ w.records[s].delivery = "applied"))
                            => Owed(v, s) = Owed(w, s)
    BY DispatchAssumption DEF Owed
<1>4. \A s \in Subject :
          v.consumed[s] = IF s = y \/ (s \in DOMAIN v.records /\ v.records[s].delivery = "applied")
                          THEN << Owed(v, s) >> ELSE <<>>
    BY <1>2, <1>3 DEF LogInv
<1>5. \A c \in Call :
          v.effects[c] = IF c = x \/ (c \in DOMAIN v.records /\ v.records[c].outcome = "applied")
                         THEN 1 ELSE 0
    BY <1>1 DEF LogInv
<1>. QED
    BY <1>4, <1>5 DEF LogInv

\* What finalizing leaves: the plane sound, its queue one further.
CallDone(w, v) ==
    /\ Plane(v) /\ Grows(w, v) /\ v.effects = w.effects /\ v.consumed = w.consumed
    /\ v.callHead = w.callHead + 1 /\ v.mailHead = w.mailHead

ItemDone(w, v) ==
    /\ Plane(v) /\ Grows(w, v) /\ v.effects = w.effects /\ v.consumed = w.consumed
    /\ v.callHead = w.callHead /\ v.mailHead = w.mailHead + 1

\* on_complete_call
LEMMA CompleteGrows ==
    ASSUME NEW w, Plane(w), NEW n, CanComplete(w, n), NEW o \in Outcome,
           NEW v, v = CompleteCall(w, n, o)
    PROVE  /\ CallDone(w, v)
           /\ o # "applied" /\ LogInv(w, None, None) => LogInv(v, None, None)
           /\ o = "applied" /\ LogInv(w, w.calls[n + 1], None) => LogInv(v, None, None)
<1>. DEFINE c == w.calls[n + 1]
            p == Posted(w, c, o)
<1>1. n = w.callHead /\ n \in Nat /\ n < Len(w.calls) /\ Len(w.calls) \in Nat
    BY PlaneNats DEF CanComplete
<1>2. n + 1 \in 1 .. Len(w.calls) /\ n + 1 > w.callHead
    BY <1>1
<1>3. c \in Call /\ c \in Waiting(w) /\ c \notin Key /\ c # None
    BY <1>2, PlaneNats, DispatchAssumption DEF Plane, CallsInv, Subject
<1>. HIDE DEF c
<1>4. /\ IsWorld(p) /\ p.records = [w.records EXCEPT ![c] = PostRec(@, o)]
      /\ p.mail = With(w.mail, w.mailNext, c) /\ p.mailNext = w.mailNext + 1
      /\ p.mailHead = w.mailHead /\ p.reserved = w.reserved - 1
      /\ p.calls = w.calls /\ p.callHead = w.callHead /\ p.open = w.open
      /\ p.agreed = w.agreed /\ p.effects = w.effects /\ p.consumed = w.consumed
    BY DEF Plane, IsWorld, Posted, PostRec
<1>5. v = [p EXCEPT !.callHead = n + 1]
    BY DEF CompleteCall, c
<1>. HIDE DEF p
<1>6. /\ IsWorld(v) /\ v.records = [w.records EXCEPT ![c] = PostRec(@, o)]
      /\ v.mail = With(w.mail, w.mailNext, c) /\ v.mailNext = w.mailNext + 1
      /\ v.mailHead = w.mailHead /\ v.reserved = w.reserved - 1
      /\ v.calls = w.calls /\ v.callHead = n + 1 /\ v.open = w.open
      /\ v.agreed = w.agreed /\ v.effects = w.effects /\ v.consumed = w.consumed
    BY <1>4, <1>5 DEF IsWorld
<1>7. PostedIn(w, v, c, o)
    <2>1. Posts(w, v, c, o)
        BY <1>3, <1>6 DEF Posts
    <2>. QED
        BY <2>1, PostRecords
<1>8. /\ RecordsInv(v) /\ MailInv(v) /\ ReservedInv(v)
      /\ Waiting(v) = Waiting(w) \ {c} /\ Ready(v) = Ready(w) \cup {c}
      /\ DOMAIN v.records = DOMAIN w.records
      /\ \A t \in DOMAIN w.records : t # c => v.records[t] = w.records[t]
      /\ v.records[c].outcome = o /\ v.records[c].delivery = None
      /\ \A m \in DOMAIN v.mail : m < w.mailNext => m \in DOMAIN w.mail /\ v.mail[m] = w.mail[m]
    BY <1>7 DEF PostedIn
<1>9. CallsInv(v)
    <2>1. w.calls \in Seq(Call) /\ v.callHead \in 0 .. Len(w.calls)
        BY <1>1, <1>6, PlaneNats
    <2>2. \A i, j \in 1 .. Len(w.calls) : w.calls[i] = w.calls[j] => i = j
        BY DEF Plane, CallsInv
    <2>3. ASSUME NEW i \in 1 .. Len(w.calls)
          PROVE  w.calls[i] \in DOMAIN w.records /\ (w.calls[i] \in Waiting(v) <=> i > n + 1)
        <3>1. w.calls[i] \in DOMAIN w.records /\ (w.calls[i] \in Waiting(w) <=> i > n)
            BY <1>1 DEF Plane, CallsInv
        <3>2. w.calls[i] = c <=> i = n + 1
            BY <1>2, <2>2 DEF c
        <3>3. i \in Nat
            BY <1>1
        <3>. QED
            BY <1>1, <1>8, <3>1, <3>2, <3>3
    <2>4. \A d \in DOMAIN w.records \cap Call : \E i \in 1 .. Len(w.calls) : w.calls[i] = d
        BY DEF Plane, CallsInv
    <2>. QED
        BY <1>6, <1>8, <2>1, <2>2, <2>3, <2>4 DEF CallsInv
<1>10. SagasInv(v)
    <2>1. \A j \in Ready(w) : j \in DOMAIN w.records
        BY DEF Ready
    <2>2. \A j \in Key : j # c
        BY <1>3
    <2>. QED
        BY <1>6, <1>8, <2>1, <2>2 DEF Plane, SagasInv
<1>11. c \in DOMAIN w.records /\ w.records[c].delivery = None /\ w.records[c].outcome = None
    BY <1>3 DEF Waiting, Plane, RecordsInv
<1>12. None # "applied"
    BY DispatchAssumption DEF Outcome
<1>13. Grows(w, v)
    <2>1. w.mailNext <= v.mailNext
        BY <1>6, PlaneNats
    <2>. QED
        BY <1>6, <1>8, <1>11, <1>12, <2>1, PlaneNats DEF Grows
<1>14. CallDone(w, v)
    BY <1>1, <1>6, <1>8, <1>9, <1>10, <1>13 DEF Plane, CallDone
<1>15. ASSUME o # "applied", LogInv(w, None, None) PROVE LogInv(v, None, None)
    <2>1. Touches(w, v, c, None)
        BY <1>3, <1>6, <1>8, <1>11, <1>12, <1>15 DEF Touches
    <2>. QED
        BY <1>15, <2>1, LogStays
<1>16. ASSUME o = "applied", LogInv(w, c, None) PROVE LogInv(v, None, None)
    <2>1. \A d \in Call :
             v.effects[d] = IF d = None \/ (d \in DOMAIN v.records /\ v.records[d].outcome = "applied")
                            THEN 1 ELSE 0
        <3>. SUFFICES ASSUME NEW d \in Call
                      PROVE  v.effects[d] = IF d = None \/ (d \in DOMAIN v.records /\ v.records[d].outcome = "applied")
                                            THEN 1 ELSE 0
            OBVIOUS
        <3>1. d # None
            BY DispatchAssumption DEF Subject
        <3>2. w.effects[d] = IF d = c \/ (d \in DOMAIN w.records /\ w.records[d].outcome = "applied")
                             THEN 1 ELSE 0
            BY <1>16 DEF LogInv
        <3>3. CASE d = c
            BY <1>6, <1>8, <1>11, <1>16, <3>2, <3>3
        <3>4. CASE d # c
            BY <1>6, <1>8, <3>1, <3>2, <3>4
        <3>. QED
            BY <3>3, <3>4
    <2>2. \A s \in Subject :
             v.consumed[s] = IF s = None \/ (s \in DOMAIN v.records /\ v.records[s].delivery = "applied")
                             THEN << Owed(v, s) >> ELSE <<>>
        <3>1. \A s \in Subject :
                 w.consumed[s] = IF s = None \/ (s \in DOMAIN w.records /\ w.records[s].delivery = "applied")
                                 THEN << Owed(w, s) >> ELSE <<>>
            BY <1>16 DEF LogInv
        <3>2. \A s \in Subject : (s \in DOMAIN v.records /\ v.records[s].delivery = "applied")
                                    <=> (s \in DOMAIN w.records /\ w.records[s].delivery = "applied")
            BY <1>8, <1>11, <1>12
        <3>3. \A s \in Subject : (s \in DOMAIN w.records /\ w.records[s].delivery = "applied")
                                    => Owed(v, s) = Owed(w, s)
            BY <1>6, <1>8, <1>11, <1>12 DEF Owed
        <3>4. \A s \in Subject : s # None
            BY DispatchAssumption
        <3>. QED
            BY <1>6, <3>1, <3>2, <3>3, <3>4
    <2>. QED
        BY <1>6, <1>16, <2>1, <2>2 DEF LogInv
<1>. QED
    BY <1>14, <1>15, <1>16 DEF c

AckRec(r, o, keep) == [status |-> "delivered", outcome |-> IF keep THEN r.outcome ELSE None,
                       delivery |-> o]

\* acknowledge: the head item is retired under its receipt.
LEMMA AcknowledgeGrows ==
    ASSUME NEW w, Plane(w), NEW n, CanAcknowledge(w, n), NEW o \in Receipt,
           NEW v, v = Acknowledge(w, n, o)
    PROVE  /\ ItemDone(w, v)
           /\ o # "applied" /\ LogInv(w, None, None) => LogInv(v, None, None)
           /\ o = "applied" /\ LogInv(w, None, w.mail[n]) => LogInv(v, None, None)
<1>. DEFINE s == w.mail[n]
            r == AckRec(w.records[s], o, s \notin Key)
<1>1. n = w.mailHead /\ n \in Nat /\ n < w.mailNext /\ w.mailNext \in Nat /\ n \in DOMAIN w.mail
    BY PlaneNats DEF CanAcknowledge
<1>2. s \in Ready(w) /\ s \in DOMAIN w.records /\ s \in Subject /\ s # None
    BY <1>1, DispatchAssumption DEF Plane, MailInv, RecordsInv, Ready
<1>3. w.records[s] \in Rec /\ w.records[s].status = "ready" /\ w.records[s].delivery = None
    BY <1>2 DEF Ready, Plane, RecordsInv
<1>4. /\ IsWorld(v) /\ v.records = [w.records EXCEPT ![s] = r]
      /\ v.mail = Restrict(w.mail, DOMAIN w.mail \ {n}) /\ v.mailNext = w.mailNext
      /\ v.mailHead = n + 1 /\ v.reserved = w.reserved
      /\ v.calls = w.calls /\ v.callHead = w.callHead /\ v.open = w.open
      /\ v.agreed = w.agreed /\ v.effects = w.effects /\ v.consumed = w.consumed
    BY DEF Plane, IsWorld, Acknowledge, AckRec
<1>. HIDE DEF s
<1>5. /\ r \in Rec /\ r.status = "delivered" /\ r.delivery = o
      /\ s \notin Key => r.outcome = w.records[s].outcome
    BY <1>3 DEF AckRec, Rec
<1>. HIDE DEF r
<1>6. /\ DOMAIN v.records = DOMAIN w.records /\ v.records[s] = r
      /\ \A t \in DOMAIN w.records : t # s => v.records[t] = w.records[t]
      /\ v.records \in [DOMAIN v.records -> Rec]
    BY <1>2, <1>4, <1>5 DEF Plane, RecordsInv
<1>7. RecordsInv(v)
    BY <1>5, <1>6 DEF Plane, RecordsInv
<1>8. Waiting(v) = Waiting(w)
    BY <1>3, <1>5, <1>6 DEF Waiting
<1>9. Ready(v) = Ready(w) \ {s}
    BY <1>3, <1>5, <1>6 DEF Ready
<1>10. /\ DOMAIN v.mail = DOMAIN w.mail \ {n} /\ \A m \in DOMAIN v.mail : v.mail[m] = w.mail[m]
       /\ v.mail = [m \in DOMAIN v.mail |-> v.mail[m]]
    BY <1>4 DEF Restrict
<1>11. MailInv(v)
    <2>1. /\ DOMAIN w.mail = w.mailHead .. w.mailNext - 1 /\ w.mailHead <= w.mailNext
          /\ \A m \in DOMAIN w.mail : w.mail[m] \in Ready(w)
          /\ \A m, q \in DOMAIN w.mail : w.mail[m] = w.mail[q] => m = q
          /\ \A t \in Ready(w) : \E m \in DOMAIN w.mail : w.mail[m] = t
        BY DEF Plane, MailInv
    <2>2. DOMAIN v.mail = v.mailHead .. v.mailNext - 1
        <3>1. \A m : m \in DOMAIN w.mail <=> m \in Int /\ n <= m /\ m <= w.mailNext - 1
            BY <1>1, <2>1
        <3>2. \A m : m \in DOMAIN v.mail <=> m \in DOMAIN w.mail /\ m # n
            BY <1>10
        <3>3. \A m : m \in v.mailHead .. v.mailNext - 1 <=> m \in Int /\ n + 1 <= m /\ m <= w.mailNext - 1
            BY <1>1, <1>4
        <3>4. \A m : m \in DOMAIN v.mail <=> m \in v.mailHead .. v.mailNext - 1
            BY <1>1, <3>1, <3>2, <3>3
        <3>. QED
            BY <3>4
    <2>3. v.mailHead \in Nat /\ v.mailNext \in Nat /\ v.mailHead <= v.mailNext
        BY <1>1, <1>4
    <2>4. \A m \in DOMAIN v.mail : v.mail[m] \in Ready(v)
        BY <1>1, <1>9, <1>10, <2>1 DEF s
    <2>5. \A t \in Ready(v) : \E m \in DOMAIN v.mail : v.mail[m] = t
        <3>. SUFFICES ASSUME NEW t \in Ready(v) PROVE \E m \in DOMAIN v.mail : v.mail[m] = t
            OBVIOUS
        <3>1. t \in Ready(w) /\ t # s
            BY <1>9
        <3>2. PICK m \in DOMAIN w.mail : w.mail[m] = t
            BY <2>1, <3>1
        <3>3. m # n
            BY <3>1, <3>2 DEF s
        <3>. QED
            BY <1>10, <3>2, <3>3
    <2>. QED
        BY <1>10, <2>1, <2>2, <2>3, <2>4, <2>5 DEF MailInv
<1>12. ReservedInv(v)
    BY <1>4, <1>8 DEF Plane, ReservedInv
<1>13. CallsInv(v)
    BY <1>4, <1>6, <1>8 DEF Plane, CallsInv
<1>14. SagasInv(v)
    <2>1. \A j \in Ready(w) : j \in DOMAIN w.records
        BY DEF Ready
    <2>. QED
        BY <1>4, <1>6, <1>8, <1>9, <2>1 DEF Plane, SagasInv
<1>15. None # "applied"
    BY DispatchAssumption DEF Outcome
<1>16. s \in Call => s \notin Key
    BY DispatchAssumption
<1>17. Grows(w, v)
    <2>1. \A m \in DOMAIN v.mail : m \in DOMAIN w.mail /\ v.mail[m] = w.mail[m]
        BY <1>10
    <2>2. \A t \in DOMAIN w.records :
             /\ w.records[t].delivery = "applied" => v.records[t].delivery = "applied"
             /\ t \in Call /\ w.records[t].outcome = "applied" => v.records[t].outcome = "applied"
        BY <1>3, <1>5, <1>6, <1>15, <1>16
    <2>3. Len(w.calls) <= Len(v.calls) /\ \A i \in 1 .. Len(w.calls) : v.calls[i] = w.calls[i]
        BY <1>4, PlaneNats
    <2>4. w.mailNext <= v.mailNext
        BY <1>1, <1>4
    <2>5. \A m \in DOMAIN v.mail : m < w.mailNext => m \in DOMAIN w.mail /\ v.mail[m] = w.mail[m]
        BY <2>1
    <2>. QED
        BY <1>6, <2>2, <2>3, <2>4, <2>5 DEF Grows
<1>18. ItemDone(w, v)
    BY <1>1, <1>4, <1>7, <1>11, <1>12, <1>13, <1>14, <1>17 DEF Plane, ItemDone
<1>19. ASSUME \/ o # "applied" /\ LogInv(w, None, None)
              \/ o = "applied" /\ LogInv(w, None, s)
       PROVE  LogInv(v, None, None)
    <2>1. \A c \in Call : (c \in DOMAIN v.records /\ v.records[c].outcome = "applied")
                             <=> (c \in DOMAIN w.records /\ w.records[c].outcome = "applied")
        BY <1>5, <1>6, <1>16
    <2>2. \A c \in Call : w.effects[c] = IF c = None \/ (c \in DOMAIN w.records /\ w.records[c].outcome = "applied")
                                         THEN 1 ELSE 0
        BY <1>19 DEF LogInv
    <2>3. ASSUME NEW t \in Subject
          PROVE  v.consumed[t] = IF t = None \/ (t \in DOMAIN v.records /\ v.records[t].delivery = "applied")
                                 THEN << Owed(v, t) >> ELSE <<>>
        <3>1. t # None
            BY DispatchAssumption
        <3>2. CASE t # s
            <4>1. w.consumed[t] = IF t \in DOMAIN w.records /\ w.records[t].delivery = "applied"
                                  THEN << Owed(w, t) >> ELSE <<>>
                BY <1>19, <3>1, <3>2 DEF LogInv
            <4>2. t \in DOMAIN w.records => Owed(v, t) = Owed(w, t)
                BY <1>4, <1>6, <3>2 DEF Owed
            <4>. QED
                BY <1>4, <1>6, <3>1, <3>2, <4>1, <4>2
        <3>3. CASE t = s
            <4>1. Owed(v, s) = Owed(w, s)
                BY <1>4, <1>5, <1>6 DEF Owed
            <4>2. CASE o = "applied"
                <5>1. w.consumed[s] = << Owed(w, s) >>
                    BY <1>2, <1>19, <4>2 DEF LogInv
                <5>. QED
                    BY <1>2, <1>4, <1>5, <1>6, <3>3, <4>1, <4>2, <5>1
            <4>3. CASE o # "applied"
                <5>1. w.consumed[s] = <<>>
                    BY <1>2, <1>3, <1>15, <1>19, <4>3 DEF LogInv
                <5>. QED
                    BY <1>2, <1>4, <1>5, <1>6, <3>3, <4>3, <5>1
            <4>. QED
                BY <4>2, <4>3
        <3>. QED
            BY <3>2, <3>3
    <2>4. v.effects \in [Call -> Nat] /\ v.consumed = [t \in Subject |-> v.consumed[t]]
        BY <1>4, <1>19 DEF LogInv
    <2>5. \A c \in Call : v.effects[c] = IF c = None \/ (c \in DOMAIN v.records /\ v.records[c].outcome = "applied")
                                         THEN 1 ELSE 0
        BY <1>4, <2>1, <2>2
    <2>. QED
        BY <2>3, <2>4, <2>5 DEF LogInv
<1>. QED
    BY <1>18, <1>19 DEF s

--------------------------------------------------------------------------------
(***************************************************************************)
(* What a unit may do                                                      *)
(***************************************************************************)
\* A unit that neither runs nor finalizes an entry.
Added(w, f) ==
    /\ Plane(f) /\ Grows(w, f) /\ f.effects = w.effects /\ f.consumed = w.consumed
    /\ f.callHead = w.callHead /\ f.mailHead = w.mailHead

LEMMA EndsAdds ==
    ASSUME NEW w, Plane(w), NEW k \in Key, CanEnd(w, k), NEW o \in Outcome,
           NEW x, NEW y, y \in Ready(w) \cup {None}
    PROVE  /\ Added(w, SagaEnds(w, k, o)) /\ y \in Ready(SagaEnds(w, k, o)) \cup {None}
           /\ LogInv(w, x, y) => LogInv(SagaEnds(w, k, o), x, y)
<1>. DEFINE v == SagaEnds(w, k, o)
<1>1. /\ Plane(v) /\ Grows(w, v) /\ v.effects = w.effects /\ v.consumed = w.consumed
      /\ v.callHead = w.callHead /\ v.mailHead = w.mailHead
      /\ k \in Waiting(w) /\ DOMAIN v.records = DOMAIN w.records
      /\ v.agreed = [w.agreed EXCEPT ![k] = o]
      /\ \A t \in DOMAIN w.records : t # k => v.records[t] = w.records[t]
      /\ v.records[k].delivery = None
    BY EndsGrows
<1>. HIDE DEF v
<1>2. Added(w, v)
    BY <1>1 DEF Added
<1>3. /\ k \in DOMAIN w.records /\ k # y /\ w.records[k].delivery = None
      /\ y \in DOMAIN w.records \cup {None} /\ k \notin Call /\ None # "applied"
    BY <1>1, DispatchAssumption DEF Waiting, Ready, Plane, RecordsInv, Outcome, Subject
<1>4. \A t \in Key : t # k => v.agreed[t] = w.agreed[t]
    BY <1>1 DEF Plane, SagasInv
<1>5. LogInv(w, x, y) => LogInv(v, x, y)
    <2>1. Touches(w, v, k, y)
        BY <1>1, <1>3, <1>4 DEF Touches
    <2>. QED
        BY <1>3, <2>1, LogStays
<1>6. y \in Ready(v) \cup {None}
    BY <1>1, <1>3 DEF Ready, Waiting
<1>. QED
    BY <1>2, <1>5, <1>6 DEF v

\* One emitted message adds to the plane; an outcome about to be taken in
\* stays ready.
LEMMA EmitAdds ==
    ASSUME NEW w, Plane(w), NEW f \in Emits(w), NEW x, NEW y, y \in Ready(w) \cup {None}
    PROVE  /\ Added(w, f) /\ y \in Ready(f) \cup {None}
           /\ LogInv(w, x, y) => LogInv(f, x, y)
<1>0. y \in DOMAIN w.records \cup {None} /\ None # "applied" /\ None \notin Subject
    BY DispatchAssumption DEF Ready, Outcome
<1>1. CASE f = w
    BY <1>1, GrowsRefl DEF Added
<1>2. ASSUME NEW z \in Subject, z \notin DOMAIN w.records,
             Plane(f) /\ Grows(w, f) /\ f.effects = w.effects /\ f.consumed = w.consumed
             /\ f.callHead = w.callHead /\ f.mailHead = w.mailHead /\ f.agreed = w.agreed
             /\ DOMAIN f.records = DOMAIN w.records \cup {z} /\ f.records[z] = NewRec
             /\ \A t \in DOMAIN w.records : f.records[t] = w.records[t]
      PROVE  /\ Added(w, f) /\ y \in Ready(f) \cup {None}
             /\ LogInv(w, x, y) => LogInv(f, x, y)
    <2>1. Added(w, f)
        BY <1>2 DEF Added
    <2>2. z # y /\ f.records[z].delivery # "applied" /\ f.records[z].outcome # "applied"
        BY <1>0, <1>2 DEF NewRec
    <2>3. LogInv(w, x, y) => LogInv(f, x, y)
        <3>1. Touches(w, f, z, y)
            BY <1>0, <1>2, <2>2 DEF Touches
        <3>. QED
            BY <1>0, <3>1, LogStays
    <2>4. y \in Ready(f) \cup {None}
        BY <1>2 DEF Ready
    <2>. QED
        BY <2>1, <2>3, <2>4
<1>3. ASSUME NEW k \in Key, CanDispatch(w, k), f = OnDispatch(w, k)
      PROVE  /\ Added(w, f) /\ y \in Ready(f) \cup {None}
             /\ LogInv(w, x, y) => LogInv(f, x, y)
    <2>1. k \in Subject /\ k \notin DOMAIN w.records
        BY <1>3 DEF CanDispatch, Subject
    <2>. QED
        BY <1>2, <1>3, <2>1, DispatchGrows
<1>4. ASSUME NEW c \in Call, CanCall(w, c), f = OnCall(w, c)
      PROVE  /\ Added(w, f) /\ y \in Ready(f) \cup {None}
             /\ LogInv(w, x, y) => LogInv(f, x, y)
    <2>1. c \in Subject /\ c \notin DOMAIN w.records
        BY <1>4 DEF CanCall, Subject
    <2>. QED
        BY <1>2, <1>4, <2>1, CallGrows
<1>5. ASSUME NEW k \in Key, CanEnd(w, k), f = OnCancel(w, k)
      PROVE  /\ Added(w, f) /\ y \in Ready(f) \cup {None}
             /\ LogInv(w, x, y) => LogInv(f, x, y)
    <2>1. "err" \in Outcome
        BY DEF Outcome
    <2>. QED
        BY <1>5, <2>1, EndsAdds DEF OnCancel
<1>. QED
    BY <1>1, <1>3, <1>4, <1>5 DEF Emits

LEMMA FollowUpAdds ==
    ASSUME NEW w, Plane(w), NEW f \in FollowUps(w), NEW x, NEW y, y \in Ready(w) \cup {None}
    PROVE  /\ Added(w, f)
           /\ LogInv(w, x, y) => LogInv(f, x, y)
<1>1. PICK v \in Emits(w) : f \in Emits(v)
    BY DEF FollowUps
<1>2. Added(w, v) /\ y \in Ready(v) \cup {None} /\ (LogInv(w, x, y) => LogInv(v, x, y))
    BY <1>1, EmitAdds
<1>3. Plane(v)
    BY <1>2 DEF Added
<1>4. Added(v, f) /\ (LogInv(v, x, y) => LogInv(f, x, y))
    BY <1>1, <1>2, <1>3, EmitAdds
<1>5. Plane(f) /\ Grows(w, v) /\ Grows(v, f)
    BY <1>2, <1>4 DEF Added
<1>6. Grows(w, f)
    BY <1>3, <1>5, GrowsTrans
<1>. QED
    BY <1>2, <1>4, <1>6 DEF Added


--------------------------------------------------------------------------------
(***************************************************************************)
(* Running an entry                                                        *)
(***************************************************************************)
\* e is the head of its queue.
AtHead(w, e) ==
    /\ e.kind \in {"call", "item"}
    /\ e.kind = "call" => e.number = w.callHead /\ e.number < Len(w.calls)
    /\ e.kind = "item" => e.number = w.mailHead /\ e.number < w.mailNext

\* The subject e is about.
About(w, e) == IF e.kind = "call" THEN w.calls[e.number + 1] ELSE w.mail[e.number]

\* r differs from w in effects and deliveries alone.
SameQueues(w, r) ==
    /\ IsWorld(r)
    /\ r.records = w.records /\ r.mail = w.mail /\ r.mailNext = w.mailNext
    /\ r.mailHead = w.mailHead /\ r.reserved = w.reserved /\ r.calls = w.calls
    /\ r.callHead = w.callHead /\ r.open = w.open /\ r.agreed = w.agreed

LEMMA SameQueuesPlane ==
    ASSUME NEW w, NEW r, Plane(w), SameQueues(w, r)
    PROVE  Plane(r) /\ Grows(w, r)
<1>. USE DEF SameQueues
<1>1. Waiting(r) = Waiting(w) /\ Ready(r) = Ready(w)
    BY DEF Waiting, Ready
<1>2. RecordsInv(r)
    BY DEF Plane, RecordsInv
<1>3. MailInv(r)
    <2>1. /\ r.mail = w.mail /\ r.mailNext = w.mailNext /\ r.mailHead = w.mailHead
          /\ Ready(r) = Ready(w) /\ MailInv(w)
        BY <1>1 DEF Plane
    <2>. HIDE DEF SameQueues
    <2>. QED
        BY <2>1, ZenonT(30) DEF MailInv
<1>4. ReservedInv(r)
    BY <1>1 DEF Plane, ReservedInv
<1>5. CallsInv(r)
    BY <1>1 DEF Plane, CallsInv
<1>6. SagasInv(r)
    BY <1>1 DEF Plane, SagasInv
<1>7. Grows(w, r)
    BY PlaneNats DEF Grows
<1>. QED
    BY <1>2, <1>3, <1>4, <1>5, <1>6, <1>7 DEF Plane

\* The head call is waiting, the head item ready.
LEMMA HeadIsOpen ==
    ASSUME NEW w, Plane(w), NEW e, AtHead(w, e)
    PROVE  /\ e.number \in Nat /\ About(w, e) \in Subject /\ About(w, e) # None
           /\ About(w, e) \in DOMAIN w.records
           /\ e.kind = "call" => About(w, e) \in Call /\ About(w, e) \in Waiting(w)
           /\ e.kind = "item" => e.number \in DOMAIN w.mail /\ About(w, e) \in Ready(w)
<1>1. e.number \in Nat
    BY PlaneNats DEF AtHead
<1>2. CASE e.kind = "call"
    <2>1. e.number + 1 \in 1 .. Len(w.calls) /\ e.number + 1 > w.callHead
        BY <1>1, <1>2, PlaneNats DEF AtHead
    <2>2. About(w, e) \in Call /\ About(w, e) \in Waiting(w)
        BY <1>2, <2>1, PlaneNats DEF About, Plane, CallsInv
    <2>. QED
        BY <1>1, <1>2, <2>2, DispatchAssumption DEF Subject, Waiting
<1>3. CASE e.kind = "item"
    <2>1. e.number \in DOMAIN w.mail
        BY <1>1, <1>3, PlaneNats DEF AtHead, Plane, MailInv
    <2>2. About(w, e) \in Ready(w)
        BY <1>3, <2>1 DEF About, Plane, MailInv
    <2>3. About(w, e) \in DOMAIN w.records /\ About(w, e) \in Subject
        BY <2>2 DEF Ready, Plane, RecordsInv
    <2>. QED
        BY <1>1, <1>3, <2>1, <2>2, <2>3, DispatchAssumption
<1>. QED
    BY <1>2, <1>3 DEF AtHead

\* The head of a queue can always be finalized: a call's completion has its
\* number, an item's record its outcome.
LEMMA HeadRetires ==
    ASSUME NEW w, Plane(w), NEW e, AtHead(w, e)
    PROVE  CanRetire(w, e)
<1>1. CASE e.kind = "call"
    <2>1. CanPost(w, w.calls[e.number + 1])
        BY <1>1, HeadIsOpen, WaitingPosts DEF About
    <2>. QED
        BY <1>1, <2>1 DEF CanRetire, CanComplete, AtHead
<1>2. CASE e.kind = "item"
    <2>1. e.number \in DOMAIN w.mail /\ w.mail[e.number] \in Ready(w)
        BY <1>2, HeadIsOpen DEF About
    <2>2. w.records[w.mail[e.number]].outcome # None
        BY <2>1 DEF Ready, Plane, RecordsInv
    <2>. QED
        BY <1>2, <2>1, <2>2 DEF CanRetire, CanAcknowledge, AtHead
<1>. QED
    BY <1>1, <1>2 DEF AtHead

\* The log with the entry e run and not yet finalized.
LogOf(w, e, s) == IF e.kind = "call" THEN LogInv(w, s, None) ELSE LogInv(w, None, s)

\* Only e's subject has run or been handed over since w.
OnlyRuns(w, v, e) ==
    /\ \A c \in Call : v.effects[c] > w.effects[c] => e.kind = "call" /\ c = About(w, e)
    /\ \A s \in Subject :
          Len(v.consumed[s]) > Len(w.consumed[s]) => e.kind = "item" /\ s = About(w, e)

\* The entry's op touches nothing but its log.
LEMMA RanLogs ==
    ASSUME NEW w, Sound(w), NEW e, AtHead(w, e), NEW r, r = Ran(w, e)
    PROVE  SameQueues(w, r) /\ LogOf(r, e, About(w, e)) /\ OnlyRuns(w, r, e)
<1>. DEFINE s == About(w, e)
<1>1. Plane(w) /\ LogInv(w, None, None) /\ IsWorld(w)
    BY DEF Sound, Plane
<1>2. /\ s \in Subject /\ s # None /\ s \in DOMAIN w.records
      /\ e.kind = "call" => s \in Call /\ s \in Waiting(w)
      /\ e.kind = "item" => s \in Ready(w)
    BY <1>1, HeadIsOpen
<1>3. None # "applied" /\ None \notin Subject
    BY DispatchAssumption DEF Outcome
<1>4. /\ w.effects \in [Call -> Nat]
      /\ w.consumed = [t \in Subject |-> w.consumed[t]]
      /\ \A c \in Call : w.effects[c] = IF c \in DOMAIN w.records /\ w.records[c].outcome = "applied" THEN 1 ELSE 0
      /\ \A t \in Subject : w.consumed[t] = IF t \in DOMAIN w.records /\ w.records[t].delivery = "applied"
                                            THEN << Owed(w, t) >> ELSE <<>>
    BY <1>1, <1>3 DEF LogInv, Subject
<1>5. CASE e.kind = "call"
    <2>1. SameQueues(w, r) /\ r.effects = [w.effects EXCEPT ![s] = @ + 1] /\ r.consumed = w.consumed
        BY <1>1, <1>5 DEF Ran, About, SameQueues, IsWorld
    <2>. HIDE DEF s
    <2>2. w.records[s].outcome = None
        BY <1>1, <1>2, <1>5 DEF Waiting, Plane, RecordsInv
    <2>3. w.effects[s] = 0 /\ r.effects[s] = 1 /\ r.effects \in [Call -> Nat]
        BY <1>2, <1>3, <1>4, <1>5, <2>1, <2>2
    <2>4. \A c \in Call : c # s => r.effects[c] = w.effects[c]
        BY <1>4, <2>1
    <2>5. \A t \in Subject : Owed(r, t) = Owed(w, t)
        BY <2>1 DEF SameQueues, Owed
    <2>6. LogInv(r, s, None)
        <3>1. \A c \in Call : r.effects[c] = IF c = s \/ (c \in DOMAIN r.records /\ r.records[c].outcome = "applied")
                                             THEN 1 ELSE 0
            BY <1>4, <2>1, <2>3, <2>4 DEF SameQueues
        <3>2. \A t \in Subject : r.consumed[t] = IF t = None \/ (t \in DOMAIN r.records /\ r.records[t].delivery = "applied")
                                                 THEN << Owed(r, t) >> ELSE <<>>
            BY <1>3, <1>4, <2>1, <2>5 DEF SameQueues
        <3>. QED
            BY <1>4, <2>1, <2>3, <3>1, <3>2 DEF LogInv
    <2>7. OnlyRuns(w, r, e)
        <3>1. \A c \in Call : c # s => ~ (r.effects[c] > w.effects[c])
            BY <1>4, <2>4
        <3>2. \A t \in Subject : Len(w.consumed[t]) \in Nat
            BY <1>4
        <3>3. \A t \in Subject : ~ (Len(r.consumed[t]) > Len(w.consumed[t]))
            BY <2>1, <3>2
        <3>. QED
            BY <1>5, <3>1, <3>3 DEF OnlyRuns, s
    <2>. QED
        BY <1>5, <2>1, <2>6, <2>7 DEF LogOf, s
<1>6. CASE e.kind = "item"
    <2>1. /\ SameQueues(w, r) /\ r.effects = w.effects
          /\ r.consumed = [w.consumed EXCEPT ![s] = Append(@, w.records[s].outcome)]
        BY <1>1, <1>6 DEF Ran, About, SameQueues, IsWorld
    <2>. HIDE DEF s
    <2>2. w.records[s].delivery = None /\ w.records[s].outcome = Owed(w, s)
        BY <1>1, <1>2, <1>6 DEF Ready, Plane, RecordsInv, SagasInv, Owed
    <2>3. w.consumed[s] = <<>>
        BY <1>2, <1>3, <1>4, <2>2
    <2>4. r.consumed[s] = << Owed(w, s) >> /\ r.consumed = [t \in Subject |-> r.consumed[t]]
        <3>1. r.consumed[s] = Append(<<>>, Owed(w, s))
            BY <1>2, <1>4, <2>1, <2>2, <2>3
        <3>2. Append(<<>>, Owed(w, s)) = << Owed(w, s) >>
            OBVIOUS
        <3>. QED
            BY <1>4, <2>1, <3>1, <3>2
    <2>5. \A t \in Subject : t # s => r.consumed[t] = w.consumed[t]
        BY <1>4, <2>1
    <2>6. \A t \in Subject : Owed(r, t) = Owed(w, t)
        BY <2>1 DEF SameQueues, Owed
    <2>7. LogInv(r, None, s)
        <3>1. \A c \in Call : r.effects[c] = IF c = None \/ (c \in DOMAIN r.records /\ r.records[c].outcome = "applied")
                                             THEN 1 ELSE 0
            BY <1>3, <1>4, <2>1 DEF SameQueues, Subject
        <3>2. \A t \in Subject : r.consumed[t] = IF t = s \/ (t \in DOMAIN r.records /\ r.records[t].delivery = "applied")
                                                 THEN << Owed(r, t) >> ELSE <<>>
            <4>1. r.records = w.records
                BY <2>1 DEF SameQueues
            <4>2. \A t \in Subject : t = s => r.consumed[t] = << Owed(r, t) >>
                BY <2>4, <2>6
            <4>3. \A t \in Subject : t # s => r.consumed[t] = IF t \in DOMAIN r.records /\ r.records[t].delivery = "applied"
                                                               THEN << Owed(r, t) >> ELSE <<>>
                BY <1>4, <2>5, <2>6, <4>1
            <4>. QED
                BY <4>2, <4>3
        <3>. QED
            BY <1>4, <2>1, <2>4, <3>1, <3>2 DEF LogInv
    <2>8. OnlyRuns(w, r, e)
        <3>1. \A c \in Call : ~ (r.effects[c] > w.effects[c])
            BY <1>4, <2>1
        <3>2. \A t \in Subject : Len(w.consumed[t]) \in Nat
            BY <1>4
        <3>3. \A t \in Subject : t # s => ~ (Len(r.consumed[t]) > Len(w.consumed[t]))
            BY <2>5, <3>2
        <3>. QED
            BY <1>6, <3>1, <3>3 DEF OnlyRuns, s
    <2>. QED
        BY <1>6, <2>1, <2>7, <2>8 DEF LogOf, s
<1>. QED
    BY <1>5, <1>6 DEF AtHead

\* The queue of e is one entry further, the other where it was.
HeadMoved(w, v, e) ==
    /\ v.callHead = IF e.kind = "call" THEN w.callHead + 1 ELSE w.callHead
    /\ v.mailHead = IF e.kind = "item" THEN w.mailHead + 1 ELSE w.mailHead

\* What an entry may be finalized as.
Marks(e) == IF e.kind = "call" THEN Outcome ELSE Receipt

\* Finalizing the head entry, having run it just when it counts as applied.
LEMMA RetireMoves ==
    ASSUME NEW w, Plane(w), NEW e, AtHead(w, e), NEW o \in Marks(e),
           IF o = "applied" THEN LogOf(w, e, About(w, e)) ELSE LogInv(w, None, None),
           NEW v, v = Retire(w, e, o)
    PROVE  /\ Sound(v) /\ Grows(w, v) /\ HeadMoved(w, v, e)
           /\ v.effects = w.effects /\ v.consumed = w.consumed
<1>1. CanRetire(w, e)
    BY HeadRetires
<1>2. CASE e.kind = "call"
    <2>1. CanComplete(w, e.number) /\ v = CompleteCall(w, e.number, o) /\ o \in Outcome
        BY <1>1, <1>2 DEF CanRetire, Retire, Marks
    <2>2. IF o = "applied" THEN LogInv(w, w.calls[e.number + 1], None) ELSE LogInv(w, None, None)
        BY <1>2 DEF LogOf, About
    <2>3. CallDone(w, v) /\ LogInv(v, None, None)
        BY <2>1, <2>2, CompleteGrows
    <2>. QED
        BY <1>2, <2>3 DEF CallDone, HeadMoved, Sound
<1>3. CASE e.kind = "item"
    <2>1. CanAcknowledge(w, e.number) /\ v = Acknowledge(w, e.number, o) /\ o \in Receipt
        BY <1>1, <1>3 DEF CanRetire, Retire, Marks
    <2>2. IF o = "applied" THEN LogInv(w, None, w.mail[e.number]) ELSE LogInv(w, None, None)
        BY <1>3 DEF LogOf, About
    <2>3. ItemDone(w, v) /\ LogInv(v, None, None)
        BY <2>1, <2>2, AcknowledgeGrows
    <2>. QED
        BY <1>3, <2>3 DEF ItemDone, HeadMoved, Sound
<1>. QED
    BY <1>2, <1>3 DEF AtHead

\* How an attempt at the entry e may end: finalized, or left queued with the
\* budget exhausted.
RunEnd(w, e, v, q) ==
    /\ Sound(v) /\ Grows(w, v) /\ OnlyRuns(w, v, e)
    /\ q \in 0 .. MaxReplays + 1
    /\ ~ BudgetExhausted(q) => HeadMoved(w, v, e)

\* A world is as it was.
LEMMA OnlyRunsRefl ==
    ASSUME NEW w, Sound(w), NEW v, v.effects = w.effects, v.consumed = w.consumed, NEW e
    PROVE  OnlyRuns(w, v, e)
<1>1. \A c \in Call : w.effects[c] \in Nat
    BY DEF Sound, LogInv
<1>2. \A s \in Subject : Len(w.consumed[s]) \in Nat
    <2>1. \A s \in Subject : w.consumed[s] = <<>> \/ w.consumed[s] = << Owed(w, s) >>
        BY DEF Sound, LogInv
    <2>. QED
        BY <2>1
<1>. QED
    BY <1>1, <1>2 DEF OnlyRuns

\* The marker and the recorded outcome.
LEMMA MarkedEnds ==
    ASSUME NEW w, Sound(w), NEW e, AtHead(w, e), NEW r \in 0 .. MaxReplays + 1, NEW o \in Marks(e),
           o # "applied"
    PROVE  /\ RunEnd(w, e, w, MaxReplays + 1)
           /\ ~ BudgetExhausted(r) => RunEnd(w, e, Retire(w, e, o), r)
<1>1. MaxReplays \in Nat
    BY DispatchAssumption
<1>2. Plane(w) /\ LogInv(w, None, None)
    BY DEF Sound
<1>3. RunEnd(w, e, w, MaxReplays + 1)
    BY <1>1, <1>2, GrowsRefl, OnlyRunsRefl DEF RunEnd, BudgetExhausted
<1>4. /\ Sound(Retire(w, e, o)) /\ Grows(w, Retire(w, e, o)) /\ HeadMoved(w, Retire(w, e, o), e)
      /\ Retire(w, e, o).effects = w.effects /\ Retire(w, e, o).consumed = w.consumed
    BY <1>2, RetireMoves
<1>5. RunEnd(w, e, Retire(w, e, o), r)
    BY <1>4, OnlyRunsRefl DEF RunEnd
<1>. QED
    BY <1>3, <1>5

LEMMA MarkedRun ==
    ASSUME NEW w, Sound(w), NEW e, AtHead(w, e), NEW r \in 0 .. MaxReplays + 1
    PROVE  RunEnd(w, e, Marked(w, r, e)[1], Marked(w, r, e)[2])
<1>1. MaxReplays \in Nat /\ "unrepresentable" \in Marks(e)
    BY DispatchAssumption DEF Marks, Outcome, Receipt
<1>2. CASE BudgetExhausted(r)
    <2>1. r = MaxReplays + 1
        BY <1>1, <1>2 DEF BudgetExhausted
    <2>2. Marked(w, r, e)[1] = w /\ Marked(w, r, e)[2] = MaxReplays + 1
        BY <1>2, <2>1 DEF Marked
    <2>. QED
        BY <1>1, <2>2, MarkedEnds
<1>3. CASE ~ BudgetExhausted(r)
    <2>1. CanRetire(w, e)
        BY HeadRetires DEF Sound
    <2>2. Marked(w, r, e)[1] = Retire(w, e, "unrepresentable") /\ Marked(w, r, e)[2] = r
        BY <1>3, <2>1 DEF Marked
    <2>. QED
        BY <1>1, <1>3, <2>2, MarkedEnds
<1>. QED
    BY <1>2, <1>3

LEMMA FinalizedRun ==
    ASSUME NEW w, Sound(w), NEW e, AtHead(w, e), NEW r \in 0 .. MaxReplays + 1, NEW o \in Marks(e),
           o # "applied", NEW fits
    PROVE  RunEnd(w, e, Finalized(w, r, e, o, fits)[1], Finalized(w, r, e, o, fits)[2])
<1>. DEFINE F == Finalized(w, r, e, o, fits)
<1>1. MaxReplays \in Nat
    BY DispatchAssumption
<1>2. CASE BudgetExhausted(r)
    <2>1. r = MaxReplays + 1
        BY <1>1, <1>2 DEF BudgetExhausted
    <2>2. F[1] = w /\ F[2] = MaxReplays + 1
        BY <1>2, <2>1 DEF Finalized
    <2>. QED
        BY <1>1, <2>2, MarkedEnds
<1>3. CASE ~ BudgetExhausted(r) /\ fits /\ CanRetire(w, e)
    <2>1. F[1] = Retire(w, e, o) /\ F[2] = r
        BY <1>3 DEF Finalized
    <2>. QED
        BY <1>3, <2>1, MarkedEnds
<1>4. CASE ~ BudgetExhausted(r) /\ ~ (fits /\ CanRetire(w, e))
    <2>1. F = Marked(w, r + 1, e)
        BY <1>4 DEF Finalized
    <2>2. r + 1 \in 0 .. MaxReplays + 1
        BY <1>1, <1>4 DEF BudgetExhausted
    <2>. QED
        BY <2>1, <2>2, MarkedRun
<1>. QED
    BY <1>2, <1>3, <1>4

\* The op applies with its finalizer in its unit.
LEMMA AppliedRun ==
    ASSUME NEW w, Sound(w), NEW e, AtHead(w, e), NEW r \in 0 .. MaxReplays, NEW end \in Applied(w, r, e)
    PROVE  RunEnd(w, e, end[1], end[2])
<1>. DEFINE g == Ran(w, e)
            s == About(w, e)
<1>a. CASE end = Marked(w, r + 1, e)
    <2>1. r + 1 \in 0 .. MaxReplays + 1
        BY DispatchAssumption
    <2>. QED
        BY <1>a, <2>1, MarkedRun
<1>. SUFFICES ASSUME end # Marked(w, r + 1, e) PROVE RunEnd(w, e, end[1], end[2])
    BY <1>a
<1>1. PICK f \in FollowUps(g) : end = <<Retire(f, e, "applied"), r>>
    BY DEF Applied
<1>2. SameQueues(w, g) /\ LogOf(g, e, s) /\ OnlyRuns(w, g, e)
    BY RanLogs
<1>3. Plane(w) /\ Plane(g) /\ Grows(w, g)
    BY <1>2, SameQueuesPlane DEF Sound
<1>4. e.kind \in {"call", "item"}
    BY DEF AtHead
<1>5. s \in Ready(g) \/ e.kind = "call"
    <2>1. e.kind = "item" => s \in Ready(w)
        BY <1>3, HeadIsOpen
    <2>2. Ready(g) = Ready(w)
        BY <1>2 DEF SameQueues, Ready
    <2>. QED
        BY <1>4, <2>1, <2>2
<1>6. g.callHead = w.callHead /\ g.mailHead = w.mailHead /\ g.calls = w.calls /\ g.mail = w.mail
      /\ g.mailNext = w.mailNext
    BY <1>2 DEF SameQueues
<1>. HIDE DEF g, s
<1>7. Added(g, f) /\ LogOf(f, e, s)
    <2>1. CASE e.kind = "call"
        BY <1>2, <1>3, <2>1, FollowUpAdds DEF LogOf
    <2>2. CASE e.kind = "item"
        BY <1>2, <1>3, <1>5, <2>2, FollowUpAdds DEF LogOf
    <2>. QED
        BY <1>4, <2>1, <2>2
<1>8. /\ Plane(f) /\ Grows(g, f) /\ f.effects = g.effects /\ f.consumed = g.consumed
      /\ f.callHead = w.callHead /\ f.mailHead = w.mailHead
    BY <1>6, <1>7 DEF Added
<1>9. Len(w.calls) <= Len(f.calls) /\ w.mailNext <= f.mailNext
    BY <1>6, <1>8 DEF Grows
<1>10. AtHead(f, e)
    BY <1>3, <1>8, <1>9, PlaneNats DEF AtHead
<1>11. About(f, e) = s
    <2>1. CASE e.kind = "call"
        <3>1. e.number + 1 \in 1 .. Len(w.calls)
            BY <1>3, <2>1, PlaneNats DEF AtHead
        <3>. QED
            BY <1>6, <1>8, <2>1, <3>1 DEF About, Grows, s
    <2>2. CASE e.kind = "item"
        <3>1. e.number \in DOMAIN f.mail
            BY <1>8, <1>10, <2>2, HeadIsOpen
        <3>2. e.number < g.mailNext
            BY <1>6, <2>2 DEF AtHead
        <3>. QED
            BY <1>6, <1>8, <2>2, <3>1, <3>2 DEF About, Grows, s
    <2>. QED
        BY <1>4, <2>1, <2>2
<1>12. end[1] = Retire(f, e, "applied") /\ end[2] = r
    BY <1>1
<1>13. "applied" \in Marks(e)
    BY DEF Marks, Outcome, Receipt
<1>14. /\ Sound(end[1]) /\ Grows(f, end[1]) /\ HeadMoved(f, end[1], e)
       /\ end[1].effects = f.effects /\ end[1].consumed = f.consumed
    BY <1>7, <1>8, <1>10, <1>11, <1>12, <1>13, RetireMoves
<1>15. Grows(w, end[1])
    <2>1. Grows(w, f)
        BY <1>3, <1>8, GrowsTrans
    <2>. QED
        BY <1>3, <1>8, <1>14, <2>1, GrowsTrans DEF Sound
<1>16. HeadMoved(w, end[1], e)
    BY <1>8, <1>14 DEF HeadMoved
<1>17. OnlyRuns(w, end[1], e)
    BY <1>2, <1>8, <1>14 DEF OnlyRuns
<1>18. r \in 0 .. MaxReplays + 1
    BY DispatchAssumption
<1>. QED
    BY <1>12, <1>14, <1>15, <1>16, <1>17, <1>18 DEF RunEnd

\* run_call and run_delivery: an attempt within the budget finalizes the head
\* entry or uses the budget up.
LEMMA AttemptRun ==
    ASSUME NEW w, Sound(w), NEW e, AtHead(w, e), NEW r \in 0 .. MaxReplays,
           NEW end \in Applied(w, r, e) \cup Rejected(w, r, e) \cup Refused(w, r, e)
    PROVE  RunEnd(w, e, end[1], end[2])
<1>1. MaxReplays \in Nat /\ e.kind \in {"call", "item"}
    BY DispatchAssumption DEF AtHead
<1>2. CASE end \in Applied(w, r, e)
    BY <1>2, AppliedRun
<1>3. CASE end \in Rejected(w, r, e)
    <2>. DEFINE o == IF e.kind = "call" THEN "rejected" ELSE "failed"
    <2>1. PICK cost \in {0, 1}, fits \in BOOLEAN : end = Finalized(w, r + cost, e, o, fits)
        BY <1>3 DEF Rejected
    <2>2. o \in Marks(e) /\ o # "applied"
        BY DEF Marks, Outcome, Receipt
    <2>3. r + cost \in 0 .. MaxReplays + 1
        BY <1>1
    <2>. HIDE DEF o
    <2>. QED
        BY <2>1, <2>2, <2>3, FinalizedRun
<1>4. CASE end \in Refused(w, r, e)
    <2>1. e.kind = "call" /\ end = Finalized(w, r, e, "refused", TRUE)
        BY <1>4 DEF Refused
    <2>2. "refused" \in Marks(e) /\ r \in 0 .. MaxReplays + 1
        BY <1>1, <2>1 DEF Marks, Outcome
    <2>. QED
        BY <2>1, <2>2, FinalizedRun
<1>. QED
    BY <1>2, <1>3, <1>4

--------------------------------------------------------------------------------
(***************************************************************************)
(* The block engine                                                        *)
(***************************************************************************)
\* t is what is left of the batch prepared from c: calls from the staged head
\* on, then items from the staged head on, all queued in c.
LeftOf(t, w, c, a, b) ==
    /\ Len(t) = a + b
    /\ \A i \in 1 .. a : t[i] = [kind |-> "call", number |-> w.callHead + i - 1]
    /\ \A i \in 1 .. b : t[a + i] = [kind |-> "item", number |-> w.mailHead + i - 1]
    /\ w.callHead + a <= Len(c.calls) /\ w.mailHead + b <= c.mailNext
    /\ c.callHead <= w.callHead

Left(t, w, c) == \E a, b \in Nat : LeftOf(t, w, c, a, b)

BlockTypes ==
    /\ phase \in {"idle", "members", "work"}
    /\ todo \in Seq(Entry) /\ Len(todo) <= 2 * MaxPerBlock
    /\ replays \in 0 .. MaxReplays + 1
    /\ faults \in 0 .. MaxFaults

\* The inductive invariant.
DispatchInv ==
    /\ BlockTypes
    /\ Sound(committed) /\ Sound(staged) /\ Grows(committed, staged)
    /\ phase = "idle" => staged = committed /\ todo = <<>> /\ replays = 0
    /\ phase = "members" \/ (phase = "work" /\ ~ BudgetExhausted(replays))
          => Left(todo, staged, committed)

\* prepare_work: at most a batch of each queue, from its head.
LEMMA PreparedLeft ==
    ASSUME NEW w, Plane(w)
    PROVE  /\ PreparedWork(w) \in Seq(Entry) /\ Len(PreparedWork(w)) <= 2 * MaxPerBlock
           /\ Left(PreparedWork(w), w, w)
<1>. DEFINE Upto(head, next) == IF next - head < MaxPerBlock THEN next - head ELSE MaxPerBlock
            a == Upto(w.callHead, Len(w.calls))
            b == Upto(w.mailHead, w.mailNext)
            A == HeadBatch("call", w.callHead, Len(w.calls))
            B == HeadBatch("item", w.mailHead, w.mailNext)
<1>1. /\ w.callHead \in Nat /\ Len(w.calls) \in Nat /\ w.callHead <= Len(w.calls)
      /\ w.mailHead \in Nat /\ w.mailNext \in Nat /\ w.mailHead <= w.mailNext
    BY PlaneNats DEF Plane, MailInv, CallsInv
<1>2. MaxPerBlock \in Nat
    BY DispatchAssumption
<1>3. /\ a \in Nat /\ a <= MaxPerBlock /\ w.callHead + a <= Len(w.calls)
      /\ b \in Nat /\ b <= MaxPerBlock /\ w.mailHead + b <= w.mailNext
    BY <1>1, <1>2
<1>4. /\ A = [i \in 1 .. a |-> [kind |-> "call", number |-> w.callHead + i - 1]]
      /\ B = [i \in 1 .. b |-> [kind |-> "item", number |-> w.mailHead + i - 1]]
    BY DEF HeadBatch
<1>. HIDE DEF a, b, A, B
<1>5. A \in Seq(Entry) /\ Len(A) = a /\ \A i \in 1 .. a : A[i] = [kind |-> "call", number |-> w.callHead + i - 1]
    <2>1. \A i \in 1 .. a : [kind |-> "call", number |-> w.callHead + i - 1] \in Entry
        BY <1>1, <1>3 DEF Entry
    <2>2. A \in [1 .. a -> Entry]
        BY <1>4, <2>1
    <2>3. A \in Seq(Entry)
        BY <1>3, <2>2, SeqDef
    <2>4. Len(A) = a
        BY <1>3, <2>2, <2>3, LenProperties
    <2>. QED
        BY <1>4, <2>3, <2>4
<1>6. B \in Seq(Entry) /\ Len(B) = b /\ \A i \in 1 .. b : B[i] = [kind |-> "item", number |-> w.mailHead + i - 1]
    <2>1. \A i \in 1 .. b : [kind |-> "item", number |-> w.mailHead + i - 1] \in Entry
        BY <1>1, <1>3 DEF Entry
    <2>2. B \in [1 .. b -> Entry]
        BY <1>4, <2>1
    <2>3. B \in Seq(Entry)
        BY <1>3, <2>2, SeqDef
    <2>4. Len(B) = b
        BY <1>3, <2>2, <2>3, LenProperties
    <2>. QED
        BY <1>4, <2>3, <2>4
<1>7. PreparedWork(w) = A \o B
    BY DEF PreparedWork, A, B
<1>8. /\ A \o B \in Seq(Entry) /\ Len(A \o B) = a + b
      /\ \A i \in 1 .. a + b : (A \o B)[i] = IF i <= a THEN A[i] ELSE B[i - a]
    BY <1>5, <1>6, ConcatProperties
<1>9. \A i \in 1 .. a : (A \o B)[i] = A[i]
    BY <1>3, <1>8
<1>10. \A i \in 1 .. b : (A \o B)[a + i] = B[i]
    <2>1. \A i \in 1 .. b : a + i \in 1 .. a + b /\ ~ (a + i <= a) /\ (a + i) - a = i
        BY <1>3
    <2>. QED
        BY <1>8, <2>1
<1>11. LeftOf(PreparedWork(w), w, w, a, b)
    <2>1. \A i \in 1 .. a : (A \o B)[i] = [kind |-> "call", number |-> w.callHead + i - 1]
        BY <1>5, <1>9
    <2>2. \A i \in 1 .. b : (A \o B)[a + i] = [kind |-> "item", number |-> w.mailHead + i - 1]
        BY <1>6, <1>10
    <2>3. Len(A \o B) = a + b /\ w.callHead <= w.callHead
        BY <1>1, <1>8
    <2>. QED
        BY <1>3, <1>7, <2>1, <2>2, <2>3 DEF LeftOf
<1>. QED
    BY <1>2, <1>3, <1>7, <1>8, <1>11 DEF Left

\* The batch's first entry is its queue's head, and was queued when the batch
\* was prepared; once it is finalized the rest is what is left.
LEMMA LeftHead ==
    ASSUME NEW t \in Seq(Entry), t # <<>>, NEW w, Plane(w), NEW c, Plane(c), Grows(c, w), Left(t, w, c)
    PROVE  /\ AtHead(w, Head(t))
           /\ Head(t).kind = "call" => About(w, Head(t)) \in Waiting(c)
           /\ Head(t).kind = "item" => About(w, Head(t)) \in Ready(c)
           /\ \A v : HeadMoved(w, v, Head(t)) => Left(Tail(t), v, c)
<1>1. PICK a \in Nat, b \in Nat : LeftOf(t, w, c, a, b)
    BY DEF Left
<1>2. /\ w.callHead \in Nat /\ w.mailHead \in Nat /\ Len(w.calls) \in Nat /\ w.mailNext \in Nat
      /\ c.callHead \in Nat /\ Len(c.calls) \in Nat /\ c.mailNext \in Nat
      /\ Len(c.calls) <= Len(w.calls) /\ c.mailNext <= w.mailNext
    BY PlaneNats DEF Grows
<1>3. Len(t) \in Nat /\ Len(t) > 0 /\ Head(t) = t[1]
    BY EmptySeq
<1>4. /\ Len(Tail(t)) = Len(t) - 1 /\ \A i \in 1 .. Len(t) - 1 : Tail(t)[i] = t[i + 1]
    BY <1>3, HeadTailProperties
<1>. DEFINE e == Head(t)
<1>5. CASE a > 0
    <2>1. e = [kind |-> "call", number |-> w.callHead]
        <3>1. 1 \in 1 .. a
            BY <1>5
        <3>2. t[1] = [kind |-> "call", number |-> w.callHead + 1 - 1]
            BY <1>1, <3>1 DEF LeftOf
        <3>. QED
            BY <1>2, <1>3, <3>2
    <2>2. w.callHead < Len(c.calls) /\ c.callHead <= w.callHead
        BY <1>1, <1>2, <1>5 DEF LeftOf
    <2>3. AtHead(w, e)
        BY <1>2, <2>1, <2>2 DEF AtHead
    <2>4. About(w, e) \in Waiting(c)
        <3>1. w.callHead + 1 \in 1 .. Len(c.calls) /\ w.callHead + 1 > c.callHead
            BY <1>2, <2>2
        <3>2. About(w, e) = c.calls[w.callHead + 1]
            BY <2>1, <3>1 DEF About, Grows
        <3>. QED
            BY <3>1, <3>2 DEF Plane, CallsInv
    <2>5. ASSUME NEW v, HeadMoved(w, v, e) PROVE Left(Tail(t), v, c)
        <3>1. v.callHead = w.callHead + 1 /\ v.mailHead = w.mailHead
            BY <2>1, <2>5 DEF HeadMoved
        <3>2. a - 1 \in Nat
            BY <1>5
        <3>3. LeftOf(Tail(t), v, c, a - 1, b)
            <4>1. Len(Tail(t)) = (a - 1) + b
                BY <1>1, <1>4 DEF LeftOf
            <4>2. ASSUME NEW i \in 1 .. a - 1
                  PROVE  Tail(t)[i] = [kind |-> "call", number |-> v.callHead + i - 1]
                <5>1. i \in 1 .. Len(t) - 1 /\ i + 1 \in 1 .. a /\ w.callHead + (i + 1) - 1 = v.callHead + i - 1
                    BY <1>1, <1>2, <3>1 DEF LeftOf
                <5>2. t[i + 1] = [kind |-> "call", number |-> w.callHead + (i + 1) - 1]
                    BY <1>1, <5>1 DEF LeftOf
                <5>. QED
                    BY <1>4, <5>1, <5>2
            <4>3. ASSUME NEW i \in 1 .. b
                  PROVE  Tail(t)[(a - 1) + i] = [kind |-> "item", number |-> v.mailHead + i - 1]
                <5>1. (a - 1) + i \in 1 .. Len(t) - 1 /\ ((a - 1) + i) + 1 = a + i
                    BY <1>1, <1>5 DEF LeftOf
                <5>2. t[a + i] = [kind |-> "item", number |-> w.mailHead + i - 1]
                    BY <1>1 DEF LeftOf
                <5>. QED
                    BY <1>4, <3>1, <5>1, <5>2
            <4>4. /\ v.callHead + (a - 1) <= Len(c.calls) /\ v.mailHead + b <= c.mailNext
                  /\ c.callHead <= v.callHead
                BY <1>1, <1>2, <3>1 DEF LeftOf
            <4>. QED
                BY <4>1, <4>2, <4>3, <4>4 DEF LeftOf
        <3>. QED
            BY <3>2, <3>3 DEF Left
    <2>. QED
        BY <2>1, <2>3, <2>4, <2>5
<1>6. CASE a = 0
    <2>1. b > 0 /\ e = [kind |-> "item", number |-> w.mailHead]
        <3>1. b > 0 /\ 1 \in 1 .. b /\ a + 1 = 1
            BY <1>1, <1>3, <1>6 DEF LeftOf
        <3>2. t[1] = [kind |-> "item", number |-> w.mailHead + 1 - 1]
            BY <1>1, <3>1 DEF LeftOf
        <3>. QED
            BY <1>2, <1>3, <3>1, <3>2
    <2>2. w.mailHead < c.mailNext
        BY <1>1, <1>2, <2>1 DEF LeftOf
    <2>3. AtHead(w, e)
        BY <1>2, <2>1, <2>2 DEF AtHead
    <2>4. About(w, e) \in Ready(c)
        <3>1. e.number \in DOMAIN w.mail
            BY <2>1, <2>3, HeadIsOpen
        <3>2. e.number \in DOMAIN c.mail /\ c.mail[e.number] = w.mail[e.number]
            BY <2>1, <2>2, <3>1 DEF Grows
        <3>3. About(w, e) = c.mail[e.number]
            BY <2>1, <3>2 DEF About
        <3>. QED
            BY <3>2, <3>3 DEF Plane, MailInv
    <2>5. ASSUME NEW v, HeadMoved(w, v, e) PROVE Left(Tail(t), v, c)
        <3>1. v.callHead = w.callHead /\ v.mailHead = w.mailHead + 1
            BY <2>1, <2>5 DEF HeadMoved
        <3>2. b - 1 \in Nat
            BY <2>1
        <3>3. LeftOf(Tail(t), v, c, 0, b - 1)
            <4>1. Len(Tail(t)) = 0 + (b - 1)
                BY <1>1, <1>4, <1>6 DEF LeftOf
            <4>2. ASSUME NEW i \in 1 .. b - 1
                  PROVE  Tail(t)[0 + i] = [kind |-> "item", number |-> v.mailHead + i - 1]
                <5>1. /\ 0 + i = i /\ i \in 1 .. Len(t) - 1 /\ i + 1 \in 1 .. b /\ a + (i + 1) = i + 1
                      /\ w.mailHead + (i + 1) - 1 = v.mailHead + i - 1
                    BY <1>1, <1>2, <1>6, <2>1, <3>1 DEF LeftOf
                <5>2. t[a + (i + 1)] = [kind |-> "item", number |-> w.mailHead + (i + 1) - 1]
                    BY <1>1, <5>1 DEF LeftOf
                <5>. QED
                    BY <1>4, <5>1, <5>2
            <4>3. /\ v.callHead + 0 <= Len(c.calls) /\ v.mailHead + (b - 1) <= c.mailNext
                  /\ c.callHead <= v.callHead
                BY <1>1, <1>2, <1>6, <3>1 DEF LeftOf
            <4>. QED
                BY <4>1, <4>2, <4>3 DEF LeftOf
        <3>. QED
            BY <3>2, <3>3 DEF Left
    <2>. QED
        BY <2>1, <2>3, <2>4, <2>5
<1>. QED
    BY <1>5, <1>6

\* No call has run and no subject been handed over in v that was not in w.
Less(v, w) ==
    /\ \A c \in Call : ~ (v.effects[c] > w.effects[c])
    /\ \A s \in Subject : ~ (Len(v.consumed[s]) > Len(w.consumed[s]))

\* What a world logs is read off its records, which only grow: dropping a
\* stage un-runs entries and never runs one.
LEMMA GrownLogs ==
    ASSUME NEW v, NEW w, Sound(v), Sound(w), Grows(v, w)
    PROVE  Less(v, w)
<1>1. None \notin Subject
    BY DispatchAssumption
<1>2. \A c \in Call : c # None
    BY <1>1 DEF Subject
<1>3. ASSUME NEW c \in Call PROVE ~ (v.effects[c] > w.effects[c])
    <2>1. v.effects[c] = IF c \in DOMAIN v.records /\ v.records[c].outcome = "applied" THEN 1 ELSE 0
        BY <1>2 DEF Sound, LogInv
    <2>2. w.effects[c] = IF c \in DOMAIN w.records /\ w.records[c].outcome = "applied" THEN 1 ELSE 0
        BY <1>2 DEF Sound, LogInv
    <2>3. c \in DOMAIN v.records /\ v.records[c].outcome = "applied"
             => c \in DOMAIN w.records /\ w.records[c].outcome = "applied"
        BY DEF Grows
    <2>. QED
        BY <2>1, <2>2, <2>3
<1>4. ASSUME NEW s \in Subject PROVE ~ (Len(v.consumed[s]) > Len(w.consumed[s]))
    <2>0. s # None
        BY <1>1
    <2>1. v.consumed[s] = IF s \in DOMAIN v.records /\ v.records[s].delivery = "applied"
                          THEN << Owed(v, s) >> ELSE <<>>
        BY <2>0 DEF Sound, LogInv
    <2>2. w.consumed[s] = IF s \in DOMAIN w.records /\ w.records[s].delivery = "applied"
                          THEN << Owed(w, s) >> ELSE <<>>
        BY <2>0 DEF Sound, LogInv
    <2>3. s \in DOMAIN v.records /\ v.records[s].delivery = "applied"
             => s \in DOMAIN w.records /\ w.records[s].delivery = "applied"
        BY DEF Grows
    <2>4. Len(<< Owed(v, s) >>) = 1 /\ Len(<< Owed(w, s) >>) = 1 /\ Len(<<>>) = 0
        OBVIOUS
    <2>5. CASE v.consumed[s] = <<>>
        BY <2>2, <2>4, <2>5
    <2>6. CASE v.consumed[s] # <<>>
        <3>1. Len(v.consumed[s]) = 1 /\ Len(w.consumed[s]) = 1
            BY <2>1, <2>2, <2>3, <2>4, <2>6
        <3>. QED
            BY <3>1
    <2>. QED
        BY <2>5, <2>6
<1>. QED
    BY <1>3, <1>4 DEF Less

LEMMA DispatchInit ==
    Init => DispatchInv
<1>. SUFFICES ASSUME Init PROVE DispatchInv
    OBVIOUS
<1>. DEFINE F == Fresh
<1>1. committed = F /\ staged = F /\ phase = "idle" /\ todo = <<>> /\ replays = 0 /\ faults = 0
    BY DEF Init
<1>2. MaxNumber \in Nat /\ MaxReplays \in Nat /\ MaxFaults \in Nat /\ MaxPerBlock \in Nat
    BY DispatchAssumption
<1>3. /\ IsWorld(F) /\ DOMAIN F.records = {} /\ F.records = [s \in {} |-> {}]
      /\ F.calls = <<>> /\ F.callHead = 0 /\ DOMAIN F.mail = {} /\ F.mail = [n \in {} |-> {}]
      /\ F.mailHead = 0 /\ F.mailNext = 0
      /\ F.reserved = 0 /\ F.open = {} /\ F.agreed = [k \in Key |-> None]
      /\ F.effects = [c \in Call |-> 0] /\ F.consumed = [s \in Subject |-> <<>>]
    BY DEF Fresh, IsWorld
<1>. HIDE DEF F
<1>4. Waiting(F) = {} /\ Ready(F) = {}
    BY <1>3 DEF Waiting, Ready
<1>5. RecordsInv(F)
    BY <1>3 DEF RecordsInv
<1>6. MailInv(F)
    <2>1. 0 .. 0 - 1 = {}
        OBVIOUS
    <2>. QED
        BY <1>3, <1>4, <2>1 DEF MailInv
<1>7. ReservedInv(F)
    BY <1>2, <1>3, <1>4, FS_EmptySet DEF ReservedInv
<1>8. CallsInv(F)
    BY <1>3 DEF CallsInv
<1>9. SagasInv(F)
    BY <1>3, <1>4 DEF SagasInv
<1>10. LogInv(F, None, None)
    <2>1. \A c \in Call : c # None /\ F.effects[c] = 0
        BY <1>3, DispatchAssumption DEF Subject
    <2>2. \A s \in Subject : s # None /\ F.consumed[s] = <<>>
        BY <1>3, DispatchAssumption
    <2>3. F.effects \in [Call -> Nat] /\ F.consumed = [s \in Subject |-> F.consumed[s]]
        BY <1>3
    <2>. QED
        BY <1>3, <2>1, <2>2, <2>3 DEF LogInv
<1>11. Sound(F) /\ Grows(F, F)
    BY <1>3, <1>5, <1>6, <1>7, <1>8, <1>9, <1>10, GrowsRefl DEF Sound, Plane
<1>12. BlockTypes
    BY <1>1, <1>2 DEF BlockTypes
<1>. QED
    BY <1>1, <1>11, <1>12 DEF DispatchInv

\* A stage that a unit added to is sound, grows from the committed state and
\* leaves the batch where it was.
LEMMA AddedStage ==
    ASSUME NEW c, NEW w, NEW v, Plane(c), Sound(w), Grows(c, w), Added(w, v), LogInv(v, None, None),
           NEW t, Left(t, w, c)
    PROVE  Sound(v) /\ Grows(c, v) /\ Left(t, v, c)
<1>1. Plane(v) /\ Grows(w, v) /\ v.callHead = w.callHead /\ v.mailHead = w.mailHead
    BY DEF Added
<1>2. Sound(v) /\ Grows(c, v)
    BY <1>1, GrowsTrans DEF Sound
<1>3. Left(t, v, c)
    BY <1>1 DEF Left, LeftOf
<1>. QED
    BY <1>2, <1>3

LEMMA DispatchStep ==
    DispatchInv /\ [Next]_vars => DispatchInv' /\ FromCommitted
<1>. SUFFICES ASSUME DispatchInv, [Next]_vars PROVE DispatchInv' /\ FromCommitted
    OBVIOUS
<1>1. /\ BlockTypes /\ Sound(committed) /\ Sound(staged) /\ Plane(committed) /\ Plane(staged)
      /\ Grows(committed, staged)
    BY DEF DispatchInv, Sound
<1>2. /\ MaxNumber \in Nat /\ MaxReplays \in Nat /\ MaxFaults \in Nat
      /\ MaxPerBlock \in Nat
    BY DispatchAssumption
<1>3. ASSUME staged'.effects = staged.effects, staged'.consumed = staged.consumed
      PROVE  FromCommitted
    <2>1. OnlyRuns(staged, staged', [kind |-> "none"])
        BY <1>1, <1>3, OnlyRunsRefl
    <2>2. "none" # "call" /\ "none" # "item" /\ [kind |-> "none"].kind = "none"
        OBVIOUS
    <2>. QED
        BY <2>1, <2>2 DEF OnlyRuns, FromCommitted
<1>4. CASE Begin
    <2>1. phase = "idle" /\ staged = committed
        BY <1>4 DEF Begin, DispatchInv
    <2>2. /\ todo' \in Seq(Entry) /\ Len(todo') <= 2 * MaxPerBlock /\ Left(todo', committed, committed)
        BY <1>1, <1>4, PreparedLeft DEF Begin
    <2>3. BlockTypes'
        BY <1>1, <1>4, <2>2 DEF BlockTypes, Begin
    <2>4. DispatchInv'
        BY <1>1, <1>4, <2>1, <2>2, <2>3 DEF DispatchInv, Begin
    <2>. QED
        BY <1>3, <1>4, <2>4 DEF Begin
<1>5. CASE Member
    <2>1. phase \in {"members", "work"} /\ Left(todo, staged, committed)
        BY <1>5 DEF Member, OthersTurn, DispatchInv
    <2>2. Added(staged, staged') /\ LogInv(staged', None, None)
        <3>1. LogInv(staged, None, None)
            BY <1>1 DEF Sound
        <3>2. CASE staged' \in Emits(staged)
            BY <1>1, <3>1, <3>2, EmitAdds
        <3>4. CASE \E k \in Key, o \in {"ok", "err"} :
                      k \in DOMAIN staged.records \ staged.open /\ staged' = OnSagaCallback(staged, k, o)
            <4>1. PICK k \in Key, o \in {"ok", "err"} :
                      k \in DOMAIN staged.records \ staged.open /\ staged' = OnSagaCallback(staged, k, o)
                BY <3>4
            <4>2. staged.records[k].status # "waiting"
                BY <1>1, <4>1 DEF Plane, SagasInv, Waiting
            <4>3. staged' = staged
                BY <4>1, <4>2 DEF OnSagaCallback
            <4>. QED
                BY <1>1, <3>1, <4>3, GrowsRefl DEF Added
        <3>3. CASE \E k \in Key, o \in {"ok", "err"} : CanEnd(staged, k) /\ staged' = SagaEnds(staged, k, o)
            <4>1. PICK k \in Key, o \in {"ok", "err"} : CanEnd(staged, k) /\ staged' = SagaEnds(staged, k, o)
                BY <3>3
            <4>2. o \in Outcome
                BY DEF Outcome
            <4>. QED
                BY <1>1, <3>1, <4>1, <4>2, EndsAdds
        <3>. QED
            BY <1>5, <3>2, <3>3, <3>4 DEF Member
    <2>3. Sound(staged') /\ Grows(committed, staged') /\ Left(todo, staged', committed)
        BY <1>1, <2>1, <2>2, AddedStage
    <2>4. BlockTypes'
        BY <1>1, <1>5 DEF BlockTypes, Member
    <2>5. DispatchInv'
        BY <1>1, <1>5, <2>1, <2>3, <2>4 DEF DispatchInv, Member
    <2>. QED
        BY <1>3, <2>2, <2>5 DEF Added
<1>6. CASE MemberRejected
    <2>1. BlockTypes'
        BY <1>1, <1>2, <1>6 DEF BlockTypes, MemberRejected, BudgetExhausted
    <2>2. phase \in {"members", "work"} /\ Left(todo, staged, committed)
        BY <1>6 DEF MemberRejected, OthersTurn, DispatchInv
    <2>3. DispatchInv'
        BY <1>1, <1>6, <2>1, <2>2 DEF DispatchInv, MemberRejected
    <2>. QED
        BY <1>3, <1>6, <2>3 DEF MemberRejected
<1>7. CASE MembersDone
    <2>1. BlockTypes'
        BY <1>1, <1>7 DEF BlockTypes, MembersDone
    <2>2. DispatchInv'
        BY <1>1, <1>7, <2>1 DEF DispatchInv, MembersDone
    <2>. QED
        BY <1>3, <1>7, <2>2 DEF MembersDone
<1>8. CASE RunQueued
    <2>. DEFINE e == Head(todo)
    <2>1. /\ phase = "work" /\ todo # <<>> /\ Left(todo, staged, committed) /\ todo \in Seq(Entry)
          /\ replays \in 0 .. MaxReplays
        BY <1>1, <1>2, <1>8 DEF RunQueued, DispatchInv, BlockTypes, BudgetExhausted
    <2>2. /\ AtHead(staged, e)
          /\ e.kind = "call" => About(staged, e) \in Waiting(committed)
          /\ e.kind = "item" => About(staged, e) \in Ready(committed)
          /\ \A v : HeadMoved(staged, v, e) => Left(Tail(todo), v, committed)
        BY <1>1, <2>1, LeftHead
    <2>3. PICK end \in Applied(staged, replays, e) \cup Rejected(staged, replays, e) \cup Refused(staged, replays, e) :
             staged' = end[1] /\ replays' = end[2]
        BY <1>8 DEF RunQueued
    <2>. HIDE DEF e
    <2>4. RunEnd(staged, e, staged', replays')
        BY <1>1, <2>1, <2>2, <2>3, AttemptRun
    <2>5. /\ Sound(staged') /\ Grows(staged, staged') /\ OnlyRuns(staged, staged', e)
          /\ replays' \in 0 .. MaxReplays + 1
          /\ ~ BudgetExhausted(replays') => Left(todo', staged', committed)
        BY <1>8, <2>2, <2>4 DEF RunEnd, RunQueued
    <2>6. Grows(committed, staged')
        BY <1>1, <2>5, GrowsTrans DEF Sound
    <2>7. BlockTypes'
        <3>1. todo' \in Seq(Entry) /\ Len(todo') = Len(todo) - 1 /\ Len(todo) \in Nat
            BY <1>8, <2>1, HeadTailProperties DEF RunQueued
        <3>. QED
            BY <1>1, <1>2, <1>8, <2>5, <3>1 DEF BlockTypes, RunQueued
    <2>8. phase' = "work" /\ committed' = committed
        BY <1>8, <2>1 DEF RunQueued
    <2>9. DispatchInv'
        BY <1>1, <2>5, <2>6, <2>7, <2>8 DEF DispatchInv
    <2>10. FromCommitted
        BY <2>2, <2>5 DEF OnlyRuns, FromCommitted
    <2>. QED
        BY <2>9, <2>10
<1>9. CASE BudgetOut
    <2>1. BlockTypes'
        BY <1>1, <1>2, <1>9 DEF BlockTypes, BudgetOut
    <2>2. DispatchInv'
        BY <1>1, <1>9, <2>1 DEF DispatchInv, BudgetOut
    <2>. QED
        BY <1>3, <1>9, <2>2 DEF BudgetOut
<1>10. CASE Commit
    <2>1. BlockTypes'
        BY <1>1, <1>2, <1>10 DEF BlockTypes, Commit
    <2>2. DispatchInv'
        BY <1>1, <1>10, <2>1, GrowsRefl DEF DispatchInv, Commit
    <2>. QED
        BY <1>3, <1>10, <2>2 DEF Commit
<1>11. CASE Abandon
    <2>1. BlockTypes'
        BY <1>1, <1>2, <1>11 DEF BlockTypes, Abandon
    <2>2. DispatchInv'
        BY <1>1, <1>11, <2>1, GrowsRefl DEF DispatchInv, Abandon
    <2>3. FromCommitted
        <3>1. staged' = committed
            BY <1>11 DEF Abandon
        <3>2. Less(committed, staged)
            BY <1>1, GrownLogs
        <3>. QED
            BY <3>1, <3>2 DEF Less, FromCommitted
    <2>. QED
        BY <2>2, <2>3
<1>12. CASE UNCHANGED vars
    <2>1. BlockTypes'
        BY <1>1, <1>12 DEF BlockTypes, vars
    <2>2. DispatchInv'
        BY <1>1, <1>12, <2>1 DEF DispatchInv, vars
    <2>. QED
        BY <1>3, <1>12, <2>2 DEF vars
<1>. QED
    BY <1>4, <1>5, <1>6, <1>7, <1>8, <1>9, <1>10, <1>11, <1>12 DEF Next

\* What the invariant says of one world.
LEMMA SoundWorld ==
    ASSUME NEW w, Sound(w)
    PROVE  /\ WorldOK(w)
           /\ w.reserved = Cardinality(Waiting(w)) /\ w.mailNext + w.reserved <= MaxNumber
           /\ \A s \in Waiting(w) : CanPost(w, s)
           /\ DOMAIN w.mail = w.mailHead .. w.mailNext - 1
           /\ IsInjective(w.mail) /\ Range(w.mail) = Ready(w)
           /\ {w.calls[i] : i \in w.callHead + 1 .. Len(w.calls)} = Waiting(w) \cap Call
           /\ IsInjective(w.calls) /\ Range(w.calls) = DOMAIN w.records \cap Call
           /\ w.open = Waiting(w) \cap Key
<1>1. Plane(w) /\ RecordsInv(w) /\ MailInv(w) /\ ReservedInv(w) /\ CallsInv(w) /\ SagasInv(w)
    BY DEF Sound, Plane
<1>2. Cardinality(Waiting(w)) \in Nat /\ MaxNumber \in Nat
    BY <1>1, WaitingFinite, DispatchAssumption
<1>3. w.reserved \in Nat /\ w.mailNext \in 0 .. MaxNumber
    BY <1>1, <1>2 DEF ReservedInv, MailInv
<1>4. WorldOK(w)
    <2>1. \A s \in DOMAIN w.records :
             w.records[s] \in [status : {"waiting", "ready", "delivered"},
                              outcome : Outcome \cup {None}, delivery : Receipt]
        BY <1>1 DEF RecordsInv, Rec
    <2>2. w.effects \in [Call -> Nat] /\ w.open \subseteq Key
        BY <1>1 DEF Sound, LogInv, SagasInv
    <2>3. w.mailHead \in 0 .. w.mailNext
        BY <1>1 DEF MailInv
    <2>4. w.calls \in Seq(Call) /\ w.callHead \in 0 .. Len(w.calls)
        BY <1>1 DEF CallsInv
    <2>5. DOMAIN w.records \subseteq Subject
        BY <1>1 DEF RecordsInv
    <2>. QED
        BY <1>3, <2>1, <2>2, <2>3, <2>4, <2>5 DEF WorldOK
<1>5. \A s \in Waiting(w) : CanPost(w, s)
    BY <1>1, WaitingPosts
<1>6. IsInjective(w.mail) /\ Range(w.mail) = Ready(w)
    BY <1>1 DEF MailInv, IsInjective, Range
<1>7. /\ w.calls \in Seq(Call) /\ DOMAIN w.calls = 1 .. Len(w.calls) /\ Len(w.calls) \in Nat
      /\ w.callHead \in Nat
    BY <1>1, PlaneNats
<1>8. IsInjective(w.calls)
    BY <1>1, <1>7 DEF CallsInv, IsInjective
<1>9. Range(w.calls) = DOMAIN w.records \cap Call
    <2>1. \A i \in 1 .. Len(w.calls) : w.calls[i] \in DOMAIN w.records /\ w.calls[i] \in Call
        BY <1>1, <1>7 DEF CallsInv
    <2>2. \A c \in DOMAIN w.records \cap Call : \E i \in 1 .. Len(w.calls) : w.calls[i] = c
        BY <1>1 DEF CallsInv
    <2>. QED
        BY <1>7, <2>1, <2>2 DEF Range
<1>10. {w.calls[i] : i \in w.callHead + 1 .. Len(w.calls)} = Waiting(w) \cap Call
    <2>1. \A i \in w.callHead + 1 .. Len(w.calls) : i \in 1 .. Len(w.calls) /\ i > w.callHead
        BY <1>7
    <2>2. \A i \in 1 .. Len(w.calls) : w.calls[i] \in Call /\ (w.calls[i] \in Waiting(w) <=> i > w.callHead)
        BY <1>1, <1>7 DEF CallsInv
    <2>3. ASSUME NEW c \in Waiting(w) \cap Call
          PROVE  \E i \in w.callHead + 1 .. Len(w.calls) : w.calls[i] = c
        <3>1. PICK i \in 1 .. Len(w.calls) : w.calls[i] = c
            BY <1>1 DEF CallsInv, Waiting
        <3>2. i \in w.callHead + 1 .. Len(w.calls)
            BY <1>7, <2>2, <3>1
        <3>. QED
            BY <3>1, <3>2
    <2>. QED
        BY <2>1, <2>2, <2>3
<1>. QED
    BY <1>1, <1>4, <1>5, <1>6, <1>8, <1>9, <1>10 DEF ReservedInv, MailInv, SagasInv

LEMMA InvQueuesSound ==
    DispatchInv => QueuesSound
<1>. SUFFICES ASSUME DispatchInv PROVE QueuesSound
    OBVIOUS
<1>1. BlockTypes /\ \A w \in {committed, staged} : Sound(w)
    BY DEF DispatchInv
<1>2. TypeOK
    BY <1>1, SoundWorld DEF TypeOK, BlockTypes
<1>3. CompletionsFit
    BY <1>1, SoundWorld DEF CompletionsFit
<1>4. QueuesMatchRecords
    BY <1>1, SoundWorld DEF QueuesMatchRecords
<1>. QED
    BY <1>2, <1>3, <1>4 DEF QueuesSound

LEMMA InvOnceInOrder ==
    DispatchInv => OnceInOrder
<1>. SUFFICES ASSUME DispatchInv PROVE OnceInOrder
    OBVIOUS
<1>1. \A w \in {committed, staged} : LogInv(w, None, None)
    BY DEF DispatchInv, Sound
<1>2. None \notin Subject /\ \A c \in Call : c # None
    BY DispatchAssumption DEF Subject
<1>3. EffectOnce
    BY <1>1, <1>2 DEF EffectOnce, LogInv
<1>4. OutcomeOnce
    BY <1>1, <1>2 DEF OutcomeOnce, LogInv, Owed
<1>5. NextIsHead
    <2>. SUFFICES ASSUME phase = "work", todo # <<>>, ~ BudgetExhausted(replays)
                  PROVE  Head(todo).number = IF Head(todo).kind = "call" THEN staged.callHead ELSE staged.mailHead
        BY DEF NextIsHead
    <2>1. /\ Left(todo, staged, committed) /\ todo \in Seq(Entry) /\ Plane(staged) /\ Plane(committed)
          /\ Grows(committed, staged)
        BY DEF DispatchInv, BlockTypes, Sound
    <2>2. AtHead(staged, Head(todo))
        BY <2>1, LeftHead
    <2>. QED
        BY <2>2 DEF AtHead
<1>. QED
    BY <1>3, <1>4, <1>5 DEF OnceInOrder

\* The invariant above holds of every reachable state of the two queues and
\* the block engine.
THEOREM DispatchInvariant ==
    Spec => []DispatchInv
<1>1. DispatchInv /\ [Next]_vars => DispatchInv'
    BY DispatchStep
<1>. QED
    BY <1>1, DispatchInit, PTL DEF Spec

\* QueuesSound: reservations, queues, records and live sagas stay in step,
\* committed and staged, and every open entry's completion has its number,
\* whatever is admitted up to the last one and however units reject.
THEOREM DispatchQueuesSound ==
    Spec => []QueuesSound
BY DispatchInvariant, InvQueuesSound, PTL

\* OnceInOrder: a call takes effect and an outcome is taken in exactly as
\* often as the record says, and each batch is worked off from the head.
THEOREM DispatchOnceInOrder ==
    Spec => []OnceInOrder
BY DispatchInvariant, InvOnceInOrder, PTL

\* NeverSameBlock: only what was committed as queued is run or handed over.
THEOREM DispatchNeverSameBlock ==
    Spec => NeverSameBlock
<1>1. DispatchInv /\ [Next]_vars => [FromCommitted]_vars
    BY DispatchStep
<1>. QED
    BY <1>1, DispatchInvariant, PTL DEF Spec, NeverSameBlock

================================================================================
