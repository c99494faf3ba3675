--------------------------- MODULE EpochCutoverProofs --------------------------
(***************************************************************************)
(* Several validators crossing epochs, proved for every set of validators, *)
(* every delay, every set of blocks, any number of epochs, views and       *)
(* crashes.                                                                *)
(*                                                                         *)
(* No variable holds what the validators agree on, so the invariant says   *)
(* that there is a story: one ledger, the membership after each of its     *)
(* blocks, and where each epoch starts, of which every validator's state,  *)
(* its manifest included, is an excerpt.  An epoch ends Delay views after  *)
(* the first block that moved the membership root, which every excerpt     *)
(* that contains the block has armed, save between the seal of that block  *)
(* and the observation the barrier forces.                                 *)
(***************************************************************************)
EXTENDS EpochCutover, FiniteSetTheorems, SequenceTheorems, TLAPS

--------------------------------------------------------------------------------
(***************************************************************************)
(* Numbers: induction by least counterexample                              *)
(***************************************************************************)
LEMMA LeastNat ==
    ASSUME NEW n \in Nat, NEW C, C \subseteq 0 .. n, C # {}
    PROVE  \E m \in C : \A q \in C : m <= q
<1>. DEFINE below(r) == {q \in C : q < r}
            B == {below(r) : r \in C}
<1>1. IsFiniteSet(C)
    <2>1. IsFiniteSet(0 .. n)
        BY FS_Interval
    <2>. QED
        BY <2>1, FS_Subset
<1>2. PICK T \in B : \A U \in B : ~ (<<U, T>> \in StrictSubsetOrdering(C))
    <2>1. IsWellFoundedOn(StrictSubsetOrdering(C), FiniteSubsetsOf(C))
        BY FS_StrictSubsetOrderingWellFounded
    <2>2. FiniteSubsetsOf(C) = SUBSET C
        BY <1>1, FS_FiniteSubsetsOfFinite
    <2>3. B \subseteq SUBSET C
        OBVIOUS
    <2>4. B # {}
        OBVIOUS
    <2>. HIDE DEF B
    <2>5. \E T \in B : \A U \in B : ~ (<<U, T>> \in StrictSubsetOrdering(C))
        BY <2>1, <2>2, <2>3, <2>4, WFMin
    <2>. QED
        BY <2>5
<1>3. PICK r \in C : T = below(r)
    OBVIOUS
<1>4. ASSUME NEW q \in C, q < r PROVE FALSE
    <2>0. \A x \in C : x \in Nat
        OBVIOUS
    <2>1. below(q) \subseteq below(r) /\ q \in below(r) /\ q \notin below(q)
        <3>1. q \in Nat /\ r \in Nat /\ q < r
            BY <1>4, <2>0
        <3>2. \A x \in C : x < q => x < r
            BY <2>0, <3>1
        <3>3. ~ (q < q)
            BY <3>1
        <3>. QED
            BY <3>1, <3>2, <3>3
    <2>2. below(q) \in B /\ below(q) \subseteq C /\ below(r) \subseteq C
        OBVIOUS
    <2>. HIDE DEF below, B
    <2>. QED
        BY <1>2, <1>3, <2>1, <2>2 DEF StrictSubsetOrdering
<1>. QED
    BY <1>4

--------------------------------------------------------------------------------
(***************************************************************************)
(* The operations of a block                                               *)
(***************************************************************************)
\* An operation keeps the tiers tiers, and one that stages nothing keeps them
\* as they are.
LEMMA EffectSound ==
    ASSUME NEW t \in Tiers, NEW o \in Op
    PROVE  /\ Effect(t, o).tiers \in Tiers
           /\ Effect(t, o).staged = {} => Effect(t, o).tiers = t
<1>. DEFINE k == o.key
<1>1. t.validators \subseteq WellFormed /\ t.residents \subseteq WellFormed /\ o.op \in {"join", "leave", "grant", "revoke"}
    BY DEF Tiers, Op
<1>2. t = [validators |-> t.validators, residents |-> t.residents]
    BY DEF Tiers
<1>3. CASE o.op = "join"
    <2>1. Effect(t, o) = HandleJoin(t, k)
        BY <1>3 DEF Effect
    <2>2. HandleJoin(t, k).tiers \in Tiers
        BY <1>1 DEF HandleJoin, Rejected, Tiers
    <2>3. HandleJoin(t, k).staged = {} => HandleJoin(t, k).tiers = t
        <3>1. CASE k \notin WellFormed \/ (k \notin t.validators /\ Cardinality(t.validators) >= MaxMembers)
            BY <3>1 DEF HandleJoin, Rejected
        <3>2. CASE k \in WellFormed /\ k \in t.validators
            <4>1. /\ HandleJoin(t, k).tiers = [t EXCEPT !.residents = @ \ {k}]
                  /\ HandleJoin(t, k).staged = IF k \in t.residents THEN {"residents"} ELSE {}
                BY <3>2 DEF HandleJoin
            <4>2. HandleJoin(t, k).staged = {} => t.residents \ {k} = t.residents
                BY <4>1
            <4>. QED
                BY <1>2, <4>1, <4>2
        <3>3. CASE k \in WellFormed /\ k \notin t.validators /\ ~ (Cardinality(t.validators) >= MaxMembers)
            <4>1. "validators" \in HandleJoin(t, k).staged
                BY <3>3 DEF HandleJoin
            <4>. QED
                BY <4>1
        <3>. QED
            BY <3>1, <3>2, <3>3
    <2>. QED
        BY <2>1, <2>2, <2>3
<1>4. CASE o.op = "leave"
    <2>1. Effect(t, o) = HandleLeave(t, k)
        BY <1>4 DEF Effect
    <2>. QED
        BY <1>1, <2>1 DEF HandleLeave, Rejected, NoOp, Tiers
<1>5. CASE o.op = "grant"
    <2>1. Effect(t, o) = HandleGrant(t, k)
        BY <1>5 DEF Effect
    <2>. QED
        BY <1>1, <2>1 DEF HandleGrant, Rejected, NoOp, Tiers
<1>6. CASE o.op = "revoke"
    <2>1. Effect(t, o) = HandleRevoke(t, k)
        BY <1>6 DEF Effect
    <2>. QED
        BY <1>1, <2>1 DEF HandleRevoke, Rejected, NoOp, Tiers
<1>. QED
    BY <1>1, <1>3, <1>4, <1>5, <1>6

\* The recursion of ApplyOps, cut at n.
Applies(g, t, ops, n) ==
    g = [i \in 0 .. n |-> IF i = 0 THEN [tiers |-> t, staged |-> {}] ELSE ThenOp(g[i - 1], ops[i])]

LEMMA AppliesExists ==
    ASSUME NEW t, NEW ops, NEW n \in Nat
    PROVE  \E g : Applies(g, t, ops, n)
<1>. DEFINE C == {m \in 0 .. n : ~ \E g : Applies(g, t, ops, m)}
<1>1. ASSUME C # {} PROVE FALSE
    <2>1. PICK m \in C : \A q \in C : m <= q
        <3>1. C \subseteq 0 .. n
            OBVIOUS
        <3>. HIDE DEF C
        <3>. QED
            BY <1>1, <3>1, LeastNat
    <2>2. m \in 0 .. n /\ ~ \E g : Applies(g, t, ops, m)
        OBVIOUS
    <2>3. CASE m = 0
        <3>1. Applies([i \in 0 .. 0 |-> [tiers |-> t, staged |-> {}]], t, ops, 0)
            BY DEF Applies
        <3>. QED
            BY <2>2, <2>3, <3>1
    <2>4. CASE m # 0
        <3>1. m - 1 \in 0 .. n /\ ~ (m <= m - 1) /\ m \in Nat
            BY <2>2, <2>4
        <3>2. m - 1 \notin C
            BY <2>1, <3>1
        <3>3. PICK g : Applies(g, t, ops, m - 1)
            BY <3>1, <3>2
        <3>. DEFINE f == [i \in 0 .. m |-> IF i = m THEN ThenOp(g[m - 1], ops[m]) ELSE g[i]]
        <3>4. ASSUME NEW i \in 0 .. m
              PROVE  f[i] = IF i = 0 THEN [tiers |-> t, staged |-> {}] ELSE ThenOp(f[i - 1], ops[i])
            <4>1. CASE i = m
                <5>1. m - 1 \in 0 .. m /\ m - 1 # m
                    BY <3>1
                <5>2. f[m - 1] = g[m - 1]
                    BY <5>1
                <5>. QED
                    BY <2>4, <4>1, <5>2
            <4>2. CASE i # m
                <5>1. i \in 0 .. m - 1 /\ (i # 0 => i - 1 \in 0 .. m /\ i - 1 # m)
                    BY <3>1, <4>2
                <5>2. g[i] = IF i = 0 THEN [tiers |-> t, staged |-> {}] ELSE ThenOp(g[i - 1], ops[i])
                    BY <3>3, <5>1 DEF Applies
                <5>3. i # 0 => f[i - 1] = g[i - 1]
                    BY <5>1
                <5>. QED
                    BY <4>2, <5>2, <5>3
            <4>. QED
                BY <4>1, <4>2
        <3>5. f = [i \in 0 .. m |-> f[i]]
            OBVIOUS
        <3>. HIDE DEF f
        <3>6. Applies(f, t, ops, m)
            BY <3>4, <3>5 DEF Applies
        <3>. QED
            BY <2>2, <3>6
    <2>. QED
        BY <2>3, <2>4
<1>. QED
    BY <1>1

\* So does a block.
LEMMA OpsSound ==
    ASSUME NEW t \in Tiers, NEW ops \in Seq(Op)
    PROVE  /\ ApplyOps(t, ops).tiers \in Tiers
           /\ ApplyOps(t, ops).staged = {} => ApplyOps(t, ops).tiers = t
<1>. DEFINE n == Len(ops)
            f == CHOOSE g : Applies(g, t, ops, n)
<1>1. ApplyOps(t, ops) = f[n]
    BY DEF ApplyOps, Applies
<1>2. n \in Nat /\ \A i \in 1 .. n : ops[i] \in Op
    OBVIOUS
<1>3. Applies(f, t, ops, n)
    BY <1>2, AppliesExists
<1>. HIDE DEF n, f
<1>. DEFINE Good(e) == e.tiers \in Tiers /\ (e.staged = {} => e.tiers = t)
            C == {i \in 0 .. n : ~ Good(f[i])}
<1>4. ASSUME C # {} PROVE FALSE
    <2>1. PICK m \in C : \A q \in C : m <= q
        <3>1. C \subseteq 0 .. n
            OBVIOUS
        <3>. HIDE DEF C
        <3>. QED
            BY <1>2, <1>4, <3>1, LeastNat
    <2>2. m \in 0 .. n /\ ~ Good(f[m])
        OBVIOUS
    <2>3. f[m] = IF m = 0 THEN [tiers |-> t, staged |-> {}] ELSE ThenOp(f[m - 1], ops[m])
        BY <1>3, <2>2 DEF Applies
    <2>4. CASE m = 0
        BY <2>2, <2>3, <2>4
    <2>5. CASE m # 0
        <3>1. m - 1 \in 0 .. n /\ ~ (m <= m - 1) /\ m \in 1 .. n
            BY <1>2, <2>2, <2>5
        <3>2. m - 1 \notin C
            BY <2>1, <3>1
        <3>3. Good(f[m - 1])
            BY <3>1, <3>2
        <3>. DEFINE p == f[m - 1]
                    e == Effect(p.tiers, ops[m])
        <3>4. e.tiers \in Tiers /\ (e.staged = {} => e.tiers = p.tiers)
            BY <1>2, <3>1, <3>3, EffectSound
        <3>5. f[m] = [tiers |-> e.tiers, staged |-> p.staged \cup e.staged]
            BY <2>3, <2>5 DEF ThenOp
        <3>. HIDE DEF e, p
        <3>6. f[m].tiers = e.tiers /\ f[m].staged = p.staged \cup e.staged
            BY <3>5
        <3>7. p.tiers \in Tiers /\ (p.staged = {} => p.tiers = t)
            BY <3>3 DEF p
        <3>8. f[m].staged = {} => p.staged = {} /\ e.staged = {}
            BY <3>6
        <3>9. Good(f[m])
            BY <3>4, <3>6, <3>7, <3>8
        <3>. QED
            BY <2>2, <3>9
    <2>. QED
        BY <2>4, <2>5
<1>5. Good(f[n])
    BY <1>2, <1>4
<1>. QED
    BY <1>1, <1>5

--------------------------------------------------------------------------------
(***************************************************************************)
(* The story                                                               *)
(***************************************************************************)
SealedBlock == [height : Nat, block : Block, root : Nat]

RootAt(L, i) == IF i = 0 THEN 0 ELSE L[i].root
Moved(L, i) == RootAt(L, i) # RootAt(L, i - 1)

\* h.ledger is the ledger, h.tiers the membership after each of its blocks,
\* h.last the newest epoch; epoch e starts after block h.from[e], at the
\* height base h.base[e].
To(h, e) == IF e < h.last THEN h.from[e + 1] ELSE Len(h.ledger)

\* The block of epoch e that arms its boundary.
First(h, e, i) ==
    /\ i \in h.from[e] + 1 .. To(h, e)
    /\ Moved(h.ledger, i)
    /\ \A j \in h.from[e] + 1 .. i - 1 : ~ Moved(h.ledger, j)

StoryTypes(h) ==
    /\ h.ledger \in Seq(SealedBlock)
    /\ h.tiers \in [0 .. Len(h.ledger) -> Tiers]
    /\ h.last \in Epoch
    /\ h.from \in [0 .. h.last -> 0 .. Len(h.ledger)]
    /\ h.base \in [0 .. h.last -> Nat]
    /\ h.from[0] = 0 /\ h.base[0] = 0 /\ h.tiers[0] = Genesis

\* Each block is run over what the one before it left.
StoryRuns(h) ==
    \A i \in 1 .. Len(h.ledger) :
        LET e == ApplyOps(h.tiers[i - 1], h.ledger[i].block)
        IN  /\ h.tiers[i] = e.tiers
            /\ h.ledger[i].root = IF e.staged # {} THEN RootAt(h.ledger, i - 1) + 1
                                  ELSE RootAt(h.ledger, i - 1)

\* The blocks of an epoch are its finalized views, from the first on.
StoryLogged(h, lg) ==
    \A e \in 0 .. h.last :
        /\ h.from[e] <= To(h, e)
        /\ \A i \in h.from[e] + 1 .. To(h, e) :
              /\ i - h.from[e] <= Len(lg[e])
              /\ h.ledger[i].height = h.base[e] + (i - h.from[e])
              /\ h.ledger[i].block = lg[e][i - h.from[e]]

\* An epoch ends Delay views after the first block that moved the root.
StoryCut(h) ==
    \A e \in 0 .. h.last : e < h.last =>
        \E i : /\ First(h, e, i) /\ h.from[e + 1] + 1 = i + Delay
               /\ h.base[e + 1] = h.base[e] + (h.from[e + 1] - h.from[e]) + 1

StoryOpen(h) == \A i : First(h, h.last, i) => Len(h.ledger) < i + Delay

\* The membership is the epoch's own until then.
StoryStill(h) ==
    \A e \in 0 .. h.last : \A i \in h.from[e] .. To(h, e) :
        (\A j \in h.from[e] + 1 .. i : ~ Moved(h.ledger, j)) => h.tiers[i] = h.tiers[h.from[e]]

Story(h, lg) == StoryTypes(h) /\ StoryRuns(h) /\ StoryLogged(h, lg) /\ StoryCut(h)
                   /\ StoryOpen(h) /\ StoryStill(h)

\* One validator's part in it.
Node(v) == [turn |-> turn[v], at |-> at[v], tiers |-> tiers[v], root |-> root[v],
            chain |-> chain[v], epoch |-> epoch[v], base |-> base[v], current |-> current[v],
            pending |-> pending[v], manifest |-> manifest[v]]

NodePlace(h, n) ==
    /\ n.epoch \in 0 .. h.last
    /\ n.base = h.base[n.epoch] /\ n.current = h.tiers[h.from[n.epoch]]
    /\ n.chain \in Seq(SealedBlock)
    /\ h.from[n.epoch] <= Len(n.chain) /\ Len(n.chain) <= To(h, n.epoch)
    /\ \A i \in 1 .. Len(n.chain) : n.chain[i] = h.ledger[i]
    /\ n.tiers = h.tiers[Len(n.chain)] /\ n.root = RootAt(h.ledger, Len(n.chain))

\* The views popped are sealed, or lie past the ceiling with all below it
\* sealed.
NodeClock(h, lg, n) ==
    /\ n.turn \in {"idle", "pass", "broke", "gone"}
    /\ n.at \in Nat /\ n.at <= Len(lg[n.epoch])
    /\ n.at > Len(n.chain) - h.from[n.epoch] =>
          n.pending # 0 /\ Len(n.chain) + 1 = h.from[n.epoch] + n.pending

\* p is the boundary of epoch e as the first k blocks show it.
ArmedAt(h, e, k, p) ==
    /\ p \in Nat
    /\ p # 0 => \E i : First(h, e, i) /\ i <= k /\ h.from[e] + p = i + Delay
    /\ p = 0 => \A i \in h.from[e] + 1 .. k : ~ Moved(h.ledger, i)

NodeArmed(h, n) ==
    \/ ArmedAt(h, n.epoch, Len(n.chain), n.pending)
    \/ /\ n.turn = "broke" /\ n.pending = 0
       /\ h.from[n.epoch] + n.at = Len(n.chain)
       /\ First(h, n.epoch, Len(n.chain))

NodeManifest(h, n) ==
    LET m == n.manifest IN
    /\ m.epoch \in 0 .. n.epoch /\ m.sealed \in 0 .. Len(n.chain)
    /\ m.root = RootAt(h.ledger, m.sealed)
    /\ m.epoch < n.epoch => m.sealed <= h.from[n.epoch]
    /\ m.epoch = n.epoch => ArmedAt(h, n.epoch, m.sealed, m.pending)

NodeOK(h, lg, n) ==
    NodePlace(h, n) /\ NodeClock(h, lg, n) /\ NodeArmed(h, n) /\ NodeManifest(h, n)

--------------------------------------------------------------------------------
(***************************************************************************)
(* Facts of a story                                                        *)
(***************************************************************************)
LEMMA StoryNats ==
    ASSUME NEW h, NEW lg, Story(h, lg)
    PROVE  /\ Delay \in Nat /\ Delay >= 1
           /\ h.last \in Nat /\ h.last <= MaxEpoch /\ MaxEpoch \in Nat
           /\ h.ledger \in Seq(SealedBlock) /\ Len(h.ledger) \in Nat
           /\ \A e \in 0 .. h.last : /\ h.from[e] \in Nat /\ h.base[e] \in Nat
                                     /\ To(h, e) \in Nat /\ h.from[e] <= To(h, e)
                                     /\ To(h, e) <= Len(h.ledger)
           /\ \A i \in 0 .. Len(h.ledger) : RootAt(h.ledger, i) \in Nat /\ h.tiers[i] \in Tiers
<1>1. Delay \in Nat /\ Delay >= 1 /\ MaxEpoch \in Nat
    BY CutoverAssumption
<1>2. /\ h.ledger \in Seq(SealedBlock) /\ Len(h.ledger) \in Nat /\ h.last \in 0 .. MaxEpoch
      /\ h.from \in [0 .. h.last -> 0 .. Len(h.ledger)] /\ h.base \in [0 .. h.last -> Nat]
      /\ h.tiers \in [0 .. Len(h.ledger) -> Tiers]
    BY DEF Story, StoryTypes, Epoch
<1>3. ASSUME NEW e \in 0 .. h.last
      PROVE  /\ h.from[e] \in Nat /\ h.base[e] \in Nat /\ To(h, e) \in Nat
             /\ h.from[e] <= To(h, e) /\ To(h, e) <= Len(h.ledger)
    <2>1. e < h.last => e + 1 \in 0 .. h.last
        BY <1>1, <1>2
    <2>2. \A d \in 0 .. h.last : h.from[d] \in Nat /\ h.from[d] <= Len(h.ledger)
        BY <1>2
    <2>3. h.from[e] <= To(h, e)
        BY DEF Story, StoryLogged
    <2>. QED
        BY <1>2, <2>1, <2>2, <2>3 DEF To
<1>4. \A i \in 0 .. Len(h.ledger) : RootAt(h.ledger, i) \in Nat
    <2>1. \A i \in 1 .. Len(h.ledger) : h.ledger[i].root \in Nat
        <3>1. \A i \in 1 .. Len(h.ledger) : h.ledger[i] \in SealedBlock
            BY <1>2
        <3>. QED
            BY <3>1 DEF SealedBlock
    <2>. QED
        BY <1>2, <2>1 DEF RootAt
<1>5. \A i \in 0 .. Len(h.ledger) : h.tiers[i] \in Tiers
    BY <1>2
<1>6. h.last \in Nat /\ h.last <= MaxEpoch
    BY <1>1, <1>2
<1>. QED
    BY <1>1, <1>2, <1>3, <1>4, <1>5, <1>6

LEMMA FirstUnique ==
    ASSUME NEW h, NEW lg, Story(h, lg), NEW e \in 0 .. h.last, NEW i, NEW j,
           First(h, e, i), First(h, e, j)
    PROVE  i = j
<1>1. h.from[e] \in Nat /\ To(h, e) \in Nat
    BY StoryNats
<1>2. i \in Nat /\ j \in Nat
    BY <1>1 DEF First
<1>. QED
    BY <1>1, <1>2 DEF First

\* An armed boundary: the ledger of its epoch stays below it, and reaches up
\* to it once the epoch is behind.
LEMMA Ceiling ==
    ASSUME NEW h, NEW lg, Story(h, lg), NEW e \in 0 .. h.last, NEW k, NEW p,
           ArmedAt(h, e, k, p), p # 0
    PROVE  /\ To(h, e) < h.from[e] + p
           /\ e < h.last => To(h, e) + 1 = h.from[e] + p /\ h.base[e + 1] = h.base[e] + p
<1>1. PICK i : First(h, e, i) /\ h.from[e] + p = i + Delay
    BY DEF ArmedAt
<1>2. /\ Delay \in Nat /\ h.last \in Nat /\ h.from[e] \in Nat /\ To(h, e) \in Nat /\ p \in Nat
      /\ h.base[e] \in Nat
    BY StoryNats DEF ArmedAt
<1>3. i \in Nat
    BY <1>1, <1>2 DEF First
<1>4. CASE e < h.last
    <2>1. PICK j : /\ First(h, e, j) /\ h.from[e + 1] + 1 = j + Delay
                   /\ h.base[e + 1] = h.base[e] + (h.from[e + 1] - h.from[e]) + 1
        BY <1>4 DEF Story, StoryCut
    <2>2. j = i
        BY <1>1, <2>1, FirstUnique
    <2>3. To(h, e) = h.from[e + 1]
        BY <1>4 DEF To
    <2>. QED
        BY <1>1, <1>2, <1>3, <2>1, <2>2, <2>3
<1>5. CASE ~ (e < h.last)
    <2>1. e = h.last
        BY <1>2, <1>5
    <2>2. To(h, e) = Len(h.ledger)
        BY <1>5 DEF To
    <2>3. Len(h.ledger) < i + Delay
        BY <1>1, <2>1 DEF Story, StoryOpen
    <2>. QED
        BY <1>1, <1>5, <2>2, <2>3
<1>. QED
    BY <1>4, <1>5

\* The height of the last block of a chain, relative to its epoch.
TipOf(c) == IF c = <<>> THEN 0 ELSE c[Len(c)].height

LEMMA TipHeight ==
    ASSUME NEW h, NEW lg, Story(h, lg), NEW n, NodePlace(h, n)
    PROVE  /\ Len(n.chain) \in Nat /\ TipOf(n.chain) \in Nat /\ n.base \in Nat
           /\ h.from[n.epoch] \in Nat
           /\ Len(n.chain) > h.from[n.epoch] =>
                 TipOf(n.chain) = n.base + (Len(n.chain) - h.from[n.epoch])
           /\ Len(n.chain) = h.from[n.epoch] => TipOf(n.chain) <= n.base
<1>. DEFINE e == n.epoch
            k == Len(n.chain)
<1>1. /\ e \in 0 .. h.last /\ n.chain \in Seq(SealedBlock) /\ k \in Nat /\ h.from[e] <= k /\ k <= To(h, e)
      /\ \A i \in 1 .. k : n.chain[i] = h.ledger[i]
    BY DEF NodePlace
<1>2. /\ h.last \in Nat /\ h.from[e] \in Nat /\ To(h, e) \in Nat /\ To(h, e) <= Len(h.ledger)
      /\ n.base = h.base[e] /\ n.base \in Nat
    BY <1>1, StoryNats DEF NodePlace
<1>3. CASE k = 0
    <2>1. TipOf(n.chain) = 0
        BY <1>1, <1>3, EmptySeq DEF TipOf
    <2>. QED
        BY <1>2, <1>3, <2>1
<1>4. CASE k # 0
    <2>1. n.chain # <<>> /\ k \in 1 .. k
        BY <1>1, <1>4
    <2>2. TipOf(n.chain) = h.ledger[k].height
        BY <1>1, <2>1 DEF TipOf
    <2>3. CASE k > h.from[e]
        <3>1. k \in h.from[e] + 1 .. To(h, e)
            BY <1>1, <1>2, <2>3
        <3>2. h.ledger[k].height = h.base[e] + (k - h.from[e])
            BY <1>1, <3>1 DEF Story, StoryLogged
        <3>. QED
            BY <1>1, <1>2, <2>2, <2>3, <3>2
    <2>4. CASE k = h.from[e]
        <3>1. e # 0
            BY <1>4, <2>4 DEF Story, StoryTypes
        <3>. DEFINE d == e - 1
        <3>2. d \in 0 .. h.last /\ d < h.last /\ d + 1 = e
            <4>1. e \in 0 .. h.last /\ h.last \in Nat
                BY <1>1, <1>2
            <4>. HIDE DEF e
            <4>. QED
                BY <3>1, <4>1
        <3>. HIDE DEF d
        <3>3. PICK i : /\ First(h, d, i) /\ h.from[e] + 1 = i + Delay
                       /\ h.base[e] = h.base[d] + (h.from[e] - h.from[d]) + 1
            BY <3>2 DEF Story, StoryCut
        <3>4. To(h, d) = h.from[e]
            BY <3>2 DEF To
        <3>5. h.from[d] \in Nat /\ h.base[d] \in Nat
            BY <3>2, StoryNats
        <3>6. k \in h.from[d] + 1 .. To(h, d)
            BY <1>1, <1>2, <2>4, <3>3, <3>4, <3>5 DEF First
        <3>7. h.ledger[k].height = h.base[d] + (k - h.from[d])
            BY <3>2, <3>6 DEF Story, StoryLogged
        <3>8. h.base[e] = h.ledger[k].height + 1 /\ h.ledger[k].height \in Nat
            <4>1. k = h.from[e] /\ k \in Nat /\ k - h.from[d] \in Nat
                BY <1>1, <1>2, <2>4, <3>5, <3>6
            <4>2. h.base[e] = h.base[d] + (k - h.from[d]) + 1
                BY <3>3, <4>1
            <4>. HIDE DEF e, k
            <4>. QED
                BY <3>5, <3>7, <4>1, <4>2
        <3>. QED
            BY <1>1, <1>2, <2>2, <2>4, <3>8
    <2>. QED
        BY <1>1, <1>2, <2>3, <2>4
<1>. QED
    BY <1>3, <1>4

--------------------------------------------------------------------------------
(***************************************************************************)
(* How the story goes on                                                   *)
(***************************************************************************)
Continues(h, g) ==
    /\ h.last <= g.last /\ g.last \in Nat
    /\ Len(h.ledger) <= Len(g.ledger) /\ Len(g.ledger) \in Nat
    /\ \A i \in 1 .. Len(h.ledger) : g.ledger[i] = h.ledger[i]
    /\ \A i \in 0 .. Len(h.ledger) : g.tiers[i] = h.tiers[i]
    /\ \A e \in 0 .. h.last : /\ g.from[e] = h.from[e] /\ g.base[e] = h.base[e]
                              /\ To(g, e) \in Nat /\ To(h, e) <= To(g, e)

LEMMA ContinuesFirst ==
    ASSUME NEW h, NEW lg, Story(h, lg), NEW g, Continues(h, g)
    PROVE  /\ \A i \in 0 .. Len(h.ledger) : RootAt(g.ledger, i) = RootAt(h.ledger, i)
           /\ \A i \in 1 .. Len(h.ledger) : Moved(g.ledger, i) <=> Moved(h.ledger, i)
           /\ \A e \in 0 .. h.last : \A i : First(h, e, i) => First(g, e, i)
<1>1. Len(h.ledger) \in Nat
    BY StoryNats
<1>2. \A i \in 0 .. Len(h.ledger) : RootAt(g.ledger, i) = RootAt(h.ledger, i)
    BY <1>1 DEF Continues, RootAt
<1>3. \A i \in 1 .. Len(h.ledger) : Moved(g.ledger, i) <=> Moved(h.ledger, i)
    <2>1. \A i \in 1 .. Len(h.ledger) : i \in 0 .. Len(h.ledger) /\ i - 1 \in 0 .. Len(h.ledger)
        BY <1>1
    <2>. QED
        BY <1>2, <2>1 DEF Moved
<1>4. ASSUME NEW e \in 0 .. h.last, NEW i, First(h, e, i)
      PROVE  First(g, e, i)
    <2>1. /\ h.from[e] \in Nat /\ To(h, e) \in Nat /\ To(h, e) <= Len(h.ledger)
          /\ To(g, e) \in Nat /\ To(h, e) <= To(g, e) /\ g.from[e] = h.from[e]
        BY StoryNats DEF Continues
    <2>2. i \in g.from[e] + 1 .. To(g, e) /\ i \in 1 .. Len(h.ledger)
        BY <1>1, <1>4, <2>1 DEF First
    <2>3. \A j \in h.from[e] + 1 .. i - 1 : j \in 1 .. Len(h.ledger)
        BY <1>1, <2>1, <2>2
    <2>. QED
        BY <1>3, <1>4, <2>1, <2>2, <2>3 DEF First
<1>. QED
    BY <1>2, <1>3, <1>4

LEMMA ContinuesArmed ==
    ASSUME NEW h, NEW lg, Story(h, lg), NEW g, Continues(h, g),
           NEW e \in 0 .. h.last, NEW k \in 0 .. Len(h.ledger), NEW p, ArmedAt(h, e, k, p)
    PROVE  ArmedAt(g, e, k, p)
<1>1. g.from[e] = h.from[e] /\ h.from[e] \in Nat /\ Len(h.ledger) \in Nat
    BY StoryNats DEF Continues
<1>2. \A i \in h.from[e] + 1 .. k : i \in 1 .. Len(h.ledger)
    BY <1>1
<1>. QED
    BY <1>1, <1>2, ContinuesFirst DEF ArmedAt

LEMMA NodeContinues ==
    ASSUME NEW h, NEW lg, Story(h, lg), NEW g, Continues(h, g), NEW n, NodeOK(h, lg, n)
    PROVE  NodeOK(g, lg, n)
<1>. DEFINE e == n.epoch
            k == Len(n.chain)
<1>1. /\ e \in 0 .. h.last /\ h.from[e] \in Nat /\ h.from[e] <= k /\ k <= To(h, e) /\ k \in Nat
      /\ To(h, e) \in Nat /\ To(h, e) <= Len(h.ledger) /\ Len(h.ledger) \in Nat /\ h.last \in Nat
    BY StoryNats DEF NodeOK, NodePlace
<1>2. k \in 0 .. Len(h.ledger) /\ h.from[e] \in 0 .. Len(h.ledger)
    BY <1>1
<1>3. /\ g.from[e] = h.from[e] /\ g.base[e] = h.base[e] /\ To(g, e) \in Nat /\ To(h, e) <= To(g, e)
      /\ g.last \in Nat /\ h.last <= g.last
    BY <1>1 DEF Continues
<1>4. NodePlace(g, n)
    <2>1. e \in 0 .. g.last /\ k <= To(g, e)
        BY <1>1, <1>3
    <2>2. \A i \in 1 .. k : i \in 1 .. Len(h.ledger)
        BY <1>2
    <2>3. RootAt(g.ledger, k) = RootAt(h.ledger, k)
        BY <1>2, ContinuesFirst
    <2>4. g.tiers[k] = h.tiers[k] /\ g.tiers[h.from[e]] = h.tiers[h.from[e]]
        BY <1>2 DEF Continues
    <2>. HIDE DEF e, k
    <2>5. \A i \in 1 .. k : n.chain[i] = g.ledger[i]
        BY <2>2 DEF NodeOK, NodePlace, Continues, k
    <2>. QED
        BY <1>3, <2>1, <2>3, <2>4, <2>5 DEF NodeOK, NodePlace, e, k
<1>5. NodeClock(g, lg, n)
    BY <1>3 DEF NodeOK, NodeClock
<1>6. NodeArmed(g, n)
    <2>1. CASE ArmedAt(h, e, k, n.pending)
        BY <1>1, <1>2, <2>1, ContinuesArmed DEF NodeArmed
    <2>2. CASE /\ n.turn = "broke" /\ n.pending = 0 /\ h.from[e] + n.at = k /\ First(h, e, k)
        BY <1>1, <1>3, <2>2, ContinuesFirst DEF NodeArmed
    <2>. QED
        BY <2>1, <2>2 DEF NodeOK, NodeArmed
<1>7. NodeManifest(g, n)
    <2>. DEFINE m == n.manifest
    <2>1. m.sealed \in 0 .. Len(h.ledger)
        BY <1>1 DEF NodeOK, NodeManifest
    <2>2. RootAt(g.ledger, m.sealed) = RootAt(h.ledger, m.sealed)
        BY <2>1, ContinuesFirst
    <2>3. m.epoch = e => ArmedAt(g, e, m.sealed, m.pending)
        BY <1>1, <2>1, ContinuesArmed DEF NodeOK, NodeManifest
    <2>. QED
        BY <1>3, <2>2, <2>3 DEF NodeOK, NodeManifest
<1>. QED
    BY <1>4, <1>5, <1>6, <1>7 DEF NodeOK

\* The engine finalizes more views.
LogGrows(lg, mg) ==
    \A e \in Epoch : /\ Len(lg[e]) \in Nat /\ Len(mg[e]) \in Nat /\ Len(lg[e]) <= Len(mg[e])
                     /\ \A i \in 1 .. Len(lg[e]) : mg[e][i] = lg[e][i]

LEMMA StoryLogGrows ==
    ASSUME NEW h, NEW lg, Story(h, lg), NEW mg, LogGrows(lg, mg)
    PROVE  /\ Story(h, mg)
           /\ \A n : NodeOK(h, lg, n) => NodeOK(h, mg, n)
<1>1. \A e \in 0 .. h.last : e \in Epoch
    BY StoryNats DEF Epoch
<1>2. StoryLogged(h, mg)
    <2>1. ASSUME NEW e \in 0 .. h.last, NEW i \in h.from[e] + 1 .. To(h, e)
          PROVE  i - h.from[e] <= Len(mg[e]) /\ h.ledger[i].block = mg[e][i - h.from[e]]
        <3>1. i - h.from[e] <= Len(lg[e]) /\ h.ledger[i].block = lg[e][i - h.from[e]]
            BY DEF Story, StoryLogged
        <3>2. Len(lg[e]) \in Nat /\ Len(mg[e]) \in Nat /\ Len(lg[e]) <= Len(mg[e])
            BY <1>1 DEF LogGrows
        <3>3. i - h.from[e] \in 1 .. Len(lg[e])
            <4>1. h.from[e] \in Nat /\ To(h, e) \in Nat
                BY StoryNats
            <4>2. i \in Nat /\ h.from[e] + 1 <= i
                BY <4>1
            <4>. QED
                BY <3>1, <3>2, <4>1, <4>2
        <3>. QED
            BY <1>1, <3>1, <3>2, <3>3 DEF LogGrows
    <2>. QED
        BY <2>1 DEF Story, StoryLogged
<1>3. ASSUME NEW n, NodeOK(h, lg, n) PROVE NodeOK(h, mg, n)
    <2>1. n.epoch \in Epoch
        BY <1>1, <1>3 DEF NodeOK, NodePlace
    <2>2. NodeClock(h, mg, n)
        BY <1>3, <2>1 DEF NodeOK, NodeClock, LogGrows
    <2>. QED
        BY <1>3, <2>2 DEF NodeOK
<1>. QED
    BY <1>2, <1>3 DEF Story

\* A block is added to the newest epoch: x its entry, t what it leaves.
Adds(h, g, lg, x, t) ==
    LET w == Len(h.ledger) - h.from[h.last] + 1
        e == ApplyOps(h.tiers[Len(h.ledger)], x.block)
        r == RootAt(h.ledger, Len(h.ledger))
    IN  /\ g.ledger = Append(h.ledger, x)
        /\ g.tiers = [i \in 0 .. Len(h.ledger) + 1 |-> IF i = Len(h.ledger) + 1 THEN t ELSE h.tiers[i]]
        /\ g.last = h.last /\ g.from = h.from /\ g.base = h.base
        /\ w <= Len(lg[h.last]) /\ x.block = lg[h.last][w] /\ x.height = h.base[h.last] + w
        /\ t = e.tiers /\ x.root = IF e.staged # {} THEN r + 1 ELSE r
        /\ \A i : First(h, h.last, i) => Len(h.ledger) + 1 < i + Delay

LEMMA StoryAdds ==
    ASSUME NEW h, NEW lg \in [Epoch -> Seq(Block)], Story(h, lg), NEW g, NEW x \in SealedBlock, NEW t,
           Adds(h, g, lg, x, t)
    PROVE  /\ Story(g, lg) /\ Continues(h, g)
           /\ Len(g.ledger) = Len(h.ledger) + 1 /\ g.ledger[Len(h.ledger) + 1] = x
<1>. DEFINE N == Len(h.ledger)
            X == h.last
            e == ApplyOps(h.tiers[N], x.block)
            w == N - h.from[X] + 1
<1>1. /\ h.ledger \in Seq(SealedBlock) /\ N \in Nat /\ X \in Nat /\ Delay \in Nat /\ Delay >= 1
      /\ X \in Epoch /\ X \in 0 .. X /\ h.from[X] \in Nat /\ h.base[X] \in Nat /\ To(h, X) = N /\ h.from[X] <= N
      /\ h.tiers[N] \in Tiers /\ RootAt(h.ledger, N) \in Nat
    <2>1. h.ledger \in Seq(SealedBlock) /\ N \in Nat /\ X \in Nat /\ Delay \in Nat /\ Delay >= 1
        BY StoryNats
    <2>2. X \in Epoch
        BY DEF Story, StoryTypes
    <2>3. X \in 0 .. X /\ N \in 0 .. N /\ ~ (X < X)
        BY <2>1
    <2>4. To(h, X) = N
        BY <2>3 DEF To
    <2>5. h.from[X] \in Nat /\ h.base[X] \in Nat /\ h.from[X] <= To(h, X)
        BY <2>3, StoryNats
    <2>6. h.tiers[N] \in Tiers /\ RootAt(h.ledger, N) \in Nat
        BY <2>3, StoryNats
    <2>. QED
        BY <2>1, <2>2, <2>3, <2>4, <2>5, <2>6
<1>2. /\ g.ledger \in Seq(SealedBlock) /\ Len(g.ledger) = N + 1 /\ g.ledger[N + 1] = x
      /\ \A i \in 1 .. N : g.ledger[i] = h.ledger[i]
    BY <1>1 DEF Adds
<1>3. t \in Tiers /\ t = e.tiers /\ (e.staged = {} => t = h.tiers[N])
    <2>1. x.block \in Seq(Op)
        BY CutoverAssumption DEF SealedBlock
    <2>. QED
        BY <1>1, <2>1, OpsSound DEF Adds
<1>4. /\ g.tiers \in [0 .. N + 1 -> Tiers] /\ g.tiers[N + 1] = t
      /\ \A i \in 0 .. N : g.tiers[i] = h.tiers[i]
    <2>1. g.tiers = [i \in 0 .. N + 1 |-> IF i = N + 1 THEN t ELSE h.tiers[i]]
        BY DEF Adds
    <2>2. \A i \in 0 .. N + 1 : i # N + 1 => i \in 0 .. N
        BY <1>1
    <2>3. \A i \in 0 .. N : h.tiers[i] \in Tiers /\ i \in 0 .. N + 1 /\ i # N + 1
        BY <1>1, StoryNats
    <2>4. N + 1 \in 0 .. N + 1
        BY <1>1
    <2>. QED
        BY <1>3, <2>1, <2>2, <2>3, <2>4
<1>5. g.last = X /\ g.from = h.from /\ g.base = h.base
    BY DEF Adds
<1>6. \A d \in 0 .. X : To(g, d) = IF d = X THEN N + 1 ELSE To(h, d)
    BY <1>1, <1>2, <1>5 DEF To
<1>7. \A d \in 0 .. X : To(h, d) \in Nat /\ To(h, d) <= N /\ h.from[d] \in Nat /\ h.from[d] <= To(h, d)
    BY StoryNats
<1>8. Continues(h, g)
    <2>1. \A d \in 0 .. X : To(g, d) \in Nat /\ To(h, d) <= To(g, d)
        BY <1>1, <1>6, <1>7
    <2>. QED
        BY <1>1, <1>2, <1>4, <1>5, <2>1 DEF Continues
<1>9. \A d \in 0 .. X : d # X => To(g, d) = To(h, d)
    BY <1>6
<1>10. /\ \A i \in 0 .. N : RootAt(g.ledger, i) = RootAt(h.ledger, i)
       /\ \A i \in 1 .. N : Moved(g.ledger, i) <=> Moved(h.ledger, i)
       /\ \A d \in 0 .. X : \A i : First(h, d, i) => First(g, d, i)
    BY <1>8, ContinuesFirst
<1>11. RootAt(g.ledger, N + 1) = x.root /\ (Moved(g.ledger, N + 1) <=> e.staged # {})
    <2>1. RootAt(g.ledger, N + 1) = x.root
        BY <1>1, <1>2 DEF RootAt
    <2>2. RootAt(g.ledger, (N + 1) - 1) = RootAt(h.ledger, N)
        BY <1>1, <1>10
    <2>3. x.root = IF e.staged # {} THEN RootAt(h.ledger, N) + 1 ELSE RootAt(h.ledger, N)
        BY DEF Adds
    <2>. QED
        BY <1>1, <2>1, <2>2, <2>3 DEF Moved
<1>12. StoryTypes(g)
    <2>1. h.from \in [0 .. X -> 0 .. N + 1]
        <3>1. h.from \in [0 .. X -> 0 .. N]
            BY DEF Story, StoryTypes
        <3>. QED
            BY <1>1, <3>1
    <2>2. g.tiers[0] = h.tiers[0]
        BY <1>1, <1>4
    <2>. HIDE DEF N, X
    <2>. QED
        BY <1>2, <1>4, <1>5, <2>1, <2>2 DEF Story, StoryTypes, N, X
<1>13. StoryRuns(g)
    <2>1. ASSUME NEW i \in 1 .. N + 1
          PROVE  LET y == ApplyOps(g.tiers[i - 1], g.ledger[i].block)
                 IN  /\ g.tiers[i] = y.tiers
                     /\ g.ledger[i].root = IF y.staged # {} THEN RootAt(g.ledger, i - 1) + 1
                                           ELSE RootAt(g.ledger, i - 1)
        <3>1. CASE i = N + 1
            <4>1. i - 1 = N /\ N \in 0 .. N
                BY <1>1, <3>1
            <4>2. g.tiers[i - 1] = h.tiers[N] /\ RootAt(g.ledger, i - 1) = RootAt(h.ledger, N) /\ g.ledger[i] = x
                BY <1>2, <1>4, <1>10, <3>1, <4>1
            <4>3. x.root = IF e.staged # {} THEN RootAt(h.ledger, N) + 1 ELSE RootAt(h.ledger, N)
                BY DEF Adds
            <4>. QED
                BY <1>3, <1>4, <3>1, <4>2, <4>3
        <3>2. CASE i # N + 1
            <4>1. i \in 1 .. N /\ i - 1 \in 0 .. N /\ i \in 0 .. N
                BY <1>1, <3>2
            <4>2. g.tiers[i - 1] = h.tiers[i - 1] /\ g.tiers[i] = h.tiers[i] /\ g.ledger[i] = h.ledger[i]
                  /\ RootAt(g.ledger, i - 1) = RootAt(h.ledger, i - 1)
                BY <1>2, <1>4, <1>10, <4>1
            <4>. QED
                BY <4>1, <4>2 DEF Story, StoryRuns
        <3>. QED
            BY <3>1, <3>2
    <2>. QED
        BY <1>2, <2>1 DEF StoryRuns
<1>14. StoryLogged(g, lg)
    <2>1. ASSUME NEW d \in 0 .. X, NEW i \in h.from[d] + 1 .. To(g, d)
          PROVE  /\ i - h.from[d] <= Len(lg[d])
                 /\ g.ledger[i].height = h.base[d] + (i - h.from[d])
                 /\ g.ledger[i].block = lg[d][i - h.from[d]]
        <3>1. CASE d = X /\ i = N + 1
            <4>1. i - h.from[d] = w
                BY <1>1, <3>1
            <4>. QED
                BY <1>2, <3>1, <4>1 DEF Adds
        <3>2. CASE ~ (d = X /\ i = N + 1)
            <4>1. i \in h.from[d] + 1 .. To(h, d) /\ i \in 1 .. N
                BY <1>1, <1>6, <1>7, <3>2
            <4>2. g.ledger[i] = h.ledger[i]
                BY <1>2, <4>1
            <4>. QED
                BY <4>1, <4>2 DEF Story, StoryLogged
        <3>. QED
            BY <3>1, <3>2
    <2>2. \A d \in 0 .. X : h.from[d] <= To(g, d)
        BY <1>1, <1>6, <1>7
    <2>. QED
        BY <1>5, <2>1, <2>2 DEF StoryLogged
<1>15. StoryCut(g)
    <2>1. \A d \in 0 .. X : d < X => d # X
        BY <1>1
    <2>. QED
        BY <1>5, <1>10 DEF Story, StoryCut
<1>16. StoryOpen(g)
    <2>. SUFFICES ASSUME NEW i, First(g, X, i) PROVE N + 1 < i + Delay
        BY <1>2, <1>5 DEF StoryOpen
    <2>1. i \in h.from[X] + 1 .. N + 1
        BY <1>1, <1>5, <1>6 DEF First
    <2>2. CASE i = N + 1
        BY <1>1, <2>2
    <2>3. CASE i # N + 1
        <3>1. i \in 1 .. N /\ i \in h.from[X] + 1 .. N
            <4>. DEFINE a == h.from[X]
            <4>1. a \in Nat /\ N \in Nat /\ i \in a + 1 .. N + 1
                BY <1>1, <2>1
            <4>. HIDE DEF a, N, X
            <4>2. i \in 1 .. N /\ i \in a + 1 .. N
                BY <2>3, <4>1
            <4>. QED
                BY <4>2 DEF a
        <3>2. \A j \in h.from[X] + 1 .. i - 1 : j \in 1 .. N
            BY <1>1, <3>1
        <3>3. First(h, X, i)
            BY <1>1, <1>5, <1>10, <3>1, <3>2 DEF First
        <3>. QED
            BY <3>3 DEF Adds
    <2>. QED
        BY <2>2, <2>3
<1>17. StoryStill(g)
    <2>. SUFFICES ASSUME NEW d \in 0 .. X, NEW i \in h.from[d] .. To(g, d),
                         \A j \in h.from[d] + 1 .. i : ~ Moved(g.ledger, j)
                  PROVE  g.tiers[i] = g.tiers[h.from[d]]
        BY <1>5 DEF StoryStill
    <2>0. h.from[d] \in Nat /\ To(h, d) \in Nat /\ h.from[d] <= To(h, d) /\ To(h, d) <= N /\ N \in Nat
        BY <1>1, <1>7
    <2>1. h.from[d] \in 0 .. N /\ g.tiers[h.from[d]] = h.tiers[h.from[d]]
        <3>. HIDE DEF N, X
        <3>1. h.from[d] \in 0 .. N
            BY <2>0
        <3>. QED
            BY <1>4, <3>1
    <2>2. ASSUME NEW k \in h.from[d] .. To(h, d), k <= i PROVE h.tiers[k] = h.tiers[h.from[d]]
        <3>1. \A j \in h.from[d] + 1 .. k : j \in h.from[d] + 1 .. i /\ j \in 1 .. N
            <4>. DEFINE a == h.from[d]
                        b == To(h, d)
                        c == To(g, d)
            <4>1. a \in Nat /\ b \in Nat /\ b <= N /\ N \in Nat /\ k \in a .. b /\ k <= i /\ c \in Nat /\ i \in a .. c
                BY <2>0, <2>2, <1>1, <1>6
            <4>. HIDE DEF a, b, c, N, X
            <4>2. \A j \in a + 1 .. k : j \in a + 1 .. i /\ j \in 1 .. N
                BY <4>1
            <4>. QED
                BY <4>2 DEF a
        <3>2. \A j \in h.from[d] + 1 .. k : ~ Moved(h.ledger, j)
            BY <1>10, <3>1
        <3>. QED
            BY <3>2 DEF Story, StoryStill
    <2>3. CASE d = X /\ i = N + 1
        <3>1. N \in h.from[d] .. To(h, d) /\ N <= i /\ N + 1 \in h.from[d] + 1 .. i
            BY <1>1, <2>3
        <3>2. h.tiers[N] = h.tiers[h.from[d]]
            BY <2>2, <3>1
        <3>3. e.staged = {}
            BY <1>11, <3>1
        <3>. QED
            BY <1>3, <1>4, <2>1, <2>3, <3>2, <3>3
    <2>4. CASE ~ (d = X /\ i = N + 1)
        <3>1. i \in h.from[d] .. To(h, d) /\ i \in 0 .. N /\ i <= i
            BY <1>1, <1>6, <1>7, <2>4
        <3>. QED
            BY <1>4, <2>1, <2>2, <3>1
    <2>. QED
        BY <2>3, <2>4
<1>. QED
    BY <1>2, <1>8, <1>12, <1>13, <1>14, <1>15, <1>16, <1>17 DEF Story

\* The newest epoch ends at its boundary p, with all below it in the ledger.
Closes(h, g, p) ==
    /\ h.last < MaxEpoch
    /\ g.ledger = h.ledger /\ g.tiers = h.tiers /\ g.last = h.last + 1
    /\ g.from = [e \in 0 .. h.last + 1 |-> IF e = h.last + 1 THEN Len(h.ledger) ELSE h.from[e]]
    /\ g.base = [e \in 0 .. h.last + 1 |-> IF e = h.last + 1 THEN h.base[h.last] + p ELSE h.base[e]]
    /\ p # 0 /\ ArmedAt(h, h.last, Len(h.ledger), p) /\ Len(h.ledger) + 1 = h.from[h.last] + p

LEMMA StoryCloses ==
    ASSUME NEW h, NEW lg, Story(h, lg), NEW g, NEW p, Closes(h, g, p)
    PROVE  Story(g, lg) /\ Continues(h, g)
<1>. DEFINE N == Len(h.ledger)
            X == h.last
<1>1. /\ h.ledger \in Seq(SealedBlock) /\ N \in Nat /\ X \in Nat /\ Delay \in Nat /\ Delay >= 1
      /\ X \in 0 .. X /\ h.from[X] \in Nat /\ h.base[X] \in Nat /\ To(h, X) = N /\ h.from[X] <= N
      /\ p \in Nat /\ p # 0 /\ MaxEpoch \in Nat /\ X < MaxEpoch
    BY StoryNats DEF Closes, ArmedAt, To
<1>2. g.ledger = h.ledger /\ g.tiers = h.tiers /\ g.last = X + 1
    BY DEF Closes
<1>3. /\ \A d \in 0 .. X : d \in 0 .. X + 1 /\ d # X + 1 /\ d < X + 1
      /\ \A d \in 0 .. X + 1 : d = X + 1 \/ d \in 0 .. X
      /\ X + 1 \in 0 .. X + 1
    BY <1>1
<1>4. /\ \A d \in 0 .. X : g.from[d] = h.from[d] /\ g.base[d] = h.base[d]
      /\ g.from[X + 1] = N /\ g.base[X + 1] = h.base[X] + p
      /\ DOMAIN g.from = 0 .. X + 1 /\ DOMAIN g.base = 0 .. X + 1
    BY <1>3 DEF Closes
<1>5. \A d \in 0 .. X : To(h, d) \in Nat /\ To(h, d) <= N /\ h.from[d] \in Nat /\ h.from[d] <= To(h, d) /\ h.base[d] \in Nat
    BY StoryNats
<1>6. To(g, X + 1) = N /\ \A d \in 0 .. X : To(g, d) = To(h, d)
    <2>1. To(g, X + 1) = N
        BY <1>1, <1>2 DEF To
    <2>2. ASSUME NEW d \in 0 .. X PROVE To(g, d) = To(h, d)
        <3>1. To(g, d) = g.from[d + 1]
            BY <1>2, <1>3 DEF To
        <3>2. CASE d = X
            BY <1>1, <1>4, <3>1, <3>2
        <3>3. CASE d # X
            <4>1. d < X /\ d + 1 \in 0 .. X
                BY <1>1, <3>3
            <4>. QED
                BY <1>4, <3>1, <4>1 DEF To
        <3>. QED
            BY <3>2, <3>3
    <2>. QED
        BY <2>1, <2>2
<1>7. Continues(h, g)
    BY <1>1, <1>2, <1>4, <1>5, <1>6 DEF Continues
<1>8. \A d \in 0 .. X : \A i : First(h, d, i) => First(g, d, i)
    BY <1>7, ContinuesFirst
<1>9. StoryTypes(g)
    <2>1. g.from \in [0 .. X + 1 -> 0 .. N]
        <3>1. ASSUME NEW d \in 0 .. X + 1 PROVE g.from[d] \in 0 .. N
            <4>1. CASE d = X + 1
                <5>1. N \in 0 .. N
                    BY <1>1
                <5>. QED
                    BY <1>4, <4>1, <5>1
            <4>2. CASE d \in 0 .. X
                <5>1. h.from[d] \in Nat /\ To(h, d) \in Nat /\ To(h, d) <= N /\ h.from[d] <= To(h, d) /\ N \in Nat
                    BY <1>1, <1>5, <4>2
                <5>2. g.from[d] = h.from[d]
                    BY <1>4, <4>2
                <5>. HIDE DEF N, X
                <5>. QED
                    BY <5>1, <5>2
            <4>. QED
                BY <1>3, <4>1, <4>2
        <3>. QED
            BY <3>1 DEF Closes
    <2>2. g.base \in [0 .. X + 1 -> Nat]
        <3>1. ASSUME NEW d \in 0 .. X + 1 PROVE g.base[d] \in Nat
            <4>1. CASE d = X + 1
                BY <1>1, <1>4, <4>1
            <4>2. CASE d \in 0 .. X
                BY <1>4, <1>5, <4>2
            <4>. QED
                BY <1>3, <4>1, <4>2
        <3>. QED
            BY <3>1 DEF Closes
    <2>3. X + 1 \in Epoch /\ 0 \in 0 .. X
        BY <1>1 DEF Epoch
    <2>. HIDE DEF N, X
    <2>. QED
        BY <1>2, <1>4, <2>1, <2>2, <2>3 DEF Story, StoryTypes, N, X
<1>10. StoryRuns(g)
    BY <1>2 DEF Story, StoryRuns
<1>11. StoryLogged(g, lg)
    <2>. SUFFICES ASSUME NEW d \in 0 .. X + 1
                  PROVE  /\ g.from[d] <= To(g, d)
                         /\ \A i \in g.from[d] + 1 .. To(g, d) :
                              /\ i - g.from[d] <= Len(lg[d])
                              /\ g.ledger[i].height = g.base[d] + (i - g.from[d])
                              /\ g.ledger[i].block = lg[d][i - g.from[d]]
        BY <1>2 DEF StoryLogged
    <2>1. CASE d = X + 1
        BY <1>1, <1>4, <1>6, <2>1
    <2>2. CASE d \in 0 .. X
        BY <1>2, <1>4, <1>6, <2>2 DEF Story, StoryLogged
    <2>. QED
        BY <1>3, <2>1, <2>2
<1>12. StoryCut(g)
    <2>. SUFFICES ASSUME NEW d \in 0 .. X + 1, d < X + 1
                  PROVE  \E i : /\ First(g, d, i) /\ g.from[d + 1] + 1 = i + Delay
                                /\ g.base[d + 1] = g.base[d] + (g.from[d + 1] - g.from[d]) + 1
        BY <1>2 DEF StoryCut
    <2>1. d \in 0 .. X
        BY <1>1
    <2>2. CASE d = X
        <3>1. PICK i : First(h, X, i) /\ h.from[X] + p = i + Delay
            BY <1>1 DEF Closes, ArmedAt
        <3>2. First(g, d, i) /\ g.from[d + 1] + 1 = i + Delay
            BY <1>1, <1>4, <1>8, <2>2, <3>1 DEF Closes
        <3>3. h.base[X] + p = h.base[X] + (N - h.from[X]) + 1
            <4>. DEFINE a == h.from[X]
                        b == h.base[X]
            <4>1. a \in Nat /\ b \in Nat /\ N \in Nat /\ p \in Nat /\ N + 1 = a + p
                BY <1>1 DEF Closes
            <4>. HIDE DEF a, b, N, X
            <4>2. b + p = b + (N - a) + 1
                BY <4>1
            <4>. QED
                BY <4>2 DEF a, b
        <3>4. g.base[d + 1] = g.base[d] + (g.from[d + 1] - g.from[d]) + 1
            BY <1>1, <1>4, <2>2, <3>3
        <3>. QED
            BY <3>2, <3>4
    <2>3. CASE d # X
        <3>1. d < X /\ d + 1 \in 0 .. X
            BY <1>1, <2>1, <2>3
        <3>2. PICK i : /\ First(h, d, i) /\ h.from[d + 1] + 1 = i + Delay
                       /\ h.base[d + 1] = h.base[d] + (h.from[d + 1] - h.from[d]) + 1
            BY <2>1, <3>1 DEF Story, StoryCut
        <3>. QED
            BY <1>4, <1>8, <2>1, <3>1, <3>2
    <2>. QED
        BY <2>2, <2>3
<1>13. StoryOpen(g)
    <2>1. \A i : ~ First(g, X + 1, i)
        BY <1>1, <1>4, <1>6 DEF First
    <2>. QED
        BY <1>2, <2>1 DEF StoryOpen
<1>14. StoryStill(g)
    <2>. SUFFICES ASSUME NEW d \in 0 .. X + 1, NEW i \in g.from[d] .. To(g, d),
                         \A j \in g.from[d] + 1 .. i : ~ Moved(g.ledger, j)
                  PROVE  g.tiers[i] = g.tiers[g.from[d]]
        BY <1>2 DEF StoryStill
    <2>1. CASE d = X + 1
        <3>1. i = N
            BY <1>1, <1>4, <1>6, <2>1
        <3>. QED
            BY <1>4, <2>1, <3>1
    <2>2. CASE d \in 0 .. X
        BY <1>2, <1>4, <1>6, <2>2 DEF Story, StoryStill
    <2>. QED
        BY <1>3, <2>1, <2>2
<1>. QED
    BY <1>7, <1>9, <1>10, <1>11, <1>12, <1>13, <1>14 DEF Story

--------------------------------------------------------------------------------
(***************************************************************************)
(* One validator's steps                                                   *)
(***************************************************************************)
SameSeals(n, m) == m.tiers = n.tiers /\ m.root = n.root /\ m.chain = n.chain
SameEpoch(n, m) == m.epoch = n.epoch /\ m.base = n.base /\ m.current = n.current

LEMMA NodeFacts ==
    ASSUME NEW h, NEW lg, Story(h, lg), NEW n, NodeOK(h, lg, n)
    PROVE  /\ n.epoch \in 0 .. h.last /\ h.last \in Nat /\ n.epoch \in Nat /\ n.epoch <= h.last
           /\ h.from[n.epoch] \in Nat /\ To(h, n.epoch) \in Nat /\ To(h, n.epoch) <= Len(h.ledger)
           /\ Len(h.ledger) \in Nat /\ n.chain \in Seq(SealedBlock) /\ Len(n.chain) \in Nat
           /\ h.from[n.epoch] <= Len(n.chain) /\ Len(n.chain) <= To(h, n.epoch)
           /\ Delay \in Nat /\ Delay >= 1 /\ n.at \in Nat /\ n.pending \in Nat
           /\ n.base \in Nat /\ n.base = h.base[n.epoch]
<1>1. n.epoch \in 0 .. h.last /\ n.chain \in Seq(SealedBlock) /\ h.from[n.epoch] <= Len(n.chain)
      /\ Len(n.chain) <= To(h, n.epoch) /\ n.base = h.base[n.epoch] /\ n.at \in Nat
    BY DEF NodeOK, NodePlace, NodeClock
<1>2. /\ h.from[n.epoch] \in Nat /\ To(h, n.epoch) \in Nat /\ To(h, n.epoch) <= Len(h.ledger)
      /\ Len(h.ledger) \in Nat /\ h.last \in Nat /\ Delay \in Nat /\ Delay >= 1 /\ h.base[n.epoch] \in Nat
    BY <1>1, StoryNats
<1>3. n.pending \in Nat
    BY DEF NodeOK, NodeArmed, ArmedAt
<1>4. n.epoch \in Nat /\ n.epoch <= h.last
    BY <1>1, <1>2
<1>5. Len(n.chain) \in Nat
    BY <1>1
<1>. QED
    BY <1>1, <1>2, <1>3, <1>4, <1>5

\* What an armed boundary tells its holder.
LEMMA NodeCeiling ==
    ASSUME NEW h, NEW lg, Story(h, lg), NEW n, NodeOK(h, lg, n), n.pending # 0
    PROVE  /\ ArmedAt(h, n.epoch, Len(n.chain), n.pending)
           /\ To(h, n.epoch) < h.from[n.epoch] + n.pending
           /\ n.epoch < h.last => /\ To(h, n.epoch) + 1 = h.from[n.epoch] + n.pending
                                  /\ h.base[n.epoch + 1] = n.base + n.pending
<1>1. ArmedAt(h, n.epoch, Len(n.chain), n.pending)
    BY DEF NodeOK, NodeArmed
<1>2. n.epoch \in 0 .. h.last /\ n.base = h.base[n.epoch]
    BY NodeFacts
<1>. QED
    BY <1>1, <1>2, Ceiling

\* A view is a re-report exactly if its block is sealed.
LEMMA NodeReplay ==
    ASSUME NEW h, NEW lg, Story(h, lg), NEW n, NodeOK(h, lg, n)
    PROVE  n.base + (n.at + 1) <= TipOf(n.chain) <=> h.from[n.epoch] + n.at + 1 <= Len(n.chain)
<1>. DEFINE a == h.from[n.epoch]
            k == Len(n.chain)
            y == TipOf(n.chain)
            b == n.base
            c == n.at
<1>1. a \in Nat /\ k \in Nat /\ y \in Nat /\ b \in Nat /\ c \in Nat /\ a <= k
    BY NodeFacts, TipHeight DEF NodeOK
<1>2. (k > a => y = b + (k - a)) /\ (k = a => y <= b)
    BY TipHeight DEF NodeOK
<1>. HIDE DEF a, k, y, b, c
<1>3. b + (c + 1) <= y <=> a + c + 1 <= k
    BY <1>1, <1>2
<1>. QED
    BY <1>3 DEF a, k, y, b, c

PassesOver(n, m, lg) ==
    /\ n.turn \in {"idle", "pass"} /\ n.at < Len(lg[n.epoch])
    /\ \/ n.base + (n.at + 1) <= TipOf(n.chain)
       \/ n.pending # 0 /\ n.at + 1 >= n.pending
    /\ m.at = n.at + 1 /\ m.turn = "pass"
    /\ SameSeals(n, m) /\ SameEpoch(n, m) /\ m.pending = n.pending /\ m.manifest = n.manifest

LEMMA NodePassesOver ==
    ASSUME NEW h, NEW lg \in [Epoch -> Seq(Block)], Story(h, lg), NEW n, NodeOK(h, lg, n), NEW m,
           PassesOver(n, m, lg)
    PROVE  NodeOK(h, lg, m)
<1>. DEFINE a == h.from[n.epoch]
            k == Len(n.chain)
            c == n.at
            p == n.pending
            z == To(h, n.epoch)
            l == Len(lg[n.epoch])
<1>1. a \in Nat /\ k \in Nat /\ c \in Nat /\ p \in Nat /\ z \in Nat /\ a <= k /\ k <= z
    BY NodeFacts
<1>2. l \in Nat /\ c < l
    <2>1. n.epoch \in Epoch
        BY NodeFacts, StoryNats DEF Epoch
    <2>. QED
        BY <2>1 DEF PassesOver
<1>3. p # 0 => z < a + p
    BY NodeCeiling
<1>4. c > k - a => p # 0 /\ k + 1 = a + p
    BY DEF NodeOK, NodeClock
<1>5. a + c + 1 <= k \/ (p # 0 /\ c + 1 >= p)
    BY NodeReplay DEF PassesOver
<1>6. ArmedAt(h, n.epoch, k, p)
    BY DEF NodeOK, NodeArmed, PassesOver
<1>. HIDE DEF a, k, c, p, z, l
<1>7. (c + 1 > k - a => p # 0 /\ k + 1 = a + p) /\ c + 1 \in Nat /\ c + 1 <= l
    BY <1>1, <1>2, <1>3, <1>4, <1>5
<1>8. NodePlace(h, m)
    BY DEF NodeOK, NodePlace, PassesOver, SameSeals, SameEpoch
<1>9. NodeClock(h, lg, m)
    BY <1>7 DEF NodeClock, PassesOver, SameSeals, SameEpoch, a, k, c, p, l
<1>10. NodeArmed(h, m)
    BY <1>6 DEF NodeArmed, PassesOver, SameSeals, SameEpoch, k, p
<1>11. NodeManifest(h, m)
    BY DEF NodeOK, NodeManifest, PassesOver, SameSeals, SameEpoch
<1>. QED
    BY <1>8, <1>9, <1>10, <1>11 DEF NodeOK

\* A view that is neither a re-report nor past the ceiling is the next of the
\* chain; past the end of the epoch's blocks there is none but in the newest.
Runs(n, lg) ==
    /\ n.turn \in {"idle", "pass"} /\ n.at < Len(lg[n.epoch])
    /\ ~ (n.base + (n.at + 1) <= TipOf(n.chain))
    /\ ~ (n.pending # 0 /\ n.at + 1 >= n.pending)

LEMMA NodeRuns ==
    ASSUME NEW h, NEW lg, Story(h, lg), NEW n, NodeOK(h, lg, n), Runs(n, lg)
    PROVE  /\ h.from[n.epoch] + n.at = Len(n.chain)
           /\ ArmedAt(h, n.epoch, Len(n.chain), n.pending)
           /\ n.pending # 0 => Len(n.chain) + 1 < h.from[n.epoch] + n.pending
           /\ Len(n.chain) = To(h, n.epoch) => n.epoch = h.last
<1>. DEFINE e == n.epoch
            a == h.from[n.epoch]
            k == Len(n.chain)
            c == n.at
            p == n.pending
            z == To(h, n.epoch)
<1>1. /\ a \in Nat /\ k \in Nat /\ c \in Nat /\ p \in Nat /\ z \in Nat /\ a <= k /\ k <= z
      /\ e \in 0 .. h.last /\ e \in Nat /\ h.last \in Nat /\ e <= h.last
    BY NodeFacts
<1>2. ~ (a + c + 1 <= k) /\ ~ (p # 0 /\ c + 1 >= p)
    BY NodeReplay DEF Runs
<1>3. c > k - a => p # 0 /\ k + 1 = a + p
    BY DEF NodeOK, NodeClock
<1>4. ArmedAt(h, e, k, p)
    BY DEF NodeOK, NodeArmed, Runs
<1>5. p # 0 /\ e < h.last => z + 1 = a + p
    BY NodeCeiling
<1>6. e < h.last => \E i : First(h, e, i)
    BY <1>1 DEF Story, StoryCut
<1>7. ASSUME e < h.last, k = z, p = 0 PROVE FALSE
    <2>1. PICK i : First(h, e, i)
        BY <1>6, <1>7
    <2>2. i \in a + 1 .. z /\ Moved(h.ledger, i)
        BY <2>1 DEF First
    <2>3. \A j \in a + 1 .. k : ~ Moved(h.ledger, j)
        BY <1>4, <1>7 DEF ArmedAt
    <2>. HIDE DEF a, z, k, e, p
    <2>. QED
        BY <1>7, <2>2, <2>3
<1>. HIDE DEF a, k, c, p, z, e
<1>8. a + c = k
    BY <1>1, <1>2, <1>3
<1>9. p # 0 => k + 1 < a + p
    BY <1>1, <1>2, <1>8
<1>10. k = z => e = h.last
    BY <1>1, <1>5, <1>7, <1>9
<1>. QED
    BY <1>4, <1>8, <1>9, <1>10 DEF a, k, c, p, z, e

\* The next block of the ledger is sealed; the barrier breaks the pass if it
\* moved the root.
Seals(n, m, x, t) ==
    /\ m.chain = Append(n.chain, x) /\ m.tiers = t /\ m.root = x.root
    /\ m.at = n.at + 1 /\ m.turn = (IF x.root # n.root THEN "broke" ELSE "pass")
    /\ SameEpoch(n, m) /\ m.pending = n.pending /\ m.manifest = n.manifest

LEMMA NodeSeals ==
    ASSUME NEW h, NEW lg \in [Epoch -> Seq(Block)], Story(h, lg), NEW n, NodeOK(h, lg, n), NEW m,
           h.from[n.epoch] + n.at = Len(n.chain), n.at < Len(lg[n.epoch]),
           ArmedAt(h, n.epoch, Len(n.chain), n.pending), Len(n.chain) < To(h, n.epoch),
           Seals(n, m, h.ledger[Len(n.chain) + 1], h.tiers[Len(n.chain) + 1])
    PROVE  NodeOK(h, lg, m)
<1>. DEFINE e == n.epoch
            a == h.from[e]
            k == Len(n.chain)
            c == n.at
            p == n.pending
            z == To(h, e)
            l == Len(lg[e])
            x == h.ledger[k + 1]
<1>1. /\ a \in Nat /\ k \in Nat /\ c \in Nat /\ p \in Nat /\ z \in Nat /\ a <= k /\ k < z
      /\ a + c = k /\ z <= Len(h.ledger) /\ Len(h.ledger) \in Nat
      /\ e \in 0 .. h.last /\ n.chain \in Seq(SealedBlock) /\ h.ledger \in Seq(SealedBlock)
    BY NodeFacts, StoryNats
<1>2. l \in Nat /\ c < l
    <2>1. e \in Epoch
        <3>1. e \in Nat /\ e <= h.last /\ h.last \in Nat
            BY NodeFacts
        <3>2. h.last <= MaxEpoch /\ MaxEpoch \in Nat
            BY StoryNats
        <3>. HIDE DEF e
        <3>. QED
            BY <3>1, <3>2 DEF Epoch
    <2>. QED
        BY <2>1
<1>3. /\ m.chain = Append(n.chain, x) /\ m.tiers = h.tiers[k + 1] /\ m.root = x.root
      /\ m.at = c + 1 /\ m.turn = (IF x.root # n.root THEN "broke" ELSE "pass")
      /\ m.epoch = e /\ m.base = n.base /\ m.current = n.current /\ m.pending = p
      /\ m.manifest = n.manifest
    BY DEF Seals, SameEpoch
<1>4. ArmedAt(h, e, k, p)
    OBVIOUS
<1>5. k + 1 \in 1 .. Len(h.ledger) /\ k + 1 \in a + 1 .. z /\ k + 1 <= z /\ a <= k + 1 /\ k + 1 \in Nat
    <2>. HIDE DEF a, k, c, p, z, l, x
    <2>. QED
        BY <1>1
<1>6. x \in SealedBlock
    BY <1>1, <1>5
<1>7. n.root = RootAt(h.ledger, k) /\ \A i \in 1 .. k : n.chain[i] = h.ledger[i]
    BY DEF NodeOK, NodePlace
<1>8. /\ m.chain \in Seq(SealedBlock) /\ Len(m.chain) = k + 1
      /\ \A i \in 1 .. k + 1 : m.chain[i] = h.ledger[i]
    <2>1. m.chain \in Seq(SealedBlock) /\ Len(m.chain) = k + 1 /\ m.chain[k + 1] = x
        BY <1>1, <1>3, <1>6
    <2>2. \A i \in 1 .. k : m.chain[i] = n.chain[i]
        BY <1>1, <1>3, <1>6
    <2>3. \A i \in 1 .. k + 1 : i = k + 1 \/ i \in 1 .. k
        BY <1>1
    <2>. QED
        BY <1>7, <2>1, <2>2, <2>3
<1>9. x.root = RootAt(h.ledger, k + 1) /\ (Moved(h.ledger, k + 1) <=> x.root # n.root)
    <2>1. k + 1 # 0 /\ (k + 1) - 1 = k
        BY <1>1
    <2>. QED
        BY <1>7, <2>1 DEF Moved, RootAt
<1>10. m.manifest.sealed \in 0 .. k /\ NodeManifest(h, n)
    BY <1>3 DEF NodeOK, NodeManifest
<1>11. p # 0 => \E i : First(h, e, i) /\ i <= k /\ h.from[e] + p = i + Delay
    BY <1>4 DEF ArmedAt
<1>12. p = 0 => \A i \in a + 1 .. k : ~ Moved(h.ledger, i)
    BY <1>4 DEF ArmedAt
<1>13. n.base = h.base[e] /\ n.current = h.tiers[a]
    BY DEF NodeOK, NodePlace
<1>. HIDE DEF a, k, c, p, z, l, x, e
<1>14. NodePlace(h, m)
    BY <1>1, <1>3, <1>5, <1>8, <1>9, <1>13 DEF NodePlace, a, z
<1>15. NodeClock(h, lg, m)
    <2>1. c + 1 \in Nat /\ c + 1 <= l /\ ~ (c + 1 > (k + 1) - a)
        BY <1>1, <1>2
    <2>. QED
        BY <1>3, <1>8, <2>1 DEF NodeClock, a, l
<1>16. NodeArmed(h, m)
    <2>1. CASE p # 0
        <3>1. PICK i : First(h, e, i) /\ i <= k /\ h.from[e] + p = i + Delay
            BY <1>11, <2>1
        <3>2. i <= k + 1
            <4>1. i \in Nat
                BY <1>1, <3>1 DEF First, a, z
            <4>. QED
                BY <1>1, <3>1, <4>1
        <3>3. ArmedAt(h, e, k + 1, p)
            BY <1>1, <2>1, <3>1, <3>2 DEF ArmedAt
        <3>. QED
            BY <1>3, <1>8, <3>3 DEF NodeArmed
    <2>2. CASE p = 0 /\ ~ Moved(h.ledger, k + 1)
        <3>1. \A i \in a + 1 .. k + 1 : i = k + 1 \/ i \in a + 1 .. k
            BY <1>1
        <3>2. \A i \in a + 1 .. k + 1 : ~ Moved(h.ledger, i)
            BY <1>12, <2>2, <3>1
        <3>3. ArmedAt(h, e, k + 1, p)
            BY <1>1, <2>2, <3>2 DEF ArmedAt, a
        <3>. QED
            BY <1>3, <1>8, <3>3 DEF NodeArmed
    <2>3. CASE p = 0 /\ Moved(h.ledger, k + 1)
        <3>1. (k + 1) - 1 = k /\ a + (c + 1) = k + 1
            BY <1>1
        <3>2. First(h, e, k + 1)
            BY <1>5, <1>12, <2>3, <3>1 DEF First, a, z
        <3>. QED
            BY <1>3, <1>8, <1>9, <2>3, <3>1, <3>2 DEF NodeArmed, a
    <2>. QED
        BY <2>1, <2>2, <2>3
<1>17. NodeManifest(h, m)
    <2>1. m.manifest.sealed \in 0 .. k + 1
        BY <1>1, <1>10
    <2>. QED
        BY <1>3, <1>8, <1>10, <2>1 DEF NodeManifest, e, k
<1>. QED
    BY <1>14, <1>15, <1>16, <1>17 DEF NodeOK

\* Every block that moves the root changes the membership: no block's
\* operations cancel out.
EveryMoveShows ==
    \A t \in Tiers, b \in Block : ApplyOps(t, b).staged # {} => ApplyOps(t, b).tiers # t

\* The block that arms the boundary shows.
LEMMA FirstShows ==
    ASSUME EveryMoveShows, NEW h, NEW lg, Story(h, lg), NEW e \in 0 .. h.last, NEW i, First(h, e, i)
    PROVE  h.tiers[i] # h.tiers[h.from[e]]
<1>. DEFINE a == h.from[e]
            z == To(h, e)
            N == Len(h.ledger)
            y == ApplyOps(h.tiers[i - 1], h.ledger[i].block)
<1>1. a \in Nat /\ z \in Nat /\ z <= N /\ N \in Nat /\ h.ledger \in Seq(SealedBlock)
    BY StoryNats
<1>2. i \in a + 1 .. z
    BY DEF First
<1>. HIDE DEF a, z, N
<1>3. i \in 1 .. N /\ i - 1 \in 0 .. N /\ i - 1 \in a .. z /\ i \in Nat
    BY <1>1, <1>2
<1>. USE DEF N
<1>4. h.tiers[i - 1] \in Tiers /\ h.ledger[i].block \in Block
    <2>1. h.tiers[i - 1] \in Tiers
        BY <1>3, StoryNats
    <2>2. h.ledger[i] \in SealedBlock
        BY <1>1, <1>3
    <2>. QED
        BY <2>1, <2>2 DEF SealedBlock
<1>5. /\ h.tiers[i] = y.tiers
      /\ h.ledger[i].root = IF y.staged # {} THEN RootAt(h.ledger, i - 1) + 1 ELSE RootAt(h.ledger, i - 1)
    BY <1>3 DEF Story, StoryRuns
<1>6. y.staged # {}
    <2>1. h.ledger[i].root # RootAt(h.ledger, i - 1)
        BY <1>3 DEF First, Moved, RootAt
    <2>. QED
        BY <1>5, <2>1
<1>7. h.tiers[i - 1] = h.tiers[h.from[e]]
    BY <1>3 DEF First, Story, StoryStill, a, z
<1>. QED
    BY <1>4, <1>5, <1>6, <1>7 DEF EveryMoveShows

\* observe_members over the membership the chain left.
ArmedOf(n) ==
    IF n.pending # 0 THEN n.pending
    ELSE IF n.tiers # n.current THEN n.at + Delay
    ELSE 0

Observes(n, m) ==
    /\ m.pending = ArmedOf(n) /\ m.turn = "idle" /\ m.at = n.at
    /\ SameSeals(n, m) /\ SameEpoch(n, m) /\ m.manifest = n.manifest

LEMMA NodeObserves ==
    ASSUME EveryMoveShows, NEW h, NEW lg, Story(h, lg), NEW n, NodeOK(h, lg, n), NEW m, Observes(n, m)
    PROVE  NodeOK(h, lg, m)
<1>. DEFINE e == n.epoch
            a == h.from[e]
            k == Len(n.chain)
            c == n.at
            q == ArmedOf(n)
<1>1. /\ a \in Nat /\ k \in Nat /\ c \in Nat /\ n.pending \in Nat /\ To(h, e) \in Nat /\ a <= k /\ k <= To(h, e)
      /\ e \in 0 .. h.last /\ Delay \in Nat /\ Delay >= 1
    BY NodeFacts
<1>2. n.tiers = h.tiers[k] /\ n.current = h.tiers[a]
    BY DEF NodeOK, NodePlace
<1>3. /\ m.pending = q /\ m.turn = "idle" /\ m.at = c /\ m.manifest = n.manifest
      /\ m.tiers = n.tiers /\ m.root = n.root /\ m.chain = n.chain
      /\ m.epoch = e /\ m.base = n.base /\ m.current = n.current
    BY DEF Observes, SameSeals, SameEpoch
<1>4. NodePlace(h, m)
    BY <1>3 DEF NodeOK, NodePlace
<1>5. NodeManifest(h, m)
    BY <1>3 DEF NodeOK, NodeManifest
<1>6. ArmedAt(h, e, k, q) /\ (c > k - a => q = n.pending)
    <2>1. CASE n.pending # 0
        BY <2>1 DEF NodeOK, NodeArmed, ArmedOf
    <2>2. CASE n.pending = 0 /\ ArmedAt(h, e, k, n.pending)
        <3>1. \A j \in a + 1 .. k : ~ Moved(h.ledger, j)
            BY <2>2 DEF ArmedAt
        <3>2. k \in a .. To(h, e)
            <4>. HIDE DEF a, k
            <4>. QED
                BY <1>1
        <3>3. n.tiers = n.current
            BY <1>1, <1>2, <3>1, <3>2 DEF Story, StoryStill
        <3>. QED
            BY <2>2, <3>3 DEF ArmedOf
    <2>3. CASE /\ n.turn = "broke" /\ n.pending = 0
               /\ h.from[n.epoch] + n.at = Len(n.chain)
               /\ First(h, n.epoch, Len(n.chain))
        <3>1. n.tiers # n.current
            BY <1>1, <1>2, <2>3, FirstShows
        <3>2. q = c + Delay
            BY <2>3, <3>1 DEF ArmedOf
        <3>3. a + c = k /\ First(h, e, k)
            BY <2>3
        <3>. HIDE DEF q
        <3>4. k <= k /\ a + q = k + Delay /\ q \in Nat /\ q # 0
            <4>. HIDE DEF a, k, c
            <4>. QED
                BY <1>1, <3>2, <3>3
        <3>5. ~ (c > k - a)
            <4>. HIDE DEF a, k, c
            <4>. QED
                BY <1>1, <3>3
        <3>. QED
            BY <3>3, <3>4, <3>5 DEF ArmedAt
    <2>. QED
        BY <2>1, <2>2, <2>3 DEF NodeOK, NodeArmed
<1>. HIDE DEF q
<1>7. NodeArmed(h, m)
    BY <1>3, <1>6 DEF NodeArmed
<1>8. NodeClock(h, lg, m)
    BY <1>3, <1>6 DEF NodeOK, NodeClock
<1>. QED
    BY <1>4, <1>5, <1>7, <1>8 DEF NodeOK

\* A validator is due exactly if its chain reaches up to an armed boundary that
\* its clock has passed.
Due(n) == ArmedOf(n) # 0 /\ n.at >= ArmedOf(n)

LEMMA NodeDue ==
    ASSUME NEW h, NEW lg, Story(h, lg), NEW n, NodeOK(h, lg, n), Due(n)
    PROVE  /\ n.pending # 0 /\ ArmedAt(h, n.epoch, Len(n.chain), n.pending)
           /\ Len(n.chain) = To(h, n.epoch)
           /\ Len(n.chain) + 1 = h.from[n.epoch] + n.pending
<1>. DEFINE a == h.from[n.epoch]
            k == Len(n.chain)
            c == n.at
            p == n.pending
            z == To(h, n.epoch)
<1>1. /\ a \in Nat /\ k \in Nat /\ c \in Nat /\ p \in Nat /\ z \in Nat /\ a <= k /\ k <= z
      /\ Delay \in Nat /\ Delay >= 1
    BY NodeFacts
<1>2. p # 0
    <2>1. ASSUME p = 0 PROVE FALSE
        <3>1. ArmedOf(n) = 0 \/ ArmedOf(n) = c + Delay
            BY <2>1 DEF ArmedOf
        <3>2. ArmedOf(n) # 0 /\ c >= ArmedOf(n)
            BY DEF Due
        <3>. HIDE DEF c
        <3>. QED
            BY <1>1, <3>1, <3>2
    <2>. QED
        BY <2>1
<1>3. c >= p
    BY <1>2 DEF Due, ArmedOf
<1>4. ArmedAt(h, n.epoch, k, p) /\ z < a + p
    BY <1>2, NodeCeiling
<1>5. c > k - a => k + 1 = a + p
    BY DEF NodeOK, NodeClock
<1>. HIDE DEF a, k, c, p, z
<1>6. k + 1 = a + p
    BY <1>1, <1>3, <1>4, <1>5
<1>7. k = z
    BY <1>1, <1>4, <1>6
<1>. QED
    BY <1>2, <1>4, <1>6, <1>7 DEF a, k, p, z

\* Into the next epoch, which others may be in already.
Crosses(n, m) ==
    /\ m.epoch = n.epoch + 1 /\ m.base = n.base + n.pending /\ m.current = n.tiers
    /\ m.pending = 0 /\ m.at = 0 /\ m.turn = "idle"
    /\ SameSeals(n, m) /\ m.manifest = n.manifest

LEMMA NodeCrosses ==
    ASSUME NEW h, NEW lg \in [Epoch -> Seq(Block)], Story(h, lg), NEW n, NodeOK(h, lg, n), Due(n),
           n.epoch < h.last, NEW m, Crosses(n, m)
    PROVE  NodeOK(h, lg, m)
<1>. DEFINE e == n.epoch
            d == e + 1
            k == Len(n.chain)
<1>1. e \in 0 .. h.last /\ e \in Nat /\ h.last \in Nat /\ e < h.last /\ k \in Nat /\ n.chain \in Seq(SealedBlock)
    BY NodeFacts
<1>2. d \in 0 .. h.last /\ d \in Nat
    <2>. HIDE DEF e
    <2>. QED
        BY <1>1
<1>3. k = h.from[d] /\ h.base[d] = n.base + n.pending
    BY NodeDue, NodeCeiling DEF To
<1>4. k <= To(h, d) /\ To(h, d) \in Nat /\ k <= k
    BY <1>1, <1>2, <1>3, StoryNats
<1>5. /\ m.epoch = d /\ m.base = n.base + n.pending /\ m.current = n.tiers
      /\ m.pending = 0 /\ m.at = 0 /\ m.turn = "idle"
      /\ m.tiers = n.tiers /\ m.root = n.root /\ m.chain = n.chain /\ m.manifest = n.manifest
    BY DEF Crosses, SameSeals
<1>6. /\ n.tiers = h.tiers[k] /\ n.root = RootAt(h.ledger, k)
      /\ \A i \in 1 .. k : n.chain[i] = h.ledger[i]
    BY DEF NodeOK, NodePlace
<1>7. /\ n.manifest.epoch \in 0 .. e /\ n.manifest.sealed \in 0 .. k
      /\ n.manifest.root = RootAt(h.ledger, n.manifest.sealed)
    BY DEF NodeOK, NodeManifest
<1>8. Len(lg[d]) \in Nat
    <2>1. d \in Epoch
        <3>1. h.last <= MaxEpoch /\ MaxEpoch \in Nat
            BY StoryNats
        <3>. HIDE DEF d
        <3>. QED
            BY <1>1, <1>2, <3>1 DEF Epoch
    <2>. QED
        BY <2>1
<1>9. n.manifest.epoch \in 0 .. d /\ n.manifest.epoch # d /\ n.manifest.sealed <= k
    <2>. HIDE DEF e, k
    <2>. QED
        BY <1>1, <1>7
<1>. HIDE DEF e, d, k
<1>10. NodePlace(h, m)
    BY <1>1, <1>2, <1>3, <1>4, <1>5, <1>6 DEF NodePlace, k
<1>11. NodeClock(h, lg, m)
    <2>1. ~ (0 > k - k)
        BY <1>1
    <2>. QED
        BY <1>3, <1>5, <1>8, <2>1 DEF NodeClock, k
<1>12. NodeArmed(h, m)
    <2>1. \A i \in k + 1 .. k : FALSE
        BY <1>1
    <2>2. ArmedAt(h, d, k, 0)
        BY <1>3, <2>1 DEF ArmedAt
    <2>. QED
        BY <1>5, <2>2 DEF NodeArmed, k
<1>13. NodeManifest(h, m)
    BY <1>3, <1>5, <1>7, <1>9 DEF NodeManifest, k
<1>. QED
    BY <1>10, <1>11, <1>12, <1>13 DEF NodeOK

\* Out of the set: the process exits.
Exits(n, m) ==
    /\ m.turn = "gone" /\ m.at = n.at /\ m.pending = n.pending
    /\ SameSeals(n, m) /\ SameEpoch(n, m) /\ m.manifest = n.manifest

LEMMA NodeExits ==
    ASSUME NEW h, NEW lg, Story(h, lg), NEW n, NodeOK(h, lg, n), Due(n), NEW m, Exits(n, m)
    PROVE  NodeOK(h, lg, m)
<1>1. ArmedAt(h, n.epoch, Len(n.chain), n.pending)
    BY NodeDue
<1>2. NodePlace(h, m)
    BY DEF NodeOK, NodePlace, Exits, SameSeals, SameEpoch
<1>3. NodeClock(h, lg, m)
    BY DEF NodeOK, NodeClock, Exits, SameSeals, SameEpoch
<1>4. NodeArmed(h, m)
    BY <1>1 DEF NodeArmed, Exits, SameSeals, SameEpoch
<1>5. NodeManifest(h, m)
    BY DEF NodeOK, NodeManifest, Exits, SameSeals, SameEpoch
<1>. QED
    BY <1>2, <1>3, <1>4, <1>5 DEF NodeOK

Saves(n, m) ==
    /\ n.turn = "idle" /\ m.turn = n.turn /\ m.at = n.at /\ m.pending = n.pending
    /\ SameSeals(n, m) /\ SameEpoch(n, m)
    /\ m.manifest = [epoch |-> n.epoch, sealed |-> Len(n.chain), root |-> n.root, pending |-> n.pending]

LEMMA NodeSaves ==
    ASSUME NEW h, NEW lg, Story(h, lg), NEW n, NodeOK(h, lg, n), NEW m, Saves(n, m)
    PROVE  NodeOK(h, lg, m)
<1>1. ArmedAt(h, n.epoch, Len(n.chain), n.pending)
    BY DEF Saves, NodeOK, NodeArmed
<1>2. NodePlace(h, m)
    BY DEF NodeOK, NodePlace, Saves, SameSeals, SameEpoch
<1>3. NodeClock(h, lg, m)
    BY DEF NodeOK, NodeClock, Saves, SameSeals, SameEpoch
<1>4. NodeArmed(h, m)
    BY <1>1 DEF NodeArmed, Saves, SameSeals, SameEpoch
<1>5. NodeManifest(h, m)
    <2>1. n.epoch \in Nat /\ Len(n.chain) \in Nat
        BY NodeFacts
    <2>2. n.epoch \in 0 .. n.epoch /\ Len(n.chain) \in 0 .. Len(n.chain) /\ ~ (n.epoch < n.epoch)
        BY <2>1
    <2>3. n.root = RootAt(h.ledger, Len(n.chain))
        BY DEF NodeOK, NodePlace
    <2>4. m.epoch = n.epoch /\ m.chain = n.chain
        BY DEF Saves, SameSeals, SameEpoch
    <2>5. /\ m.manifest.epoch = n.epoch /\ m.manifest.sealed = Len(n.chain)
          /\ m.manifest.root = n.root /\ m.manifest.pending = n.pending
        BY DEF Saves
    <2>. QED
        BY <1>1, <2>2, <2>3, <2>4, <2>5 DEF NodeManifest
<1>. QED
    BY <1>2, <1>3, <1>4, <1>5 DEF NodeOK

\* The blocks of earlier epochs lie at or below the base.
LEMMA BelowBase ==
    ASSUME NEW h, NEW lg, Story(h, lg), NEW e \in 0 .. h.last, NEW i \in 1 .. h.from[e]
    PROVE  h.ledger[i].height \in Nat /\ h.ledger[i].height <= h.base[e]
<1>. DEFINE Low(d) == \A j \in 1 .. h.from[d] : h.ledger[j].height \in Nat /\ h.ledger[j].height <= h.base[d]
            C == {d \in 0 .. h.last : ~ Low(d)}
<1>0. h.last \in Nat
    BY StoryNats
<1>1. ASSUME C # {} PROVE FALSE
    <2>1. PICK m \in C : \A q \in C : m <= q
        <3>1. C \subseteq 0 .. h.last
            OBVIOUS
        <3>. HIDE DEF C
        <3>. QED
            BY <1>0, <1>1, <3>1, LeastNat
    <2>2. m \in 0 .. h.last /\ ~ Low(m)
        OBVIOUS
    <2>3. m # 0
        <3>1. h.from[0] = 0
            BY DEF Story, StoryTypes
        <3>. QED
            BY <2>2, <3>1
    <2>. DEFINE d == m - 1
    <2>4. d \in 0 .. h.last /\ d < h.last /\ d + 1 = m /\ ~ (m <= d)
        BY <1>0, <2>2, <2>3
    <2>5. Low(d)
        BY <2>1, <2>4
    <2>. HIDE DEF d, C
    <2>6. /\ h.from[d] \in Nat /\ h.base[d] \in Nat /\ h.from[m] \in Nat /\ h.base[m] \in Nat
        BY <2>2, <2>4, StoryNats
    <2>7. h.base[m] = h.base[d] + (h.from[m] - h.from[d]) + 1 /\ h.from[d] <= h.from[m] /\ To(h, d) = h.from[m]
        <3>1. h.base[m] = h.base[d] + (h.from[m] - h.from[d]) + 1
            BY <2>4 DEF Story, StoryCut
        <3>2. To(h, d) = h.from[m] /\ h.from[d] <= To(h, d)
            BY <2>4, StoryNats DEF To
        <3>. QED
            BY <3>1, <3>2
    <2>8. ASSUME NEW j \in 1 .. h.from[m] PROVE h.ledger[j].height \in Nat /\ h.ledger[j].height <= h.base[m]
        <3>. DEFINE a == h.from[d]
                    b == h.from[m]
                    y == h.base[d]
                    z == h.base[m]
                    w == h.ledger[j].height
        <3>1. a \in Nat /\ b \in Nat /\ y \in Nat /\ z \in Nat /\ z = y + (b - a) + 1 /\ a <= b /\ j \in 1 .. b
            BY <2>6, <2>7
        <3>2. j \in 1 .. a => w \in Nat /\ w <= y
            BY <2>5
        <3>3. j \in a + 1 .. b => w = y + (j - a)
            BY <2>4, <2>7 DEF Story, StoryLogged
        <3>. HIDE DEF a, b, y, z, w
        <3>4. w \in Nat /\ w <= z
            BY <3>1, <3>2, <3>3
        <3>. QED
            BY <3>4 DEF w, z
    <2>. QED
        BY <2>2, <2>8
<1>2. Low(e)
    BY <1>1
<1>. QED
    BY <1>2

\* derive_pending_boot, over what the record holds.
BeforeOf(n, i) == IF i = n.manifest.sealed + 1 THEN n.manifest.root ELSE n.chain[i - 1].root
MovesOf(n) == {i \in (n.manifest.sealed + 1)..Len(n.chain) :
                  n.chain[i].height > n.base /\ n.chain[i].root # BeforeOf(n, i)}
OwnOf(n) == IF n.manifest.epoch = n.epoch THEN n.manifest.pending ELSE 0
DerivedOf(n) ==
    IF OwnOf(n) # 0 THEN OwnOf(n)
    ELSE IF MovesOf(n) # {}
         THEN n.chain[CHOOSE i \in MovesOf(n) : \A j \in MovesOf(n) : i <= j].height - n.base + Delay
    ELSE 0

Boots(n, m) ==
    /\ m.turn = "idle" /\ m.at = 0 /\ m.pending = DerivedOf(n)
    /\ SameSeals(n, m) /\ SameEpoch(n, m) /\ m.manifest = n.manifest

\* The scan sees the epoch's blocks past the manifest that moved the root.
LEMMA MovesSeen ==
    ASSUME NEW h, NEW lg, Story(h, lg), NEW n, NodeOK(h, lg, n)
    PROVE  \A i : i \in MovesOf(n) <=>
                     /\ i \in n.manifest.sealed + 1 .. Len(n.chain)
                     /\ i > h.from[n.epoch] /\ Moved(h.ledger, i)
<1>. DEFINE e == n.epoch
            a == h.from[e]
            k == Len(n.chain)
            s == n.manifest.sealed
<1>1. /\ a \in Nat /\ k \in Nat /\ To(h, e) \in Nat /\ a <= k /\ k <= To(h, e) /\ To(h, e) <= Len(h.ledger)
      /\ Len(h.ledger) \in Nat /\ e \in 0 .. h.last /\ n.base = h.base[e] /\ n.base \in Nat
    BY NodeFacts
<1>2. s \in 0 .. k /\ n.manifest.root = RootAt(h.ledger, s)
    BY DEF NodeOK, NodeManifest
<1>3. \A i \in 1 .. k : n.chain[i] = h.ledger[i]
    BY DEF NodeOK, NodePlace
<1>4. ASSUME NEW i \in s + 1 .. k
      PROVE  /\ n.chain[i].height > n.base <=> i > a
             /\ n.chain[i].root # BeforeOf(n, i) <=> Moved(h.ledger, i)
    <2>1. i \in 1 .. k /\ i \in Nat /\ (i # s + 1 => i - 1 \in 1 .. k /\ i - 1 # 0) /\ (i = s + 1 => i - 1 = s) /\ i # 0
        <3>. HIDE DEF k, s
        <3>. QED
            BY <1>1, <1>2
    <2>2. n.chain[i] = h.ledger[i]
        BY <1>3, <2>1
    <2>3. n.chain[i].height > n.base <=> i > a
        <3>1. CASE i > a
            <4>1. i \in a + 1 .. To(h, e)
                <5>. DEFINE z == To(h, e)
                <5>1. z \in Nat /\ k <= z
                    BY <1>1
                <5>. HIDE DEF a, k, z
                <5>2. i \in a + 1 .. z
                    BY <1>1, <2>1, <3>1, <5>1
                <5>. QED
                    BY <5>2 DEF z
            <4>2. h.ledger[i].height = h.base[e] + (i - a)
                BY <1>1, <4>1 DEF Story, StoryLogged
            <4>3. n.chain[i].height = n.base + (i - a)
                BY <1>1, <2>2, <4>2
            <4>. DEFINE y == n.chain[i].height
                        b == n.base
            <4>4. y = b + (i - a) /\ b \in Nat
                BY <1>1, <4>3
            <4>. HIDE DEF a, y, b
            <4>5. y > b
                BY <1>1, <2>1, <3>1, <4>4
            <4>. QED
                BY <3>1, <4>5 DEF y, b
        <3>2. CASE ~ (i > a)
            <4>1. i \in 1 .. a
                <5>. HIDE DEF a, k
                <5>. QED
                    BY <1>1, <2>1, <3>2
            <4>2. n.chain[i].height \in Nat /\ n.chain[i].height <= n.base
                BY <1>1, <2>2, <4>1, BelowBase
            <4>. QED
                BY <1>1, <3>2, <4>2
        <3>. QED
            BY <3>1, <3>2
    <2>4. BeforeOf(n, i) = RootAt(h.ledger, i - 1)
        <3>1. CASE i = s + 1
            BY <1>2, <2>1, <3>1 DEF BeforeOf
        <3>2. CASE i # s + 1
            BY <1>3, <2>1, <3>2 DEF BeforeOf, RootAt
        <3>. QED
            BY <3>1, <3>2
    <2>5. n.chain[i].root = RootAt(h.ledger, i)
        BY <2>1, <2>2 DEF RootAt
    <2>. QED
        BY <2>3, <2>4, <2>5 DEF Moved
<1>. QED
    BY <1>4 DEF MovesOf

LEMMA NodeBoots ==
    ASSUME NEW h, NEW lg \in [Epoch -> Seq(Block)], Story(h, lg), NEW n, NodeOK(h, lg, n), NEW m, Boots(n, m)
    PROVE  NodeOK(h, lg, m)
<1>. DEFINE e == n.epoch
            a == h.from[e]
            k == Len(n.chain)
            s == n.manifest.sealed
            q == DerivedOf(n)
            z == To(h, e)
<1>1. /\ a \in Nat /\ k \in Nat /\ z \in Nat /\ a <= k /\ k <= z
      /\ e \in 0 .. h.last /\ e \in Nat /\ n.base = h.base[e] /\ n.base \in Nat /\ Delay \in Nat /\ Delay >= 1
    BY NodeFacts
<1>2. s \in 0 .. k /\ n.manifest.epoch \in 0 .. e
    BY DEF NodeOK, NodeManifest
<1>3. n.manifest.epoch < e => s <= a
    BY DEF NodeOK, NodeManifest
<1>4. n.manifest.epoch = e => ArmedAt(h, e, s, n.manifest.pending)
    BY DEF NodeOK, NodeManifest
<1>5. ArmedAt(h, e, k, q)
    <2>1. CASE OwnOf(n) # 0
        <3>1. q = OwnOf(n)
            BY <2>1 DEF DerivedOf
        <3>2. n.manifest.epoch = e /\ OwnOf(n) = n.manifest.pending
            BY <2>1 DEF OwnOf
        <3>3. ArmedAt(h, e, s, q)
            BY <1>4, <3>1, <3>2
        <3>. HIDE DEF q
        <3>4. PICK i : First(h, e, i) /\ i <= s /\ h.from[e] + q = i + Delay
            BY <2>1, <3>1, <3>3 DEF ArmedAt
        <3>5. i <= k
            <4>1. i \in a + 1 .. z
                BY <3>4 DEF First
            <4>2. i <= s
                BY <3>4
            <4>. HIDE DEF a, k, s, z
            <4>. QED
                BY <1>1, <1>2, <4>1, <4>2
        <3>. QED
            BY <2>1, <3>1, <3>3, <3>4, <3>5 DEF ArmedAt
    <2>2. CASE OwnOf(n) = 0
        <3>1. \A j \in a + 1 .. k : j <= s => ~ Moved(h.ledger, j)
            <4>1. CASE n.manifest.epoch = e
                <5>1. n.manifest.pending = 0
                    BY <2>2, <4>1 DEF OwnOf
                <5>2. \A j \in a + 1 .. s : ~ Moved(h.ledger, j)
                    BY <1>4, <4>1, <5>1 DEF ArmedAt
                <5>. HIDE DEF a, k, s
                <5>3. \A j \in a + 1 .. k : j <= s => j \in a + 1 .. s
                    BY <1>1, <1>2
                <5>. QED
                    BY <5>2, <5>3
            <4>2. CASE n.manifest.epoch # e
                <5>1. s <= a
                    <6>1. n.manifest.epoch < e
                        <7>. DEFINE me == n.manifest.epoch
                        <7>1. me \in 0 .. e /\ me # e
                            BY <1>2, <4>2
                        <7>. HIDE DEF me, e
                        <7>2. me < e
                            BY <1>1, <7>1
                        <7>. QED
                            BY <7>2 DEF me
                    <6>. QED
                        BY <1>3, <6>1
                <5>. HIDE DEF a, k, s
                <5>. QED
                    BY <1>1, <1>2, <5>1
            <4>. QED
                BY <4>1, <4>2
        <3>2. \A i : i \in MovesOf(n) <=> i \in s + 1 .. k /\ i > a /\ Moved(h.ledger, i)
            BY MovesSeen
        <3>3. CASE MovesOf(n) = {}
            <4>1. q = 0
                BY <2>2, <3>3 DEF DerivedOf
            <4>2. ASSUME NEW j \in a + 1 .. k PROVE ~ Moved(h.ledger, j)
                <5>1. (j \in s + 1 .. k /\ j > a) \/ j <= s
                    <6>. HIDE DEF a, k, s
                    <6>. QED
                        BY <1>1, <1>2
                <5>. QED
                    BY <3>1, <3>2, <3>3, <5>1
            <4>. QED
                BY <4>1, <4>2 DEF ArmedAt
        <3>4. CASE MovesOf(n) # {}
            <4>. DEFINE M == MovesOf(n)
                        i == CHOOSE x \in M : \A j \in M : x <= j
            <4>1. M \subseteq 0 .. k
                <5>1. \A x \in s + 1 .. k : x \in 0 .. k
                    <6>. HIDE DEF k, s
                    <6>. QED
                        BY <1>1, <1>2
                <5>. QED
                    BY <3>2, <5>1
            <4>2. \E x \in M : \A j \in M : x <= j
                <5>. HIDE DEF M, k
                <5>. QED
                    BY <1>1, <3>4, <4>1, LeastNat DEF M
            <4>3. i \in M /\ \A j \in M : i <= j
                BY <4>2
            <4>4. q = n.chain[i].height - n.base + Delay
                BY <2>2, <3>4 DEF DerivedOf
            <4>5. i \in s + 1 .. k /\ i > a /\ Moved(h.ledger, i)
                BY <3>2, <4>3
            <4>. HIDE DEF i
            <4>6. i \in Nat /\ i \in a + 1 .. z /\ i \in 1 .. k /\ i <= k
                <5>. HIDE DEF a, k, s, z
                <5>. QED
                    BY <1>1, <1>2, <4>5
            <4>7. ASSUME NEW j \in a + 1 .. i - 1 PROVE ~ Moved(h.ledger, j)
                <5>1. j \in a + 1 .. k /\ j > a /\ (j \in s + 1 .. k \/ j <= s) /\ ~ (i <= j)
                    <6>. HIDE DEF a, k, s
                    <6>. QED
                        BY <1>1, <1>2, <4>6
                <5>. QED
                    BY <3>1, <3>2, <4>3, <5>1
            <4>8. First(h, e, i)
                BY <4>5, <4>6, <4>7 DEF First
            <4>9. n.chain[i].height = n.base + (i - a)
                <5>1. h.ledger[i].height = h.base[e] + (i - a)
                    BY <1>1, <4>6 DEF Story, StoryLogged
                <5>2. n.chain[i] = h.ledger[i]
                    BY <4>6 DEF NodeOK, NodePlace
                <5>. QED
                    BY <1>1, <5>1, <5>2
            <4>. DEFINE y == n.chain[i].height
                        b == n.base
            <4>10. q = y - b + Delay /\ y = b + (i - a) /\ b \in Nat
                BY <1>1, <4>4, <4>9
            <4>. HIDE DEF y, b, q, M
            <4>11. q \in Nat /\ q # 0 /\ a + q = i + Delay
                <5>. HIDE DEF a, k, s, z
                <5>. QED
                    BY <1>1, <4>6, <4>10
            <4>. QED
                BY <4>6, <4>8, <4>11 DEF ArmedAt
        <3>. QED
            BY <3>3, <3>4
    <2>. QED
        BY <2>1, <2>2
<1>6. /\ m.turn = "idle" /\ m.at = 0 /\ m.pending = q /\ m.manifest = n.manifest
      /\ m.tiers = n.tiers /\ m.root = n.root /\ m.chain = n.chain
      /\ m.epoch = e /\ m.base = n.base /\ m.current = n.current
    BY DEF Boots, SameSeals, SameEpoch
<1>. HIDE DEF q
<1>7. NodePlace(h, m)
    BY <1>6 DEF NodeOK, NodePlace
<1>8. NodeManifest(h, m)
    BY <1>6 DEF NodeOK, NodeManifest
<1>9. NodeArmed(h, m)
    BY <1>5, <1>6 DEF NodeArmed
<1>10. NodeClock(h, lg, m)
    <2>1. Len(lg[e]) \in Nat /\ ~ (0 > k - a)
        <3>1. e \in Epoch
            <4>1. e \in Nat /\ e <= h.last /\ h.last \in Nat
                BY NodeFacts
            <4>2. h.last <= MaxEpoch /\ MaxEpoch \in Nat
                BY StoryNats
            <4>. HIDE DEF e
            <4>. QED
                BY <4>1, <4>2 DEF Epoch
        <3>2. Len(lg[e]) \in Nat
            BY <3>1
        <3>. HIDE DEF a, k
        <3>. QED
            BY <1>1, <3>2
    <2>. QED
        BY <1>6, <2>1 DEF NodeClock
<1>. QED
    BY <1>7, <1>8, <1>9, <1>10 DEF NodeOK

--------------------------------------------------------------------------------
(***************************************************************************)
(* The invariant: every validator is in the same story                     *)
(***************************************************************************)
IsMap(f) == f = [v \in Validator |-> f[v]]

Maps ==
    /\ log \in [Epoch -> Seq(Block)] /\ crashes \in 0 .. Crashes
    /\ IsMap(turn) /\ IsMap(at) /\ IsMap(tiers) /\ IsMap(root) /\ IsMap(chain)
    /\ IsMap(epoch) /\ IsMap(base) /\ IsMap(current) /\ IsMap(pending) /\ IsMap(manifest)

\* Some validator holds the whole ledger, and some one is in its last epoch.
Told(h) ==
    /\ Story(h, log)
    /\ \E v \in Validator : Len(chain[v]) = Len(h.ledger)
    /\ \E v \in Validator : epoch[v] = h.last
    /\ \A v \in Validator : NodeOK(h, log, Node(v))

CutoverInv == Maps /\ \E h : Told(h)

Sets(f, f2, v, x) == f2 = [f EXCEPT ![v] = x]
WasSet(f, f2, v, x) == IsMap(f2) /\ f2[v] = x /\ \A u \in Validator : u # v => f2[u] = f[u]

LEMMA MapSet ==
    ASSUME NEW f, IsMap(f), NEW v \in Validator, NEW x, NEW f2, Sets(f, f2, v, x)
    PROVE  WasSet(f, f2, v, x)
<1>1. DOMAIN f = Validator
    BY DEF IsMap
<1>2. f2 = [u \in Validator |-> IF u = v THEN x ELSE f[u]]
    BY <1>1 DEF Sets
<1>. QED
    BY <1>2 DEF IsMap, WasSet

LEMMA NodeFields ==
    ASSUME NEW v
    PROVE  /\ Node(v).turn = turn[v] /\ Node(v).at = at[v] /\ Node(v).tiers = tiers[v]
           /\ Node(v).root = root[v] /\ Node(v).chain = chain[v] /\ Node(v).epoch = epoch[v]
           /\ Node(v).base = base[v] /\ Node(v).current = current[v]
           /\ Node(v).pending = pending[v] /\ Node(v).manifest = manifest[v]
BY DEF Node

LEMMA ContinuesSelf ==
    ASSUME NEW h, NEW lg, Story(h, lg)
    PROVE  Continues(h, h)
<1>1. /\ h.last \in Nat /\ Len(h.ledger) \in Nat
      /\ \A e \in 0 .. h.last : To(h, e) \in Nat
    BY StoryNats
<1>. QED
    BY <1>1 DEF Continues

\* One validator has moved, and the story gone on with it.
LEMMA Stitch ==
    ASSUME NEW h, Told(h), NEW g, Story(g, log), Continues(h, g), NEW v \in Validator, log' = log,
           \A u \in Validator : u # v => Node(u)' = Node(u),
           NodeOK(g, log, Node(v)'),
           \/ Len(g.ledger) = Len(h.ledger) /\ Len(chain[v]) <= Len(chain'[v])
           \/ Len(chain'[v]) = Len(g.ledger),
           \/ g.last = h.last /\ epoch[v] <= epoch'[v]
           \/ epoch'[v] = g.last
    PROVE  Told(g)'
<1>1. \A u \in Validator : NodeOK(g, log, Node(u)')
    <2>1. ASSUME NEW u \in Validator, u # v PROVE NodeOK(g, log, Node(u)')
        <3>1. NodeOK(g, log, Node(u))
            BY NodeContinues DEF Told
        <3>. QED
            BY <2>1, <3>1
    <2>. QED
        BY <2>1
<1>2. /\ Node(v)'.chain = chain'[v] /\ Node(v)'.epoch = epoch'[v]
      /\ Node(v).chain = chain[v] /\ Node(v).epoch = epoch[v]
    BY DEF Node
<1>3. \A u \in Validator : u # v => chain'[u] = chain[u] /\ epoch'[u] = epoch[u]
    <2>1. ASSUME NEW u \in Validator, u # v PROVE chain'[u] = chain[u] /\ epoch'[u] = epoch[u]
        <3>1. Node(u)' = Node(u)
            BY <2>1
        <3>2. Node(u)'.chain = chain'[u] /\ Node(u)'.epoch = epoch'[u] /\ Node(u).chain = chain[u] /\ Node(u).epoch = epoch[u]
            BY DEF Node
        <3>. QED
            BY <3>1, <3>2
    <2>. QED
        BY <2>1
<1>4. /\ Len(chain'[v]) \in Nat /\ Len(chain'[v]) <= Len(g.ledger) /\ Len(g.ledger) \in Nat
      /\ epoch'[v] \in Nat /\ epoch'[v] <= g.last /\ g.last \in Nat
    <2>. DEFINE m == Node(v)'
    <2>1. NodeOK(g, log, m) /\ m.chain = chain'[v] /\ m.epoch = epoch'[v]
        BY <1>2
    <2>. HIDE DEF m
    <2>2. /\ Len(m.chain) \in Nat /\ Len(m.chain) <= To(g, m.epoch) /\ To(g, m.epoch) <= Len(g.ledger)
          /\ To(g, m.epoch) \in Nat /\ Len(g.ledger) \in Nat
          /\ m.epoch \in Nat /\ m.epoch <= g.last /\ g.last \in Nat
        BY <2>1, NodeFacts
    <2>. QED
        BY <2>1, <2>2
<1>5. /\ Len(chain[v]) \in Nat /\ epoch[v] \in Nat
    <2>1. NodeOK(h, log, Node(v)) /\ Story(h, log)
        BY DEF Told
    <2>. QED
        BY <1>2, <2>1, NodeFacts
<1>6. \E u \in Validator : Len(chain'[u]) = Len(g.ledger)
    <2>1. CASE Len(chain'[v]) = Len(g.ledger)
        BY <2>1
    <2>2. CASE Len(g.ledger) = Len(h.ledger) /\ Len(chain[v]) <= Len(chain'[v])
        <3>1. PICK u \in Validator : Len(chain[u]) = Len(h.ledger)
            BY DEF Told
        <3>2. CASE u # v
            BY <1>3, <2>2, <3>1, <3>2
        <3>3. CASE u = v
            BY <1>4, <1>5, <2>2, <3>1, <3>3
        <3>. QED
            BY <3>2, <3>3
    <2>. QED
        BY <2>1, <2>2
<1>7. \E u \in Validator : epoch'[u] = g.last
    <2>1. CASE epoch'[v] = g.last
        BY <2>1
    <2>2. CASE g.last = h.last /\ epoch[v] <= epoch'[v]
        <3>1. PICK u \in Validator : epoch[u] = h.last
            BY DEF Told
        <3>2. CASE u # v
            BY <1>3, <2>2, <3>1, <3>2
        <3>3. CASE u = v
            BY <1>4, <1>5, <2>2, <3>1, <3>3
        <3>. QED
            BY <3>2, <3>3
    <2>. QED
        BY <2>1, <2>2
<1>. QED
    BY <1>1, <1>6, <1>7 DEF Told

LEMMA CutoverInit ==
    ASSUME Init PROVE CutoverInv
<1>. DEFINE h == [ledger |-> <<>>, tiers |-> [i \in 0 .. 0 |-> Genesis], last |-> 0,
                  from |-> [e \in 0 .. 0 |-> 0], base |-> [e \in 0 .. 0 |-> 0]]
<1>1. /\ h.ledger = <<>> /\ Len(h.ledger) = 0 /\ h.tiers = [i \in 0 .. 0 |-> Genesis] /\ h.last = 0
      /\ h.from = [e \in 0 .. 0 |-> 0] /\ h.base = [e \in 0 .. 0 |-> 0]
    OBVIOUS
<1>2. Genesis \in Tiers /\ MaxEpoch \in Nat /\ Delay \in Nat /\ Crashes \in Nat
    BY CutoverAssumption
<1>. HIDE DEF h
<1>3. 0 \in 0 .. 0 /\ \A d \in 0 .. 0 : d = 0
    OBVIOUS
<1>4. h.from[0] = 0 /\ h.base[0] = 0 /\ h.tiers[0] = Genesis /\ To(h, 0) = 0
    BY <1>1, <1>3 DEF To
<1>5. \A i : ~ First(h, 0, i)
    BY <1>4 DEF First
<1>6. Story(h, log)
    <2>1. StoryTypes(h)
        <3>1. h.ledger \in Seq(SealedBlock)
            BY <1>1
        <3>2. 0 \in Epoch
            BY <1>2 DEF Epoch
        <3>3. h.tiers \in [0 .. 0 -> Tiers] /\ h.from \in [0 .. 0 -> 0 .. 0] /\ h.base \in [0 .. 0 -> Nat]
            BY <1>1, <1>2
        <3>. QED
            BY <1>1, <1>4, <3>1, <3>2, <3>3 DEF StoryTypes
    <2>2. StoryRuns(h)
        BY <1>1 DEF StoryRuns
    <2>3. StoryLogged(h, log)
        BY <1>1, <1>3, <1>4 DEF StoryLogged
    <2>4. StoryCut(h)
        BY <1>1, <1>3 DEF StoryCut
    <2>5. StoryOpen(h)
        BY <1>1, <1>5 DEF StoryOpen
    <2>6. StoryStill(h)
        BY <1>1, <1>3, <1>4 DEF StoryStill
    <2>. QED
        BY <2>1, <2>2, <2>3, <2>4, <2>5, <2>6 DEF Story
<1>7. ASSUME NEW v \in Validator PROVE NodeOK(h, log, Node(v))
    <2>. DEFINE n == Node(v)
    <2>1. /\ n.turn = "idle" /\ n.at = 0 /\ n.tiers = Genesis /\ n.root = 0 /\ n.chain = <<>> /\ n.epoch = 0
          /\ n.base = 0 /\ n.current = Genesis /\ n.pending = 0
          /\ n.manifest = [epoch |-> 0, sealed |-> 0, root |-> 0, pending |-> 0]
        BY NodeFields DEF Init
    <2>2. n.chain \in Seq(SealedBlock) /\ Len(n.chain) = 0
        BY <2>1
    <2>3. Len(log[0]) = 0
        BY <1>2 DEF Init, Epoch
    <2>. HIDE DEF n
    <2>4. ArmedAt(h, 0, 0, 0)
        BY <1>4 DEF ArmedAt
    <2>5. NodePlace(h, n)
        BY <1>1, <1>3, <1>4, <2>1, <2>2 DEF NodePlace, RootAt
    <2>6. NodeClock(h, log, n)
        BY <1>4, <2>1, <2>2, <2>3 DEF NodeClock
    <2>7. NodeArmed(h, n)
        BY <2>1, <2>2, <2>4 DEF NodeArmed
    <2>8. NodeManifest(h, n)
        <3>1. n.manifest.epoch = 0 /\ n.manifest.sealed = 0 /\ n.manifest.root = 0 /\ n.manifest.pending = 0
            BY <2>1
        <3>. QED
            BY <1>3, <2>1, <2>2, <2>4, <3>1 DEF NodeManifest, RootAt
    <2>9. NodeOK(h, log, n)
        BY <2>5, <2>6, <2>7, <2>8 DEF NodeOK
    <2>. QED
        BY <2>9 DEF n
<1>8. Maps
    <2>1. log \in [Epoch -> Seq(Block)] /\ crashes \in 0 .. Crashes
        BY <1>2 DEF Init
    <2>. QED
        BY <2>1 DEF Maps, Init, IsMap
<1>9. \E v \in Validator : Len(chain[v]) = Len(h.ledger) /\ epoch[v] = h.last
    <2>1. PICK v \in Validator : TRUE
        BY CutoverAssumption
    <2>2. chain[v] = <<>> /\ epoch[v] = 0
        BY DEF Init
    <2>. QED
        BY <1>1, <2>2
<1>. QED
    BY <1>6, <1>7, <1>8, <1>9 DEF CutoverInv, Told

--------------------------------------------------------------------------------
(***************************************************************************)
(* Each action is a step of one validator's part                           *)
(***************************************************************************)
\* What an action of v leaves alone: the log and the other validators.
Alone(v) == log' = log /\ \A u \in Validator : u # v => Node(u)' = Node(u)

EntryOf(n, lg) ==
    [height |-> n.base + (n.at + 1), block |-> lg[n.epoch][n.at + 1],
     root |-> IF ApplyOps(n.tiers, lg[n.epoch][n.at + 1]).staged # {} THEN n.root + 1 ELSE n.root]
LeftBy(n, lg) == ApplyOps(n.tiers, lg[n.epoch][n.at + 1]).tiers

LEMMA NodeRoot ==
    ASSUME NEW h, NEW lg, Story(h, lg), NEW n, NodeOK(h, lg, n)
    PROVE  n.root \in Nat /\ n.tiers \in Tiers
<1>1. Len(n.chain) \in Nat /\ Len(n.chain) <= To(h, n.epoch) /\ To(h, n.epoch) <= Len(h.ledger)
      /\ Len(h.ledger) \in Nat /\ To(h, n.epoch) \in Nat
    BY NodeFacts
<1>2. Len(n.chain) \in 0 .. Len(h.ledger)
    BY <1>1
<1>3. n.root = RootAt(h.ledger, Len(n.chain)) /\ n.tiers = h.tiers[Len(n.chain)]
    BY DEF NodeOK, NodePlace
<1>. QED
    BY <1>2, <1>3, StoryNats

LEMMA ActPassOver ==
    ASSUME Maps, NEW v \in Validator, PassOver(v)
    PROVE  Maps' /\ Alone(v) /\ PassesOver(Node(v), Node(v)', log)
<1>1. WasSet(at, at', v, at[v] + 1)
    <2>1. Sets(at, at', v, at[v] + 1)
        BY DEF PassOver, NextView, Sets
    <2>. QED
        BY <2>1, MapSet DEF Maps
<1>2. WasSet(turn, turn', v, "pass")
    <2>1. Sets(turn, turn', v, "pass")
        BY DEF PassOver, Sets
    <2>. QED
        BY <2>1, MapSet DEF Maps
<1>3. UNCHANGED <<log, tiers, root, chain, epoch, base, current, pending, manifest, crashes>>
    BY DEF PassOver
<1>4. Maps' /\ Alone(v)
    BY <1>1, <1>2, <1>3 DEF Maps, Alone, Node, WasSet
<1>5. /\ turn[v] \in {"idle", "pass"} /\ at[v] < Len(log[epoch[v]])
      /\ base[v] + (at[v] + 1) <= TipOf(chain[v]) \/ (pending[v] # 0 /\ at[v] + 1 >= pending[v])
    BY DEF PassOver, MayPop, IsResumeReplay, IsDiscarded, NextView, HeightOf, Tip, TipOf
<1>6. PassesOver(Node(v), Node(v)', log)
    BY <1>1, <1>2, <1>3, <1>5 DEF PassesOver, SameSeals, SameEpoch, Node, WasSet
<1>. QED
    BY <1>4, <1>6

LEMMA ToldRoot ==
    ASSUME NEW h, Told(h), NEW v \in Validator
    PROVE  root[v] \in Nat
<1>1. Node(v).root \in Nat
    BY NodeRoot DEF Told
<1>. QED
    BY <1>1 DEF Node

LEMMA ActApply ==
    ASSUME Maps, NEW v \in Validator, root[v] \in Nat, Apply(v)
    PROVE  /\ Maps' /\ Alone(v) /\ Runs(Node(v), log)
           /\ Seals(Node(v), Node(v)', EntryOf(Node(v), log), LeftBy(Node(v), log))
<1>. DEFINE n == Node(v)
            w == at[v] + 1
            b == log[epoch[v]][w]
            e == ApplyOps(tiers[v], b)
            r == IF e.staged # {} THEN root[v] + 1 ELSE root[v]
            x == [height |-> base[v] + w, block |-> b, root |-> r]
<1>1. /\ tiers' = [tiers EXCEPT ![v] = e.tiers] /\ root' = [root EXCEPT ![v] = r]
      /\ chain' = [chain EXCEPT ![v] = Append(chain[v], x)]
      /\ turn' = [turn EXCEPT ![v] = IF e.staged # {} THEN "broke" ELSE "pass"]
      /\ at' = [at EXCEPT ![v] = w]
    BY DEF Apply, NextView, HeightOf, Barrier
<1>2. UNCHANGED <<log, epoch, base, current, pending, manifest, crashes>>
    BY DEF Apply
<1>3. x = EntryOf(n, log) /\ e.tiers = LeftBy(n, log)
    BY DEF EntryOf, LeftBy, Node
<1>4. root[v] \in Nat
    OBVIOUS
<1>5. r # root[v] <=> e.staged # {}
    BY <1>4
<1>6. x.root = r
    OBVIOUS
<1>7. Runs(n, log)
    BY DEF Runs, Apply, MayPop, IsResumeReplay, IsDiscarded, NextView, HeightOf, Tip, TipOf, Node
<1>. HIDE DEF w, b, e, r, x, n
<1>8. WasSet(tiers, tiers', v, e.tiers)
    <2>1. Sets(tiers, tiers', v, e.tiers)
        BY <1>1 DEF Sets
    <2>. QED
        BY <2>1, MapSet DEF Maps
<1>9. WasSet(root, root', v, r)
    <2>1. Sets(root, root', v, r)
        BY <1>1 DEF Sets
    <2>. QED
        BY <2>1, MapSet DEF Maps
<1>10. WasSet(chain, chain', v, Append(chain[v], x))
    <2>1. Sets(chain, chain', v, Append(chain[v], x))
        BY <1>1 DEF Sets
    <2>. QED
        BY <2>1, MapSet DEF Maps
<1>11. WasSet(turn, turn', v, (IF e.staged # {} THEN "broke" ELSE "pass"))
    <2>1. Sets(turn, turn', v, (IF e.staged # {} THEN "broke" ELSE "pass"))
        BY <1>1 DEF Sets
    <2>. QED
        BY <2>1, MapSet DEF Maps
<1>12. WasSet(at, at', v, w)
    <2>1. Sets(at, at', v, w)
        BY <1>1 DEF Sets
    <2>. QED
        BY <2>1, MapSet DEF Maps
<1>13. Maps' /\ Alone(v)
    BY <1>2, <1>8, <1>9, <1>10, <1>11, <1>12 DEF Maps, Alone, Node, WasSet
<1>14. Seals(Node(v), Node(v)', x, e.tiers)
    BY <1>2, <1>5, <1>6, <1>8, <1>9, <1>10, <1>11, <1>12 DEF Seals, SameEpoch, Node, w, WasSet
<1>. QED
    BY <1>3, <1>7, <1>13, <1>14 DEF n

LEMMA ActObserve ==
    ASSUME Maps, NEW v \in Validator, Observe(v, tiers[v])
    PROVE  Maps' /\ Alone(v) /\ Observes(Node(v), Node(v)')
<1>1. WasSet(pending, pending', v, Armed(v, tiers[v]))
    <2>1. Sets(pending, pending', v, Armed(v, tiers[v]))
        BY DEF Observe, Sets
    <2>. QED
        BY <2>1, MapSet DEF Maps
<1>2. WasSet(turn, turn', v, "idle")
    <2>1. Sets(turn, turn', v, "idle")
        BY DEF Observe, Sets
    <2>. QED
        BY <2>1, MapSet DEF Maps
<1>3. UNCHANGED <<log, at, tiers, root, chain, epoch, base, current, manifest, crashes>>
    BY DEF Observe
<1>4. Maps' /\ Alone(v)
    BY <1>1, <1>2, <1>3 DEF Maps, Alone, Node, WasSet
<1>5. Armed(v, tiers[v]) = ArmedOf(Node(v))
    BY DEF Armed, ArmedOf, Node
<1>6. Observes(Node(v), Node(v)')
    BY <1>1, <1>2, <1>3, <1>5 DEF Observes, SameSeals, SameEpoch, Node, WasSet
<1>. QED
    BY <1>4, <1>6

LEMMA ActCutover ==
    ASSUME Maps, NEW v \in Validator, Cutover(v, tiers[v])
    PROVE  Maps' /\ Alone(v) /\ Due(Node(v)) /\ epoch[v] < MaxEpoch /\ Crosses(Node(v), Node(v)')
<1>1. WasSet(epoch, epoch', v, epoch[v] + 1)
    <2>1. Sets(epoch, epoch', v, epoch[v] + 1)
        BY DEF Cutover, Sets
    <2>. QED
        BY <2>1, MapSet DEF Maps
<1>2. WasSet(base, base', v, base[v] + pending[v])
    <2>1. Sets(base, base', v, base[v] + pending[v])
        BY DEF Cutover, CutoverBase, HeightOf, Sets
    <2>. QED
        BY <2>1, MapSet DEF Maps
<1>3. WasSet(current, current', v, tiers[v])
    <2>1. Sets(current, current', v, tiers[v])
        BY DEF Cutover, Sets
    <2>. QED
        BY <2>1, MapSet DEF Maps
<1>4. WasSet(pending, pending', v, 0)
    <2>1. Sets(pending, pending', v, 0)
        BY DEF Cutover, Sets
    <2>. QED
        BY <2>1, MapSet DEF Maps
<1>5. WasSet(at, at', v, 0)
    <2>1. Sets(at, at', v, 0)
        BY DEF Cutover, FreshClock, Sets
    <2>. QED
        BY <2>1, MapSet DEF Maps
<1>6. WasSet(turn, turn', v, "idle")
    <2>1. Sets(turn, turn', v, "idle")
        BY DEF Cutover, Sets
    <2>. QED
        BY <2>1, MapSet DEF Maps
<1>7. UNCHANGED <<log, tiers, root, chain, manifest, crashes>>
    BY DEF Cutover
<1>8. Maps' /\ Alone(v)
    BY <1>1, <1>2, <1>3, <1>4, <1>5, <1>6, <1>7 DEF Maps, Alone, Node, WasSet
<1>9. Armed(v, tiers[v]) = ArmedOf(Node(v))
    BY DEF Armed, ArmedOf, Node
<1>10. Due(Node(v)) /\ epoch[v] < MaxEpoch
    <2>1. Node(v).at = at[v]
        BY DEF Node
    <2>. QED
        BY <1>9, <2>1 DEF Cutover, IsDue, Due
<1>11. Crosses(Node(v), Node(v)')
    BY <1>1, <1>2, <1>3, <1>4, <1>5, <1>6, <1>7 DEF Crosses, SameSeals, Node, WasSet
<1>. QED
    BY <1>8, <1>10, <1>11

LEMMA ActDemote ==
    ASSUME Maps, NEW v \in Validator, Demote(v, tiers[v])
    PROVE  Maps' /\ Alone(v) /\ Due(Node(v)) /\ Exits(Node(v), Node(v)')
<1>1. WasSet(turn, turn', v, "gone")
    <2>1. Sets(turn, turn', v, "gone")
        BY DEF Demote, Sets
    <2>. QED
        BY <2>1, MapSet DEF Maps
<1>2. UNCHANGED <<log, at, tiers, root, chain, epoch, base, current, pending, manifest, crashes>>
    BY DEF Demote
<1>3. Maps' /\ Alone(v)
    BY <1>1, <1>2 DEF Maps, Alone, Node, WasSet
<1>4. Armed(v, tiers[v]) = ArmedOf(Node(v)) /\ Node(v).at = at[v]
    BY DEF Armed, ArmedOf, Node
<1>5. Due(Node(v))
    BY <1>4 DEF Demote, IsDue, Due
<1>6. Exits(Node(v), Node(v)')
    BY <1>1, <1>2 DEF Exits, SameSeals, SameEpoch, Node, WasSet
<1>. QED
    BY <1>3, <1>5, <1>6

LEMMA ActCheckpoint ==
    ASSUME Maps, NEW v \in Validator, Checkpoint(v)
    PROVE  Maps' /\ Alone(v) /\ Saves(Node(v), Node(v)')
<1>. DEFINE m == [epoch |-> epoch[v], sealed |-> Len(chain[v]), root |-> root[v], pending |-> pending[v]]
<1>1. WasSet(manifest, manifest', v, m)
    <2>1. Sets(manifest, manifest', v, m)
        BY DEF Checkpoint, Sets
    <2>. QED
        BY <2>1, MapSet DEF Maps
<1>2. UNCHANGED <<log, turn, at, tiers, root, chain, epoch, base, current, pending, crashes>>
    BY DEF Checkpoint
<1>3. Maps' /\ Alone(v)
    BY <1>1, <1>2 DEF Maps, Alone, Node, WasSet
<1>4. turn[v] = "idle"
    BY DEF Checkpoint, MayCheckpoint
<1>5. Saves(Node(v), Node(v)')
    BY <1>1, <1>2, <1>4 DEF Saves, SameSeals, SameEpoch, Node, WasSet
<1>. QED
    BY <1>3, <1>5

LEMMA ActRestart ==
    ASSUME Maps, NEW v \in Validator, Restart(v)
    PROVE  Maps' /\ Alone(v) /\ Boots(Node(v), Node(v)')
<1>1. WasSet(turn, turn', v, "idle")
    <2>1. Sets(turn, turn', v, "idle")
        BY DEF Restart, Sets
    <2>. QED
        BY <2>1, MapSet DEF Maps
<1>2. WasSet(at, at', v, 0)
    <2>1. Sets(at, at', v, 0)
        BY DEF Restart, FreshClock, Sets
    <2>. QED
        BY <2>1, MapSet DEF Maps
<1>3. WasSet(pending, pending', v, DerivePending(v))
    <2>1. Sets(pending, pending', v, DerivePending(v))
        BY DEF Restart, Sets
    <2>. QED
        BY <2>1, MapSet DEF Maps
<1>4. UNCHANGED <<log, tiers, root, chain, epoch, base, current, manifest>>
    BY DEF Restart
<1>5. crashes' \in 0 .. Crashes
    BY CutoverAssumption DEF Restart, Maps
<1>6. Maps' /\ Alone(v)
    BY <1>1, <1>2, <1>3, <1>4, <1>5 DEF Maps, Alone, Node, WasSet
<1>7. DerivePending(v) = DerivedOf(Node(v))
    BY DEF DerivePending, DerivedOf, OwnOf, MovesOf, BeforeOf, Node
<1>8. Boots(Node(v), Node(v)')
    BY <1>1, <1>2, <1>3, <1>4, <1>7 DEF Boots, SameSeals, SameEpoch, Node, WasSet
<1>. QED
    BY <1>6, <1>8

--------------------------------------------------------------------------------
(***************************************************************************)
(* Every step goes on with the story                                       *)
(***************************************************************************)
\* The next view of a chain that lags behind the ledger is the next block.
LEMMA EntryInStory ==
    ASSUME NEW h, NEW lg, Story(h, lg), NEW n, NodeOK(h, lg, n),
           h.from[n.epoch] + n.at = Len(n.chain), Len(n.chain) < To(h, n.epoch)
    PROVE  /\ EntryOf(n, lg) = h.ledger[Len(n.chain) + 1]
           /\ LeftBy(n, lg) = h.tiers[Len(n.chain) + 1]
<1>. DEFINE e == n.epoch
            a == h.from[e]
            k == Len(n.chain)
            c == n.at
            z == To(h, e)
            i == k + 1
            N == Len(h.ledger)
            x == h.ledger[i]
<1>1. /\ a \in Nat /\ k \in Nat /\ c \in Nat /\ z \in Nat /\ k < z /\ z <= N /\ N \in Nat /\ a + c = k
      /\ e \in 0 .. h.last /\ n.base = h.base[e] /\ a <= k
    BY NodeFacts
<1>2. h.ledger \in Seq(SealedBlock)
    BY StoryNats
<1>3. i \in a + 1 .. z /\ i \in 1 .. N /\ i - a = c + 1 /\ i - 1 = k
    <2>. HIDE DEF a, k, c, z, N
    <2>. QED
        BY <1>1
<1>4. x \in SealedBlock
    BY <1>2, <1>3
<1>5. x.height = h.base[e] + (i - a) /\ x.block = lg[e][i - a]
    BY <1>1, <1>3 DEF Story, StoryLogged
<1>6. LET y == ApplyOps(h.tiers[i - 1], x.block)
      IN  /\ h.tiers[i] = y.tiers
          /\ x.root = IF y.staged # {} THEN RootAt(h.ledger, i - 1) + 1 ELSE RootAt(h.ledger, i - 1)
    BY <1>3 DEF Story, StoryRuns
<1>7. n.tiers = h.tiers[k] /\ n.root = RootAt(h.ledger, k)
    BY DEF NodeOK, NodePlace
<1>. HIDE DEF e, a, k, c, z, i, N, x
<1>8. x.height = n.base + (c + 1) /\ x.block = lg[e][c + 1]
    BY <1>1, <1>3, <1>5
<1>. DEFINE y == ApplyOps(n.tiers, lg[e][c + 1])
<1>9. h.tiers[i] = y.tiers /\ x.root = IF y.staged # {} THEN n.root + 1 ELSE n.root
    BY <1>3, <1>6, <1>7, <1>8
<1>. HIDE DEF y
<1>10. x = [height |-> x.height, block |-> x.block, root |-> x.root]
    BY <1>4 DEF SealedBlock
<1>11. EntryOf(n, lg) = [height |-> n.base + (c + 1), block |-> lg[e][c + 1],
                         root |-> IF y.staged # {} THEN n.root + 1 ELSE n.root]
    BY DEF EntryOf, e, c, y
<1>12. EntryOf(n, lg) = x
    BY <1>8, <1>9, <1>10, <1>11
<1>13. LeftBy(n, lg) = h.tiers[i]
    BY <1>9 DEF LeftBy, e, c, y
<1>. QED
    BY <1>12, <1>13 DEF x, i, k

LEMMA EntryTyped ==
    ASSUME NEW h, NEW lg \in [Epoch -> Seq(Block)], Story(h, lg), NEW n, NodeOK(h, lg, n),
           n.at < Len(lg[n.epoch])
    PROVE  /\ EntryOf(n, lg) \in SealedBlock
           /\ EntryOf(n, lg).height = n.base + (n.at + 1)
<1>1. n.root \in Nat /\ n.base \in Nat /\ n.at \in Nat
    BY NodeRoot, NodeFacts
<1>2. n.epoch \in Epoch
    <2>1. n.epoch \in Nat /\ n.epoch <= h.last /\ h.last \in Nat
        BY NodeFacts
    <2>2. h.last <= MaxEpoch /\ MaxEpoch \in Nat
        BY StoryNats
    <2>. QED
        BY <2>1, <2>2 DEF Epoch
<1>3. n.at + 1 \in 1 .. Len(lg[n.epoch]) /\ lg[n.epoch] \in Seq(Block)
    BY <1>1, <1>2
<1>4. lg[n.epoch][n.at + 1] \in Block
    BY <1>3
<1>. QED
    BY <1>1, <1>4 DEF EntryOf, SealedBlock

LEMMA ApplyTold ==
    ASSUME Maps, NEW h, Told(h), NEW v \in Validator, Apply(v)
    PROVE  \E g : Told(g)'
<1>. DEFINE n == Node(v)
            m == Node(v)'
            x == EntryOf(n, log)
            t == LeftBy(n, log)
            k == Len(n.chain)
<1>1. Alone(v) /\ Runs(n, log) /\ Seals(n, m, x, t)
    BY ActApply, ToldRoot
<1>2. Story(h, log) /\ NodeOK(h, log, n) /\ log \in [Epoch -> Seq(Block)]
    BY DEF Told, Maps
<1>3. n.chain = chain[v] /\ m.chain = chain'[v] /\ n.epoch = epoch[v] /\ m.epoch = epoch'[v]
    BY DEF Node
<1>. HIDE DEF n, m
<1>4. /\ h.from[n.epoch] + n.at = k /\ ArmedAt(h, n.epoch, k, n.pending)
      /\ n.pending # 0 => k + 1 < h.from[n.epoch] + n.pending
      /\ k = To(h, n.epoch) => n.epoch = h.last
    BY <1>1, <1>2, NodeRuns
<1>5. n.at < Len(log[n.epoch])
    BY <1>1 DEF Runs
<1>6. /\ k \in Nat /\ To(h, n.epoch) \in Nat /\ k <= To(h, n.epoch) /\ n.epoch \in 0 .. h.last /\ n.epoch \in Nat
      /\ To(h, n.epoch) <= Len(h.ledger) /\ Len(h.ledger) \in Nat /\ n.chain \in Seq(SealedBlock)
      /\ h.from[n.epoch] \in Nat /\ n.pending \in Nat /\ n.at \in Nat /\ h.last \in Nat
      /\ n.base = h.base[n.epoch]
    BY <1>2, NodeFacts
<1>7. x \in SealedBlock /\ x.height = n.base + (n.at + 1)
    BY <1>2, <1>5, EntryTyped
<1>8. Len(m.chain) = k + 1 /\ m.epoch = n.epoch
    BY <1>1, <1>6, <1>7 DEF Seals, SameEpoch
<1>9. \A u \in Validator : u # v => Node(u)' = Node(u)
    BY <1>1 DEF Alone
<1>10. CASE k < To(h, n.epoch)
    <2>1. x = h.ledger[k + 1] /\ t = h.tiers[k + 1]
        BY <1>2, <1>4, <1>10, EntryInStory
    <2>. HIDE DEF x, t
    <2>2. NodeOK(h, log, m)
        BY <1>1, <1>2, <1>4, <1>5, <1>10, <2>1, NodeSeals
    <2>3. Continues(h, h)
        BY <1>2, ContinuesSelf
    <2>4. Len(chain[v]) <= Len(chain'[v]) /\ epoch[v] <= epoch'[v]
        BY <1>3, <1>6, <1>8
    <2>. QED
        BY <1>1, <1>2, <1>9, <2>2, <2>3, <2>4, Stitch DEF Alone, m
<1>11. CASE k = To(h, n.epoch)
    <2>1. n.epoch = h.last /\ k = Len(h.ledger)
        BY <1>4, <1>6, <1>11 DEF To
    <2>. DEFINE g == [ledger |-> Append(h.ledger, x),
                      tiers |-> [i \in 0 .. Len(h.ledger) + 1 |->
                                    IF i = Len(h.ledger) + 1 THEN t ELSE h.tiers[i]],
                      last |-> h.last, from |-> h.from, base |-> h.base]
    <2>2. /\ g.ledger = Append(h.ledger, x)
          /\ g.tiers = [i \in 0 .. Len(h.ledger) + 1 |-> IF i = Len(h.ledger) + 1 THEN t ELSE h.tiers[i]]
          /\ g.last = h.last /\ g.from = h.from /\ g.base = h.base
        OBVIOUS
    <2>. HIDE DEF g
    <2>3. k - h.from[n.epoch] + 1 = n.at + 1 /\ n.at + 1 <= Len(log[n.epoch])
        <3>1. Len(log[n.epoch]) \in Nat
            <4>1. n.epoch \in Epoch
                <5>1. h.last <= MaxEpoch /\ MaxEpoch \in Nat
                    BY <1>2, StoryNats
                <5>. QED
                    BY <1>6, <2>1, <5>1 DEF Epoch
            <4>. QED
                BY <1>2, <4>1
        <3>. DEFINE a == h.from[n.epoch]
                    c == n.at
                    l == Len(log[n.epoch])
        <3>2. a \in Nat /\ c \in Nat /\ l \in Nat /\ k \in Nat /\ a + c = k /\ c < l
            BY <1>4, <1>5, <1>6, <3>1
        <3>. HIDE DEF a, c, l, k
        <3>3. k - a + 1 = c + 1 /\ c + 1 <= l
            BY <3>2
        <3>. QED
            BY <3>3 DEF a, c, l
    <2>4. /\ x.block = log[n.epoch][n.at + 1]
          /\ x.root = (IF ApplyOps(n.tiers, x.block).staged # {} THEN n.root + 1 ELSE n.root)
          /\ t = ApplyOps(n.tiers, x.block).tiers
        BY DEF EntryOf, LeftBy
    <2>. HIDE DEF x, t, k
    <2>5. n.tiers = h.tiers[k] /\ n.root = RootAt(h.ledger, k)
        BY <1>2 DEF NodeOK, NodePlace, k
    <2>6. ASSUME NEW i, First(h, h.last, i) PROVE Len(h.ledger) + 1 < i + Delay
        <3>. DEFINE a == h.from[n.epoch]
        <3>1. i \in a + 1 .. k
            BY <1>11, <2>1, <2>6 DEF First
        <3>2. n.pending # 0
            BY <1>4, <2>1, <2>6, <3>1 DEF ArmedAt, First
        <3>3. PICK j : First(h, n.epoch, j) /\ a + n.pending = j + Delay
            BY <1>4, <3>2 DEF ArmedAt
        <3>4. i = j
            BY <1>2, <1>6, <2>1, <2>6, <3>3, FirstUnique
        <3>. QED
            BY <1>4, <2>1, <3>2, <3>3, <3>4
    <2>7. Adds(h, g, log, x, t)
        <3>1. k - h.from[h.last] + 1 = n.at + 1 /\ n.at + 1 <= Len(log[h.last]) /\ x.block = log[h.last][n.at + 1]
            BY <2>1, <2>3, <2>4
        <3>2. x.height = h.base[h.last] + (n.at + 1)
            BY <1>6, <1>7, <2>1
        <3>3. x.root = (IF ApplyOps(h.tiers[k], x.block).staged # {} THEN RootAt(h.ledger, k) + 1 ELSE RootAt(h.ledger, k))
              /\ t = ApplyOps(h.tiers[k], x.block).tiers
            BY <2>4, <2>5
        <3>4. k = Len(h.ledger)
            BY <2>1
        <3>. QED
            BY <2>2, <2>6, <3>1, <3>2, <3>3, <3>4 DEF Adds
    <2>8. /\ Story(g, log) /\ Continues(h, g)
          /\ Len(g.ledger) = k + 1 /\ g.ledger[k + 1] = x
        <3>1. x \in SealedBlock
            BY <1>7
        <3>2. /\ Story(g, log) /\ Continues(h, g)
              /\ Len(g.ledger) = Len(h.ledger) + 1 /\ g.ledger[Len(h.ledger) + 1] = x
            BY <1>2, <2>7, <3>1, StoryAdds
        <3>. QED
            BY <2>1, <3>2
    <2>9. NodeOK(g, log, n)
        BY <1>2, <2>8, NodeContinues
    <2>10. ArmedAt(g, n.epoch, k, n.pending)
        <3>1. k \in 0 .. Len(h.ledger)
            BY <1>6, <2>1
        <3>. QED
            BY <1>2, <1>4, <1>6, <2>8, <3>1, ContinuesArmed
    <2>11. To(g, n.epoch) = k + 1 /\ k < k + 1
        BY <1>6, <2>1, <2>2, <2>8 DEF To
    <2>12. g.tiers[k + 1] = t
        <3>1. k + 1 \in 0 .. k + 1
            BY <1>6
        <3>. QED
            BY <2>1, <2>2, <3>1
    <2>13. g.from[n.epoch] + n.at = k
        BY <1>4, <2>2
    <2>14. NodeOK(g, log, m)
        BY <1>1, <1>2, <1>5, <2>8, <2>9, <2>10, <2>11, <2>12, <2>13, NodeSeals DEF k
    <2>15. Len(chain'[v]) = Len(g.ledger) /\ g.last = h.last /\ epoch[v] <= epoch'[v]
        BY <1>3, <1>6, <1>8, <2>2, <2>8
    <2>. QED
        BY <1>1, <1>9, <2>8, <2>14, <2>15, Stitch DEF Alone, m
<1>. QED
    BY <1>6, <1>10, <1>11

LEMMA CutoverTold ==
    ASSUME Maps, NEW h, Told(h), NEW v \in Validator, Cutover(v, tiers[v])
    PROVE  \E g : Told(g)'
<1>. DEFINE n == Node(v)
            m == Node(v)'
            k == Len(n.chain)
<1>1. Alone(v) /\ Due(n) /\ epoch[v] < MaxEpoch /\ Crosses(n, m)
    BY ActCutover
<1>2. Story(h, log) /\ NodeOK(h, log, n) /\ log \in [Epoch -> Seq(Block)]
    BY DEF Told, Maps
<1>3. n.chain = chain[v] /\ m.chain = chain'[v] /\ n.epoch = epoch[v] /\ m.epoch = epoch'[v]
    BY DEF Node
<1>. HIDE DEF n, m
<1>4. /\ k \in Nat /\ n.epoch \in Nat /\ h.last \in Nat /\ n.epoch <= h.last /\ n.epoch \in 0 .. h.last
    BY <1>2, NodeFacts
<1>5. m.chain = n.chain /\ m.epoch = n.epoch + 1
    BY <1>1 DEF Crosses, SameSeals
<1>6. Len(chain[v]) <= Len(chain'[v]) /\ epoch[v] <= epoch'[v]
    BY <1>3, <1>4, <1>5
<1>7. \A u \in Validator : u # v => Node(u)' = Node(u)
    BY <1>1 DEF Alone
<1>8. CASE n.epoch < h.last
    <2>1. NodeOK(h, log, m)
        BY <1>1, <1>2, <1>8, NodeCrosses
    <2>2. Continues(h, h)
        BY <1>2, ContinuesSelf
    <2>. QED
        BY <1>1, <1>2, <1>6, <1>7, <2>1, <2>2, Stitch DEF Alone, m
<1>9. CASE ~ (n.epoch < h.last)
    <2>1. n.epoch = h.last
        BY <1>4, <1>9
    <2>. DEFINE p == n.pending
                g == [ledger |-> h.ledger, tiers |-> h.tiers, last |-> h.last + 1,
                      from |-> [e \in 0 .. h.last + 1 |-> IF e = h.last + 1 THEN Len(h.ledger) ELSE h.from[e]],
                      base |-> [e \in 0 .. h.last + 1 |-> IF e = h.last + 1 THEN h.base[h.last] + p ELSE h.base[e]]]
    <2>2. /\ g.ledger = h.ledger /\ g.tiers = h.tiers /\ g.last = h.last + 1
          /\ g.from = [e \in 0 .. h.last + 1 |-> IF e = h.last + 1 THEN Len(h.ledger) ELSE h.from[e]]
          /\ g.base = [e \in 0 .. h.last + 1 |-> IF e = h.last + 1 THEN h.base[h.last] + p ELSE h.base[e]]
        OBVIOUS
    <2>. HIDE DEF g
    <2>3. p # 0 /\ ArmedAt(h, n.epoch, k, p) /\ k = To(h, n.epoch) /\ k + 1 = h.from[n.epoch] + p
        BY <1>1, <1>2, NodeDue
    <2>4. k = Len(h.ledger)
        BY <1>9, <2>3 DEF To
    <2>5. h.last < MaxEpoch
        BY <1>1, <1>3, <2>1
    <2>6. Closes(h, g, p)
        BY <2>1, <2>2, <2>3, <2>4, <2>5 DEF Closes
    <2>7. Story(g, log) /\ Continues(h, g)
        BY <1>2, <2>6, StoryCloses
    <2>8. NodeOK(g, log, n)
        BY <1>2, <2>7, NodeContinues
    <2>9. n.epoch < g.last
        BY <1>4, <2>1, <2>2
    <2>10. NodeOK(g, log, m)
        BY <1>1, <1>2, <2>7, <2>8, <2>9, NodeCrosses
    <2>11. Len(g.ledger) = Len(h.ledger) /\ epoch'[v] = g.last
        BY <1>3, <1>5, <2>1, <2>2
    <2>. QED
        BY <1>1, <1>6, <1>7, <2>7, <2>10, <2>11, Stitch DEF Alone, m
<1>. QED
    BY <1>8, <1>9

LEMMA FinalizeTold ==
    ASSUME Maps, NEW h, Told(h), NEW e \in Epoch, NEW b \in Block, Finalize(e, b)
    PROVE  Maps' /\ Told(h)'
<1>1. log \in [Epoch -> Seq(Block)] /\ log' = [log EXCEPT ![e] = Append(log[e], b)]
    BY DEF Maps, Finalize
<1>2. UNCHANGED <<nodeVars, crashes>>
    BY DEF Finalize
<1>3. log' \in [Epoch -> Seq(Block)]
    BY <1>1
<1>4. LogGrows(log, log')
    <2>1. ASSUME NEW d \in Epoch
          PROVE  /\ Len(log[d]) \in Nat /\ Len(log'[d]) \in Nat /\ Len(log[d]) <= Len(log'[d])
                 /\ \A i \in 1 .. Len(log[d]) : log'[d][i] = log[d][i]
        <3>1. CASE d = e
            <4>1. log'[d] = Append(log[d], b) /\ log[d] \in Seq(Block)
                BY <1>1, <3>1
            <4>. DEFINE s == log[d]
                        r == log'[d]
            <4>2. s \in Seq(Block) /\ r = Append(s, b)
                BY <4>1
            <4>. HIDE DEF s, r
            <4>3. Len(s) \in Nat /\ Len(r) = Len(s) + 1 /\ \A i \in 1 .. Len(s) : r[i] = s[i]
                BY <4>2
            <4>4. Len(r) \in Nat /\ Len(s) <= Len(r)
                BY <4>3
            <4>. QED
                BY <4>3, <4>4 DEF s, r
        <3>2. CASE d # e
            <4>1. log'[d] = log[d] /\ log[d] \in Seq(Block)
                BY <1>1, <3>2
            <4>. QED
                BY <4>1
        <3>. QED
            BY <3>1, <3>2
    <2>. QED
        BY <2>1 DEF LogGrows
<1>5. \A v \in Validator : Node(v)' = Node(v)
    BY <1>2 DEF Node, nodeVars
<1>6. chain' = chain /\ epoch' = epoch
    BY <1>2 DEF nodeVars
<1>7. Story(h, log') /\ \A n : NodeOK(h, log, n) => NodeOK(h, log', n)
    BY <1>4, StoryLogGrows DEF Told
<1>8. Maps'
    BY <1>2, <1>3 DEF Maps, nodeVars
<1>9. \A v \in Validator : NodeOK(h, log', Node(v)')
    BY <1>5, <1>7 DEF Told
<1>. QED
    BY <1>6, <1>7, <1>8, <1>9 DEF Told

\* A step of v that leaves its seals and its epoch where they are.
LEMMA StillTold ==
    ASSUME NEW h, Told(h), NEW v \in Validator, Alone(v), NodeOK(h, log, Node(v)'),
           chain'[v] = chain[v], epoch'[v] = epoch[v]
    PROVE  Told(h)'
<1>1. Story(h, log) /\ NodeOK(h, log, Node(v))
    BY DEF Told
<1>2. Continues(h, h)
    BY <1>1, ContinuesSelf
<1>3. Len(chain[v]) \in Nat /\ epoch[v] \in Nat
    <2>1. Node(v).chain = chain[v] /\ Node(v).epoch = epoch[v]
        BY NodeFields
    <2>. QED
        BY <1>1, <2>1, NodeFacts
<1>4. Len(chain[v]) <= Len(chain'[v]) /\ epoch[v] <= epoch'[v]
    BY <1>3
<1>. QED
    BY <1>1, <1>2, <1>4, Stitch DEF Alone

LEMMA CutoverStep ==
    ASSUME ReadFaults = {}, EveryMoveShows, Maps, NEW h, Told(h), Next
    PROVE  Maps' /\ \E g : Told(g)'
<1>1. CASE \E e \in Epoch, b \in Block : Finalize(e, b)
    BY <1>1, FinalizeTold
<1>2. CASE \E v \in Validator :
              \/ PassOver(v) \/ Apply(v) \/ SkipObservation(v)
              \/ \E seen \in Observations(v) :
                    Observe(v, seen) \/ Cutover(v, seen) \/ Demote(v, seen)
              \/ Checkpoint(v) \/ Restart(v)
    <2>1. PICK v \in Validator :
              \/ PassOver(v) \/ Apply(v) \/ SkipObservation(v)
              \/ \E seen \in Observations(v) :
                    Observe(v, seen) \/ Cutover(v, seen) \/ Demote(v, seen)
              \/ Checkpoint(v) \/ Restart(v)
        BY <1>2
    <2>2. Observations(v) = {tiers[v]} /\ ~ SkipObservation(v)
        BY DEF Observations, SkipObservation
    <2>3. Story(h, log) /\ NodeOK(h, log, Node(v)) /\ log \in [Epoch -> Seq(Block)]
        BY DEF Told, Maps
    <2>4. CASE PassOver(v)
        <3>1. Maps' /\ Alone(v) /\ PassesOver(Node(v), Node(v)', log)
            BY <2>4, ActPassOver
        <3>2. NodeOK(h, log, Node(v)')
            BY <2>3, <3>1, NodePassesOver
        <3>3. chain'[v] = chain[v] /\ epoch'[v] = epoch[v]
            BY <2>4 DEF PassOver
        <3>. QED
            BY <3>1, <3>2, <3>3, StillTold
    <2>5. CASE Apply(v)
        BY <2>5, ActApply, ApplyTold, ToldRoot
    <2>6. CASE Observe(v, tiers[v])
        <3>1. Maps' /\ Alone(v) /\ Observes(Node(v), Node(v)')
            BY <2>6, ActObserve
        <3>2. NodeOK(h, log, Node(v)')
            BY <2>3, <3>1, NodeObserves
        <3>3. chain'[v] = chain[v] /\ epoch'[v] = epoch[v]
            BY <2>6 DEF Observe
        <3>. QED
            BY <3>1, <3>2, <3>3, StillTold
    <2>7. CASE Cutover(v, tiers[v])
        BY <2>7, ActCutover, CutoverTold
    <2>8. CASE Demote(v, tiers[v])
        <3>1. Maps' /\ Alone(v) /\ Due(Node(v)) /\ Exits(Node(v), Node(v)')
            BY <2>8, ActDemote
        <3>2. NodeOK(h, log, Node(v)')
            BY <2>3, <3>1, NodeExits
        <3>3. chain'[v] = chain[v] /\ epoch'[v] = epoch[v]
            BY <2>8 DEF Demote
        <3>. QED
            BY <3>1, <3>2, <3>3, StillTold
    <2>9. CASE Checkpoint(v)
        <3>1. Maps' /\ Alone(v) /\ Saves(Node(v), Node(v)')
            BY <2>9, ActCheckpoint
        <3>2. NodeOK(h, log, Node(v)')
            BY <2>3, <3>1, NodeSaves
        <3>3. chain'[v] = chain[v] /\ epoch'[v] = epoch[v]
            BY <2>9 DEF Checkpoint
        <3>. QED
            BY <3>1, <3>2, <3>3, StillTold
    <2>10. CASE Restart(v)
        <3>1. Maps' /\ Alone(v) /\ Boots(Node(v), Node(v)')
            BY <2>10, ActRestart
        <3>2. NodeOK(h, log, Node(v)')
            BY <2>3, <3>1, NodeBoots
        <3>3. chain'[v] = chain[v] /\ epoch'[v] = epoch[v]
            BY <2>10 DEF Restart
        <3>. QED
            BY <3>1, <3>2, <3>3, StillTold
    <2>. QED
        BY <2>1, <2>2, <2>4, <2>5, <2>6, <2>7, <2>8, <2>9, <2>10
<1>. QED
    BY <1>1, <1>2 DEF Next

LEMMA CutoverStutter ==
    ASSUME NEW h, Maps, Told(h), UNCHANGED vars
    PROVE  Maps' /\ Told(h)'
<1>1. \A v : Node(v)' = Node(v)
    BY DEF vars, nodeVars, Node
<1>2. Maps'
    BY DEF Maps, vars, nodeVars
<1>3. chain' = chain /\ epoch' = epoch /\ log' = log
    BY DEF vars, nodeVars
<1>. QED
    BY <1>1, <1>2, <1>3 DEF Told

(***************************************************************************)
(* With membership reads that succeed and blocks whose operations do not   *)
(* cancel out, the validators are always in one story.                     *)
(***************************************************************************)
THEOREM CutoverInvariant ==
    ASSUME ReadFaults = {}, EveryMoveShows
    PROVE  Spec => []CutoverInv
<1>1. Init => CutoverInv
    BY CutoverInit
<1>2. CutoverInv /\ [Next]_vars => CutoverInv'
    <2>. SUFFICES ASSUME CutoverInv, [Next]_vars PROVE CutoverInv'
        OBVIOUS
    <2>1. PICK h : Told(h)
        BY DEF CutoverInv
    <2>2. Maps
        BY DEF CutoverInv
    <2>3. CASE Next
        <3>1. Maps' /\ \E g : Told(g)'
            BY <2>1, <2>2, <2>3, CutoverStep
        <3>. QED
            BY <3>1 DEF CutoverInv
    <2>4. CASE UNCHANGED vars
        <3>1. Maps' /\ Told(h)'
            BY <2>1, <2>2, <2>4, CutoverStutter
        <3>. QED
            BY <3>1 DEF CutoverInv
    <2>. QED
        BY <2>3, <2>4
<1>. QED
    BY <1>1, <1>2, PTL DEF Spec

--------------------------------------------------------------------------------
(***************************************************************************)
(* What the story gives                                                    *)
(***************************************************************************)
LEMMA StoryTypeOK ==
    ASSUME Maps, NEW h, Told(h)
    PROVE  TypeOK
<1>1. ASSUME NEW v \in Validator
      PROVE  /\ turn[v] \in {"idle", "pass", "broke", "gone"}
             /\ at[v] \in 0 .. Len(log[epoch[v]])
             /\ tiers[v] \in Tiers /\ current[v] \in Tiers /\ root[v] \in Nat /\ base[v] \in Nat
             /\ epoch[v] \in Epoch /\ pending[v] \in Nat
    <2>. DEFINE n == Node(v)
    <2>1. Story(h, log) /\ NodeOK(h, log, n)
        BY DEF Told
    <2>2. /\ n.turn = turn[v] /\ n.at = at[v] /\ n.tiers = tiers[v] /\ n.root = root[v]
          /\ n.epoch = epoch[v] /\ n.base = base[v] /\ n.current = current[v] /\ n.pending = pending[v]
        BY NodeFields
    <2>. HIDE DEF n
    <2>3. /\ n.root \in Nat /\ n.tiers \in Tiers /\ n.base \in Nat /\ n.pending \in Nat /\ n.at \in Nat
        BY <2>1, NodeRoot, NodeFacts
    <2>4. n.epoch \in Epoch
        <3>1. n.epoch \in Nat /\ n.epoch <= h.last /\ h.last \in Nat
            BY <2>1, NodeFacts
        <3>2. h.last <= MaxEpoch /\ MaxEpoch \in Nat
            BY <2>1, StoryNats
        <3>. QED
            BY <3>1, <3>2 DEF Epoch
    <2>5. n.turn \in {"idle", "pass", "broke", "gone"} /\ n.at <= Len(log[n.epoch])
        BY <2>1 DEF NodeOK, NodeClock
    <2>6. n.current \in Tiers
        <3>1. n.current = h.tiers[h.from[n.epoch]] /\ n.epoch \in 0 .. h.last
            BY <2>1 DEF NodeOK, NodePlace
        <3>2. h.from[n.epoch] \in 0 .. Len(h.ledger)
            BY <2>1, <3>1 DEF Story, StoryTypes
        <3>. QED
            BY <2>1, <3>1, <3>2, StoryNats
    <2>7. Len(log[n.epoch]) \in Nat
        BY <2>4 DEF Maps
    <2>8. n.at \in 0 .. Len(log[n.epoch])
        BY <2>3, <2>5, <2>7
    <2>. QED
        BY <2>2, <2>3, <2>4, <2>5, <2>6, <2>8
<1>2. log \in [Epoch -> Seq(Block)] /\ crashes \in 0 .. Crashes
    BY DEF Maps
<1>3. turn \in [Validator -> {"idle", "pass", "broke", "gone"}]
    BY <1>1 DEF Maps, IsMap
<1>4. tiers \in [Validator -> Tiers] /\ current \in [Validator -> Tiers]
    BY <1>1 DEF Maps, IsMap
<1>5. root \in [Validator -> Nat] /\ base \in [Validator -> Nat] /\ pending \in [Validator -> Nat]
    BY <1>1 DEF Maps, IsMap
<1>6. epoch \in [Validator -> Epoch]
    BY <1>1 DEF Maps, IsMap
<1>. QED
    BY <1>1, <1>2, <1>3, <1>4, <1>5, <1>6 DEF TypeOK

LEMMA StorySameBoundary ==
    ASSUME NEW h, Told(h)
    PROVE  SameBoundary
<1>. SUFFICES ASSUME NEW u \in Validator, NEW v \in Validator, epoch[u] = epoch[v],
                     pending[u] # 0, pending[v] # 0
              PROVE  pending[u] = pending[v]
    BY DEF SameBoundary
<1>. DEFINE a == h.from[epoch[v]]
<1>1. Story(h, log) /\ NodeOK(h, log, Node(u)) /\ NodeOK(h, log, Node(v))
    BY DEF Told
<1>2. /\ Node(u).pending = pending[u] /\ Node(u).epoch = epoch[v]
      /\ Node(v).pending = pending[v] /\ Node(v).epoch = epoch[v]
    BY NodeFields
<1>3. PICK i : First(h, epoch[v], i) /\ a + pending[u] = i + Delay
    BY <1>1, <1>2, NodeCeiling DEF ArmedAt
<1>4. PICK j : First(h, epoch[v], j) /\ a + pending[v] = j + Delay
    BY <1>1, <1>2, NodeCeiling DEF ArmedAt
<1>5. epoch[v] \in 0 .. h.last /\ a \in Nat /\ pending[u] \in Nat /\ pending[v] \in Nat
    BY <1>1, <1>2, NodeFacts
<1>6. i = j
    BY <1>1, <1>3, <1>4, <1>5, FirstUnique
<1>. HIDE DEF a
<1>. QED
    BY <1>3, <1>4, <1>5, <1>6

LEMMA StoryChangeIsArmed ==
    ASSUME NEW h, Told(h)
    PROVE  ChangeIsArmed
<1>. SUFFICES ASSUME NEW v \in Validator, turn[v] = "idle", tiers[v] # current[v], pending[v] = 0
              PROVE  FALSE
    BY DEF ChangeIsArmed
<1>. DEFINE n == Node(v)
<1>1. Story(h, log) /\ NodeOK(h, log, n)
    BY DEF Told
<1>2. n.pending = 0 /\ n.turn = "idle" /\ n.tiers # n.current
    BY NodeFields
<1>. HIDE DEF n
<1>3. ArmedAt(h, n.epoch, Len(n.chain), 0)
    BY <1>1, <1>2 DEF NodeOK, NodeArmed
<1>4. \A i \in h.from[n.epoch] + 1 .. Len(n.chain) : ~ Moved(h.ledger, i)
    BY <1>3 DEF ArmedAt
<1>5. /\ n.epoch \in 0 .. h.last /\ h.from[n.epoch] <= Len(n.chain) /\ Len(n.chain) <= To(h, n.epoch)
      /\ h.from[n.epoch] \in Nat /\ Len(n.chain) \in Nat /\ To(h, n.epoch) \in Nat
    BY <1>1, NodeFacts
<1>6. Len(n.chain) \in h.from[n.epoch] .. To(h, n.epoch)
    BY <1>5
<1>7. h.tiers[Len(n.chain)] = h.tiers[h.from[n.epoch]]
    BY <1>1, <1>4, <1>5, <1>6 DEF Story, StoryStill
<1>8. n.tiers = h.tiers[Len(n.chain)] /\ n.current = h.tiers[h.from[n.epoch]]
    BY <1>1 DEF NodeOK, NodePlace
<1>. QED
    BY <1>2, <1>7, <1>8

LEMMA StoryFrozen ==
    ASSUME NEW h, Told(h)
    PROVE  FrozenPastCeiling
<1>. SUFFICES ASSUME NEW v \in Validator, pending[v] # 0
              PROVE  Tip(v) < HeightOf(v, pending[v])
    BY DEF FrozenPastCeiling
<1>. DEFINE n == Node(v)
            a == h.from[n.epoch]
            k == Len(n.chain)
            y == TipOf(n.chain)
            b == n.base
            p == n.pending
            z == To(h, n.epoch)
<1>1. Story(h, log) /\ NodeOK(h, log, n)
    BY DEF Told
<1>2. n.pending = pending[v] /\ n.base = base[v] /\ n.chain = chain[v]
    BY NodeFields
<1>. HIDE DEF n
<1>3. y = Tip(v) /\ b + p = HeightOf(v, pending[v]) /\ p # 0
    BY <1>2 DEF Tip, TipOf, HeightOf
<1>4. a \in Nat /\ k \in Nat /\ b \in Nat /\ p \in Nat /\ z \in Nat /\ a <= k /\ k <= z
    BY <1>1, NodeFacts
<1>5. y \in Nat /\ (k > a => y = b + (k - a)) /\ (k = a => y <= b)
    BY <1>1, TipHeight DEF NodeOK
<1>6. z < a + p
    BY <1>1, <1>3, NodeCeiling
<1>. HIDE DEF a, k, y, b, p, z
<1>7. y < b + p
    BY <1>3, <1>4, <1>5, <1>6
<1>. QED
    BY <1>3, <1>7

(***************************************************************************)
(* A membership change has one boundary, whatever the passes, checkpoints  *)
(* and crashes: armed at one view by every validator that knows of the     *)
(* change, at which the sealed state is frozen.                            *)
(***************************************************************************)
THEOREM CutoverBoundaryAgreed ==
    ASSUME ReadFaults = {}, EveryMoveShows
    PROVE  Spec => []BoundaryAgreed
<1>1. CutoverInv => BoundaryAgreed
    <2>. SUFFICES ASSUME CutoverInv PROVE BoundaryAgreed
        OBVIOUS
    <2>1. PICK h : Told(h)
        BY DEF CutoverInv
    <2>2. Maps
        BY DEF CutoverInv
    <2>. QED
        BY <2>1, <2>2, StoryTypeOK, StorySameBoundary, StoryChangeIsArmed, StoryFrozen DEF BoundaryAgreed
<1>2. Spec => []CutoverInv
    BY CutoverInvariant
<1>. QED
    BY <1>1, <1>2, PTL

\* SameChain, the agreement itself.
THEOREM CutoverSameChain ==
    ASSUME ReadFaults = {}, EveryMoveShows
    PROVE  Spec => []SameChain
<1>1. CutoverInv => SameChain
    <2>. SUFFICES ASSUME CutoverInv, NEW u \in Validator, NEW v \in Validator,
                         NEW i \in DOMAIN chain[u] \cap DOMAIN chain[v]
                  PROVE  chain[u][i] = chain[v][i]
        BY DEF SameChain
    <2>1. PICK h : Told(h)
        BY DEF CutoverInv
    <2>2. ASSUME NEW w \in Validator, i \in DOMAIN chain[w] PROVE chain[w][i] = h.ledger[i]
        <3>1. NodeOK(h, log, Node(w)) /\ Node(w).chain = chain[w]
            BY <2>1, NodeFields DEF Told
        <3>2. chain[w] \in Seq(SealedBlock) /\ \A j \in 1 .. Len(chain[w]) : chain[w][j] = h.ledger[j]
            BY <3>1 DEF NodeOK, NodePlace
        <3>. QED
            BY <2>2, <3>2
    <2>. QED
        BY <2>2
<1>2. Spec => []CutoverInv
    BY CutoverInvariant
<1>. QED
    BY <1>1, <1>2, PTL

--------------------------------------------------------------------------------
(***************************************************************************)
(* The refinement of AgreedChain                                           *)
(***************************************************************************)
Longest(ch) == ch[CHOOSE v \in Validator : \A u \in Validator : Len(ch[u]) <= Len(ch[v])]

\* The chains ch are prefixes of L, one of them all of it.
Excerpts(ch, L) ==
    /\ L \in Seq(SealedBlock) /\ Len(L) \in Nat
    /\ \A v \in Validator : /\ ch[v] \in Seq(SealedBlock) /\ Len(ch[v]) \in Nat /\ Len(ch[v]) <= Len(L)
                            /\ \A i \in 1 .. Len(ch[v]) : ch[v][i] = L[i]
    /\ \E v \in Validator : Len(ch[v]) = Len(L)

LEMMA LongestIs ==
    ASSUME NEW ch, NEW L, Excerpts(ch, L)
    PROVE  Longest(ch) = L
<1>. DEFINE v == CHOOSE w \in Validator : \A u \in Validator : Len(ch[u]) <= Len(ch[w])
<1>1. PICK w \in Validator : Len(ch[w]) = Len(L)
    BY DEF Excerpts
<1>2. \A u \in Validator : Len(ch[u]) <= Len(ch[w])
    BY <1>1 DEF Excerpts
<1>3. v \in Validator /\ \A u \in Validator : Len(ch[u]) <= Len(ch[v])
    BY <1>2
<1>. HIDE DEF v
<1>4. Len(ch[w]) <= Len(ch[v]) /\ Len(ch[v]) \in Nat /\ Len(L) \in Nat /\ Len(ch[v]) <= Len(L)
    BY <1>3 DEF Excerpts
<1>5. Len(ch[v]) = Len(L)
    BY <1>1, <1>4
<1>6. ch[v] \in Seq(SealedBlock) /\ L \in Seq(SealedBlock) /\ \A i \in 1 .. Len(L) : ch[v][i] = L[i]
    BY <1>3, <1>5 DEF Excerpts
<1>7. ch[v] = L
    BY <1>5, <1>6, SeqEqual
<1>. QED
    BY <1>7 DEF Longest, v

LEMMA StoryExcerpts ==
    ASSUME NEW h, NEW lg, Story(h, lg), NEW ch,
           \A v \in Validator : \E n : NodeOK(h, lg, n) /\ n.chain = ch[v],
           \E v \in Validator : Len(ch[v]) = Len(h.ledger)
    PROVE  Excerpts(ch, h.ledger)
<1>1. Story(h, lg)
    OBVIOUS
<1>2. h.ledger \in Seq(SealedBlock) /\ Len(h.ledger) \in Nat
    BY <1>1, StoryNats
<1>3. ASSUME NEW v \in Validator
      PROVE  /\ ch[v] \in Seq(SealedBlock) /\ Len(ch[v]) \in Nat /\ Len(ch[v]) <= Len(h.ledger)
             /\ \A i \in 1 .. Len(ch[v]) : ch[v][i] = h.ledger[i]
    <2>1. PICK n : NodeOK(h, lg, n) /\ n.chain = ch[v]
        OBVIOUS
    <2>2. /\ n.chain \in Seq(SealedBlock) /\ Len(n.chain) \in Nat /\ To(h, n.epoch) \in Nat
          /\ Len(n.chain) <= To(h, n.epoch) /\ To(h, n.epoch) <= Len(h.ledger)
        BY <1>1, <2>1, NodeFacts
    <2>3. \A i \in 1 .. Len(n.chain) : n.chain[i] = h.ledger[i]
        BY <2>1 DEF NodeOK, NodePlace
    <2>4. Len(n.chain) <= Len(h.ledger)
        BY <1>2, <2>2
    <2>. QED
        BY <2>1, <2>2, <2>3, <2>4
<1>. QED
    BY <1>2, <1>3 DEF Excerpts

LEMMA ToldExcerpts ==
    ASSUME NEW h, Told(h)
    PROVE  Excerpts(chain, h.ledger)
<1>1. \A v \in Validator : NodeOK(h, log, Node(v)) /\ Node(v).chain = chain[v]
    BY NodeFields DEF Told
<1>. QED
    BY <1>1, StoryExcerpts DEF Told

LEMMA ToldExcerptsNext ==
    ASSUME NEW h, Told(h)'
    PROVE  Excerpts(chain', h.ledger) /\ Ledger' = h.ledger
<1>1. \A v \in Validator : NodeOK(h, log', Node(v)') /\ Node(v)'.chain = chain'[v]
    BY DEF Told, Node
<1>2. Excerpts(chain', h.ledger)
    BY <1>1, StoryExcerpts DEF Told
<1>3. Ledger' = Longest(chain')
    BY DEF Ledger, Longest
<1>. QED
    BY <1>2, <1>3, LongestIs

\* So the ledger of AgreedChain is the story's.
LEMMA LedgerIs ==
    ASSUME NEW h, Told(h)
    PROVE  Ledger = h.ledger
BY ToldExcerpts, LongestIs DEF Ledger, Longest

\* One chain grows by a block: the whole ledger does, or none of it.
LEMMA ExcerptsGrow ==
    ASSUME NEW ch, NEW L, Excerpts(ch, L), NEW c2, NEW K, Excerpts(c2, K), NEW v \in Validator,
           NEW x \in SealedBlock, c2[v] = Append(ch[v], x), \A u \in Validator : u # v => c2[u] = ch[u]
    PROVE  /\ K[Len(ch[v]) + 1] = x
           /\ Len(ch[v]) < Len(L) => K = L
           /\ Len(ch[v]) = Len(L) => Len(K) = Len(L) + 1 /\ SubSeq(K, 1, Len(L)) = L
<1>. DEFINE k == Len(ch[v])
<1>1. /\ L \in Seq(SealedBlock) /\ Len(L) \in Nat /\ K \in Seq(SealedBlock) /\ Len(K) \in Nat
      /\ ch[v] \in Seq(SealedBlock) /\ k \in Nat /\ k <= Len(L)
    BY DEF Excerpts
<1>2. Len(c2[v]) = k + 1 /\ c2[v][k + 1] = x /\ \A i \in 1 .. k : c2[v][i] = ch[v][i]
    BY <1>1
<1>3. k + 1 <= Len(K) /\ \A i \in 1 .. k + 1 : c2[v][i] = K[i]
    BY <1>2 DEF Excerpts
<1>4. K[k + 1] = x
    <2>1. k + 1 \in 1 .. k + 1
        BY <1>1
    <2>. QED
        BY <1>2, <1>3, <2>1
<1>5. PICK w \in Validator : Len(c2[w]) = Len(K)
    BY DEF Excerpts
<1>6. w # v => Len(K) <= Len(L)
    BY <1>5 DEF Excerpts
<1>. HIDE DEF k
<1>7. ASSUME k < Len(L) PROVE K = L
    <2>1. PICK u \in Validator : Len(ch[u]) = Len(L)
        BY DEF Excerpts
    <2>2. u # v
        BY <1>1, <1>7, <2>1 DEF k
    <2>3. c2[u] = ch[u]
        BY <2>2
    <2>4. Len(L) <= Len(K) /\ \A i \in 1 .. Len(L) : K[i] = L[i]
        <3>1. Len(c2[u]) <= Len(K) /\ \A i \in 1 .. Len(c2[u]) : c2[u][i] = K[i]
            BY DEF Excerpts
        <3>2. \A i \in 1 .. Len(ch[u]) : ch[u][i] = L[i]
            BY DEF Excerpts
        <3>. QED
            BY <2>1, <2>3, <3>1, <3>2
    <2>5. Len(K) <= Len(L)
        <3>1. CASE w = v
            BY <1>1, <1>2, <1>5, <1>7, <3>1
        <3>. QED
            BY <1>6, <3>1
    <2>6. Len(K) = Len(L)
        BY <1>1, <2>4, <2>5
    <2>. QED
        BY <1>1, <2>4, <2>6, SeqEqual
<1>8. ASSUME k = Len(L) PROVE Len(K) = Len(L) + 1 /\ SubSeq(K, 1, Len(L)) = L
    <2>1. Len(K) = Len(L) + 1
        <3>1. CASE w = v
            BY <1>1, <1>2, <1>5, <1>8, <3>1
        <3>2. CASE w # v
            BY <1>1, <1>3, <1>6, <1>8, <3>2
        <3>. QED
            BY <3>1, <3>2
    <2>2. \A i \in 1 .. Len(L) : K[i] = L[i]
        <3>1. \A i \in 1 .. k : ch[v][i] = L[i]
            BY DEF Excerpts, k
        <3>2. \A i \in 1 .. k : i \in 1 .. k + 1
            BY <1>1
        <3>. QED
            BY <1>2, <1>3, <1>8, <3>1, <3>2
    <2>3. SubSeq(K, 1, Len(L)) \in Seq(SealedBlock) /\ Len(SubSeq(K, 1, Len(L))) = Len(L)
          /\ \A i \in 1 .. Len(L) : SubSeq(K, 1, Len(L))[i] = K[i]
        BY <1>1, <2>1
    <2>. DEFINE M == SubSeq(K, 1, Len(L))
    <2>4. M \in Seq(SealedBlock) /\ Len(M) = Len(L) /\ \A i \in 1 .. Len(L) : M[i] = L[i]
        BY <2>2, <2>3
    <2>. HIDE DEF M
    <2>5. M = L
        BY <1>1, <2>4, SeqEqual
    <2>. QED
        BY <2>1, <2>5 DEF M
<1>. QED
    BY <1>4, <1>7, <1>8 DEF k

LEMMA ApplyRefines ==
    ASSUME Maps, NEW h, Told(h), NEW g, Told(g)', NEW v \in Validator, Apply(v)
    PROVE  Agreed!Extend(v) \/ Agreed!Follow(v)
<1>. DEFINE n == Node(v)
            x == EntryOf(n, log)
            k == Len(chain[v])
            L == Ledger
            K == Ledger'
            held == [u \in Validator |-> Len(chain[u])]
            entered == [u \in Validator |-> [epoch |-> epoch[u], base |-> base[u], members |-> current[u]]]
<1>1. Alone(v) /\ Runs(n, log) /\ Seals(n, Node(v)', x, LeftBy(n, log))
    BY ActApply, ToldRoot
<1>2. Story(h, log) /\ NodeOK(h, log, n) /\ log \in [Epoch -> Seq(Block)]
    BY DEF Told, Maps
<1>3. /\ n.chain = chain[v] /\ n.base = base[v] /\ n.at = at[v] /\ n.epoch = epoch[v]
      /\ Node(v)'.chain = chain'[v]
    BY DEF Node
<1>4. L = h.ledger /\ Excerpts(chain, L)
    BY ToldExcerpts, LedgerIs
<1>5. K = g.ledger /\ Excerpts(chain', K)
    BY ToldExcerptsNext
<1>6. UNCHANGED <<epoch, base, current>>
    BY DEF Apply
<1>7. \A u \in Validator : u # v => chain'[u] = chain[u]
    <2>1. ASSUME NEW u \in Validator, u # v PROVE chain'[u] = chain[u]
        <3>1. Node(u)' = Node(u)
            BY <1>1, <2>1 DEF Alone
        <3>2. Node(u)'.chain = chain'[u] /\ Node(u).chain = chain[u]
            BY DEF Node
        <3>. QED
            BY <3>1, <3>2
    <2>. QED
        BY <2>1
<1>. HIDE DEF n, K, L
<1>8. chain'[v] = Append(chain[v], x)
    BY <1>1, <1>3 DEF Seals
<1>9. /\ h.from[n.epoch] + n.at = Len(n.chain)
      /\ Len(n.chain) = To(h, n.epoch) => n.epoch = h.last
    BY <1>1, <1>2, NodeRuns
<1>10. n.at < Len(log[n.epoch]) /\ ~ (n.base + (n.at + 1) <= TipOf(n.chain))
    BY <1>1 DEF Runs
<1>11. x \in SealedBlock /\ x.height = n.base + (n.at + 1)
    BY <1>2, <1>10, EntryTyped
<1>12. /\ Len(n.chain) \in Nat /\ To(h, n.epoch) \in Nat /\ Len(n.chain) <= To(h, n.epoch)
       /\ To(h, n.epoch) <= Len(h.ledger) /\ Len(h.ledger) \in Nat /\ n.base \in Nat /\ n.at \in Nat
       /\ TipOf(n.chain) \in Nat
    BY <1>2, NodeFacts, TipHeight DEF NodeOK
<1>13. x.height > base[v] /\ x.height > TipOf(chain[v]) /\ x.height \in Nat
    BY <1>3, <1>10, <1>11, <1>12
<1>. HIDE DEF x
<1>14. /\ K[k + 1] = x /\ (k < Len(L) => K = L)
       /\ k = Len(L) => Len(K) = Len(L) + 1 /\ SubSeq(K, 1, Len(L)) = L
    BY <1>4, <1>5, <1>7, <1>8, <1>11, ExcerptsGrow
<1>15. /\ k \in Nat /\ Len(L) \in Nat /\ k <= Len(L) /\ chain[v] \in Seq(SealedBlock)
       /\ \A i \in 1 .. k : chain[v][i] = L[i]
    BY <1>4 DEF Excerpts
<1>16. held' = [held EXCEPT ![v] = held[v] + 1] /\ held[v] = k
    <2>1. Len(chain'[v]) = Len(chain[v]) + 1
        BY <1>8, <1>11, <1>15
    <2>. QED
        BY <1>7, <2>1
<1>17. entered' = entered /\ entered[v].base = base[v]
    BY <1>6
<1>18. \A u \in Validator : entered[u].epoch = epoch[u]
    OBVIOUS
<1>. HIDE DEF held, entered
<1>19. CASE k < Len(L)
    <2>1. K = L /\ k + 1 # 0 /\ L[k + 1] = x
        BY <1>14, <1>15, <1>19
    <2>2. Agreed!Height(held[v] + 1) = x.height
        BY <1>16, <2>1 DEF Agreed!Height, L
    <2>3. UNCHANGED Ledger
        BY <2>1 DEF K, L
    <2>4. held[v] < Len(Ledger) /\ Agreed!Height(held[v] + 1) > entered[v].base
        BY <1>13, <1>16, <1>17, <1>19, <2>2 DEF L
    <2>5. Agreed!Follow(v)
        BY <1>16, <1>17, <2>3, <2>4 DEF Agreed!Follow, held, entered
    <2>. QED
        BY <2>5
<1>20. CASE k = Len(L)
    <2>1. epoch[v] = h.last
        <3>1. Len(n.chain) = To(h, n.epoch)
            BY <1>3, <1>4, <1>12, <1>20
        <3>. QED
            BY <1>3, <1>9, <3>1
    <2>2. \A u \in Validator : epoch[u] <= epoch[v]
        <3>1. ASSUME NEW u \in Validator PROVE epoch[u] <= h.last
            <4>1. NodeOK(h, log, Node(u)) /\ Node(u).epoch = epoch[u]
                BY NodeFields DEF Told
            <4>. QED
                BY <1>2, <4>1, NodeFacts
        <3>. QED
            BY <2>1, <3>1
    <2>3. Agreed!IsFrontier(v)
        BY <1>18, <2>2 DEF Agreed!IsFrontier, entered
    <2>4. Agreed!Height(Len(Ledger)) = TipOf(chain[v])
        <3>1. CASE k = 0
            <4>1. chain[v] = <<>>
                BY <1>15, <3>1, EmptySeq
            <4>. QED
                BY <1>20, <3>1, <4>1 DEF Agreed!Height, TipOf, L
        <3>2. CASE k # 0
            <4>1. chain[v] # <<>> /\ k \in 1 .. k
                BY <1>15, <3>2
            <4>2. chain[v][k] = L[k]
                BY <1>15, <4>1
            <4>. QED
                BY <1>20, <3>2, <4>1, <4>2 DEF Agreed!Height, TipOf, L
        <3>. QED
            BY <3>1, <3>2
    <2>5. Len(K) = Len(L) + 1 /\ SubSeq(K, 1, Len(L)) = L /\ K[Len(K)] = x
        BY <1>14, <1>20
    <2>6. K \in Seq([height : Nat, block : Block, root : Nat])
        BY <1>5 DEF Excerpts, SealedBlock
    <2>7. held[v] = Len(Ledger) /\ x.height > entered[v].base /\ x.height > Agreed!Height(Len(Ledger))
        BY <1>13, <1>16, <1>17, <1>20, <2>4 DEF L
    <2>8. Agreed!Extend(v)
        BY <1>16, <1>17, <2>3, <2>5, <2>6, <2>7 DEF Agreed!Extend, held, entered, K, L
    <2>. QED
        BY <2>8
<1>. QED
    BY <1>15, <1>19, <1>20

\* The block after an epoch's last lies above the next epoch's base.
LEMMA NextAbove ==
    ASSUME NEW h, NEW lg, Story(h, lg), NEW d \in 0 .. h.last, h.from[d] < Len(h.ledger)
    PROVE  h.ledger[h.from[d] + 1].height > h.base[d]
<1>. DEFINE a == h.from[d]
            z == To(h, d)
            N == Len(h.ledger)
            b == h.base[d]
<1>1. a \in Nat /\ z \in Nat /\ b \in Nat /\ N \in Nat /\ h.last \in Nat /\ a < N
    BY StoryNats
<1>2. a < z
    <2>1. CASE d < h.last
        <3>1. PICK i : First(h, d, i)
            BY <2>1 DEF Story, StoryCut
        <3>2. i \in a + 1 .. z
            BY <3>1 DEF First
        <3>. HIDE DEF a, z
        <3>. QED
            BY <1>1, <3>2
    <2>2. CASE ~ (d < h.last)
        BY <1>1, <2>2 DEF To
    <2>. QED
        BY <2>1, <2>2
<1>3. a + 1 \in a + 1 .. z /\ (a + 1) - a = 1
    <2>. HIDE DEF a, z
    <2>. QED
        BY <1>1, <1>2
<1>4. h.ledger[a + 1].height = b + ((a + 1) - a)
    BY <1>3 DEF Story, StoryLogged
<1>. HIDE DEF a, b
<1>5. h.ledger[a + 1].height > b
    BY <1>1, <1>3, <1>4
<1>. QED
    BY <1>5 DEF a, b

LEMMA CutoverRefines ==
    ASSUME Maps, NEW h, Told(h), NEW v \in Validator, Cutover(v, tiers[v])
    PROVE  Agreed!Next
<1>. DEFINE n == Node(v)
            k == Len(chain[v])
            L == Ledger
            nb == base[v] + pending[v]
            held == [u \in Validator |-> Len(chain[u])]
            entered == [u \in Validator |-> [epoch |-> epoch[u], base |-> base[u], members |-> current[u]]]
<1>1. Due(n) /\ Crosses(n, Node(v)')
    BY ActCutover
<1>2. Story(h, log) /\ NodeOK(h, log, n)
    BY DEF Told
<1>3. /\ n.chain = chain[v] /\ n.base = base[v] /\ n.pending = pending[v] /\ n.epoch = epoch[v]
      /\ n.tiers = tiers[v]
    BY DEF Node
<1>4. L = h.ledger /\ Excerpts(chain, L)
    BY ToldExcerpts, LedgerIs
<1>. HIDE DEF n, L
<1>5. /\ pending[v] # 0 /\ k = To(h, epoch[v]) /\ k + 1 = h.from[epoch[v]] + pending[v]
    BY <1>1, <1>2, <1>3, NodeDue
<1>6. /\ epoch[v] < h.last => nb = h.base[epoch[v] + 1]
    BY <1>2, <1>3, <1>5, NodeCeiling
<1>7. /\ epoch[v] \in 0 .. h.last /\ epoch[v] \in Nat /\ h.last \in Nat /\ epoch[v] <= h.last
      /\ k \in Nat /\ pending[v] \in Nat /\ base[v] \in Nat /\ Len(L) \in Nat /\ h.from[epoch[v]] \in Nat
      /\ h.from[epoch[v]] <= k
    BY <1>2, <1>3, <1>4, NodeFacts
<1>8. nb > TipOf(chain[v])
    <2>. DEFINE a == h.from[epoch[v]]
                y == TipOf(chain[v])
                b == base[v]
                p == pending[v]
    <2>1. y \in Nat /\ (k > a => y = b + (k - a)) /\ (k = a => y <= b)
        BY <1>2, <1>3, TipHeight DEF NodeOK
    <2>2. a \in Nat /\ k \in Nat /\ b \in Nat /\ p \in Nat /\ a <= k /\ p # 0 /\ k + 1 = a + p
        BY <1>5, <1>7
    <2>. HIDE DEF a, y, b, p, k
    <2>3. b + p > y
        BY <2>1, <2>2
    <2>. QED
        BY <2>3 DEF b, p, y
<1>9. Agreed!Height(k) = TipOf(chain[v])
    <2>1. chain[v] \in Seq(SealedBlock) /\ \A i \in 1 .. k : chain[v][i] = L[i]
        BY <1>4 DEF Excerpts
    <2>2. CASE k = 0
        <3>1. chain[v] = <<>>
            BY <2>1, <2>2, EmptySeq
        <3>. QED
            BY <2>2, <3>1 DEF Agreed!Height, TipOf
    <2>3. CASE k # 0
        <3>1. chain[v] # <<>> /\ k \in 1 .. k
            BY <1>7, <2>1, <2>3
        <3>2. chain[v][k] = L[k]
            BY <2>1, <3>1
        <3>. QED
            BY <2>3, <3>1, <3>2 DEF Agreed!Height, TipOf, L
    <2>. QED
        BY <2>2, <2>3
<1>10. epoch[v] = h.last => k = Len(L)
    BY <1>4, <1>5, <1>7 DEF To
<1>11. ASSUME Agreed!IsFrontier(v) PROVE k = Len(L)
    <2>1. PICK u \in Validator : epoch[u] = h.last
        BY DEF Told
    <2>2. epoch[u] <= epoch[v]
        BY <1>11 DEF Agreed!IsFrontier
    <2>. QED
        BY <1>7, <1>10, <2>1, <2>2
<1>12. ASSUME k < Len(L) PROVE Agreed!Height(k + 1) > nb
    <2>1. epoch[v] < h.last
        BY <1>7, <1>10, <1>12
    <2>. DEFINE d == epoch[v] + 1
    <2>2. d \in 0 .. h.last /\ k = h.from[d]
        BY <1>5, <1>7, <2>1 DEF To
    <2>. HIDE DEF d
    <2>3. h.from[d] < Len(h.ledger)
        BY <1>4, <1>12, <2>2
    <2>4. h.ledger[k + 1].height > h.base[d]
        BY <1>2, <2>2, <2>3, NextAbove
    <2>5. nb = h.base[d]
        BY <1>6, <2>1 DEF d
    <2>6. Agreed!Height(k + 1) = L[k + 1].height
        BY <1>7 DEF Agreed!Height, L
    <2>. QED
        BY <1>4, <2>4, <2>5, <2>6
<1>13. ASSUME NEW u \in Validator, epoch[u] = epoch[v] + 1
       PROVE  base[u] = nb /\ current[u] = tiers[v]
    <2>. DEFINE w == Node(u)
    <2>1. NodeOK(h, log, w) /\ w.epoch = epoch[u] /\ w.base = base[u] /\ w.current = current[u]
        BY NodeFields DEF Told
    <2>. HIDE DEF w
    <2>2. w.epoch \in 0 .. h.last /\ w.base = h.base[w.epoch] /\ w.current = h.tiers[h.from[w.epoch]]
        BY <2>1 DEF NodeOK, NodePlace
    <2>3. epoch[v] < h.last
        BY <1>7, <1>13, <2>1, <2>2
    <2>4. base[u] = nb
        BY <1>6, <1>13, <2>1, <2>2, <2>3
    <2>5. k = h.from[epoch[v] + 1]
        BY <1>5, <2>3 DEF To
    <2>6. tiers[v] = h.tiers[k]
        BY <1>2, <1>3 DEF NodeOK, NodePlace
    <2>. QED
        BY <1>13, <2>1, <2>2, <2>4, <2>5, <2>6
<1>14. UNCHANGED chain
    BY DEF Cutover
<1>15. entered' = [entered EXCEPT ![v] = [epoch |-> epoch[v] + 1, base |-> nb, members |-> tiers[v]]]
    <2>1. epoch' = [epoch EXCEPT ![v] = epoch[v] + 1] /\ base' = [base EXCEPT ![v] = nb]
          /\ current' = [current EXCEPT ![v] = tiers[v]]
        BY DEF Cutover, CutoverBase, HeightOf
    <2>2. IsMap(epoch) /\ IsMap(base) /\ IsMap(current)
        BY DEF Maps
    <2>. HIDE DEF nb
    <2>3. WasSet(epoch, epoch', v, epoch[v] + 1) /\ WasSet(base, base', v, nb) /\ WasSet(current, current', v, tiers[v])
        BY <2>1, <2>2, MapSet DEF Sets
    <2>. QED
        BY <2>3 DEF WasSet
<1>16. held[v] = k /\ held' = held /\ Ledger' = Ledger
    BY <1>14 DEF Ledger
<1>17. \A u \in Validator : /\ entered[u].epoch = epoch[u] /\ entered[u].base = base[u]
                            /\ entered[u].members = current[u]
    OBVIOUS
<1>. HIDE DEF held, entered, nb, k
<1>18. /\ Agreed!IsFrontier(v) => held[v] = Len(Ledger)
       /\ nb > Agreed!Height(held[v])
       /\ held[v] < Len(Ledger) => Agreed!Height(held[v] + 1) > nb
    BY <1>8, <1>9, <1>11, <1>12, <1>16 DEF L
<1>19. \A u \in {w \in Validator : entered[w].epoch = entered[v].epoch + 1} :
          entered[u].base = nb /\ entered[u].members = tiers[v]
    BY <1>13, <1>17
<1>20. entered' = [entered EXCEPT ![v] = [epoch |-> entered[v].epoch + 1, base |-> nb, members |-> tiers[v]]]
    BY <1>15, <1>17
<1>21. entered'[v].base = nb /\ entered'[v].members = tiers[v]
    BY <1>15 DEF entered
<1>22. Agreed!Enter(v, entered'[v].base, entered'[v].members)
    BY <1>16, <1>18, <1>19, <1>20, <1>21 DEF Agreed!Enter, held, entered
<1>. QED
    BY <1>22 DEF Agreed!Next, Agreed!Enter, entered

LEMMA CutoverStepRefines ==
    ASSUME ReadFaults = {}, EveryMoveShows, Maps, NEW h, Told(h), [Next]_vars
    PROVE  [Agreed!Next]_(Agreed!vars)
<1>1. ASSUME UNCHANGED <<chain, epoch, base, current>> PROVE UNCHANGED Agreed!vars
    BY <1>1 DEF Agreed!vars, Ledger
<1>2. ASSUME NEW e \in Epoch, NEW b \in Block, Finalize(e, b) PROVE UNCHANGED Agreed!vars
    BY <1>1, <1>2 DEF Finalize, nodeVars
<1>3. ASSUME NEW v \in Validator, PassOver(v) \/ SkipObservation(v) \/ Checkpoint(v) \/ Restart(v)
      PROVE  UNCHANGED Agreed!vars
    BY <1>1, <1>3 DEF PassOver, SkipObservation, Checkpoint, Restart
<1>4. ASSUME NEW v \in Validator, Observe(v, tiers[v]) \/ Demote(v, tiers[v])
      PROVE  UNCHANGED Agreed!vars
    BY <1>1, <1>4 DEF Observe, Demote
<1>5. ASSUME NEW v \in Validator, Apply(v) PROVE Agreed!Next
    <2>1. PICK g : Told(g)'
        BY <1>5, ApplyTold
    <2>2. Agreed!Extend(v) \/ Agreed!Follow(v)
        BY <1>5, <2>1, ApplyRefines
    <2>. QED
        BY <2>2 DEF Agreed!Next
<1>6. ASSUME NEW v \in Validator, Cutover(v, tiers[v]) PROVE Agreed!Next
    BY <1>6, CutoverRefines
<1>7. \A v \in Validator : Observations(v) = {tiers[v]}
    BY DEF Observations
<1>8. CASE UNCHANGED vars
    BY <1>1, <1>8 DEF vars, nodeVars
<1>9. CASE Next
    BY <1>2, <1>3, <1>4, <1>5, <1>6, <1>7, <1>9 DEF Next
<1>. QED
    BY <1>8, <1>9

(***************************************************************************)
(* The validators implement one ledger and one sequence of epochs.         *)
(***************************************************************************)
THEOREM CutoverImplementsAgreedChain ==
    ASSUME ReadFaults = {}, EveryMoveShows
    PROVE  Spec => ImplementsAgreedChain
<1>1. Init => Agreed!Init
    <2>. SUFFICES ASSUME Init PROVE Agreed!Init
        OBVIOUS
    <2>1. \A v \in Validator : chain[v] = <<>>
        BY DEF Init
    <2>2. Ledger = <<>>
        <3>1. \E v \in Validator : \A u \in Validator : Len(chain[u]) <= Len(chain[v])
            BY <2>1, CutoverAssumption
        <3>. QED
            BY <2>1, <3>1 DEF Ledger
    <2>. QED
        BY <2>2 DEF Init, Agreed!Init
<1>2. CutoverInv /\ [Next]_vars => [Agreed!Next]_(Agreed!vars)
    <2>. SUFFICES ASSUME CutoverInv, [Next]_vars PROVE [Agreed!Next]_(Agreed!vars)
        OBVIOUS
    <2>1. PICK h : Told(h)
        BY DEF CutoverInv
    <2>2. Maps
        BY DEF CutoverInv
    <2>. QED
        BY <2>1, <2>2, CutoverStepRefines
<1>3. Spec => []CutoverInv
    BY CutoverInvariant
<1>. QED
    BY <1>1, <1>2, <1>3, PTL DEF Spec, ImplementsAgreedChain, Agreed!Spec

--------------------------------------------------------------------------------
(***************************************************************************)
(* No boundary without a reason                                            *)
(***************************************************************************)
\* In the story a boundary is armed by the block the story says.
THEOREM CutoverArmedByChange ==
    ASSUME ReadFaults = {}, EveryMoveShows
    PROVE  Spec => []ArmedByChange
<1>1. CutoverInv => ArmedByChange
    <2>. SUFFICES ASSUME CutoverInv, NEW v \in Validator, pending[v] # 0
                  PROVE  \E i \in DOMAIN chain[v] :
                            /\ chain[v][i].root # RootBefore(v, i)
                            /\ chain[v][i].height > base[v]
                            /\ chain[v][i].height + Delay <= HeightOf(v, pending[v])
        BY DEF ArmedByChange
    <2>1. PICK h : Told(h)
        BY DEF CutoverInv
    <2>. DEFINE n == Node(v)
                e == epoch[v]
                a == h.from[e]
                k == Len(chain[v])
                b == base[v]
                p == pending[v]
                z == To(h, e)
    <2>2. Story(h, log) /\ NodeOK(h, log, n)
        BY <2>1 DEF Told
    <2>3. n.chain = chain[v] /\ n.base = b /\ n.pending = p /\ n.epoch = e
        BY NodeFields
    <2>. HIDE DEF n
    <2>4. /\ a \in Nat /\ k \in Nat /\ b \in Nat /\ p \in Nat /\ Delay \in Nat /\ e \in 0 .. h.last
          /\ b = h.base[e] /\ z \in Nat /\ k <= z /\ chain[v] \in Seq(SealedBlock)
        BY <2>2, <2>3, NodeFacts
    <2>5. PICK i : First(h, e, i) /\ i <= k /\ a + p = i + Delay
        BY <2>2, <2>3, NodeCeiling DEF ArmedAt
    <2>6. i \in a + 1 .. z /\ Moved(h.ledger, i)
        BY <2>5 DEF First
    <2>7. i \in 1 .. k /\ i \in Nat /\ (i # 1 => i - 1 \in 1 .. k /\ i - 1 # 0) /\ i > a /\ i # 0
        <3>. HIDE DEF a, k, z
        <3>. QED
            BY <2>4, <2>5, <2>6
    <2>8. \A j \in 1 .. k : chain[v][j] = h.ledger[j]
        BY <2>2, <2>3 DEF NodeOK, NodePlace
    <2>9. chain[v][i].root # RootBefore(v, i)
        <3>1. chain[v][i].root = RootAt(h.ledger, i)
            BY <2>7, <2>8 DEF RootAt
        <3>2. RootBefore(v, i) = RootAt(h.ledger, i - 1)
            BY <2>7, <2>8 DEF RootAt, RootBefore
        <3>. QED
            BY <2>6, <3>1, <3>2 DEF Moved
    <2>10. chain[v][i].height = b + (i - a)
        <3>1. h.ledger[i].height = h.base[e] + (i - a)
            BY <2>2, <2>4, <2>6 DEF Story, StoryLogged
        <3>. QED
            BY <2>4, <2>7, <2>8, <3>1
    <2>11. HeightOf(v, pending[v]) = b + p
        BY DEF HeightOf
    <2>12. i \in DOMAIN chain[v]
        BY <2>4, <2>7
    <2>. DEFINE y == chain[v][i].height
    <2>13. y > b /\ y + Delay <= b + p
        <3>1. y = b + (i - a) /\ a + p = i + Delay
            BY <2>5, <2>10
        <3>. HIDE DEF y, a, b, p, k, z, e
        <3>. QED
            BY <2>4, <2>7, <3>1
    <2>. QED
        BY <2>9, <2>11, <2>12, <2>13
<1>2. Spec => []CutoverInv
    BY CutoverInvariant
<1>. QED
    BY <1>1, <1>2, PTL

\* Without crashes it needs no story, and holds with reads of the validator
\* tier that fail and with blocks whose operations cancel out.  ChangeSince
\* says where a membership that differs from the epoch's comes from.
LastRoot(v) == IF Len(chain[v]) = 0 THEN 0 ELSE chain[v][Len(chain[v])].root

ChangeBy(v, w) ==
    \E i \in 1 .. Len(chain[v]) :
        /\ chain[v][i].root # RootBefore(v, i)
        /\ chain[v][i].height > base[v]
        /\ chain[v][i].height <= base[v] + w

Accounted(v) ==
    /\ at[v] \in Nat /\ base[v] \in Nat /\ pending[v] \in Nat /\ root[v] \in Nat
    /\ tiers[v] \in Tiers /\ epoch[v] \in Epoch
    /\ chain[v] \in Seq(SealedBlock) /\ root[v] = LastRoot(v)
    /\ tiers[v] # current[v] => ChangeBy(v, at[v])
    /\ pending[v] # 0 => \E w \in Nat : ChangeBy(v, w) /\ w + Delay <= pending[v]

AccountedInv == Maps /\ \A v \in Validator : Accounted(v)

\* The parts of the state ChangeBy reads.
LEMMA ChangeKept ==
    ASSUME NEW v, NEW w \in Nat, NEW x \in Nat, w <= x, ChangeBy(v, w),
           base[v] \in Nat, chain[v] \in Seq(SealedBlock)
    PROVE  ChangeBy(v, x)
<1>1. PICK i \in 1 .. Len(chain[v]) : /\ chain[v][i].root # RootBefore(v, i)
                                      /\ chain[v][i].height > base[v]
                                      /\ chain[v][i].height <= base[v] + w
    BY DEF ChangeBy
<1>2. chain[v][i] \in SealedBlock
    OBVIOUS
<1>3. chain[v][i].height \in Nat
    BY <1>2 DEF SealedBlock
<1>4. chain[v][i].height <= base[v] + x
    BY <1>1, <1>3
<1>. QED
    BY <1>1, <1>4 DEF ChangeBy

LEMMA AccountedSame ==
    ASSUME NEW v, UNCHANGED <<at[v], base[v], pending[v], root[v], tiers[v], epoch[v], chain[v], current[v]>>,
           Accounted(v)
    PROVE  Accounted(v)'
BY DEF Accounted, ChangeBy, LastRoot, RootBefore

LEMMA AccountedOthers ==
    ASSUME NEW v \in Validator, Alone(v), \A u \in Validator : Accounted(u)
    PROVE  \A u \in Validator : u # v => Accounted(u)'
<1>1. ASSUME NEW u \in Validator, u # v PROVE Accounted(u)'
    <2>1. Node(u)' = Node(u)
        BY <1>1 DEF Alone
    <2>2. UNCHANGED <<at[u], base[u], pending[u], root[u], tiers[u], epoch[u], chain[u], current[u]>>
        BY <2>1 DEF Node
    <2>. QED
        BY <2>2, AccountedSame
<1>. QED
    BY <1>1

LEMMA AccountedPassOver ==
    ASSUME Maps, NEW v \in Validator, Accounted(v), PassOver(v)
    PROVE  Accounted(v)'
<1>1. at'[v] = at[v] + 1
    BY ActPassOver DEF PassesOver, Node
<1>2. UNCHANGED <<tiers, root, chain, epoch, base, current, pending>>
    BY DEF PassOver
<1>3. at[v] \in Nat /\ at[v] + 1 \in Nat /\ at[v] <= at[v] + 1
    BY DEF Accounted
<1>4. tiers[v] # current[v] => ChangeBy(v, at[v] + 1)
    BY <1>3, ChangeKept DEF Accounted
<1>. QED
    BY <1>1, <1>2, <1>3, <1>4 DEF Accounted, ChangeBy, RootBefore, LastRoot

LEMMA AccountedApply ==
    ASSUME Maps, NEW v \in Validator, Accounted(v), Apply(v)
    PROVE  Accounted(v)'
<1>. DEFINE n == Node(v)
            x == EntryOf(n, log)
            bl == log[epoch[v]][at[v] + 1]
            e == ApplyOps(tiers[v], bl)
<1>1. Runs(n, log) /\ Seals(n, Node(v)', x, LeftBy(n, log))
    BY ActApply DEF Accounted
<1>2. /\ at[v] \in Nat /\ base[v] \in Nat /\ pending[v] \in Nat /\ root[v] \in Nat
      /\ tiers[v] \in Tiers /\ epoch[v] \in Epoch /\ chain[v] \in Seq(SealedBlock)
      /\ root[v] = LastRoot(v)
    BY DEF Accounted
<1>0. PICK k \in Nat : k = Len(chain[v])
    BY <1>2
<1>3. /\ chain'[v] = Append(chain[v], x) /\ at'[v] = at[v] + 1 /\ root'[v] = x.root
      /\ tiers'[v] = LeftBy(n, log)
    BY <1>1 DEF Seals, Node
<1>4. epoch' = epoch /\ base' = base /\ current' = current /\ pending' = pending
    BY DEF Apply
<1>5. at[v] < Len(log[epoch[v]])
    BY <1>1 DEF Runs, Node
<1>6. bl \in Block
    <2>1. log[epoch[v]] \in Seq(Block)
        BY <1>2 DEF Maps
    <2>2. at[v] + 1 \in 1 .. Len(log[epoch[v]])
        BY <1>2, <1>5, <2>1
    <2>. QED
        BY <2>1, <2>2
<1>7. e.tiers \in Tiers /\ (e.staged = {} => e.tiers = tiers[v])
    BY <1>2, <1>6, OpsSound, CutoverAssumption
<1>8. /\ x.height = base[v] + (at[v] + 1) /\ x.block = bl
      /\ x.root = (IF e.staged # {} THEN root[v] + 1 ELSE root[v])
      /\ LeftBy(n, log) = e.tiers /\ x = [height |-> x.height, block |-> x.block, root |-> x.root]
    BY DEF EntryOf, LeftBy, Node
<1>. HIDE DEF n, x, bl, e
<1>9. x \in SealedBlock
    BY <1>2, <1>6, <1>8 DEF SealedBlock
<1>10. /\ chain'[v] \in Seq(SealedBlock) /\ Len(chain'[v]) = k + 1 /\ k \in Nat
       /\ chain'[v][k + 1] = x /\ \A i \in 1 .. k : chain'[v][i] = chain[v][i]
    BY <1>0, <1>2, <1>3, <1>9
<1>11. /\ \A i \in 1 .. k : RootBefore(v, i)' = RootBefore(v, i) /\ i \in 1 .. k + 1
       /\ RootBefore(v, k + 1)' = root[v] /\ k + 1 \in 1 .. k + 1
    <2>1. \A i \in 1 .. k : i \in 1 .. k + 1 /\ (i # 1 => i - 1 \in 1 .. k)
        BY <1>10
    <2>2. \A i \in 1 .. k : RootBefore(v, i)' = RootBefore(v, i)
        BY <1>10, <2>1 DEF RootBefore
    <2>3. k + 1 \in 1 .. k + 1 /\ (k + 1 # 1 => k # 0 /\ k \in 1 .. k /\ (k + 1) - 1 = k) /\ (k + 1 = 1 => k = 0)
        BY <1>10
    <2>4. RootBefore(v, k + 1)' = root[v]
        BY <1>0, <1>2, <1>10, <2>3 DEF RootBefore, LastRoot
    <2>. QED
        BY <2>1, <2>2, <2>3, <2>4
<1>12. ASSUME NEW w \in Nat, NEW y \in Nat, w <= y, ChangeBy(v, w)
       PROVE  \E i \in 1 .. k + 1 : /\ chain'[v][i].root # RootBefore(v, i)'
                                    /\ chain'[v][i].height > base[v]
                                    /\ chain'[v][i].height <= base[v] + y
    <2>1. ChangeBy(v, y)
        BY <1>2, <1>12, ChangeKept
    <2>2. PICK i \in 1 .. k : /\ chain[v][i].root # RootBefore(v, i)
                              /\ chain[v][i].height > base[v]
                              /\ chain[v][i].height <= base[v] + y
        BY <1>0, <2>1 DEF ChangeBy
    <2>. QED
        BY <1>10, <1>11, <2>2
<1>13. ASSUME tiers'[v] # current'[v]
       PROVE  \E i \in 1 .. k + 1 : /\ chain'[v][i].root # RootBefore(v, i)'
                                    /\ chain'[v][i].height > base[v]
                                    /\ chain'[v][i].height <= base[v] + (at[v] + 1)
    <2>1. CASE e.staged # {}
        <3>1. x.root # root[v] /\ x.height > base[v] /\ x.height <= base[v] + (at[v] + 1)
            BY <1>2, <1>8, <2>1
        <3>. QED
            BY <1>10, <1>11, <3>1
    <2>2. CASE e.staged = {}
        <3>1. tiers[v] # current[v]
            BY <1>3, <1>4, <1>7, <1>8, <1>13, <2>2
        <3>2. ChangeBy(v, at[v]) /\ at[v] + 1 \in Nat /\ at[v] <= at[v] + 1
            BY <1>2, <3>1 DEF Accounted
        <3>. QED
            BY <1>2, <1>12, <3>2
    <2>. QED
        BY <2>1, <2>2
<1>14. ChangeBy(v, at[v])' \/ tiers'[v] = current'[v]
    BY <1>3, <1>4, <1>10, <1>13 DEF ChangeBy
<1>15. pending'[v] # 0 => \E w \in Nat : ChangeBy(v, w)' /\ w + Delay <= pending'[v]
    <2>. SUFFICES ASSUME pending[v] # 0 PROVE \E w \in Nat : ChangeBy(v, w)' /\ w + Delay <= pending[v]
        BY <1>4
    <2>1. PICK w \in Nat : ChangeBy(v, w) /\ w + Delay <= pending[v]
        BY DEF Accounted
    <2>2. \E i \in 1 .. k + 1 : /\ chain'[v][i].root # RootBefore(v, i)'
                                /\ chain'[v][i].height > base[v]
                                /\ chain'[v][i].height <= base[v] + w
        <3>1. w <= w
            OBVIOUS
        <3>. QED
            BY <1>12, <2>1, <3>1
    <2>3. ChangeBy(v, w)'
        BY <1>4, <1>10, <2>2 DEF ChangeBy
    <2>. QED
        BY <2>1, <2>3
<1>16. root'[v] = LastRoot(v)' /\ root'[v] \in Nat
    <2>1. k + 1 # 0
        BY <1>10
    <2>2. x.root \in Nat
        BY <1>9 DEF SealedBlock
    <2>. QED
        BY <1>3, <1>10, <2>1, <2>2 DEF LastRoot
<1>17. at'[v] \in Nat /\ tiers'[v] \in Tiers
    BY <1>2, <1>3, <1>7, <1>8
<1>. QED
    BY <1>2, <1>4, <1>10, <1>14, <1>15, <1>16, <1>17 DEF Accounted

LEMMA AccountedObserve ==
    ASSUME Maps, NEW v \in Validator, Accounted(v), Observe(v, tiers[v])
    PROVE  Accounted(v)'
<1>1. pending'[v] = ArmedOf(Node(v))
    BY ActObserve DEF Observes, Node
<1>2. UNCHANGED <<at, tiers, root, chain, epoch, base, current>>
    BY DEF Observe
<1>3. at[v] \in Nat /\ pending[v] \in Nat /\ Delay \in Nat
    BY CutoverAssumption DEF Accounted
<1>4. ArmedOf(Node(v)) = IF pending[v] # 0 THEN pending[v] ELSE IF tiers[v] # current[v] THEN at[v] + Delay ELSE 0
    BY DEF ArmedOf, Node
<1>5. /\ pending'[v] \in Nat
      /\ pending'[v] # 0 => \E w \in Nat : ChangeBy(v, w) /\ w + Delay <= pending'[v]
    <2>1. CASE pending[v] # 0
        BY <1>1, <1>3, <1>4, <2>1 DEF Accounted
    <2>2. CASE pending[v] = 0 /\ tiers[v] # current[v]
        <3>1. ChangeBy(v, at[v]) /\ pending'[v] = at[v] + Delay
            BY <1>1, <1>4, <2>2 DEF Accounted
        <3>. QED
            BY <1>3, <3>1
    <2>3. CASE pending[v] = 0 /\ tiers[v] = current[v]
        BY <1>1, <1>4, <2>3
    <2>. QED
        BY <2>1, <2>2, <2>3
<1>6. \A w : ChangeBy(v, w)' <=> ChangeBy(v, w)
    BY <1>2 DEF ChangeBy, RootBefore
<1>7. ChangeBy(v, at[v])' <=> ChangeBy(v, at[v])
    BY <1>2 DEF ChangeBy, RootBefore
<1>. QED
    BY <1>2, <1>5, <1>6, <1>7 DEF Accounted, LastRoot

LEMMA AccountedCutover ==
    ASSUME Maps, NEW v \in Validator, Accounted(v), Cutover(v, tiers[v])
    PROVE  Accounted(v)'
<1>1. epoch'[v] = epoch[v] + 1 /\ base'[v] = base[v] + pending[v] /\ current'[v] = tiers[v]
      /\ pending'[v] = 0 /\ at'[v] = 0 /\ epoch[v] < MaxEpoch
    BY ActCutover DEF Crosses, Node
<1>2. UNCHANGED <<tiers, root, chain>>
    BY DEF Cutover
<1>3. epoch[v] + 1 \in Epoch /\ base[v] + pending[v] \in Nat
    <2>1. epoch[v] \in 0 .. MaxEpoch /\ base[v] \in Nat /\ pending[v] \in Nat
        BY DEF Accounted, Epoch
    <2>2. MaxEpoch \in Nat
        BY CutoverAssumption
    <2>. QED
        BY <1>1, <2>1, <2>2 DEF Epoch
<1>. QED
    BY <1>1, <1>2, <1>3 DEF Accounted, LastRoot

(***************************************************************************)
(* Failed reads of the validator tier arm nothing that no change asked for.*)
(***************************************************************************)
THEOREM CutoverArmedDespiteFaults ==
    ASSUME "residents" \notin ReadFaults, Crashes = 0
    PROVE  Spec => []ArmedByChange
<1>1. Init => AccountedInv
    <2>. SUFFICES ASSUME Init PROVE AccountedInv
        OBVIOUS
    <2>1. Maps
        BY CutoverInit DEF CutoverInv
    <2>2. ASSUME NEW v \in Validator PROVE Accounted(v)
        <3>1. /\ at[v] = 0 /\ base[v] = 0 /\ pending[v] = 0 /\ root[v] = 0 /\ tiers[v] = Genesis
              /\ epoch[v] = 0 /\ chain[v] = <<>> /\ current[v] = Genesis
            BY DEF Init
        <3>2. Genesis \in Tiers /\ 0 \in Epoch
            BY CutoverAssumption DEF Epoch
        <3>. QED
            BY <3>1, <3>2 DEF Accounted, LastRoot
    <2>. QED
        BY <2>1, <2>2 DEF AccountedInv
<1>2. AccountedInv /\ [Next]_vars => AccountedInv'
    <2>. SUFFICES ASSUME AccountedInv, [Next]_vars PROVE AccountedInv'
        OBVIOUS
    <2>0. Maps /\ \A v \in Validator : Accounted(v)
        BY DEF AccountedInv
    <2>1. ASSUME NEW v \in Validator, Maps', Alone(v), Accounted(v)' PROVE AccountedInv'
        <3>1. \A u \in Validator : u # v => Accounted(u)'
            BY <2>0, <2>1, AccountedOthers
        <3>. QED
            BY <2>1, <3>1 DEF AccountedInv
    <2>2. CASE UNCHANGED vars
        <3>1. Maps'
            BY <2>0, <2>2 DEF Maps, vars, nodeVars
        <3>2. \A v \in Validator : Accounted(v)'
            BY <2>0, <2>2, AccountedSame DEF vars, nodeVars
        <3>. QED
            BY <3>1, <3>2 DEF AccountedInv
    <2>3. ASSUME NEW e \in Epoch, NEW b \in Block, Finalize(e, b) PROVE AccountedInv'
        <3>1. UNCHANGED <<nodeVars, crashes>> /\ log' = [log EXCEPT ![e] = Append(log[e], b)]
            BY <2>3 DEF Finalize
        <3>2. log' \in [Epoch -> Seq(Block)]
            BY <2>0, <3>1 DEF Maps
        <3>3. Maps'
            BY <2>0, <3>1, <3>2 DEF Maps, nodeVars
        <3>4. \A v \in Validator : Accounted(v)'
            BY <2>0, <3>1, AccountedSame DEF nodeVars
        <3>. QED
            BY <3>3, <3>4 DEF AccountedInv
    <2>4. ASSUME NEW v \in Validator, PassOver(v) PROVE AccountedInv'
        BY <2>0, <2>1, <2>4, ActPassOver, AccountedPassOver
    <2>5. ASSUME NEW v \in Validator, Apply(v) PROVE AccountedInv'
        <3>1. root[v] \in Nat
            BY <2>0 DEF Accounted
        <3>. QED
            BY <2>0, <2>1, <2>5, <3>1, ActApply, AccountedApply
    <2>6. ASSUME NEW v \in Validator, SkipObservation(v) PROVE AccountedInv'
        <3>1. UNCHANGED <<log, at, tiers, root, chain, epoch, base, current, pending, manifest, crashes>>
            BY <2>6 DEF SkipObservation
        <3>2. WasSet(turn, turn', v, "idle")
            <4>1. Sets(turn, turn', v, "idle")
                BY <2>6 DEF SkipObservation, Sets
            <4>. QED
                BY <2>0, <4>1, MapSet DEF Maps
        <3>3. Maps' /\ Alone(v)
            BY <2>0, <3>1, <3>2 DEF Maps, Alone, Node, WasSet
        <3>4. Accounted(v)'
            BY <2>0, <3>1, AccountedSame
        <3>. QED
            BY <2>1, <3>3, <3>4
    <2>7. ASSUME NEW v \in Validator, Observe(v, tiers[v]) PROVE AccountedInv'
        BY <2>0, <2>1, <2>7, ActObserve, AccountedObserve
    <2>8. ASSUME NEW v \in Validator, Cutover(v, tiers[v]) PROVE AccountedInv'
        BY <2>0, <2>1, <2>8, ActCutover, AccountedCutover
    <2>9. ASSUME NEW v \in Validator, Demote(v, tiers[v]) PROVE AccountedInv'
        <3>1. Maps' /\ Alone(v)
            BY <2>0, <2>9, ActDemote
        <3>2. Accounted(v)'
            BY <2>0, <2>9, AccountedSame DEF Demote
        <3>. QED
            BY <2>1, <3>1, <3>2
    <2>10. ASSUME NEW v \in Validator, Checkpoint(v) PROVE AccountedInv'
        <3>1. Maps' /\ Alone(v)
            BY <2>0, <2>10, ActCheckpoint
        <3>2. Accounted(v)'
            BY <2>0, <2>10, AccountedSame DEF Checkpoint
        <3>. QED
            BY <2>1, <3>1, <3>2
    <2>11. ASSUME NEW v \in Validator, Restart(v) PROVE FALSE
        BY <2>0, <2>11 DEF Restart, Maps
    <2>12. \A v \in Validator : Observations(v) = {tiers[v]}
        BY DEF Observations
    <2>13. CASE Next
        BY <2>3, <2>4, <2>5, <2>6, <2>7, <2>8, <2>9, <2>10, <2>11, <2>12, <2>13 DEF Next
    <2>. QED
        BY <2>2, <2>13
<1>3. AccountedInv => ArmedByChange
    <2>. SUFFICES ASSUME AccountedInv, NEW v \in Validator, pending[v] # 0
                  PROVE  \E i \in DOMAIN chain[v] :
                            /\ chain[v][i].root # RootBefore(v, i)
                            /\ chain[v][i].height > base[v]
                            /\ chain[v][i].height + Delay <= HeightOf(v, pending[v])
        BY DEF ArmedByChange
    <2>1. Accounted(v)
        BY DEF AccountedInv
    <2>2. PICK w \in Nat : ChangeBy(v, w) /\ w + Delay <= pending[v]
        BY <2>1 DEF Accounted
    <2>3. PICK i \in 1 .. Len(chain[v]) : /\ chain[v][i].root # RootBefore(v, i)
                                          /\ chain[v][i].height > base[v]
                                          /\ chain[v][i].height <= base[v] + w
        BY <2>2 DEF ChangeBy
    <2>4. chain[v] \in Seq(SealedBlock) /\ base[v] \in Nat /\ pending[v] \in Nat /\ Delay \in Nat
        BY <2>1, CutoverAssumption DEF Accounted
    <2>5. i \in DOMAIN chain[v] /\ chain[v][i] \in SealedBlock
        BY <2>4
    <2>6. chain[v][i].height \in Nat
        BY <2>5 DEF SealedBlock
    <2>7. chain[v][i].height + Delay <= base[v] + pending[v]
        <3>. DEFINE y == chain[v][i].height
                    b == base[v]
                    p == pending[v]
        <3>1. y \in Nat /\ b \in Nat /\ p \in Nat /\ Delay \in Nat /\ y <= b + w /\ w + Delay <= p
            BY <2>2, <2>3, <2>4, <2>6
        <3>. HIDE DEF y, b, p
        <3>2. y + Delay <= b + p
            BY <3>1
        <3>. QED
            BY <3>2 DEF y, b, p
    <2>. QED
        BY <2>3, <2>5, <2>7 DEF HeightOf
<1>. QED
    BY <1>1, <1>2, <1>3, PTL DEF Spec

--------------------------------------------------------------------------------
(***************************************************************************)
(* Blocks of at most one membership operation always show.                 *)
(***************************************************************************)
THEOREM SingleOperationsShow ==
    ASSUME \A b \in Block : Len(b) <= 1
    PROVE  EveryMoveShows
<1>. SUFFICES ASSUME NEW t \in Tiers, NEW b \in Block, ApplyOps(t, b).staged # {}
              PROVE  ApplyOps(t, b).tiers # t
    BY DEF EveryMoveShows
<1>. DEFINE f == CHOOSE g : Applies(g, t, b, Len(b))
<1>1. b \in Seq(Op) /\ Len(b) \in Nat
    BY CutoverAssumption
<1>2. ApplyOps(t, b) = f[Len(b)]
    BY DEF ApplyOps, Applies
<1>3. Applies(f, t, b, Len(b))
    BY <1>1, AppliesExists
<1>. HIDE DEF f
<1>4. f[0] = [tiers |-> t, staged |-> {}]
    <2>1. 0 \in 0 .. Len(b)
        BY <1>1
    <2>. QED
        BY <1>3, <2>1 DEF Applies
<1>5. Len(b) = 1
    <2>1. Len(b) # 0
        BY <1>2, <1>4
    <2>. DEFINE l == Len(b)
    <2>2. l \in Nat /\ l # 0 /\ l <= 1
        BY <1>1, <2>1
    <2>. HIDE DEF l
    <2>3. l = 1
        BY <2>2
    <2>. QED
        BY <2>3 DEF l
<1>. DEFINE e == Effect(t, b[1])
<1>6. f[1] = [tiers |-> e.tiers, staged |-> {} \cup e.staged]
    <2>1. f[1] = ThenOp(f[0], b[1])
        BY <1>3, <1>5 DEF Applies
    <2>. QED
        BY <1>4, <2>1 DEF ThenOp
<1>7. e.staged # {} /\ ApplyOps(t, b).tiers = e.tiers
    <2>. HIDE DEF e
    <2>. QED
        BY <1>2, <1>5, <1>6
<1>8. b[1] \in Op
    BY <1>1, <1>5
<1>9. e.tiers # t
    <2>. DEFINE o == b[1]
                k == o.key
    <2>1. o.op \in {"join", "leave", "grant", "revoke"}
        BY <1>8 DEF Op
    <2>2. t = [validators |-> t.validators, residents |-> t.residents]
        BY DEF Tiers
    <2>. HIDE DEF o
    <2>3. CASE o.op = "join"
        <3>1. e = HandleJoin(t, k)
            BY <2>3 DEF Effect, o
        <3>. HIDE DEF e, k
        <3>2. CASE k \in t.validators
            <4>1. k \in t.residents /\ e.tiers = [t EXCEPT !.residents = @ \ {k}]
                BY <1>7, <3>1, <3>2 DEF HandleJoin, Rejected
            <4>2. e.tiers.residents = t.residents \ {k}
                BY <2>2, <4>1
            <4>. QED
                BY <4>1, <4>2
        <3>3. CASE k \notin t.validators
            <4>1. k \in e.tiers.validators
                BY <1>7, <2>2, <3>1, <3>3 DEF HandleJoin, Rejected
            <4>. QED
                BY <3>3, <4>1
        <3>. QED
            BY <3>2, <3>3
    <2>4. CASE o.op = "leave"
        <3>1. e = HandleLeave(t, k)
            BY <2>4 DEF Effect, o
        <3>. HIDE DEF e, k
        <3>2. k \in t.validators /\ e.tiers = [t EXCEPT !.validators = @ \ {k}]
            BY <1>7, <3>1 DEF HandleLeave, Rejected, NoOp
        <3>3. e.tiers.validators = t.validators \ {k}
            BY <2>2, <3>2
        <3>. QED
            BY <3>2, <3>3
    <2>5. CASE o.op = "grant"
        <3>1. e = HandleGrant(t, k)
            BY <2>5 DEF Effect, o
        <3>. HIDE DEF e, k
        <3>2. k \notin t.residents /\ e.tiers = [t EXCEPT !.residents = @ \cup {k}]
            BY <1>7, <3>1 DEF HandleGrant, Rejected, NoOp
        <3>3. e.tiers.residents = t.residents \cup {k}
            BY <2>2, <3>2
        <3>. QED
            BY <3>2, <3>3
    <2>6. CASE o.op = "revoke"
        <3>1. e = HandleRevoke(t, k)
            BY <2>6 DEF Effect, o
        <3>. HIDE DEF e, k
        <3>2. k \in t.residents /\ e.tiers = [t EXCEPT !.residents = @ \ {k}]
            BY <1>7, <3>1 DEF HandleRevoke, Rejected, NoOp
        <3>3. e.tiers.residents = t.residents \ {k}
            BY <2>2, <3>2
        <3>. QED
            BY <3>2, <3>3
    <2>. QED
        BY <2>1, <2>3, <2>4, <2>5, <2>6
<1>. QED
    BY <1>7, <1>9
================================================================================
