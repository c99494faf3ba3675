----------------------------- MODULE RecoveryProofs ----------------------------
(***************************************************************************)
(* Proofs about Recovery, for any modules, batches, window depth and       *)
(* bounds: what recover_with_sink (crates/kernel/recovery/src/lib.rs)      *)
(* rebuilds is what a validator that never crashed would hold.             *)
(*                                                                         *)
(* The retained journal is a path: after each record stands a position,    *)
(* the last height sealed and how far the next block got.  The invariant   *)
(* says that such a path exists, that the manifest stands at one of its    *)
(* block boundaries, and that wherever a crash may cut the journal the     *)
(* durable modules match the cut.  Replaying the journal then follows the  *)
(* path, and a boot continues, or refuses for a named cause, by the        *)
(* position at its end.                                                    *)
(***************************************************************************)
EXTENDS Recovery, FiniteSetTheorems, SequenceTheorems, TLAPS

--------------------------------------------------------------------------------
(***************************************************************************)
(* Numbers: induction by least counterexample                              *)
(***************************************************************************)
LEMMA LeastNat ==
    ASSUME NEW n \in Nat, NEW C, C \subseteq 0 .. n, C # {}
    PROVE  \E m \in C : \A q \in C : m <= q
<1>. DEFINE below(r) == {q \in C : q < r}
            B == {below(r) : r \in C}
<1>1. IsFiniteSet(C)
    <2>1. IsFiniteSet(0 .. n)
        BY FS_Interval
    <2>. QED
        BY <2>1, FS_Subset
<1>2. PICK T \in B : \A U \in B : ~ (<<U, T>> \in StrictSubsetOrdering(C))
    <2>1. IsWellFoundedOn(StrictSubsetOrdering(C), FiniteSubsetsOf(C))
        BY FS_StrictSubsetOrderingWellFounded
    <2>2. FiniteSubsetsOf(C) = SUBSET C
        BY <1>1, FS_FiniteSubsetsOfFinite
    <2>3. B \subseteq SUBSET C
        OBVIOUS
    <2>4. B # {}
        OBVIOUS
    <2>. HIDE DEF B
    <2>5. \E T \in B : \A U \in B : ~ (<<U, T>> \in StrictSubsetOrdering(C))
        BY <2>1, <2>2, <2>3, <2>4, WFMin, ZenonT(40)
    <2>. QED
        BY <2>5
<1>3. PICK r \in C : T = below(r)
    OBVIOUS
<1>4. ASSUME NEW q \in C, q < r PROVE FALSE
    <2>0. \A x \in C : x \in Nat
        OBVIOUS
    <2>1. below(q) \subseteq below(r) /\ q \in below(r) /\ q \notin below(q)
        <3>1. q \in Nat /\ r \in Nat /\ q < r
            BY <1>4, <2>0
        <3>2. \A x \in C : x < q => x < r
            BY <2>0, <3>1
        <3>3. ~ (q < q)
            BY <3>1
        <3>. QED
            BY <3>1, <3>2, <3>3
    <2>2. below(q) \in B /\ below(q) \subseteq C /\ below(r) \subseteq C
        OBVIOUS
    <2>. HIDE DEF below, B
    <2>. QED
        BY <1>2, <1>3, <2>1, <2>2 DEF StrictSubsetOrdering
<1>. QED
    BY <1>4

--------------------------------------------------------------------------------
(***************************************************************************)
(* The agreed state                                                        *)
(***************************************************************************)
\* The recursion of StatesOf, cut at n.
NextState(log, m, s, h) == IF RunsAt(log, h, m) THEN Append(s, h) ELSE s

Unfolds(g, log, m, n) ==
    g = [h \in 0 .. n |-> IF h = 0 THEN <<>> ELSE NextState(log, m, g[h - 1], h)]

\* The recursion of StatesOf, cut at n, has a solution.
LEMMA UnfoldsExists ==
    ASSUME NEW log, NEW m, NEW n \in Nat
    PROVE  \E g : Unfolds(g, log, m, n)
<1>. DEFINE C == {k \in 0 .. n : ~ \E g : Unfolds(g, log, m, k)}
<1>1. ASSUME C # {} PROVE FALSE
    <2>1. PICK k \in C : \A q \in C : k <= q
        <3>1. C \subseteq 0 .. n
            OBVIOUS
        <3>. HIDE DEF C
        <3>. QED
            BY <1>1, <3>1, LeastNat
    <2>2. k \in 0 .. n /\ ~ \E g : Unfolds(g, log, m, k)
        OBVIOUS
    <2>3. CASE k = 0
        <3>1. Unfolds([h \in 0 .. 0 |-> <<>>], log, m, 0)
            BY DEF Unfolds
        <3>. QED
            BY <2>2, <2>3, <3>1
    <2>4. CASE k # 0
        <3>1. k - 1 \in 0 .. n /\ ~ (k <= k - 1) /\ k \in Nat
            BY <2>2, <2>4
        <3>2. k - 1 \notin C
            BY <2>1, <3>1
        <3>3. PICK g : Unfolds(g, log, m, k - 1)
            BY <3>1, <3>2
        <3>. DEFINE f == [h \in 0 .. k |-> IF h = k THEN NextState(log, m, g[k - 1], k) ELSE g[h]]
        <3>4. ASSUME NEW h \in 0 .. k
              PROVE  f[h] = IF h = 0 THEN <<>> ELSE NextState(log, m, f[h - 1], h)
            <4>1. CASE h = k
                <5>1. k - 1 \in 0 .. k /\ k - 1 # k
                    BY <3>1
                <5>2. f[k - 1] = g[k - 1]
                    BY <5>1
                <5>. QED
                    BY <2>4, <4>1, <5>2
            <4>2. CASE h # k
                <5>1. h \in 0 .. k - 1 /\ (h # 0 => h - 1 \in 0 .. k /\ h - 1 # k)
                    BY <3>1, <4>2
                <5>2. g[h] = IF h = 0 THEN <<>> ELSE NextState(log, m, g[h - 1], h)
                    BY <3>3, <5>1 DEF Unfolds
                <5>3. h # 0 => f[h - 1] = g[h - 1]
                    BY <5>1
                <5>. QED
                    BY <4>2, <5>2, <5>3
            <4>. QED
                BY <4>1, <4>2
        <3>5. f = [h \in 0 .. k |-> f[h]]
            OBVIOUS
        <3>. HIDE DEF f
        <3>6. Unfolds(f, log, m, k)
            BY <3>4, <3>5 DEF Unfolds
        <3>. QED
            BY <2>2, <3>6
    <2>. QED
        BY <2>3, <2>4
<1>. QED
    BY <1>1

\* So StatesOf unfolds.
LEMMA StatesUnfold ==
    ASSUME NEW log, NEW m, Len(log) \in Nat
    PROVE  /\ StatesOf(log, m)[0] = <<>>
           /\ \A h \in 1 .. Len(log) :
                 StatesOf(log, m)[h] =
                     IF RunsAt(log, h, m) THEN Append(StatesOf(log, m)[h - 1], h)
                     ELSE StatesOf(log, m)[h - 1]
<1>. DEFINE n == Len(log)
            f == CHOOSE g : Unfolds(g, log, m, n)
<1>1. StatesOf(log, m) = f
    BY DEF StatesOf, Unfolds, NextState
<1>2. Unfolds(f, log, m, n)
    BY UnfoldsExists
<1>. HIDE DEF f
<1>3. \A h \in 0 .. n : f[h] = IF h = 0 THEN <<>>
                               ELSE IF RunsAt(log, h, m) THEN Append(f[h - 1], h)
                               ELSE f[h - 1]
    BY <1>2, Zenon DEF Unfolds, NextState
<1>4. 0 \in 0 .. n /\ \A h \in 1 .. n : h \in 0 .. n /\ h # 0
    OBVIOUS
<1>. QED
    BY <1>1, <1>3, <1>4

\* The state holds heights up to its own, and grows with every block that runs.
StateFacts(log, m, k) ==
    /\ StatesOf(log, m)[k] \in Seq(1 .. k)
    /\ \A h \in 0 .. k :
          /\ Len(StatesOf(log, m)[h]) <= Len(StatesOf(log, m)[k])
          /\ Len(StatesOf(log, m)[h]) = Len(StatesOf(log, m)[k])
                => StatesOf(log, m)[h] = StatesOf(log, m)[k]

\* The states of a module only grow.
LEMMA StateIs ==
    ASSUME NEW log, NEW m, Len(log) \in Nat, NEW k \in 0 .. Len(log)
    PROVE  StateFacts(log, m, k)
<1>. DEFINE n == Len(log)
            S(h) == StatesOf(log, m)[h]
            C == {h \in 0 .. n : ~ StateFacts(log, m, h)}
<1>1. ASSUME C # {} PROVE FALSE
    <2>1. PICK c \in C : \A q \in C : c <= q
        <3>1. C \subseteq 0 .. n
            OBVIOUS
        <3>. HIDE DEF C
        <3>. QED
            BY <1>1, <3>1, LeastNat
    <2>2. c \in 0 .. n /\ ~ StateFacts(log, m, c)
        OBVIOUS
    <2>3. CASE c = 0
        <3>1. S(0) = <<>>
            BY StatesUnfold
        <3>2. 0 .. 0 = {0}
            OBVIOUS
        <3>. QED
            BY <2>2, <2>3, <3>1, <3>2 DEF StateFacts
    <2>4. CASE c # 0
        <3>1. c - 1 \in 0 .. n /\ ~ (c <= c - 1) /\ c \in 1 .. n
            BY <2>2, <2>4
        <3>2. c - 1 \notin C
            BY <2>1, <3>1
        <3>3. StateFacts(log, m, c - 1)
            BY <3>1, <3>2
        <3>4. S(c) = IF RunsAt(log, c, m) THEN Append(S(c - 1), c) ELSE S(c - 1)
            BY <3>1, StatesUnfold
        <3>. DEFINE s == S(c - 1)
        <3>5. s \in Seq(1 .. c - 1)
            BY <3>3 DEF StateFacts
        <3>6. s \in Seq(1 .. c) /\ Len(s) \in Nat
            BY <3>1, <3>5
        <3>7. \A h \in 0 .. c - 1 : Len(S(h)) <= Len(s) /\ (Len(S(h)) = Len(s) => S(h) = s)
            BY <3>3 DEF StateFacts
        <3>7a. \A h \in 0 .. c - 1 : Len(S(h)) \in Nat
            <4>. TAKE h \in 0 .. c - 1
            <4>1. h \in 0 .. n /\ ~ (c <= h)
                BY <3>1
            <4>2. StateFacts(log, m, h)
                BY <2>1, <4>1
            <4>3. S(h) \in Seq(1 .. h)
                BY <4>2 DEF StateFacts
            <4>. QED
                BY <4>3
        <3>8. S(c) \in Seq(1 .. c) /\ (S(c) = s \/ Len(S(c)) = Len(s) + 1)
            <4>1. c \in 1 .. c
                BY <3>1
            <4>. HIDE DEF s
            <4>2. CASE RunsAt(log, c, m)
                <5>1. S(c) = Append(s, c)
                    BY <3>4, <4>2 DEF s
                <5>. QED
                    BY <3>6, <4>1, <5>1
            <4>3. CASE ~ RunsAt(log, c, m)
                BY <3>4, <3>6, <4>3 DEF s
            <4>. QED
                BY <4>2, <4>3
        <3>. HIDE DEF s
        <3>. DEFINE sc == S(c)
        <3>9. ASSUME NEW h \in 0 .. c
              PROVE  Len(S(h)) <= Len(S(c)) /\ (Len(S(h)) = Len(S(c)) => S(h) = S(c))
            <4>1. CASE h = c
                <5>1. Len(S(c)) \in Nat
                    BY <3>8
                <5>. QED
                    BY <4>1, <5>1
            <4>2. CASE h # c
                <5>1. h \in 0 .. c - 1
                    BY <3>1, <4>2
                <5>. DEFINE x == Len(S(h))
                            y == Len(s)
                            z == Len(S(c))
                <5>2. x \in Nat /\ y \in Nat /\ x <= y /\ (x = y => S(h) = s)
                    BY <3>6, <3>7, <3>7a, <5>1
                <5>3. CASE S(c) = s
                    BY <5>2, <5>3
                <5>4. CASE z = y + 1
                    <6>. HIDE DEF x, y, z
                    <6>1. x <= z /\ x # z
                        BY <5>2, <5>4
                    <6>. QED
                        BY <6>1 DEF x, z
                <5>. QED
                    BY <3>8, <5>3, <5>4
            <4>. QED
                BY <4>1, <4>2
        <3>. QED
            BY <2>2, <3>8, <3>9 DEF StateFacts
    <2>. QED
        BY <2>3, <2>4
<1>. QED
    BY <1>1

\* The module's roots, as recovery compares them.
RootsAt(log, t) == [m \in Module |-> StatesOf(log, m)[t]]

\* A state met again was never left.
LEMMA StateBetween ==
    ASSUME NEW log, NEW m, Len(log) \in Nat,
           NEW h \in 0 .. Len(log), NEW x \in 0 .. Len(log), NEW k \in 0 .. Len(log),
           h <= x, x <= k, StatesOf(log, m)[h] = StatesOf(log, m)[k]
    PROVE  StatesOf(log, m)[x] = StatesOf(log, m)[h]
<1>. DEFINE S(i) == StatesOf(log, m)[i]
            a == Len(S(h))
            b == Len(S(x))
            c == Len(S(k))
<1>1. StateFacts(log, m, h) /\ StateFacts(log, m, x) /\ StateFacts(log, m, k)
    BY StateIs
<1>2. h \in 0 .. x /\ x \in 0 .. k
    OBVIOUS
<1>3. S(h) \in Seq(1 .. h) /\ S(x) \in Seq(1 .. x) /\ S(k) \in Seq(1 .. k)
    BY <1>1 DEF StateFacts
<1>4. a \in Nat /\ b \in Nat /\ c \in Nat
    BY <1>3
<1>5. a <= b /\ b <= c /\ (a = b => S(h) = S(x)) /\ a = c
    BY <1>1, <1>2 DEF StateFacts
<1>6. a = b
    <2>. HIDE DEF a, b, c
    <2>. QED
        BY <1>4, <1>5
<1>. QED
    BY <1>5, <1>6

\* What a block does to a module.
LEMMA StateMoves ==
    ASSUME NEW log, NEW m, Len(log) \in Nat, NEW h \in 1 .. Len(log)
    PROVE  /\ StatesOf(log, m)[h - 1] \in Seq(1 .. h - 1)
           /\ StatesOf(log, m)[h] \in Seq(1 .. h)
           /\ RunsAt(log, h, m) =>
                 /\ StatesOf(log, m)[h] = Append(StatesOf(log, m)[h - 1], h)
                 /\ StatesOf(log, m)[h] # StatesOf(log, m)[h - 1]
                 /\ StatesOf(log, m)[h] # <<>> /\ Last(StatesOf(log, m)[h]) = h
           /\ ~ RunsAt(log, h, m) => StatesOf(log, m)[h] = StatesOf(log, m)[h - 1]
<1>. DEFINE s == StatesOf(log, m)[h - 1]
            t == StatesOf(log, m)[h]
<1>1. h - 1 \in 0 .. Len(log) /\ h \in 0 .. Len(log)
    OBVIOUS
<1>2. s \in Seq(1 .. h - 1) /\ t \in Seq(1 .. h)
    BY <1>1, StateIs DEF StateFacts
<1>3. t = IF RunsAt(log, h, m) THEN Append(s, h) ELSE s
    BY StatesUnfold
<1>. HIDE DEF s, t
<1>4. ASSUME t = Append(s, h)
      PROVE  t # s /\ t # <<>> /\ Last(t) = h
    <2>1. Len(t) = Len(s) + 1 /\ Len(s) \in Nat /\ t[Len(s) + 1] = h
        BY <1>2, <1>4
    <2>. QED
        BY <2>1 DEF Last
<1>. QED
    BY <1>2, <1>3, <1>4 DEF s, t

\* A state that a block made was not there before it, and is not left for one.
LEMMA StateNew ==
    ASSUME NEW log, NEW m, Len(log) \in Nat, NEW h \in 1 .. Len(log),
           StatesOf(log, m)[h] # StatesOf(log, m)[h - 1],
           NEW x \in 0 .. h - 1, NEW k \in h .. Len(log)
    PROVE  StatesOf(log, m)[x] # StatesOf(log, m)[k]
<1>1. SUFFICES ASSUME StatesOf(log, m)[x] = StatesOf(log, m)[k]
               PROVE  FALSE
    OBVIOUS
<1>2. /\ x \in 0 .. Len(log) /\ k \in 0 .. Len(log) /\ h \in 0 .. Len(log)
      /\ h - 1 \in 0 .. Len(log) /\ x <= h /\ h <= k /\ x <= h - 1 /\ h - 1 <= k
    OBVIOUS
<1>3. StatesOf(log, m)[h] = StatesOf(log, m)[x]
    BY <1>1, <1>2, StateBetween
<1>4. StatesOf(log, m)[h - 1] = StatesOf(log, m)[x]
    BY <1>1, <1>2, StateBetween
<1>. QED
    BY <1>3, <1>4

\* The engine only appends.
Extends(log, old) ==
    /\ Len(old) \in Nat /\ Len(log) \in Nat /\ Len(old) <= Len(log)
    /\ \A h \in 1 .. Len(old) : log[h] = old[h]

\* Every validator keeps refusing the heights it refused.
LEMMA RefusedStable ==
    ASSUME NEW log, NEW old, Extends(log, old), NEW h \in 1 .. Len(old)
    PROVE  RefusedHeight(log, h) <=> RefusedHeight(old, h)
<1>1. \A g \in Newest(1 .. (h - 1)) : g \in 1 .. (h - 1)
    BY DEF Newest
<1>2. \A g \in Newest(1 .. (h - 1)) : g \in 1 .. Len(old)
    BY <1>1 DEF Extends
<1>. QED
    BY <1>2 DEF RefusedHeight, Extends

\* A longer log does not change the states of the old heights.
LEMMA StatesStable ==
    ASSUME NEW log, NEW old, Extends(log, old), NEW m, NEW t \in 0 .. Len(old)
    PROVE  StatesOf(log, m)[t] = StatesOf(old, m)[t]
<1>. DEFINE n == Len(old)
            C == {h \in 0 .. n : StatesOf(log, m)[h] # StatesOf(old, m)[h]}
<1>0. n \in Nat /\ Len(log) \in Nat /\ n <= Len(log)
    BY DEF Extends
<1>1. ASSUME C # {} PROVE FALSE
    <2>1. PICK c \in C : \A q \in C : c <= q
        <3>1. C \subseteq 0 .. n
            OBVIOUS
        <3>. HIDE DEF C
        <3>. QED
            BY <1>0, <1>1, <3>1, LeastNat
    <2>2. c \in 0 .. n /\ StatesOf(log, m)[c] # StatesOf(old, m)[c]
        OBVIOUS
    <2>3. CASE c = 0
        BY <1>0, <2>2, <2>3, StatesUnfold
    <2>4. CASE c # 0
        <3>1. c - 1 \in 0 .. n /\ ~ (c <= c - 1) /\ c \in 1 .. n /\ c \in 1 .. Len(log)
            BY <1>0, <2>2, <2>4
        <3>2. StatesOf(log, m)[c - 1] = StatesOf(old, m)[c - 1]
            BY <2>1, <3>1
        <3>3. log[c] = old[c] /\ (RefusedHeight(log, c) <=> RefusedHeight(old, c))
            BY <3>1, RefusedStable DEF Extends
        <3>4. RunsAt(log, c, m) <=> RunsAt(old, c, m)
            BY <3>3 DEF RunsAt
        <3>5. StatesOf(log, m)[c] = IF RunsAt(log, c, m) THEN Append(StatesOf(log, m)[c - 1], c)
                                    ELSE StatesOf(log, m)[c - 1]
            BY <1>0, <3>1, StatesUnfold
        <3>6. StatesOf(old, m)[c] = IF RunsAt(old, c, m) THEN Append(StatesOf(old, m)[c - 1], c)
                                    ELSE StatesOf(old, m)[c - 1]
            BY <1>0, <3>1, StatesUnfold
        <3>. QED
            BY <2>2, <3>2, <3>4, <3>5, <3>6
    <2>. QED
        BY <2>3, <2>4
<1>. QED
    BY <1>1

\* The same for all modules together.
LEMMA RootsStable ==
    ASSUME NEW log, NEW old, Extends(log, old), NEW t \in 0 .. Len(old)
    PROVE  RootsAt(log, t) = RootsAt(old, t)
BY StatesStable DEF RootsAt

--------------------------------------------------------------------------------
(***************************************************************************)
(* The replay window                                                       *)
(***************************************************************************)
LEMMA NewestInterval ==
    ASSUME NEW t \in Nat
    PROVE  Newest(1 .. t) = {h \in 1 .. t : t - h < WindowDepth}
<1>1. \A h \in 1 .. t : {g \in 1 .. t : g > h} = (h + 1) .. t
    OBVIOUS
<1>2. \A h \in 1 .. t : Cardinality((h + 1) .. t) = t - h
    <2>. TAKE h \in 1 .. t
    <2>1. Cardinality((h + 1) .. t) = IF h + 1 > t THEN 0 ELSE t - (h + 1) + 1
        BY FS_Interval
    <2>. QED
        BY <2>1
<1>. QED
    BY <1>1, <1>2 DEF Newest

\* Heights that contain the newest ones have the same newest ones.
LEMMA NewestRebuilt ==
    ASSUME NEW t \in Nat, NEW S, S \subseteq 1 .. t,
           \A h \in 1 .. t : t - h < WindowDepth => h \in S
    PROVE  Newest(S) = Newest(1 .. t)
<1>0. WindowDepth \in Nat /\ WindowDepth # 0
    BY RecoveryAssumption
<1>1. ASSUME NEW h \in 1 .. t, t - h < WindowDepth
      PROVE  Cardinality({g \in S : g > h}) < WindowDepth
    <2>. DEFINE A == {g \in S : g > h}
                I == (h + 1) .. t
    <2>1. A \subseteq I
        <3>. SUFFICES ASSUME NEW g \in A PROVE g \in I
            OBVIOUS
        <3>1. g \in 1 .. t /\ g > h
            OBVIOUS
        <3>. QED
            BY <3>1
    <2>2. IsFiniteSet(I) /\ Cardinality(I) = IF h + 1 > t THEN 0 ELSE t - (h + 1) + 1
        BY FS_Interval
    <2>3. Cardinality(A) <= Cardinality(I)
        BY <2>1, <2>2, FS_Subset
    <2>3a. Cardinality(A) \in Nat
        BY <2>1, <2>2, FS_Subset, FS_CardinalityType
    <2>. DEFINE c == Cardinality(A)
                d == Cardinality(I)
    <2>4. d = t - h
        BY <2>2
    <2>. QED
        <3>1. c \in Nat /\ c <= d
            BY <2>3, <2>3a
        <3>. HIDE DEF c, d
        <3>2. c < WindowDepth
            BY <1>0, <1>1, <2>4, <3>1
        <3>. QED
            BY <3>2 DEF c
<1>2. ASSUME NEW h \in S, ~ (t - h < WindowDepth)
      PROVE  ~ (Cardinality({g \in S : g > h}) < WindowDepth)
    <2>. DEFINE A == {g \in S : g > h}
                I == (t - WindowDepth + 1) .. t
    <2>0. h \in 1 .. t /\ t - WindowDepth + 1 > h /\ t - WindowDepth + 1 \in 1 .. t
        BY <1>0, <1>2
    <2>1. I \subseteq A
        <3>. SUFFICES ASSUME NEW g \in I PROVE g \in A
            OBVIOUS
        <3>1. g \in 1 .. t /\ t - g < WindowDepth /\ g > h
            BY <1>0, <2>0
        <3>. QED
            BY <3>1
    <2>2. Cardinality(I) = WindowDepth
        <3>1. Cardinality(I) = IF t - WindowDepth + 1 > t THEN 0 ELSE t - (t - WindowDepth + 1) + 1
            BY <1>0, FS_Interval
        <3>. QED
            BY <1>0, <3>1
    <2>3. IsFiniteSet(A)
        <3>1. IsFiniteSet(1 .. t)
            BY FS_Interval
        <3>2. A \subseteq 1 .. t
            OBVIOUS
        <3>. QED
            BY <3>1, <3>2, FS_Subset
    <2>4. Cardinality(I) <= Cardinality(A) /\ Cardinality(A) \in Nat
        BY <2>1, <2>3, FS_Subset, FS_CardinalityType
    <2>. DEFINE c == Cardinality(A)
                d == Cardinality(I)
    <2>5. c \in Nat /\ d <= c /\ d = WindowDepth
        BY <2>2, <2>4
    <2>. HIDE DEF c, d
    <2>6. ~ (c < WindowDepth)
        BY <1>0, <2>5
    <2>. QED
        BY <2>6 DEF c
<1>3. Newest(S) = {h \in 1 .. t : t - h < WindowDepth}
    BY <1>1, <1>2 DEF Newest
<1>. QED
    BY <1>3, NewestInterval

\* The window is small.
LEMMA NewestSmall ==
    ASSUME NEW t \in Nat
    PROVE  Newest(1 .. t) \subseteq 1 .. t /\ Cardinality(Newest(1 .. t)) <= WindowDepth
<1>0. WindowDepth \in Nat /\ WindowDepth # 0
    BY RecoveryAssumption
<1>. DEFINE a == IF t < WindowDepth THEN 1 ELSE t - WindowDepth + 1
<1>1. a \in Int /\ a >= 1 /\ a <= t + 1 /\ t - a + 1 <= WindowDepth
    BY <1>0
<1>2. Newest(1 .. t) = a .. t
    <2>1. \A h \in Int : (h \in 1 .. t /\ t - h < WindowDepth) <=> h \in a .. t
        BY <1>0
    <2>. HIDE DEF a
    <2>2. {h \in 1 .. t : t - h < WindowDepth} = a .. t
        BY <1>0, <1>1, <2>1
    <2>. QED
        BY <2>2, NewestInterval
<1>. HIDE DEF a
<1>3. Cardinality(a .. t) = IF a > t THEN 0 ELSE t - a + 1
    BY <1>1, FS_Interval
<1>. QED
    BY <1>0, <1>1, <1>2, <1>3

--------------------------------------------------------------------------------
(***************************************************************************)
(* The shape of the journal                                                *)
(***************************************************************************)
Record ==
    [kind : {"pinned"}, batch : Batch]
    \cup [kind : {"block"}, height : Nat, batch : Batch]
    \cup [kind : {"schedule", "witness"}, height : Nat]
    \cup [kind : {"seal"}, height : Nat, applied : BOOLEAN, roots : Roots]
    \cup [kind : {"cutover"}, epoch : 0 .. MaxEpoch]

\* Where the journal stands between two records: the last height sealed, and
\* how far the next block got (0 nothing, 1 its batch, 2 its schedule, 3 its
\* witness).
Position == [top : Nat, stage : 0 .. 3]
Pos(t, s) == [top |-> t, stage |-> s]

OpenAt(log, p) ==
    /\ p.top <= Len(log)
    /\ p.stage > 0 => p.top < Len(log) /\ ~ RefusedHeight(log, p.top + 1)

\* One record, from position p to position q.
Legal(log, r, p, q) ==
    \/ r.kind \in {"pinned", "cutover"} /\ p.stage = 0 /\ q = p
    \/ /\ r.kind = "block" /\ p.stage = 0 /\ q = Pos(p.top, 1)
       /\ r.height = p.top + 1 /\ r.batch = log[p.top + 1]
    \/ r.kind = "schedule" /\ p.stage = 1 /\ q = Pos(p.top, 2) /\ r.height = p.top + 1
    \/ r.kind = "witness" /\ p.stage = 2 /\ q = Pos(p.top, 3) /\ r.height = p.top + 1
    \/ /\ r.kind = "seal" /\ q = Pos(p.top + 1, 0)
       /\ r.height = p.top + 1 /\ r.roots = RootsAt(log, p.top + 1)
       /\ \/ p.stage = 0 /\ RefusedHeight(log, p.top + 1)
          \/ p.stage = 2 /\ ~ r.applied
          \/ p.stage = 3

\* at gives the position after each record.
IsPath(log, j, at) ==
    /\ j \in Seq(Record) /\ at \in [0 .. Len(j) -> Position]
    /\ at[0].stage = 0
    /\ \A i \in 0 .. Len(j) : OpenAt(log, at[i])
    /\ \A i \in 1 .. Len(j) : Legal(log, j[i], at[i - 1], at[i])
    /\ \A i, k \in 0 .. Len(j) : i <= k => at[i].top <= at[k].top

\* The fields of a position.
LEMMA PosIs ==
    ASSUME NEW t \in Nat, NEW s \in 0 .. 3
    PROVE  Pos(t, s) \in Position /\ Pos(t, s).top = t /\ Pos(t, s).stage = s
BY DEF Pos, Position

\* A record moves the top by at most one.
LEMMA LegalClimbs ==
    ASSUME NEW log, NEW r, NEW p \in Position, NEW q \in Position, Legal(log, r, p, q)
    PROVE  p.top <= q.top /\ q.top <= p.top + 1
<1>1. p.top \in Nat /\ q.top \in Nat
    BY DEF Position
<1>2. q.top = p.top \/ q.top = p.top + 1
    BY DEF Legal, Pos
<1>. QED
    BY <1>1, <1>2

Longer(at, n, q) == [i \in 0 .. n + 1 |-> IF i = n + 1 THEN q ELSE at[i]]

\* One record more.
LEMMA PathLonger ==
    ASSUME NEW log, NEW j, NEW at, IsPath(log, j, at), NEW r \in Record,
           NEW q \in Position, OpenAt(log, q), Legal(log, r, at[Len(j)], q)
    PROVE  /\ IsPath(log, j \o <<r>>, Longer(at, Len(j), q))
           /\ Len(j \o <<r>>) = Len(j) + 1
           /\ Longer(at, Len(j), q)[Len(j) + 1] = q
           /\ \A i \in 0 .. Len(j) : Longer(at, Len(j), q)[i] = at[i]
<1>. DEFINE n == Len(j)
            l == j \o <<r>>
            f == Longer(at, n, q)
<1>1. j \in Seq(Record) /\ n \in Nat /\ at \in [0 .. n -> Position]
    BY DEF IsPath
<1>2. l \in Seq(Record) /\ Len(l) = n + 1 /\ l[n + 1] = r /\ \A i \in 1 .. n : l[i] = j[i]
    BY <1>1
<1>. HIDE DEF n, l
<1>3. f[n + 1] = q /\ (\A i \in 0 .. n : f[i] = at[i]) /\ f \in [0 .. n + 1 -> Position]
    BY <1>1 DEF Longer
<1>. HIDE DEF f
<1>4. f[0].stage = 0
    BY <1>1, <1>3 DEF IsPath, n
<1>5. \A i \in 0 .. n + 1 : OpenAt(log, f[i])
    <2>. TAKE i \in 0 .. n + 1
    <2>1. CASE i = n + 1
        BY <1>3, <2>1
    <2>2. CASE i # n + 1
        <3>1. i \in 0 .. n
            BY <1>1, <2>2
        <3>. QED
            BY <1>3, <3>1 DEF IsPath, n
    <2>. QED
        BY <2>1, <2>2
<1>6. \A i \in 1 .. n + 1 : Legal(log, l[i], f[i - 1], f[i])
    <2>. TAKE i \in 1 .. n + 1
    <2>1. CASE i = n + 1
        <3>1. i - 1 = n /\ n \in 0 .. n
            BY <1>1, <2>1
        <3>2. f[i - 1] = at[n] /\ f[i] = q /\ l[i] = r
            BY <1>2, <1>3, <2>1, <3>1
        <3>. QED
            BY <3>2 DEF n
    <2>2. CASE i # n + 1
        <3>1. i \in 1 .. n /\ i - 1 \in 0 .. n /\ i \in 0 .. n
            BY <1>1, <2>2
        <3>2. f[i - 1] = at[i - 1] /\ f[i] = at[i] /\ l[i] = j[i]
            BY <1>2, <1>3, <3>1
        <3>. QED
            BY <3>1, <3>2 DEF IsPath, n
    <2>. QED
        BY <2>1, <2>2
<1>7. \A i, k \in 0 .. n + 1 : i <= k => f[i].top <= f[k].top
    <2>. SUFFICES ASSUME NEW i \in 0 .. n + 1, NEW k \in 0 .. n + 1, i <= k
                  PROVE  f[i].top <= f[k].top
        OBVIOUS
    <2>1. CASE k # n + 1
        <3>1. i \in 0 .. n /\ k \in 0 .. n
            BY <1>1, <2>1
        <3>. QED
            BY <1>3, <3>1 DEF IsPath, n
    <2>2. CASE k = n + 1 /\ i = n + 1
        <3>1. f[k].top \in Nat
            BY <1>3 DEF Position
        <3>. QED
            BY <2>2, <3>1
    <2>3. CASE k = n + 1 /\ i # n + 1
        <3>1. i \in 0 .. n /\ n \in 0 .. n /\ i <= n
            BY <1>1, <2>3
        <3>2. f[i] = at[i] /\ f[k] = q /\ at[i] \in Position /\ at[n] \in Position
            BY <1>1, <1>3, <2>3, <3>1
        <3>3. at[i].top <= at[n].top
            BY <3>1 DEF IsPath, n
        <3>4. at[n].top <= q.top
            BY <3>2, LegalClimbs DEF n
        <3>5. at[i].top \in Nat /\ at[n].top \in Nat /\ q.top \in Nat
            BY <3>2 DEF Position
        <3>. QED
            BY <3>2, <3>3, <3>4, <3>5
    <2>. QED
        BY <2>1, <2>2, <2>3
<1>8. IsPath(log, l, f)
    BY <1>2, <1>3, <1>4, <1>5, <1>6, <1>7 DEF IsPath
<1>. QED
    BY <1>2, <1>3, <1>8 DEF n, l, f

\* A part of the journal that starts between blocks is a journal.
LEMMA PathPart ==
    ASSUME NEW log, NEW j, NEW at, IsPath(log, j, at),
           NEW a \in 0 .. Len(j), NEW k \in a .. Len(j), at[a].stage = 0
    PROVE  /\ IsPath(log, SubSeq(j, a + 1, k), [i \in 0 .. k - a |-> at[i + a]])
           /\ Len(SubSeq(j, a + 1, k)) = k - a
           /\ \A i \in 1 .. k - a : SubSeq(j, a + 1, k)[i] = j[i + a]
<1>. DEFINE n == Len(j)
            l == SubSeq(j, a + 1, k)
            f == [i \in 0 .. k - a |-> at[i + a]]
<1>1. j \in Seq(Record) /\ n \in Nat /\ at \in [0 .. n -> Position]
    BY DEF IsPath
<1>2. l \in Seq(Record) /\ Len(l) = k - a /\ \A i \in 1 .. k - a : l[i] = j[i + a]
    <2>1. \A i \in (a + 1) .. k : j[i] \in Record
        BY <1>1
    <2>2. /\ Len(l) = IF a + 1 <= k THEN k - (a + 1) + 1 ELSE 0
          /\ l \in Seq(Record)
          /\ \A i \in 1 .. k - (a + 1) + 1 : l[i] = j[a + 1 + i - 1]
        BY <1>1, <2>1, SubSeqProperties
    <2>. HIDE DEF l
    <2>3. Len(l) = k - a
        BY <1>1, <2>2
    <2>4. \A i \in 1 .. k - a : i \in 1 .. k - (a + 1) + 1 /\ a + 1 + i - 1 = i + a
        BY <1>1
    <2>. QED
        BY <2>2, <2>3, <2>4
<1>3. \A i \in 0 .. k - a : i + a \in 0 .. n
    BY <1>1 DEF n
<1>4. f \in [0 .. k - a -> Position] /\ \A i \in 0 .. k - a : f[i] = at[i + a]
    BY <1>1, <1>3
<1>. HIDE DEF l, f
<1>5. f[0].stage = 0
    <2>1. 0 \in 0 .. k - a /\ 0 + a = a
        OBVIOUS
    <2>. QED
        BY <1>4, <2>1
<1>6. \A i \in 0 .. k - a : OpenAt(log, f[i])
    BY <1>3, <1>4 DEF IsPath, n
<1>7. \A i \in 1 .. k - a : Legal(log, l[i], f[i - 1], f[i])
    <2>. TAKE i \in 1 .. k - a
    <2>1. /\ i \in 0 .. k - a /\ i - 1 \in 0 .. k - a /\ (i + a) - 1 = (i - 1) + a
          /\ i + a \in 1 .. n
        OBVIOUS
    <2>2. Legal(log, j[i + a], at[(i + a) - 1], at[i + a])
        BY <2>1 DEF IsPath, n
    <2>. QED
        BY <1>2, <1>4, <2>1, <2>2
<1>8. \A i, x \in 0 .. k - a : i <= x => f[i].top <= f[x].top
    <2>. SUFFICES ASSUME NEW i \in 0 .. k - a, NEW x \in 0 .. k - a, i <= x
                  PROVE  f[i].top <= f[x].top
        OBVIOUS
    <2>1. i + a \in 0 .. n /\ x + a \in 0 .. n /\ i + a <= x + a
        BY <1>3
    <2>. QED
        BY <1>4, <2>1 DEF IsPath, n
<1>9. IsPath(log, l, f)
    BY <1>2, <1>4, <1>5, <1>6, <1>7, <1>8 DEF IsPath
<1>. QED
    BY <1>2, <1>9 DEF l, f

\* A longer log keeps it.
LEMMA OpenStable ==
    ASSUME NEW log, NEW old, Extends(log, old), NEW p \in Position, OpenAt(old, p)
    PROVE  OpenAt(log, p)
<1>1. p.top \in Nat /\ p.stage \in Nat /\ Len(old) \in Nat /\ Len(log) \in Nat /\ Len(old) <= Len(log)
    BY DEF Position, Extends
<1>2. p.top <= Len(log) /\ (p.stage > 0 => p.top < Len(log) /\ p.top + 1 \in 1 .. Len(old))
    BY <1>1 DEF OpenAt
<1>3. p.stage > 0 => ~ RefusedHeight(log, p.top + 1)
    BY <1>2, RefusedStable DEF OpenAt
<1>. QED
    BY <1>2, <1>3 DEF OpenAt

\* Records stay legal as the log grows.
LEMMA LegalStable ==
    ASSUME NEW log, NEW old, Extends(log, old), NEW r, NEW p \in Position, NEW q \in Position,
           OpenAt(old, q), Legal(old, r, p, q)
    PROVE  Legal(log, r, p, q)
<1>1. p.top \in Nat /\ q.top \in Nat /\ q.stage \in Nat /\ Len(old) \in Nat
    BY DEF Position, Extends
<1>2. CASE r.kind = "block" /\ p.stage = 0 /\ q = Pos(p.top, 1)
           /\ r.height = p.top + 1 /\ r.batch = old[p.top + 1]
    <2>1. q.top = p.top /\ q.stage = 1
        BY <1>2 DEF Pos
    <2>2. p.top + 1 \in 1 .. Len(old)
        BY <1>1, <2>1 DEF OpenAt
    <2>3. log[p.top + 1] = old[p.top + 1]
        BY <2>2 DEF Extends
    <2>. QED
        BY <1>2, <2>3 DEF Legal
<1>3. CASE /\ r.kind = "seal" /\ q = Pos(p.top + 1, 0)
           /\ r.height = p.top + 1 /\ r.roots = RootsAt(old, p.top + 1)
           /\ \/ p.stage = 0 /\ RefusedHeight(old, p.top + 1)
              \/ p.stage = 2 /\ ~ r.applied
              \/ p.stage = 3
    <2>1. q.top = p.top + 1
        BY <1>3 DEF Pos
    <2>2. p.top + 1 \in 1 .. Len(old) /\ p.top + 1 \in 0 .. Len(old)
        BY <1>1, <2>1 DEF OpenAt
    <2>3. RootsAt(log, p.top + 1) = RootsAt(old, p.top + 1)
        BY <2>2, RootsStable
    <2>4. RefusedHeight(log, p.top + 1) <=> RefusedHeight(old, p.top + 1)
        BY <2>2, RefusedStable
    <2>. QED
        BY <1>3, <2>3, <2>4 DEF Legal
<1>. QED
    BY <1>2, <1>3 DEF Legal

\* The journal stays a path as the log grows.
LEMMA PathStable ==
    ASSUME NEW log, NEW old, Extends(log, old), NEW j, NEW at, IsPath(old, j, at)
    PROVE  IsPath(log, j, at)
<1>1. j \in Seq(Record) /\ Len(j) \in Nat /\ at \in [0 .. Len(j) -> Position]
    BY DEF IsPath
<1>2. \A i \in 0 .. Len(j) : OpenAt(log, at[i])
    BY <1>1, OpenStable DEF IsPath
<1>3. \A i \in 1 .. Len(j) : Legal(log, j[i], at[i - 1], at[i])
    <2>. TAKE i \in 1 .. Len(j)
    <2>1. i - 1 \in 0 .. Len(j) /\ i \in 0 .. Len(j)
        BY <1>1
    <2>2. at[i - 1] \in Position /\ at[i] \in Position /\ OpenAt(old, at[i])
          /\ Legal(old, j[i], at[i - 1], at[i])
        BY <1>1, <2>1 DEF IsPath
    <2>. QED
        BY <2>2, LegalStable
<1>. QED
    BY <1>1, <1>2, <1>3 DEF IsPath

--------------------------------------------------------------------------------
(***************************************************************************)
(* What a crash leaves                                                     *)
(***************************************************************************)
\* The durable modules at position p: before its open block, or, once the
\* block is witnessed, some of them after it.
DiskAt(log, p, st) ==
    \A m \in Disk : \/ st[m] = StatesOf(log, m)[p.top]
                    \/ p.stage = 3 /\ st[m] = StatesOf(log, m)[p.top + 1]

Down(at) ==
    /\ agreed \in Seq(Batch) /\ IsPath(agreed, journal, at)
    /\ manifest.height \in Nat /\ manifest.height <= at[Len(journal)].top
    /\ manifest.roots = RootsAt(agreed, manifest.height)
    /\ at[0].top > manifest.height => RootsAt(agreed, at[0].top) = manifest.roots
    /\ at[Len(journal)].top > at[0].top \/ at[Len(journal)].top = manifest.height
    /\ \A m \in Memory : live[m] = manifest.roots[m]
    /\ DiskAt(agreed, at[Len(journal)], live)
    /\ live \in [Module -> Seq(Nat)]

\* The numbers of a journal, for the arithmetic below.
LEMMA PathNumbers ==
    ASSUME NEW log, NEW j, NEW at, IsPath(log, j, at), Len(log) \in Nat
    PROVE  /\ j \in Seq(Record) /\ Len(j) \in Nat
           /\ \A i \in 0 .. Len(j) : /\ at[i] \in Position /\ at[i].top \in 0 .. Len(log)
                                     /\ at[i].stage \in 0 .. 3
                                     /\ at[i].stage > 0 => at[i].top + 1 \in 1 .. Len(log)
           /\ \A i \in 1 .. Len(j) : i - 1 \in 0 .. Len(j) /\ i \in 0 .. Len(j)
           /\ 0 \in 0 .. Len(j) /\ Len(j) \in 0 .. Len(j)
<1>1. j \in Seq(Record) /\ Len(j) \in Nat /\ at \in [0 .. Len(j) -> Position]
    BY DEF IsPath
<1>2. ASSUME NEW i \in 0 .. Len(j)
      PROVE  /\ at[i] \in Position /\ at[i].top \in 0 .. Len(log) /\ at[i].stage \in 0 .. 3
             /\ at[i].stage > 0 => at[i].top + 1 \in 1 .. Len(log)
    <2>1. at[i] \in Position /\ OpenAt(log, at[i])
        BY <1>1 DEF IsPath
    <2>. DEFINE p == at[i]
    <2>. HIDE DEF p
    <2>2. p.top \in Nat /\ p.stage \in 0 .. 3
        BY <2>1 DEF Position, p
    <2>3. p.top <= Len(log) /\ (p.stage > 0 => p.top < Len(log))
        BY <2>1 DEF OpenAt, p
    <2>. QED
        BY <2>1, <2>2, <2>3 DEF p
<1>. QED
    BY <1>1, <1>2

\* A record that seals.
LEMMA SealIs ==
    ASSUME NEW log, NEW r, NEW p \in Position, NEW q \in Position, Legal(log, r, p, q),
           r.kind = "seal"
    PROVE  /\ q.top = p.top + 1 /\ q.stage = 0 /\ r.height = q.top
           /\ r.roots = RootsAt(log, q.top)
BY DEF Legal, Pos, Position

\* Only a seal raises the top.
LEMMA ClimbSeals ==
    ASSUME NEW log, NEW r, NEW p \in Position, NEW q \in Position, Legal(log, r, p, q),
           p.top # q.top
    PROVE  r.kind = "seal"
BY DEF Legal, Pos, Position

\* The seal of the top is in the journal, unless the journal starts there.
LEMMA TopSealed ==
    ASSUME NEW log, NEW j, NEW at, IsPath(log, j, at), Len(log) \in Nat,
           at[Len(j)].top > at[0].top
    PROVE  \E k \in 1 .. Len(j) : /\ j[k].kind = "seal" /\ j[k].height = at[Len(j)].top
                                  /\ j[k].roots = RootsAt(log, at[Len(j)].top)
<1>. DEFINE n == Len(j)
            T == at[n].top
            C == {i \in 0 .. n : at[i].top = T}
<1>1. n \in Nat /\ T \in Nat /\ at[0].top \in Nat
    BY PathNumbers
<1>2. PICK c \in C : \A q \in C : c <= q
    <2>1. C \subseteq 0 .. n /\ n \in C
        BY <1>1
    <2>. HIDE DEF C
    <2>. QED
        BY <1>1, <2>1, LeastNat
<1>3. c \in 0 .. n /\ at[c].top = T
    OBVIOUS
<1>4. c # 0
    BY <1>1, <1>3
<1>5. c \in 1 .. n /\ c - 1 \in 0 .. n /\ ~ (c <= c - 1)
    BY <1>1, <1>3, <1>4
<1>6. at[c - 1].top # T
    BY <1>2, <1>5
<1>7. Legal(log, j[c], at[c - 1], at[c]) /\ at[c - 1] \in Position /\ at[c] \in Position
    BY <1>5, <1>3, PathNumbers DEF IsPath
<1>8. j[c].kind = "seal"
    BY <1>3, <1>6, <1>7, ClimbSeals
<1>9. j[c].height = T /\ j[c].roots = RootsAt(log, T)
    BY <1>3, <1>7, <1>8, SealIs
<1>. QED
    BY <1>5, <1>8, <1>9

\* MaxOf is the greatest member of a bounded set.
LEMMA MaxIs ==
    ASSUME NEW n \in Nat, NEW S, S \subseteq 0 .. n, NEW x \in S
    PROVE  MaxOf(S) \in S /\ x <= MaxOf(S) /\ \A y \in S : y <= MaxOf(S)
<1>. DEFINE C == {n - y : y \in S}
<1>1. C \subseteq 0 .. n /\ C # {}
    OBVIOUS
<1>2. PICK c \in C : \A q \in C : c <= q
    <2>. HIDE DEF C
    <2>. QED
        BY <1>1, LeastNat
<1>3. PICK a \in S : c = n - a
    OBVIOUS
<1>4. \A y \in S : y <= a
    <2>. TAKE y \in S
    <2>1. n - y \in C
        OBVIOUS
    <2>2. n - a <= n - y
        BY <1>2, <1>3, <2>1
    <2>. QED
        BY <2>2
<1>. DEFINE M == CHOOSE z \in S : \A y \in S : y <= z
<1>5. M \in S /\ \A y \in S : y <= M
    BY <1>4
<1>6. MaxOf(S) = M
    BY DEF MaxOf
<1>. QED
    BY <1>5, <1>6

\* The index of the open block, and what comes after it.
LEMMA OpenBlock ==
    ASSUME NEW at, Down(at), at[Len(journal)].stage > 0
    PROVE  /\ MaxOf(InScopeAt("block")) = Len(journal) + 1 - at[Len(journal)].stage
           /\ MaxOf(InScopeAt("block")) \in 1 .. Len(journal)
           /\ at[MaxOf(InScopeAt("block")) - 1] = Pos(at[Len(journal)].top, 0)
           /\ \A i \in MaxOf(InScopeAt("block")) .. Len(journal) :
                 journal[i].kind \in {"block", "schedule", "witness"} /\ at[i].stage > 0
           /\ TrailingHeight = at[Len(journal)].top + 1
<1>. DEFINE n == Len(journal)
            T == at[n].top
            s == at[n].stage
            k == n + 1 - s
            mh == manifest.height
<1>1. /\ agreed \in Seq(Batch) /\ IsPath(agreed, journal, at) /\ mh \in Nat /\ mh <= T
      /\ Len(agreed) \in Nat
    BY DEF Down
<1>2. n \in Nat /\ T \in Nat /\ s \in 1 .. 3 /\ at[0].stage = 0
    <2>1. n \in Nat /\ T \in 0 .. Len(agreed) /\ s \in 0 .. 3
        BY <1>1, PathNumbers
    <2>. QED
        BY <1>1, <2>1 DEF IsPath
<1>3. \A i \in 1 .. n : /\ Legal(agreed, journal[i], at[i - 1], at[i])
                        /\ at[i - 1] \in Position /\ at[i] \in Position
    BY <1>1, PathNumbers DEF IsPath
\* A position with an open block was reached by the record of its stage.
<1>4. ASSUME NEW i \in 0 .. n, at[i].top = T, at[i].stage > 0
      PROVE  /\ i \in 1 .. n /\ i - 1 \in 0 .. n /\ at[i - 1] = Pos(T, at[i].stage - 1)
             /\ at[i - 1].top = T /\ at[i - 1].stage = at[i].stage - 1
             /\ journal[i].kind = IF at[i].stage = 1 THEN "block"
                                  ELSE IF at[i].stage = 2 THEN "schedule" ELSE "witness"
             /\ journal[i].height = T + 1
    <2>1. i # 0
        BY <1>2, <1>4
    <2>2. i \in 1 .. n /\ i - 1 \in 0 .. n
        BY <1>2, <2>1
    <2>. DEFINE p == at[i - 1]
                q == at[i]
                r == journal[i]
    <2>3. Legal(agreed, r, p, q) /\ p \in Position /\ q \in Position /\ q.top = T /\ q.stage > 0
        BY <1>3, <1>4, <2>2
    <2>. HIDE DEF p, q, r
    <2>4. p = Pos(p.top, p.stage) /\ p.top \in Nat /\ p.stage \in 0 .. 3 /\ q.stage \in 0 .. 3
        BY <2>3 DEF Position, Pos
    <2>5. /\ p.top = T /\ p.stage = q.stage - 1 /\ r.height = T + 1
          /\ r.kind = IF q.stage = 1 THEN "block" ELSE IF q.stage = 2 THEN "schedule" ELSE "witness"
        <3>1. CASE r.kind \in {"pinned", "cutover"}
            BY <2>3, <3>1 DEF Legal
        <3>2. CASE r.kind = "seal"
            BY <2>3, <3>2, SealIs
        <3>3. CASE r.kind \notin {"pinned", "cutover", "seal"}
            BY <2>3, <2>4, <3>3 DEF Legal, Pos
        <3>. QED
            BY <3>1, <3>2, <3>3
    <2>. QED
        BY <2>2, <2>4, <2>5 DEF p, q, r
<1>5. /\ k \in 1 .. n /\ at[k - 1] = Pos(T, 0) /\ journal[k].kind = "block"
      /\ journal[k].height = T + 1
      /\ \A i \in k .. n : /\ journal[i].kind \in {"block", "schedule", "witness"}
                           /\ at[i].stage > 0 /\ (i # k => journal[i].kind # "block")
    <2>0. n \in 0 .. n
        BY <1>2
    <2>1. CASE s = 1
        <3>1. k = n
            BY <1>2, <2>1
        <3>2. /\ n \in 1 .. n /\ at[n - 1] = Pos(T, 0) /\ journal[n].kind = "block"
              /\ journal[n].height = T + 1
            BY <1>2, <1>4, <2>0, <2>1
        <3>3. \A i \in n .. n : i = n
            BY <1>2
        <3>. QED
            BY <1>2, <2>1, <3>1, <3>2, <3>3
    <2>2. CASE s = 2
        <3>1. k = n - 1
            BY <1>2, <2>2
        <3>2. /\ n \in 1 .. n /\ n - 1 \in 0 .. n /\ at[n - 1].top = T /\ at[n - 1].stage = 1
              /\ journal[n].kind = "schedule"
            BY <1>2, <1>4, <2>0, <2>2
        <3>3. /\ n - 1 \in 1 .. n /\ at[(n - 1) - 1] = Pos(T, 0) /\ journal[n - 1].kind = "block"
              /\ journal[n - 1].height = T + 1
            BY <1>2, <1>4, <3>2
        <3>4. \A i \in (n - 1) .. n : i = n \/ i = n - 1
            BY <1>2
        <3>. HIDE DEF k
        <3>5. \A i \in k .. n : i = n \/ i = k
            BY <3>1, <3>4
        <3>6. k # n /\ at[n].stage > 0 /\ at[k].stage > 0 /\ journal[k].kind = "block"
            BY <1>2, <3>1, <3>2, <3>3
        <3>7. \A i \in k .. n : /\ journal[i].kind \in {"block", "schedule", "witness"}
                                /\ at[i].stage > 0 /\ (i # k => journal[i].kind # "block")
            BY <3>2, <3>5, <3>6
        <3>. QED
            BY <3>1, <3>3, <3>7
    <2>3. CASE s = 3
        <3>1. k = n - 2
            BY <1>2, <2>3
        <3>2. /\ n \in 1 .. n /\ n - 1 \in 0 .. n /\ at[n - 1].top = T /\ at[n - 1].stage = 2
              /\ journal[n].kind = "witness"
            BY <1>2, <1>4, <2>0, <2>3
        <3>3. /\ n - 1 \in 1 .. n /\ (n - 1) - 1 \in 0 .. n /\ at[(n - 1) - 1].top = T
              /\ at[(n - 1) - 1].stage = 1 /\ journal[n - 1].kind = "schedule"
            BY <1>2, <1>4, <3>2
        <3>4. (n - 1) - 1 = n - 2
            BY <1>2
        <3>5. /\ n - 2 \in 1 .. n /\ at[(n - 2) - 1] = Pos(T, 0) /\ journal[n - 2].kind = "block"
              /\ journal[n - 2].height = T + 1
            BY <1>2, <1>4, <3>3, <3>4
        <3>6. \A i \in (n - 2) .. n : i = n \/ i = n - 1 \/ i = n - 2
            BY <1>2
        <3>7. at[n - 2].stage = 1 /\ at[n - 1].stage = 2
            BY <3>2, <3>3, <3>4
        <3>. HIDE DEF k
        <3>8. \A i \in k .. n : i = n \/ i = n - 1 \/ i = k
            BY <3>1, <3>6
        <3>9. k # n /\ k # n - 1 /\ at[n].stage > 0 /\ at[n - 1].stage > 0 /\ at[k].stage > 0
              /\ journal[k].kind = "block"
            BY <1>2, <3>1, <3>5, <3>7
        <3>10. \A i \in k .. n : /\ journal[i].kind \in {"block", "schedule", "witness"}
                                 /\ at[i].stage > 0 /\ (i # k => journal[i].kind # "block")
            BY <3>2, <3>3, <3>8, <3>9
        <3>. QED
            BY <3>1, <3>5, <3>10
    <2>. QED
        BY <1>2, <2>1, <2>2, <2>3
<1>. HIDE DEF k
<1>6. InScopeAt("block") \subseteq 0 .. n /\ k \in InScopeAt("block")
    <2>1. InScope(journal[k])
        BY <1>1, <1>2, <1>5 DEF InScope
    <2>2. DOMAIN journal = 1 .. n
        BY <1>1 DEF IsPath
    <2>. QED
        BY <1>2, <1>5, <2>1, <2>2 DEF InScopeAt
<1>7. MaxOf(InScopeAt("block")) = k
    <2>1. /\ MaxOf(InScopeAt("block")) \in InScopeAt("block")
          /\ k <= MaxOf(InScopeAt("block"))
        BY <1>2, <1>6, MaxIs
    <2>2. \A i \in InScopeAt("block") : i \in 1 .. n /\ journal[i].kind = "block"
        BY <1>1 DEF InScopeAt, IsPath
    <2>3. \A i \in InScopeAt("block") : k <= i => i = k
        BY <1>2, <1>5, <2>2
    <2>. QED
        BY <2>1, <2>3
<1>8. TrailingHeight = T + 1
    <2>. DEFINE last == MaxOf(InScopeAt("block"))
                after == {i \in InScopeAt("seal") :
                            i > last /\ journal[i].height = journal[last].height}
    <2>1. after = {}
        <3>1. \A i \in InScopeAt("seal") : i \in 1 .. n /\ journal[i].kind = "seal"
            BY <1>1 DEF InScopeAt, IsPath
        <3>2. \A i \in InScopeAt("seal") : ~ (i > k)
            BY <1>2, <1>5, <3>1
        <3>. QED
            BY <1>7, <3>2
    <2>2. last # 0 /\ journal[last].height = T + 1
        BY <1>5, <1>7
    <2>. QED
        BY <2>1, <2>2 DEF TrailingHeight
<1>. QED
    BY <1>5, <1>7, <1>8 DEF k

\* The seals whose root of m is the one on disk, by height.
SealsAt(m) == {journal[i].height : i \in {j \in InScopeAt("seal") : journal[j].roots[m] = live[m]}}

\* The sealed heights at which a module has the root on disk.
LEMMA SealsAtIs ==
    ASSUME NEW at, Down(at), NEW m \in Module
    PROVE  /\ SealsAt(m) \subseteq 0 .. at[Len(journal)].top
           /\ \A h \in SealsAt(m) : StatesOf(agreed, m)[h] = live[m]
           /\ SealedFloor(m) \in Nat /\ (SealedFloor(m) = 0 \/ SealedFloor(m) \in SealsAt(m))
           /\ \A h \in SealsAt(m) : h <= SealedFloor(m)
<1>. DEFINE n == Len(journal)
            T == at[n].top
<1>1. agreed \in Seq(Batch) /\ IsPath(agreed, journal, at) /\ Len(agreed) \in Nat
    BY DEF Down
<1>2. n \in Nat /\ T \in Nat /\ DOMAIN journal = 1 .. n /\ n \in 0 .. n
    <2>1. n \in Nat /\ T \in 0 .. Len(agreed) /\ journal \in Seq(Record) /\ n \in 0 .. n
        BY <1>1, PathNumbers
    <2>. QED
        BY <1>1, <2>1
<1>3. ASSUME NEW i \in InScopeAt("seal")
      PROVE  journal[i].height \in 0 .. T /\ journal[i].roots = RootsAt(agreed, journal[i].height)
    <2>1. i \in 1 .. n /\ journal[i].kind = "seal"
        BY <1>2 DEF InScopeAt
    <2>2. /\ Legal(agreed, journal[i], at[i - 1], at[i]) /\ at[i - 1] \in Position
          /\ at[i] \in Position /\ i \in 0 .. n /\ at[i].top \in Nat
        <3>1. i - 1 \in 0 .. n /\ i \in 0 .. n
            BY <2>1
        <3>. QED
            BY <1>1, <2>1, <3>1, PathNumbers DEF IsPath
    <2>3. journal[i].height = at[i].top /\ journal[i].roots = RootsAt(agreed, at[i].top)
        BY <2>1, <2>2, SealIs
    <2>4. at[i].top <= T
        BY <1>1, <1>2, <2>1, <2>2 DEF IsPath
    <2>. QED
        BY <1>2, <2>2, <2>3, <2>4
<1>4. SealsAt(m) \subseteq 0 .. T
    BY <1>3 DEF SealsAt
<1>5. \A h \in SealsAt(m) : StatesOf(agreed, m)[h] = live[m]
    <2>. TAKE h \in SealsAt(m)
    <2>1. PICK i \in InScopeAt("seal") : journal[i].roots[m] = live[m] /\ h = journal[i].height
        BY DEF SealsAt
    <2>2. journal[i].roots[m] = RootsAt(agreed, h)[m]
        BY <1>3, <2>1
    <2>. QED
        BY <2>1, <2>2 DEF RootsAt
<1>6. SealedFloor(m) = MaxOf(SealsAt(m))
    BY DEF SealedFloor, SealsAt
<1>. HIDE DEF T
<1>7. CASE SealsAt(m) = {}
    <2>1. MaxOf(SealsAt(m)) = 0
        BY <1>7 DEF MaxOf
    <2>. QED
        BY <1>4, <1>5, <1>6, <1>7, <2>1 DEF T
<1>8. CASE SealsAt(m) # {}
    <2>1. PICK h : h \in SealsAt(m)
        BY <1>8
    <2>2. MaxOf(SealsAt(m)) \in SealsAt(m) /\ \A y \in SealsAt(m) : y <= MaxOf(SealsAt(m))
        BY <1>2, <1>4, <2>1, MaxIs
    <2>. QED
        BY <1>2, <1>4, <1>5, <1>6, <2>2 DEF T
<1>. QED
    BY <1>7, <1>8

\* A module still at the last sealed root is found there.
LEMMA FloorKept ==
    ASSUME NEW at, Down(at), NEW m \in Disk,
           live[m] = StatesOf(agreed, m)[at[Len(journal)].top]
    PROVE  /\ m \notin Claims /\ DiskFloor(m) = SealedFloor(m) /\ SealedFloor(m) \in Nat
           /\ at[Len(journal)].top > manifest.height => SealedFloor(m) >= at[Len(journal)].top
<1>. DEFINE n == Len(journal)
            T == at[n].top
            mh == manifest.height
<1>1. /\ agreed \in Seq(Batch) /\ IsPath(agreed, journal, at) /\ Len(agreed) \in Nat
      /\ mh \in Nat /\ mh <= T /\ manifest.roots = RootsAt(agreed, mh)
      /\ T > at[0].top \/ T = mh
    BY DEF Down
<1>2. n \in Nat /\ T \in Nat /\ DOMAIN journal = 1 .. n /\ m \in Module
    <2>1. n \in Nat /\ T \in 0 .. Len(agreed) /\ journal \in Seq(Record)
        BY <1>1, PathNumbers
    <2>. QED
        BY <1>1, <2>1 DEF Module
<1>3. SealedFloor(m) \in Nat /\ \A h \in SealsAt(m) : h <= SealedFloor(m)
    BY <1>2, SealsAtIs
<1>4. ASSUME T > mh PROVE SealedFloor(m) >= T
    <2>1. PICK k \in 1 .. n : /\ journal[k].kind = "seal" /\ journal[k].height = T
                              /\ journal[k].roots = RootsAt(agreed, T)
        <3>1. T > at[0].top
            BY <1>1, <1>2, <1>4
        <3>. QED
            BY <1>1, <3>1, TopSealed
    <2>2. k \in InScopeAt("seal")
        BY <1>2, <1>4, <2>1 DEF InScopeAt, InScope
    <2>3. journal[k].roots[m] = live[m]
        BY <1>2, <2>1 DEF RootsAt
    <2>4. T \in SealsAt(m)
        BY <2>1, <2>2, <2>3 DEF SealsAt
    <2>. HIDE DEF T
    <2>. QED
        BY <1>2, <1>3, <2>4
<1>5. m \notin Claims
    <2>1. CASE T > mh
        BY <1>1, <1>2, <1>3, <1>4, <2>1 DEF Claims
    <2>2. CASE T = mh
        <3>1. live[m] = manifest.roots[m]
            BY <1>1, <1>2, <2>2 DEF RootsAt
        <3>. QED
            BY <3>1 DEF Claims
    <2>. QED
        BY <1>1, <1>2, <2>1, <2>2
<1>. QED
    BY <1>3, <1>4, <1>5 DEF DiskFloor

\* One that moved with the open block is found at no seal, and only a cursor
\* lets it claim the block.
LEMMA FloorMoved ==
    ASSUME NEW at, Down(at), NEW m \in Disk,
           live[m] # StatesOf(agreed, m)[at[Len(journal)].top]
    PROVE  /\ at[Len(journal)].stage = 3
           /\ live[m] = StatesOf(agreed, m)[at[Len(journal)].top + 1]
           /\ at[Len(journal)].top + 1 \in 1 .. Len(agreed)
           /\ RunsAt(agreed, at[Len(journal)].top + 1, m)
           /\ live[m] # <<>> /\ Last(live[m]) = TrailingHeight
           /\ TrailingHeight = at[Len(journal)].top + 1
           /\ m \in Claims <=> m \in Cursor
           /\ DiskFloor(m) = IF m \in Cursor THEN at[Len(journal)].top + 1 ELSE 0
<1>. DEFINE n == Len(journal)
            T == at[n].top
            mh == manifest.height
            S(h) == StatesOf(agreed, m)[h]
<1>1. /\ agreed \in Seq(Batch) /\ IsPath(agreed, journal, at) /\ Len(agreed) \in Nat
      /\ mh \in Nat /\ mh <= T /\ manifest.roots = RootsAt(agreed, mh)
      /\ DiskAt(agreed, at[n], live)
    BY DEF Down
<1>2. n \in Nat /\ T \in 0 .. Len(agreed) /\ m \in Module /\ n \in 0 .. n
      /\ (at[n].stage > 0 => T + 1 \in 1 .. Len(agreed))
    BY <1>1, PathNumbers DEF Module
<1>3. at[n].stage = 3 /\ live[m] = S(T + 1)
    BY <1>1 DEF DiskAt
<1>4. T + 1 \in 1 .. Len(agreed) /\ (T + 1) - 1 = T
    BY <1>2, <1>3
<1>5. S(T + 1) # S((T + 1) - 1)
    BY <1>3, <1>4
<1>6. RunsAt(agreed, T + 1, m) /\ live[m] # <<>> /\ Last(live[m]) = T + 1
    BY <1>1, <1>3, <1>4, <1>5, StateMoves
<1>7. TrailingHeight = T + 1
    BY <1>3, OpenBlock
<1>8. \A x \in 0 .. T : S(x) # live[m]
    <2>. TAKE x \in 0 .. T
    <2>1. x \in 0 .. (T + 1) - 1 /\ T + 1 \in (T + 1) .. Len(agreed)
        BY <1>2, <1>4
    <2>. QED
        BY <1>1, <1>3, <1>4, <1>5, <2>1, StateNew
<1>9. SealsAt(m) = {}
    BY <1>2, <1>8, SealsAtIs
<1>10. SealedFloor(m) = 0
    BY <1>2, <1>9, SealsAtIs
<1>11. live[m] # manifest.roots[m]
    <2>1. mh \in 0 .. T
        BY <1>1, <1>2
    <2>. QED
        BY <1>1, <1>2, <1>8, <2>1 DEF RootsAt
<1>12. m \in Claims <=> m \in Cursor
    <2>1. T + 1 # 0
        BY <1>4
    <2>. QED
        BY <1>6, <1>7, <1>10, <1>11, <2>1 DEF Claims
<1>13. DiskFloor(m) = IF m \in Cursor THEN T + 1 ELSE 0
    BY <1>7, <1>10, <1>12 DEF DiskFloor
<1>. QED
    BY <1>3, <1>4, <1>6, <1>7, <1>12, <1>13

\* The in-memory cohort has no floor.
LEMMA FloorMemory ==
    ASSUME NEW m \in Memory
    PROVE  DiskFloor(m) = 0 /\ m \notin Claims /\ m \notin Disk
BY RecoveryAssumption DEF DiskFloor, Claims

--------------------------------------------------------------------------------
(***************************************************************************)
(* The replay                                                              *)
(***************************************************************************)
\* The height recovery has rebuilt when it has read up to position p.
Reached(p) == IF p.top > manifest.height THEN p.top ELSE manifest.height

\* The block open there, if it lies above the checkpoint.
OpenOf(p) ==
    IF p.stage = 0 \/ p.top < manifest.height THEN <<>>
    ELSE <<[height |-> p.top + 1, batch |-> agreed[p.top + 1],
            scheduled |-> p.stage > 1, witnessed |-> p.stage > 2]>>

\* What it holds there, if it goes on: the in-memory modules rebuilt, the
\* durable ones as the crash left them.
Tracked(b, p, e) ==
    [status |-> "ok",
     live |-> [m \in Module |-> IF m \in Memory THEN StatesOf(agreed, m)[Reached(p)] ELSE live[m]],
     expected |-> RootsAt(agreed, Reached(p)),
     tip |-> IF p.top > b THEN Reached(p) ELSE manifest.height,
     epoch |-> e,
     window |-> manifest.window \cup {h \in 1 .. p.top : h > b /\ h > manifest.height},
     open |-> OpenOf(p)]

\* A module without a cursor that the open block moved.
Stuck(at) == \E m \in Disk \ Cursor : live[m] # StatesOf(agreed, m)[at[Len(journal)].top]

\* A sealed block above the checkpoint.
LEMMA SealedStep ==
    ASSUME Repeating = {}, NEW at, Down(at), NEW i \in 1 .. Len(journal), NEW e,
           journal[i].kind = "seal", at[i].top > manifest.height, at[i - 1].stage > 0
    PROVE  LET new == ReplaySealed(Tracked(at[0].top, at[i - 1], e), journal[i])
           IN  new = Tracked(at[0].top, at[i], e) \/ (new.status = "torn" /\ Stuck(at))
<1>. DEFINE n == Len(journal)
            T == at[n].top
            mh == manifest.height
            b == at[0].top
            p == at[i - 1]
            q == at[i]
            r == journal[i]
            h == p.top + 1
            S(m, x) == StatesOf(agreed, m)[x]
            acc == Tracked(b, p, e)
            open == acc.open[1]
            changed == {m \in Module : r.roots[m] # acc.expected[m]}
            atPre == {m \in changed : acc.live[m] = acc.expected[m]}
            ahead == {m \in changed : DiskFloor(m) > r.height}
            durable == ahead \cup {m \in changed : acc.live[m] = r.roots[m]}
            commits == ToCommit(changed, atPre, durable, Writes[open.batch])
            after == [m \in Module |->
                        IF m \in commits THEN Append(acc.live[m], r.height) ELSE acc.live[m]]
            reruns == ~(changed \subseteq durable)
            status ==
                IF ~open.scheduled \/ (r.applied /\ ~open.witnessed) THEN "corrupt"
                ELSE IF reruns /\ (atPre \cup durable # changed \/ open.batch \in Repeating)
                     THEN "torn"
                ELSE IF reruns /\ \E m \in changed \ ahead : after[m] # r.roots[m] THEN "verify"
                ELSE "ok"
            new == ReplaySealed(acc, r)
<1>1. new = [status |-> status, live |-> after, expected |-> r.roots, tip |-> r.height,
             epoch |-> acc.epoch, window |-> acc.window \cup {r.height}, open |-> <<>>]
    BY DEF ReplaySealed
<1>. HIDE DEF new
<1>2. /\ agreed \in Seq(Batch) /\ IsPath(agreed, journal, at) /\ Len(agreed) \in Nat
      /\ mh \in Nat /\ mh <= T /\ DiskAt(agreed, at[n], live)
    BY DEF Down
<1>3. n \in Nat /\ i - 1 \in 0 .. n /\ i \in 0 .. n /\ n \in 0 .. n /\ 0 \in 0 .. n
    BY <1>2, PathNumbers
<1>4. /\ p \in Position /\ q \in Position /\ p.top \in 0 .. Len(agreed) /\ p.stage \in 0 .. 3
      /\ T \in 0 .. Len(agreed) /\ b \in 0 .. Len(agreed)
      /\ Legal(agreed, r, p, q) /\ OpenAt(agreed, p)
      /\ b <= p.top /\ q.top <= T /\ (at[n].stage > 0 => T + 1 \in 1 .. Len(agreed))
      /\ q.top \in 0 .. Len(agreed) /\ q.top > mh
    <2>1. /\ p \in Position /\ q \in Position /\ p.top \in 0 .. Len(agreed) /\ p.stage \in 0 .. 3
          /\ T \in 0 .. Len(agreed) /\ b \in 0 .. Len(agreed) /\ q.top \in 0 .. Len(agreed)
          /\ (at[n].stage > 0 => T + 1 \in 1 .. Len(agreed))
        BY <1>2, <1>3, PathNumbers
    <2>2. Legal(agreed, r, p, q) /\ OpenAt(agreed, p)
        BY <1>2, <1>3 DEF IsPath
    <2>3. 0 <= i - 1 /\ i <= n
        BY <1>3
    <2>4. b <= p.top /\ q.top <= T
        BY <1>2, <1>3, <2>3 DEF IsPath
    <2>. QED
        BY <2>1, <2>2, <2>4
<1>5. q.top = h /\ q.stage = 0 /\ r.height = h /\ r.roots = RootsAt(agreed, h)
    BY <1>4, SealIs
<1>6. /\ h \in 1 .. Len(agreed) /\ h - 1 = p.top /\ h <= T /\ h > mh /\ p.top >= mh
      /\ p.stage \in 2 .. 3 /\ ~ RefusedHeight(agreed, h) /\ (r.applied => p.stage = 3)
      /\ h > b
    <2>1. p.stage = 3 \/ (p.stage = 2 /\ ~ r.applied)
        BY <1>4 DEF Legal
    <2>2. ~ RefusedHeight(agreed, h)
        BY <1>4, <2>1 DEF OpenAt
    <2>. HIDE DEF n, T, mh, b, p, q, r
    <2>3. h \in 1 .. Len(agreed) /\ h - 1 = p.top /\ h <= T /\ h > mh /\ p.top >= mh /\ h > b
        BY <1>2, <1>4, <1>5
    <2>. QED
        BY <2>1, <2>2, <2>3
<1>7. Reached(p) = p.top /\ Reached(q) = h
    BY <1>2, <1>4, <1>5, <1>6 DEF Reached
<1>8. /\ acc.expected = RootsAt(agreed, p.top) /\ acc.epoch = e
      /\ acc.live = [m \in Module |-> IF m \in Memory THEN S(m, p.top) ELSE live[m]]
      /\ acc.window = manifest.window \cup {x \in 1 .. p.top : x > b /\ x > mh}
      /\ open = [height |-> h, batch |-> agreed[h], scheduled |-> p.stage > 1,
                 witnessed |-> p.stage > 2]
    BY <1>2, <1>4, <1>6, <1>7, SMTT(30) DEF Tracked, OpenOf
<1>. HIDE DEF acc
<1>9. open.batch = agreed[h] /\ open.scheduled /\ (r.applied => open.witnessed)
    <2>1. p.stage > 1 /\ (r.applied => p.stage > 2)
        BY <1>6
    <2>. HIDE DEF p, h, open, r
    <2>2. open.batch = agreed[h] /\ open.scheduled = (p.stage > 1) /\ open.witnessed = (p.stage > 2)
        BY <1>8, Zenon
    <2>. QED
        BY <2>1, <2>2, Zenon
<1>. HIDE DEF open, h, r, q, p, b, mh, T, n
<1>10. \A m \in Module : r.roots[m] = S(m, h) /\ acc.expected[m] = S(m, p.top)
    BY <1>5, <1>8 DEF RootsAt
<1>11. changed = {m \in Module : S(m, h) # S(m, p.top)}
    BY <1>10
<1>12. ASSUME NEW m \in Module
       PROVE  /\ RunsAt(agreed, h, m) <=> m \in changed
              /\ m \in changed => S(m, h) = Append(S(m, p.top), h)
    <2>0. RunsAt(agreed, h, m) => S(m, h) = Append(S(m, h - 1), h) /\ S(m, h) # S(m, h - 1)
        BY <1>2, <1>6, StateMoves
    <2>1. RunsAt(agreed, h, m) => S(m, h) = Append(S(m, p.top), h) /\ S(m, h) # S(m, p.top)
        BY <1>6, <2>0
    <2>2. ~ RunsAt(agreed, h, m) => S(m, h) = S(m, p.top)
        BY <1>2, <1>6, StateMoves
    <2>. QED
        BY <1>11, <2>1, <2>2
<1>13. changed = Writes[agreed[h]]
    <2>1. agreed[h] \in Batch
        BY <1>2, <1>6
    <2>2. Writes[agreed[h]] \subseteq Module
        BY <2>1, RecoveryAssumption
    <2>3. \A m \in Module : m \in changed <=> m \in Writes[agreed[h]]
        BY <1>6, <1>12 DEF RunsAt
    <2>4. changed \subseteq Module
        OBVIOUS
    <2>. HIDE DEF changed
    <2>. QED
        BY <2>2, <2>3, <2>4
<1>. HIDE DEF changed
<1>14. changed \subseteq Module
    BY <1>11
\* The in-memory modules are before the block.
<1>15. ASSUME NEW m \in changed, m \in Memory
       PROVE  m \in atPre /\ m \notin durable /\ m \notin ahead
    <2>1. acc.live[m] = S(m, p.top) /\ acc.expected[m] = S(m, p.top) /\ r.roots[m] # S(m, p.top)
        BY <1>8, <1>10, <1>11, <1>14, <1>15
    <2>2. ~ (DiskFloor(m) > r.height)
        BY <1>5, <1>6, <1>15, FloorMemory
    <2>. QED
        BY <2>1, <2>2
\* The durable ones are not.
<1>16. ASSUME NEW m \in changed, m \in Disk
       PROVE  /\ m \notin atPre
              /\ m \in durable \/ (m \notin Cursor /\ live[m] # S(m, T))
    <2>1. m \notin Memory /\ acc.live[m] = live[m] /\ m \in Module
        BY <1>8, <1>14, <1>16, RecoveryAssumption
    <2>2. S(m, h) # S(m, h - 1)
        BY <1>6, <1>11
    <2>3. live[m] # S(m, p.top)
        <3>1. p.top \in 0 .. h - 1
            BY <1>4, <1>6
        <3>2. CASE live[m] = S(m, T)
            <4>1. T \in h .. Len(agreed)
                BY <1>4, <1>6
            <4>. QED
                BY <1>2, <1>6, <2>2, <3>1, <3>2, <4>1, StateNew
        <3>3. CASE at[n].stage = 3 /\ live[m] = S(m, T + 1)
            <4>1. T + 1 \in h .. Len(agreed)
                BY <1>4, <1>6, <3>3
            <4>. QED
                BY <1>2, <1>6, <2>2, <3>1, <3>3, <4>1, StateNew
        <3>. QED
            BY <1>2, <1>16, <3>2, <3>3 DEF DiskAt, T
    <2>4. m \notin atPre
        BY <1>10, <2>1, <2>3
    <2>5. CASE live[m] = S(m, T)
        <3>1. CASE T = h
            <4>1. acc.live[m] = r.roots[m]
                BY <1>10, <2>1, <2>5, <3>1
            <4>. QED
                BY <2>4, <4>1
        <3>2. CASE T # h
            <4>1. T > mh /\ T > h
                BY <1>2, <1>4, <1>6, <3>2
            <4>2. DiskFloor(m) = SealedFloor(m) /\ SealedFloor(m) \in Nat /\ SealedFloor(m) >= T
                BY <1>16, <2>5, <4>1, FloorKept DEF T, n, mh
            <4>3. DiskFloor(m) > r.height
                BY <1>4, <1>5, <1>6, <4>1, <4>2
            <4>. QED
                BY <2>4, <4>3
        <3>. QED
            BY <2>4, <3>1, <3>2
    <2>6. CASE live[m] # S(m, T) /\ m \in Cursor
        <3>1. DiskFloor(m) = T + 1
            BY <1>16, <2>6, FloorMoved DEF T, n
        <3>2. DiskFloor(m) > r.height
            BY <1>4, <1>5, <1>6, <3>1
        <3>. QED
            BY <2>4, <3>2
    <2>. QED
        BY <2>4, <2>5, <2>6
<1>17. atPre \subseteq changed /\ durable \subseteq changed /\ ahead \subseteq durable
    OBVIOUS
<1>18. CASE Stuck(at) /\ ~ (changed \cap Disk \subseteq durable)
    <2>1. PICK m \in changed \cap Disk : m \notin durable
        BY <1>18
    <2>2. m \notin atPre /\ reruns /\ atPre \cup durable # changed
        BY <1>16, <2>1
    <2>. HIDE DEF atPre, durable, reruns
    <2>3. status = "torn"
        BY <1>9, <2>2
    <2>. HIDE DEF status
    <2>4. new.status = "torn"
        BY <1>1, <2>3
    <2>. QED
        BY <1>18, <2>4 DEF new, acc, r, p, b
<1>19. CASE changed \cap Disk \subseteq durable
    <2>1. durable = changed \cap Disk /\ atPre = changed \cap Memory
        <3>1. \A m \in changed : m \in Memory \/ m \in Disk
            BY <1>14 DEF Module
        <3>2. \A m \in changed : m \in durable <=> m \in Disk
            BY <1>15, <1>19, <3>1, FloorMemory
        <3>3. \A m \in changed : m \in atPre <=> m \in Memory
            BY <1>15, <1>16, <3>1, FloorMemory
        <3>. HIDE DEF durable, atPre
        <3>. QED
            BY <1>17, <3>2, <3>3
    <2>2. atPre \cup durable = changed
        BY <1>14, <2>1 DEF Module
    <2>3. commits = changed \cap Memory
        <3>. HIDE DEF atPre, durable
        <3>1. commits = ToCommit(changed, atPre, durable, changed)
            BY <1>9, <1>13
        <3>2. CASE changed \subseteq durable
            <4>1. changed \cap Memory = {}
                BY <2>1, <3>2, FloorMemory
            <4>. QED
                BY <3>1, <3>2, <4>1 DEF ToCommit
        <3>3. CASE ~ (changed \subseteq durable)
            BY <2>1, <3>1, <3>3 DEF ToCommit
        <3>. QED
            BY <3>2, <3>3
    <2>. HIDE DEF commits
    <2>4. \A m \in Module : after[m] = IF m \in Memory THEN S(m, h) ELSE live[m]
        <3>. TAKE m \in Module
        <3>1. CASE m \in changed /\ m \in Memory
            <4>1. after[m] = Append(acc.live[m], r.height)
                BY <2>3, <3>1
            <4>. QED
                BY <1>5, <1>8, <1>12, <3>1, <4>1
        <3>2. CASE m \notin changed /\ m \in Memory
            <4>1. after[m] = acc.live[m]
                BY <2>3, <3>2
            <4>. QED
                BY <1>8, <1>11, <3>2, <4>1
        <3>3. CASE m \notin Memory
            BY <1>8, <2>3, <3>3
        <3>. QED
            BY <3>1, <3>2, <3>3
    <2>5. after = [m \in Module |-> IF m \in Memory THEN S(m, h) ELSE live[m]]
        BY <2>4
    <2>6. \A m \in changed \ ahead : after[m] = r.roots[m]
        <3>. TAKE m \in changed \ ahead
        <3>1. CASE m \in Memory
            BY <1>10, <1>14, <2>4, <3>1
        <3>2. CASE m \in Disk
            <4>1. m \in durable /\ m \notin ahead /\ m \notin Memory
                BY <1>19, <3>2, FloorMemory
            <4>2. acc.live[m] = r.roots[m]
                BY <4>1
            <4>. QED
                BY <1>8, <1>14, <2>4, <4>1, <4>2
        <3>. QED
            BY <1>14, <3>1, <3>2 DEF Module
    <2>. HIDE DEF after
    <2>7. status = "ok"
        <3>. HIDE DEF atPre, durable, ahead, reruns
        <3>. QED
            BY <1>9, <2>2, <2>6
    <2>. HIDE DEF status
    <2>8. {x \in 1 .. p.top : x > b /\ x > mh} \cup {h} = {x \in 1 .. h : x > b /\ x > mh}
        BY <1>2, <1>4, <1>6
    <2>9. new = [status |-> "ok",
                 live |-> [m \in Module |-> IF m \in Memory THEN S(m, h) ELSE live[m]],
                 expected |-> RootsAt(agreed, h), tip |-> h, epoch |-> e,
                 window |-> manifest.window \cup {x \in 1 .. h : x > b /\ x > mh}, open |-> <<>>]
        BY <1>1, <1>5, <1>8, <2>5, <2>7, <2>8
    <2>10. new = Tracked(b, q, e)
        BY <1>4, <1>5, <1>6, <1>7, <2>9 DEF Tracked, OpenOf, mh
    <2>. QED
        BY <2>10 DEF new, acc, r, p, b, q
<1>20. changed \cap Disk \subseteq durable \/ Stuck(at)
    BY <1>16 DEF Stuck, T, n
<1>. QED
    BY <1>18, <1>19, <1>20

\* Changing one field of the accumulator.
LEMMA SetOpen ==
    ASSUME NEW a, NEW b, NEW c, NEW d, NEW e, NEW f, NEW g, NEW x
    PROVE  [[status |-> a, live |-> b, expected |-> c, tip |-> d, epoch |-> e, window |-> f,
             open |-> g] EXCEPT !.open = x]
           = [status |-> a, live |-> b, expected |-> c, tip |-> d, epoch |-> e, window |-> f,
              open |-> x]
OBVIOUS

LEMMA SetEpoch ==
    ASSUME NEW a, NEW b, NEW c, NEW d, NEW e, NEW f, NEW g, NEW x
    PROVE  [[status |-> a, live |-> b, expected |-> c, tip |-> d, epoch |-> e, window |-> f,
             open |-> g] EXCEPT !.epoch = IF x > @ THEN x ELSE @]
           = [status |-> a, live |-> b, expected |-> c, tip |-> d,
              epoch |-> IF x > e THEN x ELSE e, window |-> f, open |-> g]
OBVIOUS

LEMMA Advance ==
    ASSUME NEW h, NEW b, NEW s, NEW w, NEW x
    PROVE  /\ [[height |-> h, batch |-> b, scheduled |-> s, witnessed |-> w]
                  EXCEPT !.scheduled = x]
              = [height |-> h, batch |-> b, scheduled |-> x, witnessed |-> w]
           /\ [[height |-> h, batch |-> b, scheduled |-> s, witnessed |-> w]
                  EXCEPT !.witnessed = x]
              = [height |-> h, batch |-> b, scheduled |-> s, witnessed |-> x]
OBVIOUS

\* A record that opens or advances a block changes nothing else.
LEMMA TrackedOpen ==
    ASSUME NEW b, NEW p, NEW q, NEW e, q.top = p.top
    PROVE  /\ Tracked(b, q, e) = [Tracked(b, p, e) EXCEPT !.open = OpenOf(q)]
           /\ OpenOf(q) = OpenOf(p) => Tracked(b, q, e) = Tracked(b, p, e)
           /\ Tracked(b, p, e).open = OpenOf(p) /\ Tracked(b, p, e).status = "ok"
<1>1. Reached(q) = Reached(p)
    BY DEF Reached
<1>2. {h \in 1 .. q.top : h > b /\ h > manifest.height}
        = {h \in 1 .. p.top : h > b /\ h > manifest.height}
    OBVIOUS
<1>. DEFINE W == manifest.window \cup {h \in 1 .. p.top : h > b /\ h > manifest.height}
            L == [m \in Module |-> IF m \in Memory THEN StatesOf(agreed, m)[Reached(p)] ELSE live[m]]
            X == RootsAt(agreed, Reached(p))
            t == IF p.top > b THEN Reached(p) ELSE manifest.height
<1>3. Tracked(b, p, e) = [status |-> "ok", live |-> L, expected |-> X, tip |-> t, epoch |-> e,
                          window |-> W, open |-> OpenOf(p)]
    BY DEF Tracked
<1>4. Tracked(b, q, e) = [status |-> "ok", live |-> L, expected |-> X, tip |-> t, epoch |-> e,
                          window |-> W, open |-> OpenOf(q)]
    BY <1>1, <1>2 DEF Tracked
<1>. HIDE DEF W, L, X, t
<1>5. [[status |-> "ok", live |-> L, expected |-> X, tip |-> t, epoch |-> e, window |-> W,
        open |-> OpenOf(p)] EXCEPT !.open = OpenOf(q)]
      = [status |-> "ok", live |-> L, expected |-> X, tip |-> t, epoch |-> e, window |-> W,
         open |-> OpenOf(q)]
    BY SetOpen
<1>6. Tracked(b, q, e) = [Tracked(b, p, e) EXCEPT !.open = OpenOf(q)]
    BY <1>3, <1>4, <1>5, Zenon
<1>. QED
    BY <1>3, <1>4, <1>6

LEMMA OpenOfIs ==
    ASSUME NEW p, p.stage \in 1 .. 3, p.top \in Nat, manifest.height \in Nat,
           p.top >= manifest.height
    PROVE  OpenOf(p) = <<[height |-> p.top + 1, batch |-> agreed[p.top + 1],
                          scheduled |-> p.stage > 1, witnessed |-> p.stage > 2]>>
BY DEF OpenOf

\* The steps of Replay, one per kind of record.
LEMMA ReplaySkips ==
    ASSUME NEW acc, NEW r, acc.status # "ok" \/ ~ InScope(r) \/ r.kind = "pinned"
    PROVE  Replay(acc, r) = acc
BY DEF Replay

LEMMA ReplayCutover ==
    ASSUME NEW acc, NEW r, acc.status = "ok", r.kind = "cutover"
    PROVE  Replay(acc, r) = [acc EXCEPT !.epoch = IF r.epoch > @ THEN r.epoch ELSE @]
BY DEF Replay, InScope, HasHeight

LEMMA ReplayBlock ==
    ASSUME NEW acc, NEW r, acc.status = "ok", r.kind = "block", InScope(r), acc.open = <<>>
    PROVE  Replay(acc, r) = [acc EXCEPT !.open = Opened(r)]
BY DEF Replay

LEMMA ReplaySchedule ==
    ASSUME NEW acc, NEW r, acc.status = "ok", r.kind = "schedule", InScope(r),
           acc.open # <<>>, acc.open[1].height = r.height, ~ acc.open[1].scheduled
    PROVE  Replay(acc, r) = [acc EXCEPT !.open = <<[acc.open[1] EXCEPT !.scheduled = TRUE]>>]
BY DEF Replay

LEMMA ReplayWitness ==
    ASSUME NEW acc, NEW r, acc.status = "ok", r.kind = "witness", InScope(r),
           acc.open # <<>>, acc.open[1].height = r.height, acc.open[1].scheduled,
           ~ acc.open[1].witnessed
    PROVE  Replay(acc, r) = [acc EXCEPT !.open = <<[acc.open[1] EXCEPT !.witnessed = TRUE]>>]
BY DEF Replay

LEMMA ReplaySeal ==
    ASSUME NEW acc, NEW r, acc.status = "ok", r.kind = "seal", InScope(r),
           acc.open # <<>>, acc.open[1].height = r.height
    PROVE  Replay(acc, r) = ReplaySealed(acc, r)
BY DEF Replay

LEMMA ReplayLoneSeal ==
    ASSUME NEW acc, NEW r, acc.status = "ok", r.kind = "seal", InScope(r), acc.open = <<>>
    PROVE  Replay(acc, r) = [acc EXCEPT !.status = "corrupt"]
BY DEF Replay

\* What a boot knows after i records, or why it stopped.
\* The latest epoch the manifest and the records up to i name.
EpochOf(e, i) ==
    /\ e >= manifest.epoch
    /\ \A k \in 1 .. i : journal[k].kind = "cutover" => e >= journal[k].epoch
    /\ e = manifest.epoch \/ \E k \in 1 .. i : journal[k].kind = "cutover" /\ journal[k].epoch = e

Tracks(acc, at, i) ==
    \/ \E e \in 0 .. MaxEpoch : acc = Tracked(at[0].top, at[i], e) /\ EpochOf(e, i)
    \/ /\ acc.status = "corrupt"
       /\ \E h \in (manifest.height + 1) .. Len(agreed) : RefusedHeight(agreed, h)
    \/ acc.status = "torn" /\ Stuck(at)

\* One record of the replay follows the path.
LEMMA ReplayStep ==
    ASSUME Repeating = {}, NEW at, Down(at), manifest.epoch \in Nat,
           NEW i \in 1 .. Len(journal), NEW acc, Tracks(acc, at, i - 1)
    PROVE  Tracks(Replay(acc, journal[i]), at, i)
<1>. DEFINE n == Len(journal)
            mh == manifest.height
            b == at[0].top
            p == at[i - 1]
            q == at[i]
            r == journal[i]
<1>1. CASE acc.status # "ok"
    <2>1. Replay(acc, r) = acc
        BY <1>1, ReplaySkips
    <2>2. \A e : Tracked(b, p, e).status = "ok"
        BY TrackedOpen
    <2>. QED
        BY <1>1, <2>1, <2>2 DEF Tracks
<1>2. CASE acc.status = "ok"
    <2>1. PICK e \in 0 .. MaxEpoch : acc = Tracked(b, p, e) /\ EpochOf(e, i - 1)
        BY <1>2 DEF Tracks
    <2>2. /\ agreed \in Seq(Batch) /\ IsPath(agreed, journal, at) /\ Len(agreed) \in Nat
          /\ mh \in Nat
        BY DEF Down
    <2>3. n \in Nat /\ i - 1 \in 0 .. n /\ i \in 0 .. n /\ n \in 0 .. n /\ 0 \in 0 .. n
        BY <2>2, PathNumbers
    <2>4. /\ p \in Position /\ q \in Position /\ p.top \in Nat /\ p.stage \in 0 .. 3
          /\ q.top \in 0 .. Len(agreed) /\ r \in Record /\ MaxEpoch \in Nat
        <3>1. /\ p \in Position /\ q \in Position /\ p.top \in 0 .. Len(agreed) /\ p.stage \in 0 .. 3
              /\ q.top \in 0 .. Len(agreed) /\ journal \in Seq(Record)
            BY <2>2, <2>3, PathNumbers
        <3>. QED
            BY <3>1, RecoveryAssumption
    <2>5. Legal(agreed, r, p, q)
        BY <2>2 DEF IsPath
    <2>6. \A k \in 1 .. i : k = i \/ k \in 1 .. (i - 1)
        OBVIOUS
    <2>7. acc.open = OpenOf(p)
        BY <2>1, TrackedOpen
    \* It suffices to follow the position.
    <2>8. ASSUME r.kind # "cutover", Replay(acc, r) = Tracked(b, q, e)
          PROVE  Tracks(Replay(acc, r), at, i)
        <3>1. \A k \in 1 .. (i - 1) : k \in 1 .. i
            OBVIOUS
        <3>2. EpochOf(e, i)
            BY <2>1, <2>6, <2>8, <3>1 DEF EpochOf
        <3>. QED
            BY <2>8, <3>2 DEF Tracks
    <2>. HIDE DEF p, q, r, b, mh, n
    <2>9. CASE r.kind = "pinned"
        <3>1. q = p
            BY <2>5, <2>9 DEF Legal
        <3>2. Replay(acc, r) = Tracked(b, q, e)
            BY <2>1, <2>9, <3>1, ReplaySkips
        <3>. QED
            BY <2>8, <2>9, <3>2 DEF r
    <2>10. CASE r.kind = "cutover"
        <3>1. q = p
            BY <2>5, <2>10 DEF Legal
        <3>2. r.epoch \in 0 .. MaxEpoch
            BY <2>4, <2>10 DEF Record
        <3>. DEFINE f == IF r.epoch > e THEN r.epoch ELSE e
        <3>3. f \in 0 .. MaxEpoch /\ f >= e /\ f >= r.epoch /\ f >= manifest.epoch
            BY <2>1, <2>4, <3>2 DEF EpochOf
        <3>4. Replay(acc, r) = [acc EXCEPT !.epoch = IF r.epoch > @ THEN r.epoch ELSE @]
            BY <1>2, <2>10, ReplayCutover
        <3>5. Replay(acc, r) = Tracked(b, q, f)
            <4>. DEFINE W == manifest.window \cup {h \in 1 .. p.top : h > b /\ h > manifest.height}
                        L == [m \in Module |-> IF m \in Memory THEN StatesOf(agreed, m)[Reached(p)]
                                               ELSE live[m]]
                        X == RootsAt(agreed, Reached(p))
                        t == IF p.top > b THEN Reached(p) ELSE manifest.height
            <4>1. acc = [status |-> "ok", live |-> L, expected |-> X, tip |-> t, epoch |-> e,
                         window |-> W, open |-> OpenOf(p)]
                BY <2>1 DEF Tracked
            <4>2. Tracked(b, q, f) = [status |-> "ok", live |-> L, expected |-> X, tip |-> t,
                                      epoch |-> f, window |-> W, open |-> OpenOf(p)]
                BY <3>1 DEF Tracked
            <4>. HIDE DEF W, L, X, t
            <4>3. [[status |-> "ok", live |-> L, expected |-> X, tip |-> t, epoch |-> e,
                    window |-> W, open |-> OpenOf(p)]
                      EXCEPT !.epoch = IF r.epoch > @ THEN r.epoch ELSE @]
                  = [status |-> "ok", live |-> L, expected |-> X, tip |-> t, epoch |-> f,
                     window |-> W, open |-> OpenOf(p)]
                BY SetEpoch
            <4>. QED
                BY <3>4, <4>1, <4>2, <4>3, Zenon
        <3>. HIDE DEF f
        <3>6. \A k \in 1 .. i : journal[k].kind = "cutover" => f >= journal[k].epoch
            <4>. SUFFICES ASSUME NEW k \in 1 .. i, journal[k].kind = "cutover"
                          PROVE  f >= journal[k].epoch
                OBVIOUS
            <4>1. CASE k = i
                BY <3>3, <4>1 DEF r
            <4>2. CASE k \in 1 .. (i - 1)
                <5>1. journal[k] \in Record
                    <6>1. k \in 1 .. Len(journal) /\ journal \in Seq(Record)
                        BY <2>2, <4>2 DEF IsPath
                    <6>. QED
                        BY <6>1
                <5>2. journal[k].epoch \in 0 .. MaxEpoch
                    BY <5>1 DEF Record
                <5>3. e >= journal[k].epoch
                    BY <2>1, <4>2 DEF EpochOf
                <5>. QED
                    BY <3>3, <5>2, <5>3
            <4>. QED
                BY <2>6, <4>1, <4>2
        <3>7. f = manifest.epoch \/ \E k \in 1 .. i : journal[k].kind = "cutover" /\ journal[k].epoch = f
            <4>1. i \in 1 .. i /\ \A k \in 1 .. (i - 1) : k \in 1 .. i
                OBVIOUS
            <4>2. f = r.epoch \/ f = e
                BY DEF f
            <4>. QED
                BY <2>1, <2>10, <4>1, <4>2 DEF EpochOf, r
        <3>8. EpochOf(f, i)
            BY <3>3, <3>6, <3>7 DEF EpochOf
        <3>. QED
            BY <3>3, <3>5, <3>8 DEF Tracks, r, q, b
    <2>11. CASE r.kind \in {"block", "schedule", "witness"}
        <3>1. /\ q.top = p.top /\ q.stage = p.stage + 1 /\ r.height = p.top + 1
              /\ p.stage = IF r.kind = "block" THEN 0 ELSE IF r.kind = "schedule" THEN 1 ELSE 2
              /\ r.kind = "block" => r.batch = agreed[p.top + 1]
            BY <2>5, <2>11 DEF Legal, Pos
        <3>2. HasHeight(r)
            BY <2>11 DEF HasHeight
        <3>3. CASE p.top < mh
            <4>1. ~ InScope(r)
                BY <2>2, <2>4, <3>1, <3>2, <3>3 DEF InScope, mh
            <4>2. OpenOf(q) = OpenOf(p)
                BY <3>1, <3>3 DEF OpenOf, mh
            <4>3. Replay(acc, r) = Tracked(b, q, e)
                BY <2>1, <3>1, <4>1, <4>2, ReplaySkips, TrackedOpen
            <4>. QED
                BY <2>8, <2>11, <4>3 DEF r
        <3>4. CASE ~ (p.top < mh)
            <4>1. InScope(r) /\ p.top >= mh
                BY <2>2, <2>4, <3>1, <3>4 DEF InScope, mh
            <4>2. q.stage \in 1 .. 3 /\ q.top \in Nat /\ q.top >= mh
                BY <2>4, <3>1, <4>1
            <4>3. OpenOf(q) = <<[height |-> q.top + 1, batch |-> agreed[q.top + 1],
                                 scheduled |-> q.stage > 1, witnessed |-> q.stage > 2]>>
                BY <2>2, <4>2, OpenOfIs DEF mh
            <4>4. Tracked(b, q, e) = [acc EXCEPT !.open = OpenOf(q)]
                BY <2>1, <3>1, TrackedOpen
            <4>5. CASE r.kind = "block"
                <5>1. acc.open = <<>> /\ q.stage = 1
                    BY <2>7, <3>1, <4>5 DEF OpenOf
                <5>2. (q.stage > 1) = FALSE /\ (q.stage > 2) = FALSE
                    BY <5>1
                <5>3. OpenOf(q) = Opened(r)
                    BY <3>1, <4>3, <4>5, <5>2 DEF Opened
                <5>4. Replay(acc, r) = Tracked(b, q, e)
                    BY <1>2, <4>1, <4>4, <4>5, <5>1, <5>3, ReplayBlock
                <5>. QED
                    BY <2>8, <2>11, <5>4 DEF r
            <4>6. CASE r.kind \in {"schedule", "witness"}
                <5>1. acc.open = <<[height |-> p.top + 1, batch |-> agreed[p.top + 1],
                                    scheduled |-> p.stage > 1, witnessed |-> p.stage > 2]>>
                    <6>1. p.stage \in 1 .. 3
                        BY <2>4, <3>1, <4>6
                    <6>. QED
                        BY <2>2, <2>4, <2>7, <4>1, <6>1, OpenOfIs DEF mh
                <5>. DEFINE o == [height |-> p.top + 1, batch |-> agreed[p.top + 1],
                                  scheduled |-> p.stage > 1, witnessed |-> p.stage > 2]
                <5>2. acc.open # <<>> /\ acc.open[1] = o
                    BY <5>1
                <5>3. acc.open[1].height = r.height
                    BY <3>1, <5>2
                <5>4. CASE r.kind = "schedule"
                    <6>1. p.stage = 1 /\ q.stage = 2
                        BY <3>1, <5>4
                    <6>2. (p.stage > 1) = FALSE /\ (p.stage > 2) = FALSE
                          /\ (q.stage > 1) = TRUE /\ (q.stage > 2) = FALSE
                        BY <6>1
                    <6>3. o = [height |-> p.top + 1, batch |-> agreed[p.top + 1],
                               scheduled |-> FALSE, witnessed |-> FALSE]
                        BY <6>2, Zenon
                    <6>4. OpenOf(q) = <<[height |-> p.top + 1, batch |-> agreed[p.top + 1],
                                         scheduled |-> TRUE, witnessed |-> FALSE]>>
                        BY <3>1, <4>3, <6>2, Zenon
                    <6>. HIDE DEF o
                    <6>5. ~ acc.open[1].scheduled
                        BY <5>2, <6>3
                    <6>6a. [[height |-> p.top + 1, batch |-> agreed[p.top + 1],
                             scheduled |-> FALSE, witnessed |-> FALSE] EXCEPT !.scheduled = TRUE]
                           = [height |-> p.top + 1, batch |-> agreed[p.top + 1],
                              scheduled |-> TRUE, witnessed |-> FALSE]
                        <7>. DEFINE yes == TRUE
                                    no == FALSE
                        <7>. HIDE DEF yes, no
                        <7>1. [[height |-> p.top + 1, batch |-> agreed[p.top + 1],
                                scheduled |-> no, witnessed |-> no] EXCEPT !.scheduled = yes]
                              = [height |-> p.top + 1, batch |-> agreed[p.top + 1],
                                 scheduled |-> yes, witnessed |-> no]
                            BY Advance
                        <7>. QED
                            BY <7>1, Zenon DEF yes, no
                    <6>6. <<[acc.open[1] EXCEPT !.scheduled = TRUE]>> = OpenOf(q)
                        BY <5>2, <6>3, <6>4, <6>6a, Zenon
                    <6>7. Replay(acc, r) = [acc EXCEPT !.open =
                                              <<[acc.open[1] EXCEPT !.scheduled = TRUE]>>]
                        BY <1>2, <4>1, <5>2, <5>3, <5>4, <6>5, ReplaySchedule, Zenon
                    <6>8. Replay(acc, r) = Tracked(b, q, e)
                        BY <4>4, <6>6, <6>7, Zenon
                    <6>. QED
                        BY <2>8, <2>11, <6>8 DEF r
                <5>5. CASE r.kind = "witness"
                    <6>1. p.stage = 2 /\ q.stage = 3
                        BY <3>1, <5>5
                    <6>2. (p.stage > 1) = TRUE /\ (p.stage > 2) = FALSE
                          /\ (q.stage > 1) = TRUE /\ (q.stage > 2) = TRUE
                        BY <6>1
                    <6>3. o = [height |-> p.top + 1, batch |-> agreed[p.top + 1],
                               scheduled |-> TRUE, witnessed |-> FALSE]
                        BY <6>2, Zenon
                    <6>4. OpenOf(q) = <<[height |-> p.top + 1, batch |-> agreed[p.top + 1],
                                         scheduled |-> TRUE, witnessed |-> TRUE]>>
                        BY <3>1, <4>3, <6>2, Zenon
                    <6>. HIDE DEF o
                    <6>5. acc.open[1].scheduled /\ ~ acc.open[1].witnessed
                        BY <5>2, <6>3
                    <6>6a. [[height |-> p.top + 1, batch |-> agreed[p.top + 1],
                             scheduled |-> TRUE, witnessed |-> FALSE] EXCEPT !.witnessed = TRUE]
                           = [height |-> p.top + 1, batch |-> agreed[p.top + 1],
                              scheduled |-> TRUE, witnessed |-> TRUE]
                        <7>. DEFINE yes == TRUE
                                    no == FALSE
                        <7>. HIDE DEF yes, no
                        <7>1. [[height |-> p.top + 1, batch |-> agreed[p.top + 1],
                                scheduled |-> yes, witnessed |-> no] EXCEPT !.witnessed = yes]
                              = [height |-> p.top + 1, batch |-> agreed[p.top + 1],
                                 scheduled |-> yes, witnessed |-> yes]
                            BY Advance
                        <7>. QED
                            BY <7>1, Zenon DEF yes, no
                    <6>6. <<[acc.open[1] EXCEPT !.witnessed = TRUE]>> = OpenOf(q)
                        BY <5>2, <6>3, <6>4, <6>6a, Zenon
                    <6>7. Replay(acc, r) = [acc EXCEPT !.open =
                                              <<[acc.open[1] EXCEPT !.witnessed = TRUE]>>]
                        BY <1>2, <4>1, <5>2, <5>3, <5>5, <6>5, ReplayWitness, Zenon
                    <6>8. Replay(acc, r) = Tracked(b, q, e)
                        BY <4>4, <6>6, <6>7, Zenon
                    <6>. QED
                        BY <2>8, <2>11, <6>8 DEF r
                <5>. QED
                    BY <4>6, <5>4, <5>5
            <4>. QED
                BY <2>11, <4>5, <4>6
        <3>. QED
            BY <3>3, <3>4
    <2>12. CASE r.kind = "seal"
        <3>1. q.top = p.top + 1 /\ q.stage = 0 /\ r.height = q.top
            BY <2>4, <2>5, <2>12, SealIs
        <3>2. CASE q.top <= mh
            <4>1. ~ InScope(r)
                BY <2>2, <2>4, <2>12, <3>1, <3>2 DEF InScope, HasHeight, mh
            <4>2. Tracked(b, q, e) = Tracked(b, p, e)
                <5>1. Reached(q) = mh /\ Reached(p) = mh
                    BY <2>2, <2>4, <3>1, <3>2 DEF Reached, mh
                <5>2. OpenOf(p) = <<>> /\ OpenOf(q) = <<>>
                    BY <2>2, <2>4, <3>1, <3>2 DEF OpenOf, mh
                <5>3. \A x \in 1 .. q.top : ~ (x > mh)
                    BY <2>2, <2>4, <3>2
                <5>4. \A x \in 1 .. p.top : ~ (x > mh)
                    BY <2>2, <2>4, <3>1, <3>2
                <5>5. {x \in 1 .. p.top : x > b /\ x > mh} = {x \in 1 .. q.top : x > b /\ x > mh}
                    BY <5>3, <5>4
                <5>. QED
                    BY <5>1, <5>2, <5>5 DEF Tracked, mh
            <4>3. Replay(acc, r) = Tracked(b, q, e)
                BY <2>1, <4>1, <4>2, ReplaySkips
            <4>. QED
                BY <2>8, <2>12, <4>3 DEF r
        <3>3. CASE ~ (q.top <= mh)
            <4>1. InScope(r) /\ q.top > mh /\ p.top >= mh
                BY <2>2, <2>4, <3>1, <3>3 DEF InScope, mh
            <4>2. CASE p.stage = 0
                <5>1. acc.open = <<>>
                    BY <2>7, <4>2 DEF OpenOf
                <5>2. Replay(acc, r) = [acc EXCEPT !.status = "corrupt"]
                    BY <1>2, <2>12, <4>1, <5>1, ReplayLoneSeal
                <5>3. Replay(acc, r).status = "corrupt"
                    BY <2>1, <5>2 DEF Tracked
                <5>4. RefusedHeight(agreed, p.top + 1)
                    BY <2>5, <2>12, <4>2 DEF Legal
                <5>5. q.top \in (mh + 1) .. Len(agreed)
                    BY <2>2, <2>4, <4>1
                <5>. QED
                    BY <3>1, <5>3, <5>4, <5>5 DEF Tracks, mh, r
            <4>3. CASE p.stage # 0
                <5>1. p.stage \in 1 .. 3
                    BY <2>4, <4>3
                <5>2. acc.open = <<[height |-> p.top + 1, batch |-> agreed[p.top + 1],
                                    scheduled |-> p.stage > 1, witnessed |-> p.stage > 2]>>
                    BY <2>2, <2>4, <2>7, <4>1, <5>1, OpenOfIs DEF mh
                <5>3. acc.open # <<>> /\ acc.open[1].height = r.height
                    BY <3>1, <5>2
                <5>4. Replay(acc, r) = ReplaySealed(acc, r)
                    BY <1>2, <2>12, <4>1, <5>3, ReplaySeal
                <5>5. at[i].top > manifest.height /\ at[i - 1].stage > 0 /\ journal[i].kind = "seal"
                    BY <2>12, <4>1, <5>1 DEF q, p, r, mh
                <5>6. \/ ReplaySealed(acc, r) = Tracked(b, q, e)
                      \/ ReplaySealed(acc, r).status = "torn" /\ Stuck(at)
                    BY <2>1, <5>5, SealedStep DEF p, q, r, b
                <5>7. CASE ReplaySealed(acc, r) = Tracked(b, q, e)
                    BY <2>8, <2>12, <5>4, <5>7 DEF r
                <5>8. CASE ReplaySealed(acc, r).status = "torn" /\ Stuck(at)
                    BY <5>4, <5>8 DEF Tracks, r
                <5>. QED
                    BY <5>6, <5>7, <5>8
            <4>. QED
                BY <4>2, <4>3
        <3>. QED
            BY <3>2, <3>3
    <2>. QED
        BY <2>5, <2>9, <2>10, <2>11, <2>12 DEF Legal
<1>. QED
    BY <1>1, <1>2

\* The recursion of Replayed, cut at n.
Booted == [status |-> "ok", live |-> live, expected |-> manifest.roots, tip |-> manifest.height,
           epoch |-> manifest.epoch, window |-> manifest.window, open |-> <<>>]

Folds(g, n) == g = [i \in 0 .. n |-> IF i = 0 THEN Booted ELSE Replay(g[i - 1], journal[i])]

\* The recursion has a solution.
LEMMA FoldsExists ==
    ASSUME NEW n \in Nat
    PROVE  \E g : Folds(g, n)
<1>. DEFINE C == {k \in 0 .. n : ~ \E g : Folds(g, k)}
<1>1. ASSUME C # {} PROVE FALSE
    <2>1. PICK k \in C : \A q \in C : k <= q
        <3>1. C \subseteq 0 .. n
            OBVIOUS
        <3>. HIDE DEF C
        <3>. QED
            BY <1>1, <3>1, LeastNat
    <2>2. k \in 0 .. n /\ ~ \E g : Folds(g, k)
        OBVIOUS
    <2>3. CASE k = 0
        <3>1. Folds([i \in 0 .. 0 |-> Booted], 0)
            BY DEF Folds
        <3>. QED
            BY <2>2, <2>3, <3>1
    <2>4. CASE k # 0
        <3>1. k - 1 \in 0 .. n /\ ~ (k <= k - 1) /\ k \in Nat
            BY <2>2, <2>4
        <3>2. k - 1 \notin C
            BY <2>1, <3>1
        <3>3. PICK g : Folds(g, k - 1)
            BY <3>1, <3>2
        <3>. DEFINE f == [i \in 0 .. k |-> IF i = k THEN Replay(g[k - 1], journal[k]) ELSE g[i]]
        <3>4. ASSUME NEW i \in 0 .. k
              PROVE  f[i] = IF i = 0 THEN Booted ELSE Replay(f[i - 1], journal[i])
            <4>1. CASE i = k
                <5>1. k - 1 \in 0 .. k /\ k - 1 # k
                    BY <3>1
                <5>2. f[k - 1] = g[k - 1]
                    BY <5>1
                <5>. QED
                    BY <2>4, <4>1, <5>2
            <4>2. CASE i # k
                <5>1. i \in 0 .. k - 1 /\ (i # 0 => i - 1 \in 0 .. k /\ i - 1 # k)
                    BY <3>1, <4>2
                <5>2. g[i] = IF i = 0 THEN Booted ELSE Replay(g[i - 1], journal[i])
                    BY <3>3, <5>1 DEF Folds
                <5>3. i # 0 => f[i - 1] = g[i - 1]
                    BY <5>1
                <5>. QED
                    BY <4>2, <5>2, <5>3
            <4>. QED
                BY <4>1, <4>2
        <3>5. f = [i \in 0 .. k |-> f[i]]
            OBVIOUS
        <3>. HIDE DEF f
        <3>6. Folds(f, k)
            BY <3>4, <3>5 DEF Folds
        <3>. QED
            BY <2>2, <3>6
    <2>. QED
        BY <2>3, <2>4
<1>. QED
    BY <1>1

\* The replay starts at the manifest.
LEMMA TracksBooted ==
    ASSUME NEW at, Down(at), manifest.epoch \in 0 .. MaxEpoch
    PROVE  Tracks(Booted, at, 0)
<1>. DEFINE mh == manifest.height
            p == at[0]
<1>1. /\ agreed \in Seq(Batch) /\ IsPath(agreed, journal, at) /\ Len(agreed) \in Nat
      /\ mh \in Nat /\ manifest.roots = RootsAt(agreed, mh) /\ live \in [Module -> Seq(Nat)]
      /\ p.top > mh => RootsAt(agreed, p.top) = manifest.roots
      /\ \A m \in Memory : live[m] = manifest.roots[m]
    BY DEF Down
<1>2. p.top \in Nat /\ p.stage = 0
    <2>1. p.top \in 0 .. Len(agreed)
        BY <1>1, PathNumbers
    <2>. QED
        BY <1>1, <2>1 DEF IsPath
<1>3. RootsAt(agreed, Reached(p)) = manifest.roots
    BY <1>1 DEF Reached
<1>4. live = [m \in Module |-> IF m \in Memory THEN StatesOf(agreed, m)[Reached(p)] ELSE live[m]]
    <2>1. \A m \in Memory : live[m] = StatesOf(agreed, m)[Reached(p)]
        BY <1>1, <1>3 DEF RootsAt, Module
    <2>. QED
        BY <1>1, <2>1
<1>5. manifest.window \cup {h \in 1 .. p.top : h > p.top /\ h > mh} = manifest.window
    BY <1>2
<1>6. OpenOf(p) = <<>> /\ ~ (p.top > p.top)
    BY <1>2 DEF OpenOf
<1>7. Booted = Tracked(p.top, p, manifest.epoch)
    BY <1>3, <1>4, <1>5, <1>6 DEF Booted, Tracked
<1>8. EpochOf(manifest.epoch, 0)
    BY RecoveryAssumption DEF EpochOf
<1>. QED
    BY <1>7, <1>8 DEF Tracks

\* The whole replay follows the path.
LEMMA ReplayedTracks ==
    ASSUME Repeating = {}, NEW at, Down(at), manifest.epoch \in 0 .. MaxEpoch
    PROVE  Tracks(Replayed, at, Len(journal))
<1>. DEFINE n == Len(journal)
            f == CHOOSE g : Folds(g, n)
<1>1. Replayed = f[n]
    BY DEF Replayed, Folds, Booted
<1>2. n \in Nat /\ manifest.epoch \in Nat
    <2>1. agreed \in Seq(Batch) /\ IsPath(agreed, journal, at)
        BY DEF Down
    <2>. QED
        BY <2>1, RecoveryAssumption, PathNumbers
<1>3. Folds(f, n)
    BY <1>2, FoldsExists
<1>. HIDE DEF f
<1>. DEFINE C == {i \in 0 .. n : ~ Tracks(f[i], at, i)}
<1>4. ASSUME C # {} PROVE FALSE
    <2>1. PICK c \in C : \A q \in C : c <= q
        <3>1. C \subseteq 0 .. n
            OBVIOUS
        <3>. HIDE DEF C
        <3>. QED
            BY <1>2, <1>4, <3>1, LeastNat
    <2>2. c \in 0 .. n /\ ~ Tracks(f[c], at, c)
        OBVIOUS
    <2>3. f[c] = IF c = 0 THEN Booted ELSE Replay(f[c - 1], journal[c])
        BY <1>3, <2>2 DEF Folds
    <2>4. CASE c = 0
        BY <2>2, <2>3, <2>4, TracksBooted
    <2>5. CASE c # 0
        <3>1. c - 1 \in 0 .. n /\ ~ (c <= c - 1) /\ c \in 1 .. n
            BY <1>2, <2>2, <2>5
        <3>2. Tracks(f[c - 1], at, c - 1)
            BY <2>1, <3>1
        <3>3. Tracks(Replay(f[c - 1], journal[c]), at, c)
            BY <1>2, <3>1, <3>2, ReplayStep
        <3>. QED
            BY <2>2, <2>3, <2>5, <3>3
    <2>. QED
        BY <2>4, <2>5
<1>5. Tracks(f[n], at, n)
    BY <1>2, <1>4
<1>. QED
    BY <1>1, <1>5

--------------------------------------------------------------------------------
(***************************************************************************)
(* What a boot makes of it                                                 *)
(***************************************************************************)
\* The modules that the open block moved before the crash.
MovedTo(at) == {m \in Disk : live[m] # StatesOf(agreed, m)[at[Len(journal)].top]}

\* The modules the open block moved are those whose last height is its.
LEMMA MovedIs ==
    ASSUME NEW at, Down(at), MovedTo(at) # {}
    PROVE  /\ MovedTo(at) = {m \in Disk : live[m] # <<>> /\ Last(live[m]) = TrailingHeight}
           /\ TrailingHeight # 0 /\ at[Len(journal)].stage = 3
           /\ MovedTo(at) \subseteq Writes[agreed[at[Len(journal)].top + 1]]
           /\ MovedTo(at) \cap Claims = MovedTo(at) \cap Cursor
<1>. DEFINE T == at[Len(journal)].top
<1>1. agreed \in Seq(Batch) /\ IsPath(agreed, journal, at) /\ Len(agreed) \in Nat
    BY DEF Down
<1>2. T \in 0 .. Len(agreed)
    BY <1>1, PathNumbers
<1>3. ASSUME NEW m \in MovedTo(at)
      PROVE  /\ at[Len(journal)].stage = 3 /\ TrailingHeight = T + 1
             /\ live[m] # <<>> /\ Last(live[m]) = TrailingHeight
             /\ m \in Writes[agreed[T + 1]] /\ (m \in Claims <=> m \in Cursor) /\ m \in Disk
    <2>1. m \in Disk /\ live[m] # StatesOf(agreed, m)[T]
        BY DEF MovedTo
    <2>. QED
        BY <2>1, FloorMoved DEF RunsAt
<1>4. TrailingHeight = T + 1 /\ TrailingHeight # 0 /\ at[Len(journal)].stage = 3
    <2>1. TrailingHeight = T + 1 /\ at[Len(journal)].stage = 3
        BY <1>3
    <2>. QED
        BY <1>2, <2>1
<1>5. ASSUME NEW m \in Disk, live[m] # <<>>, Last(live[m]) = TrailingHeight, m \notin MovedTo(at)
      PROVE  FALSE
    <2>. DEFINE s == live[m]
    <2>1. s = StatesOf(agreed, m)[T]
        BY <1>5 DEF MovedTo
    <2>2. s \in Seq(1 .. T)
        BY <1>1, <1>2, <2>1, StateIs DEF StateFacts
    <2>. HIDE DEF s
    <2>3. s # <<>> /\ s[Len(s)] = T + 1
        BY <1>4, <1>5 DEF Last, s
    <2>4. Len(s) \in Nat /\ Len(s) # 0
        BY <2>2, <2>3
    <2>5. Len(s) \in 1 .. Len(s)
        BY <2>4
    <2>6. s[Len(s)] \in 1 .. T
        BY <2>2, <2>5, ElementOfSeq
    <2>. QED
        BY <1>2, <2>3, <2>6
<1>6. MovedTo(at) = {m \in Disk : live[m] # <<>> /\ Last(live[m]) = TrailingHeight}
    BY <1>3, <1>5
<1>. QED
    BY <1>3, <1>4, <1>6

\* The causes of a refusal.
CorruptCause == \E h \in (manifest.height + 1) .. Len(agreed) : RefusedHeight(agreed, h)
TornCause ==
    LET moved == {m \in Disk : live[m] # <<>> /\ Last(live[m]) = TrailingHeight}
    IN TrailingHeight # 0 /\ (moved \ Cursor # {} \/ Cardinality(moved) > 1)

\* A moved module without a cursor is a cause to refuse.
LEMMA StuckIsCause ==
    ASSUME NEW at, Down(at), NEW m \in MovedTo(at), m \notin Cursor
    PROVE  TornCause
BY MovedIs DEF TornCause

\* A boot that goes on, at the top of the journal.
Boots(acc, out, at, e) ==
    LET p == at[Len(journal)]
    IN /\ e \in 0 .. MaxEpoch /\ EpochOf(e, Len(journal))
       /\ acc = Tracked(at[0].top, p, e)
       /\ out.phase = IF p.stage = 0 THEN "idle" ELSE IF p.stage = 3 THEN "commit" ELSE "apply"
       /\ out.todo = IF p.stage = 3 THEN Writes[agreed[p.top + 1]] \ MovedTo(at) ELSE {}

\* A boot continues where the path ends, or refuses for a cause.
LEMMA BootIs ==
    ASSUME Repeating = {}, NEW at, Down(at), manifest.epoch \in 0 .. MaxEpoch
    PROVE  \/ \E e : Boots(Replayed, Outcome(Replayed), at, e)
           \/ Outcome(Replayed).phase = "corrupt" /\ CorruptCause
           \/ Outcome(Replayed).phase = "torn" /\ TornCause
<1>. DEFINE n == Len(journal)
            p == at[n]
            T == p.top
            mh == manifest.height
            b == at[0].top
            acc == Replayed
            out == Outcome(acc)
            moved == {m \in Module : acc.live[m] # acc.expected[m]}
<1>1. Tracks(acc, at, n)
    BY ReplayedTracks
<1>. HIDE DEF acc
<1>2. /\ agreed \in Seq(Batch) /\ IsPath(agreed, journal, at) /\ Len(agreed) \in Nat
      /\ mh \in Nat /\ mh <= T /\ DiskAt(agreed, p, live)
    BY DEF Down
<1>3. T \in Nat /\ p.stage \in 0 .. 3
    <2>1. T \in 0 .. Len(agreed) /\ p.stage \in 0 .. 3
        BY <1>2, PathNumbers
    <2>. QED
        BY <2>1
<1>4. CASE acc.status # "ok"
    <2>1. \A e : Tracked(b, p, e).status = "ok"
        BY TrackedOpen
    <2>2. out.phase = acc.status
        BY <1>4 DEF Outcome
    <2>3. Stuck(at) => TornCause
        BY StuckIsCause DEF Stuck, MovedTo
    <2>. QED
        BY <1>1, <1>4, <2>1, <2>2, <2>3 DEF Tracks, CorruptCause, acc
<1>5. CASE acc.status = "ok"
    <2>1. PICK e \in 0 .. MaxEpoch : acc = Tracked(b, p, e) /\ EpochOf(e, n)
        BY <1>1, <1>5 DEF Tracks
    <2>2. Reached(p) = T
        BY <1>2, <1>3 DEF Reached
    <2>3. /\ acc.expected = RootsAt(agreed, T) /\ acc.open = OpenOf(p)
          /\ acc.live = [m \in Module |-> IF m \in Memory THEN StatesOf(agreed, m)[T] ELSE live[m]]
        BY <2>1, <2>2 DEF Tracked
    <2>4. moved = MovedTo(at)
        <3>1. \A m \in Module : acc.expected[m] = StatesOf(agreed, m)[T]
            BY <2>3 DEF RootsAt
        <3>2. \A m \in Module : acc.live[m] = IF m \in Memory THEN StatesOf(agreed, m)[T] ELSE live[m]
            BY <2>3
        <3>3. \A m \in Module : m \in Disk <=> m \notin Memory
            BY RecoveryAssumption DEF Module
        <3>4. Disk \subseteq Module
            BY DEF Module
        <3>. QED
            BY <3>1, <3>2, <3>3, <3>4 DEF MovedTo
    <2>. HIDE DEF moved
    <2>5. p.stage # 3 => MovedTo(at) = {}
        BY MovedIs
    <2>6. CASE p.stage = 0
        <3>1. acc.open = <<>> /\ moved = {}
            BY <2>3, <2>4, <2>5, <2>6 DEF OpenOf
        <3>2. out = [phase |-> "idle", todo |-> {}]
            BY <1>5, <3>1 DEF Outcome, moved
        <3>3. Boots(acc, out, at, e)
            BY <2>1, <2>6, <3>2 DEF Boots
        <3>. QED
            BY <3>3 DEF acc
    <2>7. CASE p.stage # 0
        <3>1. p.stage \in 1 .. 3 /\ T >= mh
            BY <1>2, <1>3, <2>7
        <3>2. acc.open = <<[height |-> T + 1, batch |-> agreed[T + 1],
                            scheduled |-> p.stage > 1, witnessed |-> p.stage > 2]>>
            BY <1>2, <1>3, <2>3, <3>1, OpenOfIs
        <3>. DEFINE open == acc.open[1]
                    o == [height |-> T + 1, batch |-> agreed[T + 1],
                          scheduled |-> p.stage > 1, witnessed |-> p.stage > 2]
        <3>3. acc.open # <<>> /\ open = o
            BY <3>2
        <3>4. open.batch = agreed[T + 1] /\ open.witnessed = (p.stage > 2)
            <4>. HIDE DEF open
            <4>. QED
                BY <3>3, Zenon
        <3>. HIDE DEF o
        <3>5. CASE p.stage # 3
            <4>1. ~ (p.stage > 2)
                BY <3>1, <3>5
            <4>2. ~ open.witnessed
                BY <3>4, <4>1, Zenon
            <4>3. moved = {}
                BY <2>4, <2>5, <3>5
            <4>4. out = [phase |-> "apply", todo |-> {}]
                BY <1>5, <3>3, <4>2, <4>3 DEF Outcome, moved
            <4>5. Boots(acc, out, at, e)
                BY <2>1, <2>7, <3>5, <4>4 DEF Boots
            <4>. QED
                BY <4>5 DEF acc
        <3>6. CASE p.stage = 3
            <4>1. open.witnessed
                <5>1. p.stage > 2
                    BY <3>6
                <5>. QED
                    BY <3>4, <5>1, Zenon
            <4>2. out = IF TrailingRefused(moved, open.batch) \/ open.batch \in Repeating
                        THEN [phase |-> "torn", todo |-> {}]
                        ELSE [phase |-> "commit", todo |-> TrailingTodo(Writes[open.batch], moved)]
                BY <1>5, <3>3, <4>1 DEF Outcome, moved
            <4>3. CASE TrailingRefused(moved, open.batch)
                <5>1. out.phase = "torn"
                    BY <4>2, <4>3
                <5>. DEFINE verified == moved \cap Claims
                <5>2. \/ verified # {} /\ (moved # verified \/ Cardinality(verified) > 1)
                      \/ ~ (moved \subseteq Writes[agreed[T + 1]])
                    BY <3>4, <4>3 DEF TrailingRefused
                <5>3. moved # {}
                    BY <5>2
                <5>4. /\ moved = {m \in Disk : live[m] # <<>> /\ Last(live[m]) = TrailingHeight}
                      /\ TrailingHeight # 0 /\ moved \subseteq Writes[agreed[T + 1]]
                      /\ verified = moved \cap Cursor
                    BY <2>4, <5>3, MovedIs
                <5>5. TornCause
                    BY <5>2, <5>4 DEF TornCause
                <5>. QED
                    BY <5>1, <5>5 DEF acc
            <4>4. CASE ~ TrailingRefused(moved, open.batch)
                <5>1. out = [phase |-> "commit", todo |-> Writes[agreed[T + 1]] \ MovedTo(at)]
                    BY <2>4, <3>4, <4>2, <4>4 DEF TrailingTodo
                <5>2. Boots(acc, out, at, e)
                    BY <2>1, <3>6, <5>1 DEF Boots
                <5>. QED
                    BY <5>2 DEF acc
            <4>. QED
                BY <4>3, <4>4
        <3>. QED
            BY <3>5, <3>6
    <2>. QED
        BY <2>6, <2>7
<1>. QED
    BY <1>4, <1>5

(***************************************************************************)
(* The invariant.  at is the position after each retained record; what the *)
(* journal and the manifest hold is stated along it, and so is where each  *)
(* phase of the process stands.                                            *)
(***************************************************************************)
Typed ==
    /\ TypeOK /\ start \in Nat /\ journal \in Seq(Record)
    /\ manifest \in [height : 0 .. MaxHeight, epoch : 0 .. MaxEpoch, roots : Roots,
                     window : SUBSET Height, pos : Nat]
    /\ finalized \in [height : 0 .. MaxHeight, roots : Roots]
    /\ prev \in [height : 0 .. MaxHeight, pos : Nat]

\* The manifest stands at a block boundary of the journal, at most the tip.
\* Its height may lag behind that boundary, but then no module moved between.
ManifestInv(at) ==
    /\ start <= manifest.pos /\ manifest.pos <= synced
    /\ at[manifest.pos - start].stage = 0
    /\ manifest.height <= at[manifest.pos - start].top
    /\ at[manifest.pos - start].top <= tip
    /\ manifest.roots = RootsAt(agreed, manifest.height)
    /\ manifest.roots = RootsAt(agreed, at[manifest.pos - start].top)
    /\ manifest.window = Newest(1 .. at[manifest.pos - start].top)

\* The epoch the process is in is on disk.
EpochKept ==
    \/ epoch <= manifest.epoch
    \/ \E i \in 1 .. (synced - start) : journal[i].kind = "cutover" /\ journal[i].epoch >= epoch

\* The tip is the manifest's height or sealed by a retained record.
TipInv(at) == at[0].top <= tip /\ (tip > at[0].top \/ tip = manifest.height)

\* Wherever a crash cuts the journal, the durable modules match the cut.
DurableInv(at) ==
    \A i \in (synced - start) .. Len(journal) :
        at[i].top \in {tip, tip + 1} /\ DiskAt(agreed, at[i], live)

Store(at) ==
    /\ IsPath(agreed, journal, at)
    /\ ManifestInv(at)
    /\ EpochKept
    /\ TipInv(at)
    /\ DurableInv(at)

\* Between a checkpoint and its prune, the previous one is still remembered.
PrevInv(at) ==
    /\ Running /\ phase # "pruning" => prev.pos = manifest.pos
    /\ phase = "pruning" =>
          /\ start <= prev.pos /\ prev.pos <= manifest.pos
          /\ at[prev.pos - start].stage = 0 /\ at[prev.pos - start].top < tip
          /\ epoch <= manifest.epoch

\* The published boundary may lag behind the tip, never behind the manifest.
FinalInv ==
    Running =>
      /\ finalized.roots = RootsAt(agreed, finalized.height)
      /\ manifest.height <= finalized.height /\ finalized.height <= tip
      /\ phase \in {"cutover", "entered"} => finalized.height = tip

CutoverInv ==
    phase = "cutover" =>
        /\ epoch < MaxEpoch /\ journal # <<>>
        /\ journal[Len(journal)] = CutoverRec(epoch + 1)

\* Modules to commit are at the tip, the others at the open block.
Halfway(log, t, rest) ==
    [m \in Module |-> IF m \in rest THEN StatesOf(log, m)[t] ELSE StatesOf(log, m)[t + 1]]

PhaseInv(at) ==
    /\ Running => window = Newest(1 .. tip)
    /\ phase \in {"idle", "cutover", "entered", "pruning"} =>
          at[Len(journal)] = Pos(tip, 0) /\ live = RootsAt(agreed, tip)
    /\ phase \in {"entered", "pruning"} => IsDurable
    /\ phase = "apply" => at[Len(journal)] = Pos(tip, 2) /\ live = RootsAt(agreed, tip)
    /\ phase = "commit" =>
          /\ at[Len(journal)] = Pos(tip, 3)
          /\ live = Halfway(agreed, tip, todo)
          /\ todo \subseteq Writes[agreed[tip + 1]]
    /\ phase = "sealed" => at[Len(journal)] = Pos(tip + 1, 0) /\ live = RootsAt(agreed, tip + 1)
    /\ phase = "down" => IsDurable /\ \A m \in Memory : live[m] = manifest.roots[m]

Process(at) == PrevInv(at) /\ FinalInv /\ CutoverInv /\ PhaseInv(at)

IInv ==
    /\ Typed
    /\ RefusedForCause
    /\ Refused \/ \E at : Store(at) /\ Process(at)

\* The agreed states are typed.
LEMMA RootsTyped ==
    ASSUME Len(agreed) \in Nat, Len(agreed) <= MaxHeight, NEW t \in 0 .. Len(agreed)
    PROVE  RootsAt(agreed, t) \in Roots
<1>1. ASSUME NEW m \in Module
      PROVE  StatesOf(agreed, m)[t] \in Seq(Height)
    <2>1. StatesOf(agreed, m)[t] \in Seq(1 .. t)
        BY StateIs DEF StateFacts
    <2>2. 1 .. t \subseteq Height
        BY RecoveryAssumption DEF Height
    <2>. QED
        BY <2>1, <2>2, SeqMonotonic
<1>. QED
    BY <1>1 DEF RootsAt, Roots

\* A fresh node.
LEMMA InitIs ==
    ASSUME Init
    PROVE  IInv
<1>. USE DEF Init
<1>0. 0 \in 0 .. MaxHeight /\ 0 \in 0 .. MaxEpoch /\ MaxHeight \in Nat /\ WindowDepth \in Nat
    BY RecoveryAssumption
<1>1. Empty \in Roots /\ Cardinality({}) = 0
    BY EmptySeq, FS_EmptySet DEF Empty, Roots
<1>2. Empty = RootsAt(agreed, 0)
    <2>1. Len(agreed) = 0
        BY EmptySeq
    <2>2. \A m \in Module : StatesOf(agreed, m)[0] = <<>>
        BY <2>1, StatesUnfold
    <2>. QED
        BY <2>2 DEF Empty, RootsAt
<1>3. Newest(1 .. 0) = {}
    BY NewestSmall
<1>4. Typed
    <2>1. agreed \in Seq(Batch) /\ journal \in Seq(Record) /\ Len(agreed) = 0 /\ Len(journal) = 0
        BY EmptySeq
    <2>2. Cardinality(window) <= WindowDepth
        BY <1>0, <1>1
    <2>3. {anchored, inPass, booting} \subseteq BOOLEAN
        BY Zenon
    <2>4. synced \in start .. End /\ finalized.height \in 0 .. MaxHeight /\ phase \in Phase
        BY <1>0, <2>1 DEF End, Phase
    <2>5. Len(agreed) <= MaxHeight /\ tip \in 0 .. Len(agreed)
        BY <1>0, <2>1
    <2>6. TypeOK
        BY <1>0, <1>1, <2>1, <2>2, <2>3, <2>4, <2>5 DEF TypeOK
    <2>. QED
        BY <1>0, <1>1, <2>1, <2>6 DEF Typed
<1>5. PICK at : at = [i \in 0 .. 0 |-> Pos(0, 0)]
    OBVIOUS
<1>6. at[0] = Pos(0, 0) /\ Len(journal) = 0 /\ Len(agreed) = 0 /\ Pos(0, 0) \in Position
      /\ Pos(0, 0).top = 0 /\ Pos(0, 0).stage = 0
    BY <1>5, PosIs
<1>7. IsPath(agreed, journal, at)
    <2>1. journal \in Seq(Record) /\ at \in [0 .. Len(journal) -> Position]
        BY <1>5, <1>6, EmptySeq
    <2>2. at[0].stage = 0
        BY <1>6
    <2>3. \A i \in 0 .. Len(journal) : OpenAt(agreed, at[i])
        BY <1>6 DEF OpenAt
    <2>4. \A i \in 1 .. Len(journal) : Legal(agreed, journal[i], at[i - 1], at[i])
        BY <1>6
    <2>5. \A i, k \in 0 .. Len(journal) : i <= k => at[i].top <= at[k].top
        BY <1>6
    <2>. QED
        BY <2>1, <2>2, <2>3, <2>4, <2>5 DEF IsPath
<1>8. DiskAt(agreed, at[0], live)
    BY <1>2, <1>6 DEF DiskAt, RootsAt, Module
<1>9. Store(at)
    BY <1>2, <1>3, <1>6, <1>7, <1>8 DEF Store, ManifestInv, EpochKept, TipInv, DurableInv
<1>10. Process(at)
    BY <1>2, <1>3, <1>6 DEF Process, PrevInv, FinalInv, CutoverInv, PhaseInv
<1>11. RefusedForCause
    BY DEF RefusedForCause
<1>. QED
    BY <1>4, <1>9, <1>10, <1>11 DEF IInv

\* The numbers of the invariant, for the arithmetic below.
LEMMA Facts ==
    ASSUME Typed, NEW at, Store(at)
    PROVE  /\ agreed \in Seq(Batch) /\ Len(agreed) \in Nat /\ Len(agreed) <= MaxHeight
           /\ MaxHeight \in Nat
           /\ tip \in Nat /\ tip \in 0 .. Len(agreed)
           /\ start \in Nat /\ synced \in Nat /\ Len(journal) \in Nat
           /\ synced - start \in 0 .. Len(journal)
           /\ manifest.pos \in Nat /\ manifest.pos - start \in 0 .. synced - start
           /\ manifest.pos - start \in 0 .. Len(journal)
           /\ manifest.height \in Nat /\ manifest.epoch \in 0 .. MaxEpoch /\ MaxEpoch \in Nat
           /\ \A i \in 0 .. Len(journal) : /\ at[i] \in Position /\ at[i].top \in 0 .. Len(agreed)
                                           /\ at[i].stage \in 0 .. 3
<1>1. agreed \in Seq(Batch) /\ Len(agreed) <= MaxHeight /\ synced \in start .. End
      /\ tip \in 0 .. Len(agreed) /\ start \in Nat /\ journal \in Seq(Record)
    BY DEF Typed, TypeOK
<1>2. Len(agreed) \in Nat /\ Len(journal) \in Nat
    BY <1>1, LenProperties
<1>3. manifest.pos \in Nat /\ manifest.height \in 0 .. MaxHeight /\ manifest.epoch \in 0 .. MaxEpoch
    BY DEF Typed
<1>4. MaxHeight \in Nat /\ MaxEpoch \in Nat
    BY RecoveryAssumption
<1>5. start <= manifest.pos /\ manifest.pos <= synced
    BY DEF Store, ManifestInv
<1>6. IsPath(agreed, journal, at)
    BY DEF Store
<1>7. \A i \in 0 .. Len(journal) : /\ at[i] \in Position /\ at[i].top \in 0 .. Len(agreed)
                                   /\ at[i].stage \in 0 .. 3
    BY <1>2, <1>6, PathNumbers
<1>8. /\ synced \in Nat /\ synced - start \in 0 .. Len(journal)
      /\ manifest.pos - start \in 0 .. synced - start /\ manifest.pos - start \in 0 .. Len(journal)
      /\ tip \in Nat /\ manifest.height \in Nat
    BY <1>1, <1>2, <1>3, <1>4, <1>5, SMTT(30) DEF End
<1>. QED
    BY <1>1, <1>2, <1>3, <1>4, <1>7, <1>8

\* What the writes of the drain leave alone.
Steady == UNCHANGED <<agreed, start, synced, manifest, floor, live, tip, window, epoch, finalized,
                      prev>>

\* A durable journal that grows keeps what the disk holds.
LEMMA StoreWritten ==
    ASSUME Typed, NEW at, Store(at), IsDurable, Steady, NEW w, IsPath(agreed, journal', w),
           Len(journal') \in Nat, Len(journal) <= Len(journal'),
           \A i \in 1 .. Len(journal) : journal'[i] = journal[i],
           \A i \in 0 .. Len(journal) : w[i] = at[i],
           \A i \in Len(journal) + 1 .. Len(journal') :
               w[i].top \in {tip, tip + 1} /\ DiskAt(agreed, w[i], live)
    PROVE  Store(w)'
<1>. USE DEF Steady
<1>1. Len(journal) \in Nat /\ manifest.pos - start \in 0 .. Len(journal)
      /\ synced - start = Len(journal) /\ start \in Nat /\ synced \in Nat
    BY Facts DEF IsDurable, End
<1>2. w[manifest.pos - start] = at[manifest.pos - start] /\ w[0] = at[0]
    BY <1>1
<1>3. IsPath(agreed, journal, w)'
    OBVIOUS
<1>4. ManifestInv(w)'
    BY <1>2 DEF Store, ManifestInv
<1>5. EpochKept'
    BY <1>1 DEF Store, EpochKept
<1>6. TipInv(w)'
    BY <1>2 DEF Store, TipInv
<1>7. DurableInv(w)'
    <2>. SUFFICES ASSUME NEW i \in (synced - start) .. Len(journal')
                  PROVE  w[i].top \in {tip, tip + 1} /\ DiskAt(agreed, w[i], live)
        BY DEF DurableInv
    <2>1. CASE i = Len(journal)
        <3>1. Len(journal) \in (synced - start) .. Len(journal) /\ w[i] = at[Len(journal)]
            BY <1>1, <2>1
        <3>. QED
            BY <3>1 DEF Store, DurableInv
    <2>2. CASE i # Len(journal)
        BY <1>1, <2>2
    <2>. QED
        BY <2>1, <2>2
<1>. QED
    BY <1>3, <1>4, <1>5, <1>6, <1>7 DEF Store

\* And it stays typed.
LEMMA TypedWritten ==
    ASSUME Typed, Steady, journal' \in Seq(Record), Len(journal) <= Len(journal'),
           phase' \in Phase, todo' \subseteq Module, {anchored', inPass', booting'} \subseteq BOOLEAN
    PROVE  Typed'
<1>. USE DEF Steady
<1>1. synced' \in start' .. End'
    <2>1. Len(journal) \in Nat /\ Len(journal') \in Nat /\ start \in Nat
          /\ synced \in start .. (start + Len(journal))
        BY LenProperties DEF Typed, TypeOK, End
    <2>. QED
        BY <2>1 DEF End
<1>2. TypeOK'
    BY <1>1 DEF Typed, TypeOK
<1>. QED
    BY <1>2 DEF Typed

\* One record more.
LEMMA Written ==
    ASSUME Typed, NEW at, Store(at), IsDurable, Steady, NEW r \in Record, journal' = journal \o <<r>>,
           NEW q \in Position, OpenAt(agreed, q), Legal(agreed, r, at[Len(journal)], q),
           q.top \in {tip, tip + 1}, DiskAt(agreed, q, live)
    PROVE  /\ \E w : Store(w)' /\ w[Len(journal')] = q
           /\ journal' \in Seq(Record) /\ Len(journal') = Len(journal) + 1 /\ Len(journal) \in Nat
           /\ journal'[Len(journal')] = r
<1>1. PICK w : w = Longer(at, Len(journal), q)
    OBVIOUS
<1>2. IsPath(agreed, journal, at)
    BY DEF Store
<1>3. /\ IsPath(agreed, journal', w) /\ Len(journal') = Len(journal) + 1
      /\ w[Len(journal) + 1] = q /\ \A i \in 0 .. Len(journal) : w[i] = at[i]
    BY <1>1, <1>2, PathLonger
<1>4. journal \in Seq(Record) /\ Len(journal) \in Nat
    BY <1>2, LenProperties DEF IsPath
<1>5. /\ journal' \in Seq(Record) /\ \A i \in 1 .. Len(journal) : journal'[i] = journal[i]
      /\ journal'[Len(journal) + 1] = r
    <2>. DEFINE one == <<r>>
    <2>1. one \in Seq(Record) /\ Len(one) = 1 /\ one[1] = r
        OBVIOUS
    <2>. HIDE DEF one
    <2>2. journal' = journal \o one
        BY DEF one
    <2>. QED
        BY <1>4, <2>1, <2>2, ConcatProperties
<1>6. \A i \in Len(journal) + 1 .. Len(journal') : i = Len(journal) + 1
    BY <1>3, <1>4
<1>7. Len(journal') \in Nat /\ Len(journal) <= Len(journal')
    BY <1>3, <1>4
<1>8. Store(w)'
    BY <1>3, <1>5, <1>6, <1>7, StoreWritten
<1>. QED
    BY <1>3, <1>4, <1>5, <1>8

\* The records.
LEMMA RecordsTyped ==
    /\ \A b \in Batch : PinnedRec(b) \in Record /\ PinnedRec(b).kind = "pinned"
    /\ \A h \in Nat, b \in Batch :
          BlockRec(h, b) \in Record /\ BlockRec(h, b).kind = "block"
          /\ BlockRec(h, b).height = h /\ BlockRec(h, b).batch = b
    /\ \A h \in Nat : ScheduleRec(h) \in Record /\ ScheduleRec(h).kind = "schedule"
                      /\ ScheduleRec(h).height = h
    /\ \A h \in Nat : WitnessRec(h) \in Record /\ WitnessRec(h).kind = "witness"
                      /\ WitnessRec(h).height = h
    /\ \A e \in 0 .. MaxEpoch : CutoverRec(e) \in Record /\ CutoverRec(e).kind = "cutover"
                                /\ CutoverRec(e).epoch = e
<1>1. \A b \in Batch : PinnedRec(b) \in Record /\ PinnedRec(b).kind = "pinned"
    BY DEF PinnedRec, Record
<1>2. \A h \in Nat, b \in Batch :
          BlockRec(h, b) \in Record /\ BlockRec(h, b).kind = "block"
          /\ BlockRec(h, b).height = h /\ BlockRec(h, b).batch = b
    BY DEF BlockRec, Record
<1>3. \A h \in Nat : ScheduleRec(h) \in Record /\ ScheduleRec(h).kind = "schedule"
                      /\ ScheduleRec(h).height = h
    BY DEF ScheduleRec, Record
<1>4. \A h \in Nat : WitnessRec(h) \in Record /\ WitnessRec(h).kind = "witness"
                      /\ WitnessRec(h).height = h
    BY DEF WitnessRec, Record
<1>5. \A e \in 0 .. MaxEpoch : CutoverRec(e) \in Record /\ CutoverRec(e).kind = "cutover"
                                /\ CutoverRec(e).epoch = e
    BY DEF CutoverRec, Record
<1>. QED
    BY <1>1, <1>2, <1>3, <1>4, <1>5

\* A seal.
LEMMA SealTyped ==
    ASSUME NEW h \in Nat, NEW a \in BOOLEAN, NEW s \in Roots
    PROVE  /\ SealRec(h, a, s) \in Record /\ SealRec(h, a, s).kind = "seal"
           /\ SealRec(h, a, s).height = h /\ SealRec(h, a, s).roots = s
           /\ SealRec(h, a, s).applied = a
<1>1. SealRec(h, a, s) \in [kind : {"seal"}, height : Nat, applied : BOOLEAN, roots : Roots]
    BY Zenon DEF SealRec
<1>. QED
    BY <1>1, Zenon DEF SealRec, Record

\* The phases between blocks, and what the process keeps in memory there.
LEMMA Between ==
    ASSUME Typed, NEW at, Store(at), Process(at),
           phase \in {"idle", "apply", "commit", "sealed", "cutover", "entered", "pruning"}
    PROVE  /\ Running
           /\ window = Newest(1 .. tip)
           /\ finalized.roots = RootsAt(agreed, finalized.height)
           /\ manifest.height <= finalized.height /\ finalized.height <= tip
           /\ phase # "pruning" => prev.pos = manifest.pos
<1>1. Running
    BY DEF Running, Refused
<1>. QED
    BY <1>1 DEF Process, PrevInv, FinalInv, PhaseInv

\* A write that ends in phase ph.
LEMMA Wrote ==
    ASSUME Typed, NEW at, Store(at), Process(at), Steady,
           phase \in {"idle", "apply", "commit"}, phase' \in {"idle", "apply", "commit", "sealed"},
           NEW w,
           phase' = "idle" => w[Len(journal')] = Pos(tip, 0) /\ live = RootsAt(agreed, tip),
           phase' = "apply" => w[Len(journal')] = Pos(tip, 2) /\ live = RootsAt(agreed, tip),
           phase' = "commit" =>
              /\ w[Len(journal')] = Pos(tip, 3) /\ live = Halfway(agreed, tip, todo')
              /\ todo' \subseteq Writes[agreed[tip + 1]],
           phase' = "sealed" => w[Len(journal')] = Pos(tip + 1, 0) /\ live = RootsAt(agreed, tip + 1)
    PROVE  Process(w)'
<1>. USE DEF Steady
<1>1. /\ window = Newest(1 .. tip) /\ finalized.roots = RootsAt(agreed, finalized.height)
      /\ manifest.height <= finalized.height /\ finalized.height <= tip
      /\ prev.pos = manifest.pos
    BY Between
<1>2. PrevInv(w)' /\ FinalInv' /\ CutoverInv'
    BY <1>1 DEF PrevInv, FinalInv, CutoverInv
<1>3. PhaseInv(w)'
    BY <1>1 DEF PhaseInv
<1>. QED
    BY <1>2, <1>3 DEF Process

\* propose_batch pins a batch.
LEMMA PinKeeps ==
    ASSUME Typed, NEW at, Store(at), Process(at), NEW b \in Own, Pin(b)
    PROVE  Typed' /\ \E w : Store(w)' /\ Process(w)'
<1>1. /\ phase = "idle" /\ phase' = "idle" /\ IsDurable /\ Steady
      /\ journal' = journal \o <<PinnedRec(b)>> /\ todo' = todo
      /\ anchored' = anchored /\ inPass' = inPass /\ booting' = booting
    BY DEF Pin, Idle, Write, nodeVars, Steady
<1>2. at[Len(journal)] = Pos(tip, 0) /\ live = RootsAt(agreed, tip)
    BY <1>1 DEF Process, PhaseInv
<1>3. PinnedRec(b) \in Record /\ PinnedRec(b).kind = "pinned"
    BY RecordsTyped, RecoveryAssumption
<1>4. Len(journal) \in 0 .. Len(journal) /\ Len(journal) \in (synced - start) .. Len(journal)
      /\ tip \in Nat
    BY <1>1, Facts DEF IsDurable, End
<1>5. /\ Pos(tip, 0) \in Position /\ Pos(tip, 0).top = tip /\ Pos(tip, 0).stage = 0
      /\ OpenAt(agreed, Pos(tip, 0)) /\ DiskAt(agreed, Pos(tip, 0), live)
    BY <1>2, <1>4, PosIs DEF Store, IsPath, DurableInv
<1>6. Legal(agreed, PinnedRec(b), at[Len(journal)], Pos(tip, 0))
    BY <1>2, <1>3, <1>5 DEF Legal
<1>7. /\ \E w : Store(w)' /\ w[Len(journal')] = Pos(tip, 0)
      /\ journal' \in Seq(Record) /\ Len(journal') = Len(journal) + 1 /\ Len(journal) \in Nat
    BY <1>1, <1>3, <1>5, <1>6, Written
<1>8. \E w : Store(w)' /\ Process(w)'
    BY <1>1, <1>2, <1>7, Wrote
<1>9. Typed'
    <2>1. {anchored', inPass', booting'} \subseteq BOOLEAN /\ todo' \subseteq Module /\ phase' \in Phase
        BY <1>1 DEF Typed, TypeOK
    <2>. QED
        BY <1>1, <1>7, <2>1, TypedWritten
<1>. QED
    BY <1>8, <1>9

\* The cutover record.
LEMMA CutoverKeeps ==
    ASSUME Typed, NEW at, Store(at), Process(at), Cutover
    PROVE  Typed' /\ \E w : Store(w)' /\ Process(w)'
<1>. DEFINE r == CutoverRec(epoch + 1)
<1>1. /\ phase = "idle" /\ phase' = "cutover" /\ IsDurable /\ Steady
      /\ journal' = journal \o <<r>> /\ todo' = todo /\ epoch < MaxEpoch
      /\ anchored' = anchored /\ inPass' = inPass /\ booting' = booting
      /\ finalized.height = tip
    BY DEF Cutover, Idle, Write, Steady
<1>2. at[Len(journal)] = Pos(tip, 0) /\ live = RootsAt(agreed, tip)
    BY <1>1 DEF Process, PhaseInv
<1>3. r \in Record /\ r.kind = "cutover"
    <2>1. epoch + 1 \in 0 .. MaxEpoch
        BY <1>1, RecoveryAssumption, SMTT(30) DEF Typed, TypeOK
    <2>. QED
        BY <2>1, RecordsTyped
<1>4. Len(journal) \in 0 .. Len(journal) /\ Len(journal) \in (synced - start) .. Len(journal)
      /\ tip \in Nat
    BY <1>1, Facts DEF IsDurable, End
<1>5. /\ Pos(tip, 0) \in Position /\ Pos(tip, 0).top = tip /\ Pos(tip, 0).stage = 0
      /\ OpenAt(agreed, Pos(tip, 0)) /\ DiskAt(agreed, Pos(tip, 0), live)
    BY <1>2, <1>4, PosIs DEF Store, IsPath, DurableInv
<1>6. Legal(agreed, r, at[Len(journal)], Pos(tip, 0))
    BY <1>2, <1>3, <1>5 DEF Legal
<1>. HIDE DEF r
<1>7. PICK w : Store(w)' /\ w[Len(journal')] = Pos(tip, 0)
    BY <1>1, <1>3, <1>5, <1>6, Written
<1>8. /\ journal' \in Seq(Record) /\ Len(journal') = Len(journal) + 1 /\ Len(journal) \in Nat
      /\ journal'[Len(journal')] = r
    BY <1>1, <1>3, <1>5, <1>6, Written
<1>9. Process(w)'
    <2>1. /\ window = Newest(1 .. tip) /\ finalized.roots = RootsAt(agreed, finalized.height)
          /\ manifest.height <= finalized.height /\ finalized.height <= tip
          /\ prev.pos = manifest.pos
        BY <1>1, Between
    <2>2. PrevInv(w)' /\ FinalInv'
        BY <1>1, <2>1 DEF PrevInv, FinalInv, Steady
    <2>3. journal' # <<>>
        BY <1>8
    <2>4. CutoverInv'
        BY <1>1, <1>8, <2>3 DEF CutoverInv, Steady, r
    <2>5. PhaseInv(w)'
        BY <1>1, <1>2, <1>7, <2>1 DEF PhaseInv, Steady
    <2>. QED
        BY <2>2, <2>4, <2>5 DEF Process
<1>10. Typed'
    <2>1. {anchored', inPass', booting'} \subseteq BOOLEAN /\ todo' \subseteq Module /\ phase' \in Phase
        BY <1>1 DEF Typed, TypeOK, Phase
    <2>. QED
        BY <1>1, <1>8, <2>1, TypedWritten
<1>. QED
    BY <1>7, <1>9, <1>10

\* Where the journal ends.
LEMMA EndIs ==
    ASSUME Typed, NEW at, Store(at)
    PROVE  LET q == at[Len(journal)]
           IN  /\ q \in Position /\ OpenAt(agreed, q) /\ DiskAt(agreed, q, live)
               /\ q.top \in 0 .. Len(agreed) /\ q.top \in {tip, tip + 1}
               /\ q.stage > 0 => q.top + 1 \in 1 .. Len(agreed) /\ ~ RefusedHeight(agreed, q.top + 1)
<1>1. Len(journal) \in 0 .. Len(journal) /\ Len(journal) \in (synced - start) .. Len(journal)
      /\ Len(agreed) \in Nat
    BY Facts
<1>2. at[Len(journal)] \in Position /\ at[Len(journal)].top \in 0 .. Len(agreed)
    BY <1>1, Facts
<1>3. OpenAt(agreed, at[Len(journal)])
    BY <1>1 DEF Store, IsPath
<1>4. DiskAt(agreed, at[Len(journal)], live) /\ at[Len(journal)].top \in {tip, tip + 1}
    BY <1>1 DEF Store, DurableInv
<1>5. at[Len(journal)].stage > 0 =>
         /\ at[Len(journal)].top + 1 \in 1 .. Len(agreed)
         /\ ~ RefusedHeight(agreed, at[Len(journal)].top + 1)
    BY <1>1, <1>2, <1>3 DEF OpenAt
<1>. QED
    BY <1>2, <1>3, <1>4, <1>5

\* What height t + 1 does to the modules.
LEMMA NextRoots ==
    ASSUME NEW log, Len(log) \in Nat, NEW t \in Nat, t + 1 \in 1 .. Len(log)
    PROVE  /\ RefusedHeight(log, t + 1) => RootsAt(log, t + 1) = RootsAt(log, t)
           /\ Writes[log[t + 1]] = {} => RootsAt(log, t + 1) = RootsAt(log, t)
           /\ \A m : m \notin Writes[log[t + 1]] => StatesOf(log, m)[t + 1] = StatesOf(log, m)[t]
           /\ ~ RefusedHeight(log, t + 1) =>
                 \A m \in Writes[log[t + 1]] :
                     StatesOf(log, m)[t + 1] = Append(StatesOf(log, m)[t], t + 1)
<1>1. (t + 1) - 1 = t
    OBVIOUS
<1>2. ASSUME NEW m
      PROVE  /\ RunsAt(log, t + 1, m) =>
                    StatesOf(log, m)[t + 1] = Append(StatesOf(log, m)[t], t + 1)
             /\ ~ RunsAt(log, t + 1, m) => StatesOf(log, m)[t + 1] = StatesOf(log, m)[t]
    <2>. DEFINE h == t + 1
    <2>1. h \in 1 .. Len(log) /\ h - 1 = t
        BY <1>1
    <2>. HIDE DEF h
    <2>2. /\ RunsAt(log, h, m) => StatesOf(log, m)[h] = Append(StatesOf(log, m)[t], h)
          /\ ~ RunsAt(log, h, m) => StatesOf(log, m)[h] = StatesOf(log, m)[t]
        BY <2>1, StateMoves
    <2>. QED
        BY <2>2 DEF h
<1>3. ASSUME \A m \in Module : ~ RunsAt(log, t + 1, m)
      PROVE  RootsAt(log, t + 1) = RootsAt(log, t)
    BY <1>2, <1>3 DEF RootsAt
<1>4. RefusedHeight(log, t + 1) => \A m \in Module : ~ RunsAt(log, t + 1, m)
    BY DEF RunsAt
<1>5. Writes[log[t + 1]] = {} => \A m \in Module : ~ RunsAt(log, t + 1, m)
    BY DEF RunsAt
<1>6. \A m : m \notin Writes[log[t + 1]] => ~ RunsAt(log, t + 1, m)
    BY DEF RunsAt
<1>7. ~ RefusedHeight(log, t + 1) => \A m \in Writes[log[t + 1]] : RunsAt(log, t + 1, m)
    BY DEF RunsAt
<1>. QED
    BY <1>2, <1>3, <1>4, <1>5, <1>6, <1>7

\* The node refuses a batch when every validator does.
LEMMA ReplayedIs ==
    ASSUME tip \in Nat, window = Newest(1 .. tip)
    PROVE  IsReplayed(NextHeight) <=> RefusedHeight(agreed, tip + 1)
<1>1. (tip + 1) - 1 = tip
    OBVIOUS
<1>. QED
    BY <1>1 DEF IsReplayed, NextHeight, RefusedHeight

\* The seal of the next height.
LEMMA SealIsNext ==
    ASSUME Typed, tip \in Nat, NEW r
    PROVE  /\ r = SealRec(NextHeight, TRUE, live) \/ r = SealRec(NextHeight, FALSE, live) =>
                 r \in Record /\ r.kind = "seal" /\ r.height = tip + 1 /\ r.roots = live
           /\ r = SealRec(NextHeight, FALSE, live) => ~ r.applied
<1>1. live \in Roots
    BY DEF Typed, TypeOK
<1>2. NextHeight \in Nat /\ NextHeight = tip + 1
    BY DEF NextHeight
<1>3. ASSUME NEW a \in BOOLEAN, r = SealRec(NextHeight, a, live)
      PROVE  r \in Record /\ r.kind = "seal" /\ r.height = tip + 1 /\ r.roots = live
             /\ r.applied = a
    <2>1. /\ SealRec(NextHeight, a, live) \in Record /\ SealRec(NextHeight, a, live).kind = "seal"
          /\ SealRec(NextHeight, a, live).height = NextHeight
          /\ SealRec(NextHeight, a, live).roots = live
          /\ SealRec(NextHeight, a, live).applied = a
        BY <1>1, <1>2, SealTyped
    <2>. QED
        BY <1>2, <1>3, <2>1, Zenon
<1>4. TRUE \in BOOLEAN /\ FALSE \in BOOLEAN
    OBVIOUS
<1>. QED
    BY <1>3, <1>4, Zenon

\* The seal of height tip + 1, from a position that allows it.
LEMMA SealWritten ==
    ASSUME Typed, NEW at, Store(at), Process(at), IsDurable, Steady,
           tip + 1 \in 1 .. Len(agreed), NEW r \in Record, journal' = journal \o <<r>>,
           r.kind = "seal", r.height = tip + 1, r.roots = live,
           phase \in {"idle", "apply", "commit"}, phase' = "sealed",
           live = RootsAt(agreed, tip + 1), NEW s \in 0 .. 3, at[Len(journal)] = Pos(tip, s),
           \/ s = 0 /\ RefusedHeight(agreed, tip + 1)
           \/ s = 2 /\ ~ r.applied
           \/ s = 3
    PROVE  /\ \E w : Store(w)' /\ Process(w)'
           /\ journal' \in Seq(Record) /\ Len(journal) <= Len(journal')
<1>1. tip \in Nat /\ Len(agreed) \in Nat /\ tip \in 0 .. Len(agreed)
    BY Facts
<1>5. /\ Pos(tip, s).top = tip /\ Pos(tip, s).stage = s
      /\ Pos(tip + 1, 0) \in Position /\ Pos(tip + 1, 0).top = tip + 1
      /\ Pos(tip + 1, 0).stage = 0
    BY <1>1, PosIs
<1>6. OpenAt(agreed, Pos(tip + 1, 0))
    BY <1>1, <1>5 DEF OpenAt
<1>7. Legal(agreed, r, at[Len(journal)], Pos(tip + 1, 0))
    <2>. DEFINE p == Pos(tip, s)
                q == Pos(tip + 1, 0)
    <2>1. p.top = tip /\ p.stage = s
        BY <1>5
    <2>2. q = Pos(p.top + 1, 0)
        BY <2>1
    <2>. HIDE DEF p, q
    <2>3. /\ r.kind = "seal" /\ r.height = p.top + 1 /\ r.roots = RootsAt(agreed, p.top + 1)
          /\ \/ p.stage = 0 /\ RefusedHeight(agreed, p.top + 1)
             \/ p.stage = 2 /\ ~ r.applied
             \/ p.stage = 3
        BY <2>1
    <2>4. Legal(agreed, r, p, q)
        BY <2>2, <2>3 DEF Legal
    <2>. QED
        BY <2>4 DEF p, q
<1>8. DiskAt(agreed, Pos(tip + 1, 0), live)
    BY <1>5 DEF DiskAt, RootsAt, Module
<1>9. /\ \E w : Store(w)' /\ w[Len(journal')] = Pos(tip + 1, 0)
      /\ journal' \in Seq(Record) /\ Len(journal') = Len(journal) + 1 /\ Len(journal) \in Nat
    BY <1>5, <1>6, <1>7, <1>8, Written
<1>10. \E w : Store(w)' /\ Process(w)'
    BY <1>9, Wrote
<1>. QED
    BY <1>9, <1>10

\* A replayed batch is refused with a seal.
LEMMA SealReplayedKeeps ==
    ASSUME Typed, NEW at, Store(at), Process(at), SealReplayed
    PROVE  Typed' /\ \E w : Store(w)' /\ Process(w)'
<1>1. /\ phase = "idle" /\ phase' = "sealed" /\ IsDurable /\ Steady /\ HasDelivery
      /\ IsReplayed(NextHeight)
      /\ journal' = journal \o <<SealRec(NextHeight, FALSE, live)>> /\ todo' = todo
      /\ anchored' = anchored /\ inPass' = TRUE /\ booting' = booting
    BY DEF SealReplayed, Idle, Write, Steady
<1>2. at[Len(journal)] = Pos(tip, 0) /\ live = RootsAt(agreed, tip)
    BY <1>1 DEF Process, PhaseInv
<1>3. tip \in Nat /\ Len(agreed) \in Nat /\ tip + 1 \in 1 .. Len(agreed)
    BY <1>1, Facts DEF HasDelivery
<1>4. RefusedHeight(agreed, tip + 1)
    BY <1>1, <1>3, Between, ReplayedIs
<1>5. live = RootsAt(agreed, tip + 1)
    BY <1>2, <1>3, <1>4, NextRoots
<1>6. /\ \E w : Store(w)' /\ Process(w)'
      /\ journal' \in Seq(Record) /\ Len(journal) <= Len(journal')
    <2>1. PICK r : r = SealRec(NextHeight, FALSE, live)
        OBVIOUS
    <2>2. r \in Record /\ r.kind = "seal" /\ r.height = tip + 1 /\ r.roots = live
        BY <1>3, <2>1, SealIsNext
    <2>3. journal' = journal \o <<r>>
        BY <1>1, <2>1
    <2>4. 0 \in 0 .. 3
        OBVIOUS
    <2>. QED
        BY <1>1, <1>2, <1>3, <1>4, <1>5, <2>2, <2>3, <2>4, SealWritten
<1>7. Typed'
    <2>1. {anchored', inPass', booting'} \subseteq BOOLEAN
        BY <1>1, Zenon DEF Typed, TypeOK
    <2>2. todo' \subseteq Module /\ phase' \in Phase
        BY <1>1 DEF Typed, TypeOK, Phase
    <2>. QED
        BY <1>1, <1>6, <2>1, <2>2, TypedWritten
<1>. QED
    BY <1>6, <1>7

\* A block that committed, or was rejected, is sealed.
LEMMA SealBlockKeeps ==
    ASSUME Typed, NEW at, Store(at), Process(at), SealBlock
    PROVE  Typed' /\ \E w : Store(w)' /\ Process(w)'
<1>1. /\ phase \in {"apply", "commit"} /\ phase' = "sealed" /\ IsDurable /\ Steady
      /\ todo' = todo /\ anchored' = anchored /\ inPass' = inPass /\ booting' = booting
    BY DEF SealBlock, Write, Steady
<1>2. tip \in Nat /\ Len(agreed) \in Nat
    BY Facts
<1>3. /\ \E w : Store(w)' /\ Process(w)'
      /\ journal' \in Seq(Record) /\ Len(journal) <= Len(journal')
    <2>1. CASE phase = "commit"
        <3>1. journal' = journal \o <<SealRec(NextHeight, TRUE, live)>> /\ todo = {}
            BY <2>1 DEF SealBlock, Write
        <3>2. at[Len(journal)] = Pos(tip, 3) /\ live = Halfway(agreed, tip, {})
            BY <2>1, <3>1 DEF Process, PhaseInv
        <3>3. tip + 1 \in 1 .. Len(agreed)
            BY <1>2, <3>2, EndIs, PosIs
        <3>4. live = RootsAt(agreed, tip + 1)
            BY <3>2 DEF Halfway, RootsAt
        <3>5. PICK r : r = SealRec(NextHeight, TRUE, live)
            OBVIOUS
        <3>6. r \in Record /\ r.kind = "seal" /\ r.height = tip + 1 /\ r.roots = live
            BY <1>2, <3>5, SealIsNext
        <3>7. journal' = journal \o <<r>>
            BY <3>1, <3>5
        <3>. QED
            BY <1>1, <2>1, <3>2, <3>3, <3>4, <3>6, <3>7, SealWritten
    <2>2. CASE phase = "apply"
        <3>1. /\ journal' = journal \o <<SealRec(NextHeight, FALSE, live)>>
              /\ agreed[tip + 1] \in Rejected
            BY <2>2 DEF SealBlock, Write, NextHeight
        <3>2. at[Len(journal)] = Pos(tip, 2) /\ live = RootsAt(agreed, tip)
            BY <2>2 DEF Process, PhaseInv
        <3>3. tip + 1 \in 1 .. Len(agreed)
            BY <1>2, <3>2, EndIs, PosIs
        <3>4. live = RootsAt(agreed, tip + 1)
            <4>1. Writes[agreed[tip + 1]] = {}
                BY <3>1, RecoveryAssumption
            <4>. QED
                BY <1>2, <3>2, <3>3, <4>1, NextRoots
        <3>5. PICK r : r = SealRec(NextHeight, FALSE, live)
            OBVIOUS
        <3>6. r \in Record /\ r.kind = "seal" /\ r.height = tip + 1 /\ r.roots = live /\ ~ r.applied
            BY <1>2, <3>5, SealIsNext
        <3>7. journal' = journal \o <<r>>
            BY <3>1, <3>5
        <3>. QED
            BY <1>1, <2>2, <3>2, <3>3, <3>4, <3>6, <3>7, SealWritten
    <2>. QED
        BY <1>1, <2>1, <2>2
<1>4. Typed'
    <2>1. {anchored', inPass', booting'} \subseteq BOOLEAN
        BY <1>1, Zenon DEF Typed, TypeOK
    <2>2. todo' \subseteq Module /\ phase' \in Phase
        BY <1>1 DEF Typed, TypeOK, Phase
    <2>. QED
        BY <1>1, <1>3, <2>1, <2>2, TypedWritten
<1>. QED
    BY <1>3, <1>4

\* The witness of the block that ran.
LEMMA ExecuteKeeps ==
    ASSUME Typed, NEW at, Store(at), Process(at), Execute
    PROVE  Typed' /\ \E w : Store(w)' /\ Process(w)'
<1>. DEFINE r == WitnessRec(NextHeight)
<1>1. /\ phase = "apply" /\ phase' = "commit" /\ IsDurable /\ Steady
      /\ journal' = journal \o <<r>> /\ todo' = Writes[agreed[tip + 1]]
      /\ anchored' = anchored /\ inPass' = inPass /\ booting' = booting
    BY DEF Execute, Write, Steady, NextHeight
<1>2. at[Len(journal)] = Pos(tip, 2) /\ live = RootsAt(agreed, tip)
    BY <1>1 DEF Process, PhaseInv
<1>3. tip \in Nat /\ Len(agreed) \in Nat /\ agreed \in Seq(Batch)
    BY Facts
<1>4. /\ Pos(tip, 2).top = tip /\ Pos(tip, 2).stage = 2
      /\ Pos(tip, 3) \in Position /\ Pos(tip, 3).top = tip /\ Pos(tip, 3).stage = 3
    BY <1>3, PosIs
<1>5. tip + 1 \in 1 .. Len(agreed) /\ ~ RefusedHeight(agreed, tip + 1)
      /\ OpenAt(agreed, Pos(tip, 2)) /\ DiskAt(agreed, Pos(tip, 2), live)
    <2>1. LET q == Pos(tip, 2)
          IN  /\ OpenAt(agreed, q) /\ DiskAt(agreed, q, live)
              /\ q.stage > 0 => q.top + 1 \in 1 .. Len(agreed) /\ ~ RefusedHeight(agreed, q.top + 1)
        BY <1>2, EndIs
    <2>. QED
        BY <1>4, <2>1
<1>6. OpenAt(agreed, Pos(tip, 3)) /\ DiskAt(agreed, Pos(tip, 3), live)
    BY <1>3, <1>4, <1>5 DEF OpenAt, DiskAt
<1>7. r \in Record /\ r.kind = "witness" /\ r.height = tip + 1
    BY <1>3, RecordsTyped DEF NextHeight
<1>. HIDE DEF r
<1>8. Legal(agreed, r, at[Len(journal)], Pos(tip, 3))
    BY <1>2, <1>4, <1>7 DEF Legal
<1>9. /\ \E w : Store(w)' /\ w[Len(journal')] = Pos(tip, 3)
      /\ journal' \in Seq(Record) /\ Len(journal') = Len(journal) + 1 /\ Len(journal) \in Nat
    BY <1>1, <1>4, <1>6, <1>7, <1>8, Written
<1>10. live = Halfway(agreed, tip, todo')
    <2>1. \A m : m \notin todo' => StatesOf(agreed, m)[tip + 1] = StatesOf(agreed, m)[tip]
        BY <1>1, <1>3, <1>5, NextRoots
    <2>. QED
        BY <1>2, <2>1 DEF Halfway, RootsAt
<1>11. \E w : Store(w)' /\ Process(w)'
    BY <1>1, <1>9, <1>10, Wrote
<1>12. Typed'
    <2>1. {anchored', inPass', booting'} \subseteq BOOLEAN
        BY <1>1, Zenon DEF Typed, TypeOK
    <2>2. agreed[tip + 1] \in Batch
        BY <1>3, <1>5, ElementOfSeq
    <2>3. todo' \subseteq Module /\ phase' \in Phase
        BY <1>1, <2>2, RecoveryAssumption DEF Phase
    <2>. QED
        BY <1>1, <1>9, <2>1, <2>3, TypedWritten
<1>. QED
    BY <1>11, <1>12

\* Two records written together are two records.
LEMMA PairIs ==
    ASSUME NEW S, NEW s \in Seq(S), NEW a \in S, NEW b \in S
    PROVE  s \o <<a, b>> = (s \o <<a>>) \o <<b>>
<1>. DEFINE x == <<a>>
            y == <<b>>
            z == <<a, b>>
<1>1. /\ x \in Seq(S) /\ y \in Seq(S) /\ z \in Seq(S)
      /\ Len(x) = 1 /\ x[1] = a /\ Len(y) = 1 /\ y[1] = b
      /\ Len(z) = 2 /\ z[1] = a /\ z[2] = b
    OBVIOUS
<1>. HIDE DEF x, y, z
<1>2. x \o y = z
    <2>0. /\ x \o y \in Seq(S) /\ Len(x \o y) = Len(x) + Len(y)
          /\ \A i \in 1 .. Len(x) + Len(y) :
                (x \o y)[i] = IF i <= Len(x) THEN x[i] ELSE y[i - Len(x)]
        BY <1>1, ConcatProperties, Zenon
    <2>1. x \o y \in Seq(S) /\ Len(x \o y) = 2 /\ (x \o y)[1] = a /\ (x \o y)[2] = b
        BY <1>1, <2>0
    <2>2. \A i \in 1 .. 2 : i = 1 \/ i = 2
        OBVIOUS
    <2>. QED
        BY <1>1, <2>1, <2>2, SeqEqual
<1>3. (s \o x) \o y = s \o (x \o y)
    BY <1>1, ConcatAssociative, SMTT(30)
<1>. QED
    BY <1>2, <1>3 DEF x, y, z

\* The block and its schedule, after a journal that ends between blocks.
LEMMA BlockWritten ==
    ASSUME NEW j, NEW at, IsPath(agreed, j, at), agreed \in Seq(Batch), NEW t \in Nat,
           t + 1 \in 1 .. Len(agreed), ~ RefusedHeight(agreed, t + 1), at[Len(j)] = Pos(t, 0)
    PROVE  \E w : LET new == j \o PreApplyRecs(t + 1, agreed[t + 1])
                  IN  /\ IsPath(agreed, new, w) /\ Len(new) = Len(j) + 2
                      /\ \A i \in 0 .. Len(j) : w[i] = at[i]
                      /\ w[Len(j) + 1] = Pos(t, 1) /\ w[Len(j) + 2] = Pos(t, 2)
                      /\ new \in Seq(Record) /\ \A i \in 1 .. Len(j) : new[i] = j[i]
<1>. DEFINE a == BlockRec(t + 1, agreed[t + 1])
            b == ScheduleRec(t + 1)
<1>1. Len(agreed) \in Nat /\ agreed[t + 1] \in Batch /\ t + 1 \in Nat
    BY ElementOfSeq, LenProperties
<1>2. /\ a \in Record /\ a.kind = "block" /\ a.height = t + 1 /\ a.batch = agreed[t + 1]
      /\ b \in Record /\ b.kind = "schedule" /\ b.height = t + 1
    BY <1>1, RecordsTyped
<1>3. PreApplyRecs(t + 1, agreed[t + 1]) = <<a, b>>
    BY DEF PreApplyRecs
<1>. HIDE DEF a, b
<1>4. /\ Pos(t, 0).top = t /\ Pos(t, 0).stage = 0
      /\ Pos(t, 1) \in Position /\ Pos(t, 1).top = t /\ Pos(t, 1).stage = 1
      /\ Pos(t, 2) \in Position /\ Pos(t, 2).top = t /\ Pos(t, 2).stage = 2
    BY PosIs
<1>5. OpenAt(agreed, Pos(t, 1)) /\ OpenAt(agreed, Pos(t, 2))
    BY <1>1, <1>4 DEF OpenAt
<1>6. Legal(agreed, a, at[Len(j)], Pos(t, 1))
    BY <1>2, <1>4 DEF Legal
<1>7. PICK j1 : j1 = j \o <<a>>
    OBVIOUS
<1>8. PICK w1 : w1 = Longer(at, Len(j), Pos(t, 1))
    OBVIOUS
<1>9. /\ IsPath(agreed, j1, w1) /\ Len(j1) = Len(j) + 1 /\ w1[Len(j) + 1] = Pos(t, 1)
      /\ \A i \in 0 .. Len(j) : w1[i] = at[i]
    BY <1>2, <1>4, <1>5, <1>6, <1>7, <1>8, PathLonger
<1>10. Legal(agreed, b, w1[Len(j1)], Pos(t, 2))
    BY <1>2, <1>4, <1>9 DEF Legal
<1>11. PICK w : w = Longer(w1, Len(j1), Pos(t, 2))
    OBVIOUS
<1>12. /\ IsPath(agreed, j1 \o <<b>>, w) /\ Len(j1 \o <<b>>) = Len(j1) + 1
       /\ w[Len(j1) + 1] = Pos(t, 2) /\ \A i \in 0 .. Len(j1) : w[i] = w1[i]
    BY <1>2, <1>4, <1>5, <1>9, <1>10, <1>11, PathLonger
<1>13. j \in Seq(Record) /\ Len(j) \in Nat
    BY LenProperties DEF IsPath
<1>14. PICK new : new = j \o PreApplyRecs(t + 1, agreed[t + 1])
    OBVIOUS
<1>15. new = j1 \o <<b>>
    <2>1. j \o <<a, b>> = (j \o <<a>>) \o <<b>>
        BY <1>2, <1>13, PairIs
    <2>. QED
        BY <1>3, <1>7, <1>14, <2>1, Zenon
<1>16. /\ IsPath(agreed, new, w) /\ Len(new) = Len(j) + 2
       /\ w[Len(j) + 1] = Pos(t, 1) /\ w[Len(j) + 2] = Pos(t, 2)
       /\ \A i \in 0 .. Len(j) : w[i] = at[i]
    <2>1. Len(j1) + 1 = Len(j) + 2 /\ Len(j) + 1 \in 0 .. Len(j1)
        BY <1>9, <1>13
    <2>2. \A i \in 0 .. Len(j) : i \in 0 .. Len(j1)
        BY <1>9, <1>13
    <2>. QED
        BY <1>9, <1>12, <1>15, <2>1, <2>2
<1>17. new \in Seq(Record)
    BY <1>16 DEF IsPath
<1>18. \A i \in 1 .. Len(j) : new[i] = j[i]
    <2>. DEFINE two == <<a, b>>
    <2>1. two \in Seq(Record)
        BY <1>2
    <2>. HIDE DEF two
    <2>2. new = j \o two
        BY <1>3, <1>14 DEF two
    <2>. QED
        BY <1>13, <2>1, <2>2, ConcatProperties
<1>. QED
    BY <1>14, <1>16, <1>17, <1>18

\* The block and its schedule are written before it runs.
LEMMA PreApplyKeeps ==
    ASSUME Typed, NEW at, Store(at), Process(at), PreApply
    PROVE  Typed' /\ \E w : Store(w)' /\ Process(w)'
<1>1. /\ phase = "idle" /\ phase' = "apply" /\ IsDurable /\ Steady /\ HasDelivery
      /\ ~ IsReplayed(NextHeight)
      /\ journal' = journal \o PreApplyRecs(tip + 1, agreed[tip + 1]) /\ todo' = todo
      /\ anchored' = anchored /\ inPass' = TRUE /\ booting' = booting
    BY DEF PreApply, Idle, Write, Steady, NextHeight
<1>2. at[Len(journal)] = Pos(tip, 0) /\ live = RootsAt(agreed, tip)
    BY <1>1 DEF Process, PhaseInv
<1>3. tip \in Nat /\ Len(agreed) \in Nat /\ tip + 1 \in 1 .. Len(agreed) /\ agreed \in Seq(Batch)
      /\ Len(journal) \in Nat
    BY <1>1, Facts DEF HasDelivery
<1>4. ~ RefusedHeight(agreed, tip + 1)
    BY <1>1, <1>3, Between, ReplayedIs
<1>5. PICK w : /\ IsPath(agreed, journal', w) /\ Len(journal') = Len(journal) + 2
               /\ \A i \in 0 .. Len(journal) : w[i] = at[i]
               /\ w[Len(journal) + 1] = Pos(tip, 1) /\ w[Len(journal) + 2] = Pos(tip, 2)
               /\ journal' \in Seq(Record)
               /\ \A i \in 1 .. Len(journal) : journal'[i] = journal[i]
    BY <1>1, <1>2, <1>3, <1>4, BlockWritten DEF Store
<1>6. \A s \in 0 .. 3 : Pos(tip, s).top = tip /\ DiskAt(agreed, Pos(tip, s), live)
    BY <1>2, <1>3, PosIs DEF DiskAt, RootsAt, Module
<1>7. Store(w)'
    <2>1. \A i \in Len(journal) + 1 .. Len(journal') : i = Len(journal) + 1 \/ i = Len(journal) + 2
        BY <1>3, <1>5
    <2>2. \A i \in Len(journal) + 1 .. Len(journal') :
             w[i].top \in {tip, tip + 1} /\ DiskAt(agreed, w[i], live)
        BY <1>5, <1>6, <2>1
    <2>3. Len(journal') \in Nat /\ Len(journal) <= Len(journal')
        BY <1>3, <1>5
    <2>. QED
        BY <1>1, <1>5, <2>2, <2>3, StoreWritten
<1>8. Process(w)'
    <2>1. w[Len(journal')] = Pos(tip, 2)
        BY <1>5
    <2>. QED
        BY <1>1, <1>2, <2>1, Wrote
<1>9. Typed'
    <2>1. {anchored', inPass', booting'} \subseteq BOOLEAN
        BY <1>1, Zenon DEF Typed, TypeOK
    <2>2. todo' \subseteq Module /\ phase' \in Phase /\ Len(journal) <= Len(journal')
        BY <1>1, <1>3, <1>5, SMTT(30) DEF Typed, TypeOK, Phase
    <2>. QED
        BY <1>1, <1>5, <2>1, <2>2, TypedWritten
<1>. QED
    BY <1>7, <1>8, <1>9

\* sync_journal.
LEMMA SyncKeeps ==
    ASSUME Typed, NEW at, Store(at), Process(at), Sync
    PROVE  Typed' /\ Store(at)' /\ Process(at)'
<1>1. /\ Running /\ synced' = End
      /\ UNCHANGED <<agreed, journal, start, manifest, floor, live, tip, window, epoch, finalized,
                     prev, anchored, inPass, phase, todo, booting>>
    BY DEF Sync, nodeVars
<1>. DEFINE n == Len(journal)
<1>2. /\ start \in Nat /\ synced \in Nat /\ n \in Nat /\ synced - start \in 0 .. n
      /\ manifest.pos \in Nat /\ manifest.pos <= synced /\ End = start + n
    BY Facts DEF End, Store, ManifestInv
<1>. HIDE DEF n
<1>3. End \in Nat /\ synced <= End /\ End - start = n /\ End \in start .. End
    BY <1>2
<1>4. IsPath(agreed, journal, at)' /\ TipInv(at)'
    BY <1>1 DEF Store, TipInv
<1>5. ManifestInv(at)'
    <2>1. manifest.pos <= End
        BY <1>2, <1>3
    <2>. QED
        BY <1>1, <2>1 DEF Store, ManifestInv
<1>6. EpochKept'
    <2>1. \A i \in 1 .. (synced - start) : i \in 1 .. (End - start)
        BY <1>2, <1>3
    <2>. QED
        BY <1>1, <2>1 DEF Store, EpochKept
<1>7. DurableInv(at)'
    <2>1. \A i \in (End - start) .. n : i \in (synced - start) .. n
        BY <1>2, <1>3
    <2>. QED
        BY <1>1, <2>1 DEF Store, DurableInv, n
<1>8. Store(at)'
    BY <1>4, <1>5, <1>6, <1>7 DEF Store
<1>9. Process(at)'
    <2>1. PrevInv(at)' /\ FinalInv' /\ CutoverInv'
        BY <1>1 DEF Process, PrevInv, FinalInv, CutoverInv, Running, Refused
    <2>2. IsDurable'
        BY <1>1 DEF IsDurable, End
    <2>3. PhaseInv(at)'
        BY <1>1, <2>2 DEF Process, PhaseInv, Running, Refused
    <2>. QED
        BY <2>1, <2>3 DEF Process
<1>10. Typed'
    <2>1. TypeOK'
        BY <1>1, <1>3 DEF Typed, TypeOK, End
    <2>. QED
        BY <1>1, <2>1 DEF Typed
<1>. QED
    BY <1>8, <1>9, <1>10

\* commit_boundary: one module moves to the open block.
LEMMA CommitKeeps ==
    ASSUME Repeating = {}, Typed, NEW at, Store(at), Process(at), Commit
    PROVE  Typed' /\ Store(at)' /\ Process(at)'
<1>1. /\ phase = "commit" /\ phase' = "commit" /\ IsDurable
      /\ UNCHANGED <<agreed, journal, start, synced, manifest, floor, tip, window, epoch,
                     finalized, prev, anchored, inPass, booting>>
    BY DEF Commit, diskVars
<1>2. PICK m \in todo :
          /\ live' = [live EXCEPT ![m] =
                        Committed(@, NextHeight, agreed[NextHeight], booting)]
          /\ todo' = todo \ {m}
    BY DEF Commit
<1>3. /\ at[Len(journal)] = Pos(tip, 3) /\ live = Halfway(agreed, tip, todo)
      /\ todo \subseteq Writes[agreed[tip + 1]]
    BY <1>1 DEF Process, PhaseInv
<1>4. tip \in Nat /\ Len(agreed) \in Nat /\ agreed \in Seq(Batch) /\ Len(agreed) <= MaxHeight
      /\ MaxHeight \in Nat /\ todo \subseteq Module
    BY Facts DEF Typed, TypeOK
<1>5. Pos(tip, 3).top = tip /\ Pos(tip, 3).stage = 3
    BY <1>4, PosIs
<1>6. tip + 1 \in 1 .. Len(agreed) /\ ~ RefusedHeight(agreed, tip + 1)
    BY <1>3, <1>5, EndIs
<1>7. StatesOf(agreed, m)[tip + 1] = Append(StatesOf(agreed, m)[tip], tip + 1)
    BY <1>3, <1>4, <1>6, NextRoots
<1>8. live' = [live EXCEPT ![m] = Append(live[m], tip + 1)]
    BY <1>2 DEF Committed, NextHeight
<1>9. live' = Halfway(agreed, tip, todo')
    <2>1. live[m] = StatesOf(agreed, m)[tip] /\ m \in Module
        BY <1>3, <1>4 DEF Halfway
    <2>2. live' = [x \in Module |-> IF x = m THEN Append(live[m], tip + 1) ELSE live[x]]
        BY <1>3, <1>8 DEF Halfway
    <2>3. ASSUME NEW x \in Module
          PROVE  (IF x = m THEN Append(live[m], tip + 1) ELSE live[x])
                 = (IF x \in todo \ {m} THEN StatesOf(agreed, x)[tip] ELSE StatesOf(agreed, x)[tip + 1])
        BY <1>3, <1>7, <2>1 DEF Halfway
    <2>. QED
        BY <1>2, <2>2, <2>3 DEF Halfway
<1>10. live' \in Roots
    <2>1. RootsAt(agreed, tip) \in Roots /\ RootsAt(agreed, tip + 1) \in Roots
        BY <1>4, <1>6, RootsTyped
    <2>. QED
        BY <1>9, <2>1 DEF Halfway, RootsAt, Roots
<1>11. Typed'
    <2>1. todo' \subseteq Module
        BY <1>2, <1>4
    <2>2. TypeOK'
        BY <1>1, <1>10, <2>1 DEF Typed, TypeOK, End
    <2>. QED
        BY <1>1, <2>2 DEF Typed
<1>12. DurableInv(at)'
    <2>1. \A i \in (synced - start) .. Len(journal) : i = Len(journal)
        BY <1>1, Facts DEF IsDurable, End
    <2>2. DiskAt(agreed, Pos(tip, 3), live')
        BY <1>5, <1>9 DEF DiskAt, Halfway, Module
    <2>. QED
        BY <1>1, <1>3, <1>5, <2>1, <2>2 DEF DurableInv
<1>13. Store(at)'
    <2>1. IsPath(agreed, journal, at)' /\ ManifestInv(at)' /\ EpochKept' /\ TipInv(at)'
        BY <1>1 DEF Store, ManifestInv, EpochKept, TipInv
    <2>. QED
        BY <1>12, <2>1 DEF Store
<1>14. Process(at)'
    <2>1. /\ window = Newest(1 .. tip) /\ finalized.roots = RootsAt(agreed, finalized.height)
          /\ manifest.height <= finalized.height /\ finalized.height <= tip
          /\ prev.pos = manifest.pos
        BY <1>1, Between
    <2>2. PrevInv(at)' /\ FinalInv' /\ CutoverInv'
        BY <1>1, <2>1 DEF PrevInv, FinalInv, CutoverInv
    <2>3. PhaseInv(at)'
        BY <1>1, <1>2, <1>3, <1>9, <2>1 DEF PhaseInv
    <2>. QED
        BY <2>2, <2>3 DEF Process
<1>. QED
    BY <1>11, <1>13, <1>14

\* The sealed height becomes the tip.
LEMMA SettleKeeps ==
    ASSUME Typed, NEW at, Store(at), Process(at), Settle
    PROVE  Typed' /\ Store(at)' /\ Process(at)'
<1>1. /\ phase = "sealed" /\ phase' = "idle" /\ IsDurable /\ tip' = tip + 1
      /\ window' = Newest(window \cup {tip + 1})
      /\ finalized' = [height |-> tip + 1, roots |-> live] \/ finalized' = finalized
      /\ booting' = FALSE
      /\ UNCHANGED <<agreed, journal, start, synced, manifest, floor, live, epoch,
                     prev, anchored, inPass, todo>>
    BY DEF Settle, Settled, NextHeight, diskVars
<1>2. at[Len(journal)] = Pos(tip + 1, 0) /\ live = RootsAt(agreed, tip + 1)
    BY <1>1 DEF Process, PhaseInv
<1>3. tip \in Nat /\ Len(agreed) \in Nat /\ agreed \in Seq(Batch) /\ Len(agreed) <= MaxHeight
      /\ MaxHeight \in Nat
    BY Facts
<1>4. Pos(tip + 1, 0).top = tip + 1 /\ Pos(tip + 1, 0).stage = 0
    BY <1>3, PosIs
<1>5. tip + 1 \in 1 .. Len(agreed)
    BY <1>2, <1>3, <1>4, EndIs
<1>6. /\ window = Newest(1 .. tip) /\ finalized.roots = RootsAt(agreed, finalized.height)
      /\ manifest.height <= finalized.height /\ finalized.height <= tip
      /\ prev.pos = manifest.pos
    BY <1>1, Between
<1>7. window' = Newest(1 .. tip + 1)
    <2>. DEFINE S == window \cup {tip + 1}
                t == tip + 1
    <2>1. window = {h \in 1 .. tip : tip - h < WindowDepth}
        BY <1>3, <1>6, NewestInterval
    <2>2. t \in Nat /\ S \subseteq 1 .. t
        BY <1>3, <2>1
    <2>3. WindowDepth \in Nat
        BY RecoveryAssumption
    <2>4. \A h \in 1 .. t : t - h < WindowDepth => h \in S
        BY <1>3, <2>1, <2>3
    <2>. HIDE DEF S, t
    <2>5. Newest(S) = Newest(1 .. t)
        BY <2>2, <2>4, NewestRebuilt
    <2>. QED
        BY <1>1, <2>5 DEF S, t
<1>8. Typed'
    <2>1. {anchored', inPass', booting'} \subseteq BOOLEAN
        BY <1>1, Zenon DEF Typed, TypeOK
    <2>2. window' \subseteq Height /\ Cardinality(window') <= WindowDepth
        <3>1. tip + 1 \in Nat /\ 1 .. tip + 1 \subseteq Height
            BY <1>3, <1>5 DEF Height
        <3>. QED
            BY <1>7, <3>1, NewestSmall
    <2>3. finalized' \in [height : 0 .. MaxHeight, roots : Roots]
        <3>1. tip + 1 \in 0 .. MaxHeight /\ live \in Roots
            BY <1>3, <1>5 DEF Typed, TypeOK
        <3>. QED
            BY <1>1, <3>1 DEF Typed
    <2>4. tip' \in 0 .. Len(agreed') /\ phase' \in Phase /\ finalized'.height \in 0 .. MaxHeight
        BY <1>1, <1>3, <1>5, <2>3 DEF Phase
    <2>5. TypeOK'
        BY <1>1, <2>1, <2>2, <2>4 DEF Typed, TypeOK, End
    <2>. QED
        BY <1>1, <2>3, <2>5 DEF Typed
<1>9. Store(at)'
    <2>1. IsPath(agreed, journal, at)' /\ EpochKept'
        BY <1>1 DEF Store, EpochKept
    <2>2. ManifestInv(at)'
        <3>1. at[manifest.pos - start].top \in Nat /\ at[manifest.pos - start].top <= tip
            BY Facts DEF Store, ManifestInv
        <3>2. at[manifest.pos - start].top <= tip + 1
            BY <1>3, <3>1
        <3>. QED
            BY <1>1, <3>2 DEF Store, ManifestInv
    <2>3. TipInv(at)'
        <3>1. at[0].top \in Nat /\ at[0].top <= tip
            BY Facts DEF Store, TipInv
        <3>. QED
            BY <1>1, <1>3, <3>1 DEF TipInv
    <2>4. DurableInv(at)'
        <3>1. \A i \in (synced - start) .. Len(journal) : i = Len(journal)
            BY <1>1, Facts DEF IsDurable, End
        <3>2. DiskAt(agreed, Pos(tip + 1, 0), live)
            BY <1>2, EndIs
        <3>. QED
            BY <1>1, <1>2, <1>4, <3>1, <3>2 DEF DurableInv
    <2>. QED
        BY <2>1, <2>2, <2>3, <2>4 DEF Store
<1>10. Process(at)'
    <2>1. PrevInv(at)' /\ CutoverInv'
        BY <1>1, <1>6 DEF PrevInv, CutoverInv
    <2>2. finalized.height \in Nat /\ manifest.height \in Nat
        BY Facts, RecoveryAssumption DEF Typed
    <2>3. FinalInv'
        <3>1. CASE finalized' = finalized
            BY <1>1, <1>3, <1>6, <2>2, <3>1 DEF FinalInv
        <3>2. CASE finalized' = [height |-> tip + 1, roots |-> live]
            BY <1>1, <1>2, <1>3, <1>6, <2>2, <3>2 DEF FinalInv
        <3>. QED
            BY <1>1, <3>1, <3>2
    <2>4. PhaseInv(at)'
        BY <1>1, <1>2, <1>7 DEF PhaseInv
    <2>. QED
        BY <2>1, <2>3, <2>4 DEF Process
<1>. QED
    BY <1>8, <1>9, <1>10

\* Steps that move neither the journal, the manifest nor the modules.
LEMMA PassKeeps ==
    ASSUME Typed, NEW at, Store(at), Process(at), EndPass \/ StallPass \/ PersistFloor
    PROVE  Typed' /\ Store(at)' /\ Process(at)'
<1>1. /\ phase = "idle" /\ phase' = "idle"
      /\ finalized' = [height |-> tip, roots |-> live] \/ finalized' = finalized
      /\ floor' = floor \/ floor' = finalized.height
      /\ inPass' = FALSE \/ inPass' = inPass
      /\ UNCHANGED <<agreed, journal, start, synced, manifest, live, tip, window, epoch,
                     prev, anchored, todo, booting>>
    BY Zenon DEF EndPass, StallPass, PersistFloor, Idle, diskVars, nodeVars
<1>2. at[Len(journal)] = Pos(tip, 0) /\ live = RootsAt(agreed, tip)
    BY <1>1 DEF Process, PhaseInv
<1>3. tip \in Nat /\ Len(agreed) \in Nat /\ tip \in 0 .. MaxHeight
    BY Facts
<1>4. /\ window = Newest(1 .. tip) /\ finalized.roots = RootsAt(agreed, finalized.height)
      /\ manifest.height <= finalized.height /\ finalized.height <= tip
      /\ prev.pos = manifest.pos
    BY <1>1, Between
<1>5. Typed'
    <2>1. {anchored', inPass', booting'} \subseteq BOOLEAN
        BY <1>1, Zenon DEF Typed, TypeOK
    <2>2. finalized' \in [height : 0 .. MaxHeight, roots : Roots]
        BY <1>1, <1>3 DEF Typed, TypeOK
    <2>3. floor' \in 0 .. MaxHeight /\ finalized'.height \in 0 .. MaxHeight
        BY <1>1, <2>2 DEF Typed, TypeOK
    <2>4. TypeOK'
        BY <1>1, <2>1, <2>3 DEF Typed, TypeOK, End
    <2>. QED
        BY <1>1, <2>2, <2>4 DEF Typed
<1>6. Store(at)'
    <2>1. IsPath(agreed, journal, at)' /\ ManifestInv(at)' /\ EpochKept' /\ TipInv(at)'
        BY <1>1 DEF Store, ManifestInv, EpochKept, TipInv
    <2>2. DurableInv(at)'
        BY <1>1 DEF Store, DurableInv
    <2>. QED
        BY <2>1, <2>2 DEF Store
<1>7. Process(at)'
    <2>1. PrevInv(at)' /\ CutoverInv'
        BY <1>1, <1>4 DEF PrevInv, CutoverInv
    <2>2. finalized.height \in Nat /\ manifest.height \in Nat
        BY Facts, RecoveryAssumption DEF Typed
    <2>3. FinalInv'
        <3>1. CASE finalized' = finalized
            BY <1>1, <1>4, <3>1 DEF FinalInv
        <3>2. CASE finalized' = [height |-> tip, roots |-> live]
            BY <1>1, <1>2, <1>3, <1>4, <2>2, <3>2 DEF FinalInv
        <3>. QED
            BY <1>1, <3>1, <3>2
    <2>4. PhaseInv(at)'
        BY <1>1, <1>2, <1>4 DEF PhaseInv
    <2>. QED
        BY <2>1, <2>3, <2>4 DEF Process
<1>. QED
    BY <1>5, <1>6, <1>7

\* The epoch of the durable cutover record is entered.
LEMMA EnterEpochKeeps ==
    ASSUME Typed, NEW at, Store(at), Process(at), EnterEpoch
    PROVE  Typed' /\ Store(at)' /\ Process(at)'
<1>1. /\ phase = "cutover" /\ phase' = "entered" /\ epoch' = epoch + 1 /\ IsDurable
      /\ UNCHANGED <<agreed, journal, start, synced, manifest, floor, live, tip, window, finalized,
                     prev, anchored, inPass, todo, booting>>
    BY DEF EnterEpoch, diskVars
<1>2. /\ epoch < MaxEpoch /\ journal # <<>>
      /\ journal[Len(journal)] = CutoverRec(epoch + 1)
    BY <1>1 DEF Process, CutoverInv
<1>3. epoch + 1 \in 0 .. MaxEpoch
    BY <1>2, RecoveryAssumption, SMTT(30) DEF Typed, TypeOK
<1>4. at[Len(journal)] = Pos(tip, 0) /\ live = RootsAt(agreed, tip)
    BY <1>1 DEF Process, PhaseInv
<1>5. /\ window = Newest(1 .. tip) /\ finalized.roots = RootsAt(agreed, finalized.height)
      /\ manifest.height <= finalized.height /\ finalized.height <= tip
      /\ prev.pos = manifest.pos /\ finalized.height = tip
    <2>1. Running
        BY <1>1 DEF Running, Refused
    <2>. QED
        BY <1>1, <2>1, Between DEF Process, FinalInv
<1>6. Typed'
    <2>1. phase' \in Phase
        BY <1>1 DEF Phase
    <2>2. TypeOK'
        BY <1>1, <1>3, <2>1 DEF Typed, TypeOK, End
    <2>. QED
        BY <1>1, <2>2 DEF Typed
<1>7. EpochKept'
    <2>1. Len(journal) \in 1 .. (synced - start)
        <3>1. Len(journal) \in Nat /\ synced - start = Len(journal)
            BY <1>1, Facts DEF IsDurable, End
        <3>2. Len(journal) # 0
            BY <1>2, EmptySeq DEF Typed
        <3>. QED
            BY <3>1, <3>2
    <2>2. /\ CutoverRec(epoch + 1).kind = "cutover" /\ CutoverRec(epoch + 1).epoch = epoch + 1
        BY <1>3, RecordsTyped
    <2>3. epoch + 1 >= epoch + 1
        BY <1>3
    <2>4. journal[Len(journal)].kind = "cutover" /\ journal[Len(journal)].epoch >= epoch'
        BY <1>1, <1>2, <2>2, <2>3
    <2>. QED
        BY <1>1, <2>1, <2>4 DEF EpochKept
<1>8. Store(at)'
    <2>1. IsPath(agreed, journal, at)' /\ ManifestInv(at)' /\ TipInv(at)'
        BY <1>1 DEF Store, ManifestInv, TipInv
    <2>2. DurableInv(at)'
        BY <1>1 DEF Store, DurableInv
    <2>. QED
        BY <1>7, <2>1, <2>2 DEF Store
<1>9. Process(at)'
    <2>1. PrevInv(at)' /\ CutoverInv' /\ FinalInv'
        BY <1>1, <1>5 DEF PrevInv, CutoverInv, FinalInv
    <2>2. IsDurable'
        BY <1>1 DEF IsDurable, End
    <2>3. PhaseInv(at)'
        BY <1>1, <1>4, <1>5, <2>2 DEF PhaseInv
    <2>. QED
        BY <2>1, <2>3 DEF Process
<1>. QED
    BY <1>6, <1>8, <1>9

\* A manifest written between blocks, with the journal durable.
LEMMA ManifestWritten ==
    ASSUME Typed, NEW at, Store(at), IsDurable, manifest' = Captured,
           at[Len(journal)] = Pos(tip, 0), live = RootsAt(agreed, tip),
           window = Newest(1 .. tip), finalized.height <= tip,
           live = RootsAt(agreed, finalized.height),
           finalized.height = tip \/ at[0].top < tip,
           UNCHANGED <<agreed, journal, start, synced, live, tip, epoch>>
    PROVE  /\ Store(at)' /\ epoch <= manifest'.epoch
           /\ manifest'.height = finalized.height /\ manifest'.pos = start + Len(journal)
           /\ manifest' \in [height : 0 .. MaxHeight, epoch : 0 .. MaxEpoch, roots : Roots,
                             window : SUBSET Height, pos : Nat]
<1>1. /\ manifest'.height = finalized.height /\ manifest'.epoch = epoch /\ manifest'.roots = live
      /\ manifest'.window = window /\ manifest'.pos = start + Len(journal)
    BY DEF Captured, End
<1>2. /\ start \in Nat /\ Len(journal) \in Nat /\ tip \in Nat /\ synced = start + Len(journal)
      /\ epoch \in 0 .. MaxEpoch /\ MaxEpoch \in Nat
    BY Facts DEF IsDurable, End, Typed, TypeOK
<1>3. /\ manifest'.pos - start = Len(journal) /\ start <= manifest'.pos /\ manifest'.pos <= synced
      /\ manifest'.pos \in Nat /\ epoch <= epoch /\ tip <= tip
    BY <1>1, <1>2
<1>4. Pos(tip, 0).top = tip /\ Pos(tip, 0).stage = 0
    BY <1>2, PosIs
<1>5. ManifestInv(at)'
    BY <1>1, <1>3, <1>4 DEF ManifestInv
<1>6. EpochKept'
    BY <1>1, <1>3 DEF EpochKept
<1>7. TipInv(at)'
    <2>1. at[0].top \in Nat /\ at[0].top <= tip
        BY Facts DEF Store, TipInv
    <2>. QED
        BY <1>1, <1>2, <2>1 DEF TipInv
<1>8. IsPath(agreed, journal, at)' /\ DurableInv(at)'
    BY DEF Store, DurableInv
<1>9. manifest' \in [height : 0 .. MaxHeight, epoch : 0 .. MaxEpoch, roots : Roots,
                     window : SUBSET Height, pos : Nat]
    <2>1. /\ finalized.height \in 0 .. MaxHeight /\ epoch \in 0 .. MaxEpoch /\ live \in Roots
          /\ window \subseteq Height /\ End \in Nat
        BY <1>2 DEF Typed, TypeOK, End
    <2>. QED
        BY <2>1 DEF Captured
<1>. QED
    BY <1>1, <1>3, <1>5, <1>6, <1>7, <1>8, <1>9 DEF Store

\* The checkpoint after a cutover, written or not.
LEMMA CutoverCheckpointKeeps ==
    ASSUME Typed, NEW at, Store(at), Process(at), CutoverCheckpoint
    PROVE  Typed' /\ Store(at)' /\ Process(at)'
<1>1. /\ phase = "entered" /\ phase' = "idle"
      /\ \/ /\ manifest' = Captured /\ prev' = [height |-> finalized.height, pos |-> End]
            /\ anchored' = TRUE
         \/ UNCHANGED <<manifest, prev, anchored>>
      /\ UNCHANGED <<agreed, journal, start, synced, floor, live, tip, window, epoch,
                     finalized, inPass, todo, booting>>
    BY Zenon DEF CutoverCheckpoint
<1>2. at[Len(journal)] = Pos(tip, 0) /\ live = RootsAt(agreed, tip) /\ IsDurable
    BY <1>1 DEF Process, PhaseInv
<1>3. /\ window = Newest(1 .. tip) /\ finalized.roots = RootsAt(agreed, finalized.height)
      /\ manifest.height <= finalized.height /\ finalized.height <= tip
      /\ prev.pos = manifest.pos /\ finalized.height = tip
    <2>1. Running
        BY <1>1 DEF Running, Refused
    <2>. QED
        BY <1>1, <2>1, Between DEF Process, FinalInv
<1>4. tip \in Nat
    BY Facts
<1>5. /\ Store(at)' /\ manifest'.height <= finalized.height /\ prev'.pos = manifest'.pos
      /\ manifest' \in [height : 0 .. MaxHeight, epoch : 0 .. MaxEpoch, roots : Roots,
                        window : SUBSET Height, pos : Nat]
      /\ prev' \in [height : 0 .. MaxHeight, pos : Nat]
    <2>1. CASE manifest' = Captured /\ prev' = [height |-> finalized.height, pos |-> End]
        <3>1. /\ Store(at)' /\ manifest'.height = finalized.height
              /\ manifest'.pos = start + Len(journal)
              /\ manifest' \in [height : 0 .. MaxHeight, epoch : 0 .. MaxEpoch, roots : Roots,
                                window : SUBSET Height, pos : Nat]
            BY <1>1, <1>2, <1>3, <2>1, ManifestWritten
        <3>2. prev'.pos = manifest'.pos
            BY <2>1, <3>1 DEF End
        <3>3. prev' \in [height : 0 .. MaxHeight, pos : Nat]
            <4>1. finalized.height \in 0 .. MaxHeight /\ End \in Nat
                BY Facts DEF Typed, TypeOK, End
            <4>. QED
                BY <2>1, <4>1
        <3>. QED
            BY <1>3, <1>4, <3>1, <3>2, <3>3
    <2>2. CASE UNCHANGED <<manifest, prev, anchored>>
        <3>1. Store(at)'
            <4>1. IsPath(agreed, journal, at)' /\ ManifestInv(at)' /\ TipInv(at)' /\ EpochKept'
                BY <1>1, <2>2 DEF Store, ManifestInv, TipInv, EpochKept
            <4>2. DurableInv(at)'
                BY <1>1, <2>2 DEF Store, DurableInv
            <4>. QED
                BY <4>1, <4>2 DEF Store
        <3>. QED
            BY <1>3, <2>2, <3>1 DEF Typed
    <2>. QED
        BY <1>1, <2>1, <2>2
<1>6. Typed'
    <2>1. {anchored', inPass', booting'} \subseteq BOOLEAN
        BY <1>1, Zenon DEF Typed, TypeOK
    <2>2. TypeOK'
        BY <1>1, <2>1 DEF Typed, TypeOK, End, Phase
    <2>. QED
        BY <1>1, <1>5, <2>2 DEF Typed
<1>7. Process(at)'
    <2>1. PrevInv(at)' /\ CutoverInv' /\ FinalInv'
        BY <1>1, <1>3, <1>5 DEF PrevInv, CutoverInv, FinalInv
    <2>2. PhaseInv(at)'
        BY <1>1, <1>2, <1>3 DEF PhaseInv
    <2>. QED
        BY <2>1, <2>2 DEF Process
<1>. QED
    BY <1>5, <1>6, <1>7

\* A seal since the manifest: the tip rose.
LEMMA SealsRise ==
    ASSUME Typed, NEW at, Store(at), SealsSince > 0
    PROVE  at[manifest.pos - start].top < at[Len(journal)].top
<1>. DEFINE S == {i \in DOMAIN journal : start + i > manifest.pos /\ journal[i].kind = "seal"}
<1>1. S # {}
    <2>1. Cardinality(S) > 0
        BY DEF SealsSince
    <2>2. Cardinality({}) = 0
        BY FS_EmptySet
    <2>. HIDE DEF S
    <2>. QED
        BY <2>1, <2>2
<1>2. PICK i \in DOMAIN journal : start + i > manifest.pos /\ journal[i].kind = "seal"
    BY <1>1
<1>. DEFINE n == Len(journal)
            k == manifest.pos - start
<1>3. n \in Nat /\ journal \in Seq(Record) /\ start \in Nat /\ manifest.pos \in Nat /\ k \in 0 .. n
    BY Facts DEF Typed
<1>4. i \in 1 .. n /\ i - 1 \in 0 .. n /\ k <= i - 1 /\ i <= n /\ n \in 0 .. n /\ i \in 0 .. n
    <2>1. i \in 1 .. n
        BY <1>3, LenProperties
    <2>. QED
        BY <1>2, <1>3, <2>1
<1>. HIDE DEF n, k
<1>5. IsPath(agreed, journal, at) /\ \A x \in 0 .. n : at[x] \in Position
    BY Facts DEF Store, n
<1>6. at[k].top <= at[i - 1].top /\ at[i].top <= at[n].top
    BY <1>3, <1>4, <1>5 DEF IsPath, n
<1>7. Legal(agreed, journal[i], at[i - 1], at[i])
    BY <1>4, <1>5 DEF IsPath, n
<1>8. at[i].top = at[i - 1].top + 1
    BY <1>2, <1>4, <1>5, <1>7, SealIs
<1>9. at[k].top \in Nat /\ at[i - 1].top \in Nat /\ at[i].top \in Nat /\ at[n].top \in Nat
    BY <1>3, <1>4, <1>5 DEF Position
<1>10. at[k].top < at[n].top
    BY <1>6, <1>8, <1>9
<1>. QED
    BY <1>10 DEF n, k

\* The periodic checkpoint.
LEMMA CheckpointKeeps ==
    ASSUME Typed, NEW at, Store(at), Process(at), Checkpoint
    PROVE  Typed' /\ Store(at)' /\ Process(at)'
<1>1. /\ phase = "idle" /\ phase' = "pruning" /\ IsDurable /\ manifest' = Captured
      /\ anchored' = TRUE /\ SealsSince > 0 /\ live = finalized.roots
      /\ UNCHANGED <<agreed, journal, start, synced, floor, live, tip, window, epoch,
                     finalized, prev, inPass, todo, booting>>
    BY Zenon DEF Checkpoint, CheckpointDue, MayCapture, Idle
<1>2. at[Len(journal)] = Pos(tip, 0) /\ live = RootsAt(agreed, tip)
    BY <1>1 DEF Process, PhaseInv
<1>3. /\ window = Newest(1 .. tip) /\ finalized.roots = RootsAt(agreed, finalized.height)
      /\ manifest.height <= finalized.height /\ finalized.height <= tip
      /\ prev.pos = manifest.pos
    BY <1>1, Between
<1>4. /\ tip \in Nat /\ start \in Nat /\ Len(journal) \in Nat /\ manifest.pos \in Nat
      /\ manifest.pos - start \in 0 .. Len(journal) /\ manifest.height \in Nat
      /\ \A i \in 0 .. Len(journal) : at[i].top \in Nat
    BY Facts
<1>5. at[manifest.pos - start].top < tip
    <2>1. Pos(tip, 0).top = tip
        BY <1>4, PosIs
    <2>. QED
        BY <1>1, <1>2, <2>1, SealsRise
<1>6. at[0].top < tip
    <2>1. at[0].top <= at[manifest.pos - start].top
        BY <1>4 DEF Store, IsPath
    <2>. QED
        BY <1>4, <1>5, <2>1
<1>7. /\ Store(at)' /\ epoch <= manifest'.epoch
      /\ manifest'.height = finalized.height /\ manifest'.pos = start + Len(journal)
      /\ manifest' \in [height : 0 .. MaxHeight, epoch : 0 .. MaxEpoch, roots : Roots,
                        window : SUBSET Height, pos : Nat]
    BY <1>1, <1>2, <1>3, <1>6, ManifestWritten
<1>8. Typed'
    <2>1. {anchored', inPass', booting'} \subseteq BOOLEAN
        BY <1>1, Zenon DEF Typed, TypeOK
    <2>2. TypeOK'
        BY <1>1, <2>1 DEF Typed, TypeOK, End, Phase
    <2>. QED
        BY <1>1, <1>7, <2>2 DEF Typed
<1>9. PrevInv(at)'
    <2>1. start <= prev.pos /\ prev.pos <= start + Len(journal)
        BY <1>3, <1>4
    <2>2. at[prev.pos - start].stage = 0 /\ at[prev.pos - start].top < tip
        BY <1>3, <1>5 DEF Store, ManifestInv
    <2>. QED
        BY <1>1, <1>7, <2>1, <2>2 DEF PrevInv
<1>10. FinalInv' /\ CutoverInv'
    <2>1. manifest'.height <= finalized.height
        BY <1>3, <1>4, <1>7 DEF Typed
    <2>. QED
        BY <1>1, <1>3, <2>1 DEF FinalInv, CutoverInv
<1>11. PhaseInv(at)'
    <2>1. IsDurable'
        BY <1>1 DEF IsDurable, End
    <2>. QED
        BY <1>1, <1>2, <1>3, <2>1 DEF PhaseInv
<1>. QED
    BY <1>7, <1>8, <1>9, <1>10, <1>11 DEF Process

\* The journal is cut at the previous checkpoint.
LEMMA PruneKeeps ==
    ASSUME Typed, NEW at, Store(at), Process(at), Prune
    PROVE  Typed' /\ \E w : Store(w)' /\ Process(w)'
<1>1. /\ phase = "pruning" /\ phase' = "idle"
      /\ prev' = [height |-> manifest.height, pos |-> manifest.pos]
      /\ UNCHANGED <<agreed, synced, manifest, floor, live, tip, window, epoch, finalized,
                     anchored, inPass, todo, booting>>
    BY DEF Prune
<1>2. /\ at[Len(journal)] = Pos(tip, 0) /\ live = RootsAt(agreed, tip) /\ IsDurable
      /\ start <= prev.pos /\ prev.pos <= manifest.pos
      /\ at[prev.pos - start].stage = 0 /\ at[prev.pos - start].top < tip
      /\ epoch <= manifest.epoch
    BY <1>1 DEF Process, PhaseInv, PrevInv
<1>3. /\ window = Newest(1 .. tip) /\ finalized.roots = RootsAt(agreed, finalized.height)
      /\ manifest.height <= finalized.height /\ finalized.height <= tip
    BY <1>1, Between
<1>4. /\ start \in Nat /\ prev.pos \in Nat /\ manifest.pos \in Nat /\ Len(journal) \in Nat
      /\ manifest.pos - start \in 0 .. Len(journal) /\ synced = start + Len(journal)
      /\ tip \in Nat /\ manifest.height \in 0 .. MaxHeight
    BY <1>2, Facts DEF Typed, IsDurable, End
<1>. DEFINE n == Len(journal)
\* Whether or not it prunes, the journal is a suffix from a block boundary.
<1>5. PICK a \in 0 .. n :
         /\ a <= manifest.pos - start /\ at[a].stage = 0
         /\ at[a].top < tip \/ a = 0
         /\ journal' = SubSeq(journal, a + 1, n) /\ start' = start + a
    <2>1. CASE FloorPassed /\ PrunePos > start
        <3>1. journal' = SubSeq(journal, prev.pos - start + 1, n) /\ start' = prev.pos
            BY <2>1 DEF Prune, PrunePos
        <3>2. prev.pos - start \in 0 .. n /\ prev.pos - start <= manifest.pos - start
              /\ start + (prev.pos - start) = prev.pos
            BY <1>2, <1>4, SMTT(30)
        <3>. QED
            BY <1>2, <3>1, <3>2
    <2>2. CASE ~ (FloorPassed /\ PrunePos > start)
        <3>1. journal' = journal /\ start' = start
            BY <2>2 DEF Prune
        <3>2. journal = SubSeq(journal, 0 + 1, n)
            BY SubSeqFull DEF Typed
        <3>3. at[0].stage = 0 /\ 0 \in 0 .. n /\ 0 <= manifest.pos - start /\ start + 0 = start
            BY <1>4 DEF Store, IsPath
        <3>. QED
            BY <3>1, <3>2, <3>3
    <2>. QED
        BY <2>1, <2>2
<1>6. PICK w : w = [i \in 0 .. n - a |-> at[i + a]]
    OBVIOUS
<1>7. n \in a .. n /\ n \in Nat /\ a \in Nat /\ n - a \in Nat
    BY <1>4, <1>5
<1>8. /\ IsPath(agreed, journal', w) /\ Len(journal') = n - a
    <2>1. IsPath(agreed, journal, at) /\ a \in 0 .. Len(journal) /\ Len(journal) \in a .. Len(journal)
          /\ at[a].stage = 0
        BY <1>5, <1>7 DEF Store
    <2>2. /\ IsPath(agreed, SubSeq(journal, a + 1, Len(journal)),
                    [i \in 0 .. Len(journal) - a |-> at[i + a]])
          /\ Len(SubSeq(journal, a + 1, Len(journal))) = Len(journal) - a
        BY <2>1, PathPart
    <2>. QED
        BY <1>5, <1>6, <2>2, Zenon
<1>9. /\ w[0] = at[a] /\ w[Len(journal')] = at[n]
      /\ w[manifest.pos - start'] = at[manifest.pos - start]
    <2>1. 0 \in 0 .. n - a /\ n - a \in 0 .. n - a /\ manifest.pos - start' \in 0 .. n - a
        BY <1>4, <1>5, <1>7, SMTT(30)
    <2>2. 0 + a = a /\ (n - a) + a = n /\ (manifest.pos - start') + a = manifest.pos - start
        BY <1>4, <1>5, <1>7
    <2>. QED
        BY <1>6, <1>8, <2>1, <2>2
<1>10. /\ start' \in Nat /\ start' <= manifest.pos /\ synced - start' = Len(journal')
       /\ synced' = start' + Len(journal') /\ synced' - start' = Len(journal')
       /\ Len(journal') \in Nat
    <2>1. /\ synced' = start + n /\ start' = start + a /\ Len(journal') = n - a
          /\ a <= manifest.pos - start /\ synced = start + n
        BY <1>1, <1>4, <1>5, <1>8
    <2>. HIDE DEF n
    <2>. QED
        BY <1>4, <1>7, <2>1
<1>11. Store(w)'
    <2>1. ManifestInv(w)'
        BY <1>1, <1>9, <1>10 DEF Store, ManifestInv
    <2>2. EpochKept'
        BY <1>1, <1>2 DEF EpochKept
    <2>3. TipInv(w)'
        <3>1. CASE a = 0
            BY <1>1, <1>9, <3>1 DEF Store, TipInv
        <3>2. CASE at[a].top < tip
            <4>1. at[a].top \in Nat
                BY <1>5, Facts
            <4>. QED
                BY <1>1, <1>4, <1>9, <3>2, <4>1 DEF TipInv
        <3>. QED
            BY <1>5, <3>1, <3>2
    <2>4. DurableInv(w)'
        <3>1. \A i \in (synced' - start') .. Len(journal') : i = Len(journal')
            BY <1>10, SMTT(30)
        <3>2. Len(journal) \in (synced - start) .. Len(journal)
            BY <1>4
        <3>3. at[n].top \in {tip, tip + 1} /\ DiskAt(agreed, at[n], live)
            BY <3>2 DEF Store, DurableInv
        <3>. QED
            BY <1>1, <1>9, <3>1, <3>3 DEF DurableInv
    <2>. QED
        BY <1>1, <1>8, <2>1, <2>2, <2>3, <2>4 DEF Store
<1>12. Process(w)'
    <2>1. prev'.pos = manifest.pos
        BY <1>1
    <2>2. PrevInv(w)' /\ CutoverInv' /\ FinalInv'
        BY <1>1, <1>3, <2>1 DEF PrevInv, CutoverInv, FinalInv
    <2>3. PhaseInv(w)'
        BY <1>1, <1>2, <1>3, <1>9 DEF PhaseInv
    <2>. QED
        BY <2>2, <2>3 DEF Process
<1>13. Typed'
    <2>1. synced' \in start' .. End'
        BY <1>7, <1>8, <1>10, SMTT(30) DEF End
    <2>2. TypeOK'
        BY <1>1, <2>1 DEF Typed, TypeOK, Phase
    <2>3. journal' \in Seq(Record)
        BY <1>8 DEF IsPath
    <2>4. prev' \in [height : 0 .. MaxHeight, pos : Nat]
        BY <1>1, <1>4
    <2>. QED
        BY <1>1, <1>10, <2>2, <2>3, <2>4 DEF Typed
<1>. QED
    BY <1>11, <1>12, <1>13

--------------------------------------------------------------------------------
\* The engine finalizes a batch: the log grows, nothing else moves.
LEMMA FinalizeTyped ==
    ASSUME Typed, NEW b \in Batch, Finalize(b)
    PROVE  /\ Typed' /\ Extends(agreed', agreed)
           /\ UNCHANGED <<journal, start, synced, manifest, floor, live, tip, window, epoch,
                          finalized, prev, anchored, inPass, phase, todo, booting>>
<1>1. /\ agreed' = Append(agreed, b) /\ Len(agreed) < MaxHeight
      /\ UNCHANGED <<journal, start, synced, manifest, floor, live, tip, window, epoch,
                     finalized, prev, anchored, inPass, phase, todo, booting>>
    BY DEF Finalize, diskVars, nodeVars
<1>2. agreed \in Seq(Batch) /\ Len(agreed) \in Nat /\ tip \in 0 .. Len(agreed)
    BY LenProperties DEF Typed, TypeOK
<1>3. /\ agreed' \in Seq(Batch) /\ Len(agreed') = Len(agreed) + 1
      /\ \A h \in 1 .. Len(agreed) : agreed'[h] = agreed[h]
    BY <1>1, <1>2
<1>4. Len(agreed') <= MaxHeight /\ tip' \in 0 .. Len(agreed')
    BY <1>1, <1>2, <1>3, RecoveryAssumption
<1>5. TypeOK'
    BY <1>1, <1>3, <1>4 DEF Typed, TypeOK, End
<1>6. Typed'
    BY <1>1, <1>5 DEF Typed
<1>7. Extends(agreed', agreed)
    BY <1>2, <1>3 DEF Extends
<1>. QED
    BY <1>1, <1>6, <1>7

\* A cause to refuse does not go away as the log grows.
LEMMA FinalizeCause ==
    ASSUME Typed, RefusedForCause, NEW b \in Batch, Finalize(b)
    PROVE  RefusedForCause'
<1>1. /\ Extends(agreed', agreed) /\ journal' = journal /\ manifest' = manifest /\ live' = live
      /\ phase' = phase
    BY FinalizeTyped
<1>2. phase # "verify"
    BY DEF RefusedForCause
<1>3. ASSUME phase = "corrupt"
      PROVE  \E h \in (manifest.height + 1) .. Len(agreed') : RefusedHeight(agreed', h)
    <2>1. PICK h \in (manifest.height + 1) .. Len(agreed) : RefusedHeight(agreed, h)
        BY <1>3 DEF RefusedForCause
    <2>2. /\ manifest.height \in Nat /\ Len(agreed) \in Nat /\ Len(agreed') \in Nat
          /\ Len(agreed) <= Len(agreed')
        BY <1>1, RecoveryAssumption DEF Extends, Typed
    <2>3. h \in 1 .. Len(agreed) /\ h \in (manifest.height + 1) .. Len(agreed')
        BY <2>2
    <2>. QED
        BY <1>1, <2>1, <2>3, RefusedStable
<1>4. TrailingHeight' = TrailingHeight
    BY <1>1 DEF TrailingHeight, InScopeAt, InScope, HasHeight
<1>. QED
    BY <1>1, <1>2, <1>3, <1>4 DEF RefusedForCause

\* The invariant reads the log only where it no longer changes.
LEMMA FinalizeKeeps ==
    ASSUME Typed, NEW at, Store(at), Process(at), NEW b \in Batch, Finalize(b)
    PROVE  Store(at)' /\ Process(at)'
<1>1. /\ Extends(agreed', agreed)
      /\ UNCHANGED <<journal, start, synced, manifest, floor, live, tip, window, epoch,
                     finalized, prev, anchored, inPass, phase, todo, booting>>
    BY FinalizeTyped
<1>2. /\ Len(agreed) \in Nat /\ tip \in 0 .. Len(agreed) /\ start \in Nat /\ synced \in Nat
      /\ manifest.pos - start \in 0 .. Len(journal) /\ manifest.height \in Nat
      /\ synced - start \in 0 .. Len(journal) /\ Len(journal) \in Nat
      /\ \A i \in 0 .. Len(journal) : at[i] \in Position /\ at[i].top \in 0 .. Len(agreed)
    BY Facts
<1>3. IsPath(agreed, journal, at)
    BY DEF Store
<1>4. ManifestInv(at)'
    <2>1. manifest.height \in 0 .. Len(agreed) /\ at[manifest.pos - start].top \in 0 .. Len(agreed)
        <3>1. at[manifest.pos - start].top \in 0 .. Len(agreed)
            BY <1>2
        <3>2. manifest.height <= at[manifest.pos - start].top
            BY DEF Store, ManifestInv
        <3>. QED
            BY <1>2, <3>1, <3>2
    <2>2. /\ RootsAt(agreed', manifest.height) = RootsAt(agreed, manifest.height)
          /\ RootsAt(agreed', at[manifest.pos - start].top)
             = RootsAt(agreed, at[manifest.pos - start].top)
        BY <1>1, <2>1, RootsStable
    <2>. QED
        BY <1>1, <2>2 DEF Store, ManifestInv
<1>5. ASSUME NEW i \in 0 .. Len(journal), NEW m, at[i].stage = 3
      PROVE  StatesOf(agreed', m)[at[i].top + 1] = StatesOf(agreed, m)[at[i].top + 1]
    <2>1. at[i].top + 1 \in 0 .. Len(agreed)
        BY <1>2, <1>3, <1>5, SMTT(30) DEF IsPath, OpenAt
    <2>. QED
        BY <1>1, <2>1, StatesStable
<1>6. DurableInv(at)'
    <2>. SUFFICES ASSUME NEW i \in (synced - start) .. Len(journal)
                  PROVE  at[i].top \in {tip, tip + 1} /\ DiskAt(agreed', at[i], live)
        BY <1>1 DEF DurableInv
    <2>1. at[i].top \in {tip, tip + 1} /\ DiskAt(agreed, at[i], live)
        BY DEF Store, DurableInv
    <2>2. i \in 0 .. Len(journal)
        BY <1>2
    <2>3. \A m : StatesOf(agreed', m)[at[i].top] = StatesOf(agreed, m)[at[i].top]
        BY <1>1, <1>2, <2>2, StatesStable
    <2>. QED
        BY <1>5, <2>1, <2>2, <2>3 DEF DiskAt
<1>7. Store(at)'
    <2>1. IsPath(agreed', journal, at)
        BY <1>1, <1>3, PathStable
    <2>2. EpochKept' /\ TipInv(at)'
        BY <1>1 DEF Store, EpochKept, TipInv
    <2>. QED
        BY <1>1, <1>4, <1>6, <2>1, <2>2 DEF Store
<1>8. PrevInv(at)' /\ CutoverInv'
    BY <1>1 DEF Process, PrevInv, CutoverInv, Running, Refused
<1>9. FinalInv'
    <2>. SUFFICES ASSUME Running
                  PROVE  finalized.roots = RootsAt(agreed', finalized.height)
        BY <1>1 DEF Process, FinalInv, Running, Refused
    <2>1. finalized.height \in 0 .. Len(agreed) /\ finalized.roots = RootsAt(agreed, finalized.height)
        <3>1. finalized.roots = RootsAt(agreed, finalized.height) /\ finalized.height <= tip
            BY DEF Process, FinalInv
        <3>2. finalized.height \in 0 .. MaxHeight /\ MaxHeight \in Nat
            BY RecoveryAssumption DEF Typed
        <3>3. finalized.height \in 0 .. Len(agreed)
            BY <1>2, <3>1, <3>2
        <3>. QED
            BY <3>1, <3>3
    <2>. QED
        BY <1>1, <2>1, RootsStable
<1>10. PhaseInv(at)'
    <2>1. RootsAt(agreed', tip) = RootsAt(agreed, tip)
        BY <1>1, <1>2, RootsStable
    <2>2. Len(journal) \in 0 .. Len(journal) /\ tip \in Nat
        BY <1>2
    <2>3. phase = "sealed" => RootsAt(agreed', tip + 1) = RootsAt(agreed, tip + 1)
        <3>1. ASSUME phase = "sealed" PROVE tip + 1 \in 0 .. Len(agreed)
            BY <1>2, <2>2, <3>1, PosIs DEF Process, PhaseInv
        <3>. QED
            BY <1>1, <3>1, RootsStable
    <2>4. phase = "commit" =>
             /\ Halfway(agreed', tip, todo) = Halfway(agreed, tip, todo)
             /\ agreed'[tip + 1] = agreed[tip + 1]
        <3>. SUFFICES ASSUME phase = "commit"
                      PROVE  /\ Halfway(agreed', tip, todo) = Halfway(agreed, tip, todo)
                             /\ agreed'[tip + 1] = agreed[tip + 1]
            OBVIOUS
        <3>1. at[Len(journal)] = Pos(tip, 3)
            BY DEF Process, PhaseInv
        <3>2. tip + 1 \in 1 .. Len(agreed) /\ tip + 1 \in 0 .. Len(agreed)
            <4>1. tip + 1 \in 1 .. Len(agreed)
                BY <2>2, <3>1, EndIs, PosIs
            <4>. QED
                BY <1>2, <4>1
        <3>3. \A m : /\ StatesOf(agreed', m)[tip] = StatesOf(agreed, m)[tip]
                     /\ StatesOf(agreed', m)[tip + 1] = StatesOf(agreed, m)[tip + 1]
            BY <1>1, <1>2, <3>2, StatesStable
        <3>. QED
            BY <1>1, <3>2, <3>3 DEF Halfway, Extends
    <2>5. IsDurable' = IsDurable
        BY <1>1 DEF IsDurable, End
    <2>. QED
        BY <1>1, <2>1, <2>3, <2>4, <2>5 DEF Process, PhaseInv, Running, Refused
<1>. QED
    BY <1>7, <1>8, <1>9, <1>10 DEF Process

\* The journal up to record k.
LEMMA PathPrefix ==
    ASSUME NEW log, NEW j, NEW at, IsPath(log, j, at), NEW k \in 0 .. Len(j), Len(log) \in Nat
    PROVE  \E w : /\ IsPath(log, SubSeq(j, 1, k), w) /\ Len(SubSeq(j, 1, k)) = k
                  /\ \A i \in 0 .. k : w[i] = at[i]
                  /\ \A i \in 1 .. k : SubSeq(j, 1, k)[i] = j[i]
<1>1. PICK w : w = [i \in 0 .. k - 0 |-> at[i + 0]]
    OBVIOUS
<1>2. Len(j) \in Nat /\ 0 \in 0 .. Len(j) /\ k \in 0 .. Len(j) /\ at[0].stage = 0
    BY PathNumbers DEF IsPath
<1>3. /\ IsPath(log, SubSeq(j, 0 + 1, k), [i \in 0 .. k - 0 |-> at[i + 0]])
      /\ Len(SubSeq(j, 0 + 1, k)) = k - 0
      /\ \A i \in 1 .. k - 0 : SubSeq(j, 0 + 1, k)[i] = j[i + 0]
    BY <1>2, PathPart
<1>4. k - 0 = k /\ 0 + 1 = 1
    BY <1>2
<1>5. \A i \in 0 .. k : i + 0 = i
    OBVIOUS
<1>. QED
    BY <1>1, <1>3, <1>4, <1>5

\* A crash keeps a prefix of the journal, at least what was synced.
LEMMA CrashKeeps ==
    ASSUME Typed, NEW at, Store(at), Process(at), Crash
    PROVE  Typed' /\ \E w : Store(w)' /\ Process(w)'
<1>1. /\ phase' = "down" /\ inPass' = FALSE /\ todo' = {} /\ booting' = FALSE
      /\ live' = [m \in Module |-> IF m \in Memory THEN manifest.roots[m] ELSE live[m]]
      /\ UNCHANGED <<agreed, start, manifest, floor, tip, window, epoch, finalized, prev, anchored>>
    BY DEF Crash
<1>2. PICK end \in synced .. End : journal' = SubSeq(journal, 1, end - start) /\ synced' = end
    BY DEF Crash
<1>. DEFINE k == end - start
            n == Len(journal)
<1>3. /\ start \in Nat /\ synced \in Nat /\ n \in Nat /\ synced - start \in 0 .. n
      /\ manifest.pos \in Nat /\ manifest.pos - start \in 0 .. synced - start
      /\ Len(agreed) \in Nat /\ End = start + n
    BY Facts DEF End
<1>4. /\ k \in 0 .. n /\ k \in (synced - start) .. n /\ manifest.pos - start \in 0 .. k
      /\ start + k = end /\ manifest.pos <= end /\ end \in Nat /\ synced <= end
    BY <1>3
<1>5. IsPath(agreed, journal, at)
    BY DEF Store
<1>6. PICK w : /\ IsPath(agreed, journal', w) /\ Len(journal') = k
               /\ \A i \in 0 .. k : w[i] = at[i]
               /\ \A i \in 1 .. k : journal'[i] = journal[i]
    BY <1>2, <1>3, <1>4, <1>5, PathPrefix
<1>7. w[manifest.pos - start] = at[manifest.pos - start] /\ w[0] = at[0] /\ w[k] = at[k]
    <2>1. 0 \in 0 .. k /\ k \in 0 .. k
        BY <1>4
    <2>. HIDE DEF k
    <2>. QED
        BY <1>4, <1>6, <2>1
<1>8. synced' - start = k /\ synced' = end /\ End' = end
    BY <1>1, <1>2, <1>4, <1>6 DEF End
<1>. HIDE DEF k, n
<1>9. Store(w)'
    <2>1. ManifestInv(w)'
        BY <1>1, <1>4, <1>7, <1>8 DEF Store, ManifestInv
    <2>2. EpochKept'
        <3>1. \A i \in 1 .. (synced - start) : i \in 1 .. k
            BY <1>3, <1>4
        <3>. QED
            BY <1>1, <1>6, <1>8, <3>1 DEF Store, EpochKept
    <2>3. TipInv(w)'
        BY <1>1, <1>7 DEF Store, TipInv
    <2>4. DurableInv(w)'
        <3>1. \A i \in (synced' - start') .. Len(journal') : i = k
            BY <1>1, <1>4, <1>6, <1>8
        <3>2. at[k].top \in {tip, tip + 1} /\ DiskAt(agreed, at[k], live)
            BY <1>4 DEF Store, DurableInv, n
        <3>3. \A m \in Disk : live'[m] = live[m]
            BY <1>1, RecoveryAssumption DEF Module
        <3>4. DiskAt(agreed, at[k], live')
            BY <3>2, <3>3 DEF DiskAt
        <3>. QED
            BY <1>1, <1>7, <3>1, <3>2, <3>4 DEF DurableInv
    <2>. QED
        BY <1>1, <1>6, <2>1, <2>2, <2>3, <2>4 DEF Store
<1>10. Process(w)'
    <2>1. PrevInv(w)' /\ FinalInv' /\ CutoverInv'
        BY <1>1 DEF PrevInv, FinalInv, CutoverInv, Running
    <2>2. IsDurable'
        BY <1>8 DEF IsDurable
    <2>3. \A m \in Memory : live'[m] = manifest'.roots[m]
        BY <1>1 DEF Module
    <2>4. PhaseInv(w)'
        BY <1>1, <2>2, <2>3 DEF PhaseInv, Running
    <2>. QED
        BY <2>1, <2>4 DEF Process
<1>11. Typed'
    <2>1. {anchored', inPass', booting'} \subseteq BOOLEAN
        BY <1>1, Zenon DEF Typed, TypeOK
    <2>2. live' \in Roots
        BY <1>1 DEF Typed, TypeOK, Roots
    <2>3. synced' \in start' .. End'
        BY <1>1, <1>3, <1>4, <1>8
    <2>4. TypeOK'
        BY <1>1, <2>1, <2>2, <2>3 DEF Typed, TypeOK, Phase
    <2>5. journal' \in Seq(Record)
        BY <1>6 DEF IsPath
    <2>. QED
        BY <1>1, <2>4, <2>5 DEF Typed
<1>. QED
    BY <1>9, <1>10, <1>11

\* A dead process is where the boot expects it.
LEMMA DownIs ==
    ASSUME Typed, NEW at, Store(at), Process(at), phase = "down"
    PROVE  Down(at) /\ manifest.epoch \in 0 .. MaxEpoch /\ synced = start + Len(journal)
<1>. DEFINE n == Len(journal)
            mh == manifest.height
            k == manifest.pos - start
            P == at[k].top
            b == at[0].top
            T == at[n].top
<1>1. /\ agreed \in Seq(Batch) /\ Len(agreed) \in Nat /\ n \in Nat /\ k \in 0 .. n /\ mh \in Nat
      /\ manifest.epoch \in 0 .. MaxEpoch /\ tip \in Nat
      /\ \A i \in 0 .. n : at[i] \in Position /\ at[i].top \in 0 .. Len(agreed)
    BY Facts
<1>2. IsDurable /\ \A m \in Memory : live[m] = manifest.roots[m]
    BY DEF Process, PhaseInv
<1>3. /\ IsPath(agreed, journal, at) /\ mh <= P /\ P <= tip
      /\ manifest.roots = RootsAt(agreed, mh) /\ manifest.roots = RootsAt(agreed, P)
      /\ b <= tip /\ (tip > b \/ tip = mh)
    BY DEF Store, ManifestInv, TipInv
<1>4. 0 \in 0 .. n /\ n \in 0 .. n /\ 0 <= k /\ k <= n
    BY <1>1
<1>5. P \in 0 .. Len(agreed) /\ b \in 0 .. Len(agreed) /\ T \in 0 .. Len(agreed)
    BY <1>1, <1>4
<1>6. b <= P /\ P <= T
    BY <1>1, <1>3, <1>4 DEF IsPath
<1>7. T \in {tip, tip + 1} /\ DiskAt(agreed, at[n], live)
    BY EndIs
<1>. HIDE DEF n, mh, k, P, b, T
<1>8. mh <= T /\ mh \in 0 .. Len(agreed)
    BY <1>1, <1>3, <1>5, <1>6
<1>9. T > b \/ T = mh
    BY <1>1, <1>3, <1>5, <1>7
<1>10. b > mh => RootsAt(agreed, b) = manifest.roots
    <2>. SUFFICES ASSUME b > mh PROVE RootsAt(agreed, b) = RootsAt(agreed, mh)
        BY <1>3
    <2>1. mh <= b
        BY <1>1, <1>5
    <2>2. ASSUME NEW m \in Module
          PROVE  StatesOf(agreed, m)[b] = StatesOf(agreed, m)[mh]
        <3>1. StatesOf(agreed, m)[mh] = StatesOf(agreed, m)[P]
            BY <1>3 DEF RootsAt
        <3>. QED
            BY <1>1, <1>5, <1>6, <1>8, <2>1, <3>1, StateBetween
    <2>. QED
        BY <2>2 DEF RootsAt
<1>11. live \in [Module -> Seq(Nat)]
    <2>1. live \in [Module -> Seq(Height)] /\ Height \subseteq Nat
        BY DEF Typed, TypeOK, Roots, Height
    <2>2. \A m \in Module : live[m] \in Seq(Nat)
        BY <2>1, SeqMonotonic
    <2>. QED
        BY <2>1, <2>2
<1>12. Down(at)
    BY <1>1, <1>2, <1>3, <1>7, <1>8, <1>9, <1>10, <1>11 DEF Down, n, mh, b, T
<1>. QED
    BY <1>1, <1>2, <1>12 DEF IsDurable, End

\* A boot refuses for a cause.
LEMMA RefuseBootKeeps ==
    ASSUME Repeating = {}, Typed, NEW at, Store(at), Process(at), RefuseBoot
    PROVE  Typed' /\ RefusedForCause' /\ Refused'
<1>1. /\ phase = "down" /\ phase' = Outcome(Replayed).phase
      /\ Outcome(Replayed).phase \notin {"idle", "apply", "commit"}
      /\ UNCHANGED <<agreed, journal, start, synced, manifest, floor, live, tip, window, epoch,
                     finalized, prev, anchored, inPass, todo, booting>>
    BY DEF RefuseBoot, diskVars
<1>2. Down(at) /\ manifest.epoch \in 0 .. MaxEpoch
    BY <1>1, DownIs
<1>3. ~ \E e : Boots(Replayed, Outcome(Replayed), at, e)
    BY <1>1 DEF Boots
<1>4. \/ phase' = "corrupt" /\ CorruptCause
      \/ phase' = "torn" /\ TornCause
    BY <1>1, <1>2, <1>3, BootIs
<1>5. TrailingHeight' = TrailingHeight
    BY <1>1 DEF TrailingHeight, InScopeAt, InScope, HasHeight
<1>6. RefusedForCause'
    BY <1>1, <1>4, <1>5 DEF RefusedForCause, CorruptCause, TornCause
<1>7. Typed'
    <2>1. phase' \in Phase
        BY <1>4 DEF Phase
    <2>2. TypeOK'
        BY <1>1, <2>1 DEF Typed, TypeOK, End
    <2>. QED
        BY <1>1, <2>2 DEF Typed
<1>. QED
    BY <1>4, <1>6, <1>7 DEF Refused

\* What a boot puts in memory.
LEMMA RecoverIs ==
    ASSUME Repeating = {}, Typed, NEW at, Store(at), Process(at), Recover
    PROVE  LET p == at[Len(journal)]
           IN  /\ phase = "down" /\ Down(at) /\ synced = start + Len(journal)
               /\ phase' = IF p.stage = 0 THEN "idle" ELSE IF p.stage = 3 THEN "commit" ELSE "apply"
               /\ todo' = IF p.stage = 3 THEN Writes[agreed[p.top + 1]] \ MovedTo(at) ELSE {}
               /\ epoch' \in 0 .. MaxEpoch /\ EpochOf(epoch', Len(journal))
               /\ live' = [m \in Module |-> IF m \in Memory THEN StatesOf(agreed, m)[p.top]
                                            ELSE live[m]]
               /\ tip' = p.top
               /\ window' = Newest(manifest.window
                                   \cup {h \in 1 .. p.top : h > at[0].top /\ h > manifest.height})
               /\ finalized' = [height |-> p.top, roots |-> RootsAt(agreed, p.top)]
               /\ prev' = [height |-> manifest.height, pos |-> manifest.pos]
               /\ anchored' = FALSE /\ booting' \in BOOLEAN
               /\ IF p.stage \in {1, 2}
                  THEN LET k == MaxOf(InScopeAt("block"))
                       IN  /\ journal' = SubSeq(journal, 1, k - 1)
                                         \o PreApplyRecs(p.top + 1, agreed[p.top + 1])
                           /\ synced' = start + k - 1
                  ELSE UNCHANGED <<journal, synced>>
               /\ UNCHANGED <<agreed, start, manifest, floor, inPass, crashes>>
<1>. DEFINE p == at[Len(journal)]
            acc == Replayed
            out == Outcome(acc)
            T == p.top
            mh == manifest.height
            b == at[0].top
<1>1. /\ phase = "down" /\ out.phase \in {"idle", "apply", "commit"}
      /\ phase' = out.phase /\ todo' = out.todo /\ booting' = (acc.open # <<>>)
      /\ live' = acc.live /\ tip' = acc.tip /\ epoch' = acc.epoch
      /\ window' = Newest(acc.window)
      /\ finalized' = [height |-> acc.tip, roots |-> acc.expected]
      /\ prev' = [height |-> manifest.height, pos |-> manifest.pos] /\ anchored' = FALSE
      /\ IF out.phase = "apply"
         THEN /\ journal' = Rewound(acc)
              /\ synced' = start + MaxOf(InScopeAt("block")) - 1
         ELSE UNCHANGED <<journal, synced>>
      /\ UNCHANGED <<agreed, start, manifest, floor, inPass, crashes>>
    BY Zenon DEF Recover, RecoveredWindow
<1>2. Down(at) /\ manifest.epoch \in 0 .. MaxEpoch /\ synced = start + Len(journal)
    BY <1>1, DownIs
<1>. HIDE DEF acc, out
<1>3. PICK e : Boots(acc, out, at, e)
    <2>1. \/ \E e : Boots(acc, out, at, e)
          \/ out.phase = "corrupt" /\ CorruptCause
          \/ out.phase = "torn" /\ TornCause
        BY <1>2, BootIs DEF acc, out
    <2>. QED
        BY <1>1, <2>1
<1>4. /\ e \in 0 .. MaxEpoch /\ EpochOf(e, Len(journal)) /\ acc = Tracked(b, p, e)
      /\ out.phase = IF p.stage = 0 THEN "idle" ELSE IF p.stage = 3 THEN "commit" ELSE "apply"
      /\ out.todo = IF p.stage = 3 THEN Writes[agreed[p.top + 1]] \ MovedTo(at) ELSE {}
    BY <1>3 DEF Boots
<1>5. /\ mh \in Nat /\ mh <= T /\ (T > b \/ T = mh) /\ IsPath(agreed, journal, at)
      /\ Len(agreed) \in Nat
    BY <1>2 DEF Down
<1>6. T \in Nat /\ p.stage \in 0 .. 3 /\ b \in Nat
    <2>1. T \in 0 .. Len(agreed) /\ b \in 0 .. Len(agreed) /\ p.stage \in 0 .. 3
        BY <1>5, PathNumbers
    <2>. QED
        BY <2>1
<1>7. Reached(p) = T /\ (IF T > b THEN Reached(p) ELSE mh) = T
    BY <1>5, <1>6 DEF Reached
<1>8. /\ acc.live = [m \in Module |-> IF m \in Memory THEN StatesOf(agreed, m)[T] ELSE live[m]]
      /\ acc.expected = RootsAt(agreed, T) /\ acc.tip = T /\ acc.epoch = e
      /\ acc.window = manifest.window \cup {h \in 1 .. T : h > b /\ h > mh}
      /\ acc.open = OpenOf(p)
    BY <1>4, <1>7 DEF Tracked
<1>9. out.phase = "apply" <=> p.stage \in {1, 2}
    BY <1>4, <1>6
<1>10. p.stage \in {1, 2} => Rewound(acc) = SubSeq(journal, 1, MaxOf(InScopeAt("block")) - 1)
                                            \o PreApplyRecs(T + 1, agreed[T + 1])
    <2>. SUFFICES ASSUME p.stage \in {1, 2}
                  PROVE  acc.open[1].height = T + 1 /\ acc.open[1].batch = agreed[T + 1]
        BY DEF Rewound
    <2>1. p.stage \in 1 .. 3 /\ T >= mh
        BY <1>5, <1>6
    <2>2. acc.open = <<[height |-> T + 1, batch |-> agreed[T + 1],
                        scheduled |-> p.stage > 1, witnessed |-> p.stage > 2]>>
        BY <1>5, <1>6, <1>8, <2>1, OpenOfIs
    <2>. DEFINE o == [height |-> T + 1, batch |-> agreed[T + 1],
                      scheduled |-> p.stage > 1, witnessed |-> p.stage > 2]
    <2>3. acc.open[1] = o
        BY <2>2
    <2>4. o.height = T + 1 /\ o.batch = agreed[T + 1]
        BY Zenon
    <2>. HIDE DEF o
    <2>. QED
        BY <2>3, <2>4
<1>11. booting' \in BOOLEAN
    BY <1>1, Zenon
<1>12. IF p.stage \in {1, 2}
       THEN /\ journal' = SubSeq(journal, 1, MaxOf(InScopeAt("block")) - 1)
                          \o PreApplyRecs(T + 1, agreed[T + 1])
            /\ synced' = start + MaxOf(InScopeAt("block")) - 1
       ELSE UNCHANGED <<journal, synced>>
    BY <1>1, <1>9, <1>10
<1>13. /\ phase' = IF p.stage = 0 THEN "idle" ELSE IF p.stage = 3 THEN "commit" ELSE "apply"
       /\ todo' = IF p.stage = 3 THEN Writes[agreed[p.top + 1]] \ MovedTo(at) ELSE {}
       /\ epoch' \in 0 .. MaxEpoch /\ EpochOf(epoch', Len(journal))
    BY <1>1, <1>4, <1>8
<1>14. /\ live' = [m \in Module |-> IF m \in Memory THEN StatesOf(agreed, m)[T] ELSE live[m]]
       /\ tip' = T
       /\ window' = Newest(manifest.window \cup {h \in 1 .. T : h > b /\ h > mh})
       /\ finalized' = [height |-> T, roots |-> RootsAt(agreed, T)]
    BY <1>1, <1>8
<1>15. /\ phase = "down" /\ prev' = [height |-> manifest.height, pos |-> manifest.pos]
       /\ anchored' = FALSE /\ UNCHANGED <<agreed, start, manifest, floor, inPass, crashes>>
    BY <1>1
<1>. QED
    BY <1>2, <1>11, <1>12, <1>13, <1>14, <1>15

\* The window rebuilt from the manifest's and the journal's heights.
Remembered(S, T, P, b, mh) == S = Newest(1 .. P) \cup {h \in 1 .. T : h > b /\ h > mh}

LEMMA WindowRebuilt ==
    ASSUME NEW T \in Nat, NEW P \in 0 .. T, NEW b \in 0 .. P, NEW mh \in 0 .. P,
           NEW S, Remembered(S, T, P, b, mh)
    PROVE  Newest(S) = Newest(1 .. T)
<1>. USE DEF Remembered
<1>1. P \in Nat /\ WindowDepth \in Nat
    BY RecoveryAssumption
<1>2. Newest(1 .. P) = {h \in 1 .. P : P - h < WindowDepth}
    BY <1>1, NewestInterval
<1>3. S \subseteq 1 .. T
    BY <1>1, <1>2
<1>4. ASSUME NEW h \in 1 .. T, T - h < WindowDepth
      PROVE  h \in S
    <2>1. CASE h <= P
        <3>1. h \in 1 .. P /\ P - h < WindowDepth
            BY <1>1, <1>4, <2>1
        <3>. QED
            BY <1>2, <3>1
    <2>2. CASE ~ (h <= P)
        <3>1. h > b /\ h > mh
            BY <1>1, <2>2
        <3>. QED
            BY <3>1
    <2>. QED
        BY <2>1, <2>2
<1>. QED
    BY <1>3, <1>4, NewestRebuilt

\* The numbers of a boot: P is the manifest's boundary, T the sealed tip.
LEMMA BootNumbers ==
    ASSUME Typed, NEW at, Store(at), Down(at)
    PROVE  LET T == at[Len(journal)].top
               P == at[manifest.pos - start].top
           IN  /\ T \in Nat /\ T \in 0 .. Len(agreed) /\ P \in 0 .. T /\ at[0].top \in 0 .. P
               /\ manifest.height \in 0 .. P
               /\ T >= tip /\ (T > at[0].top \/ T = manifest.height)
               /\ at[Len(journal)] = Pos(T, at[Len(journal)].stage)
               /\ at[Len(journal)].stage \in 0 .. 3
<1>. DEFINE n == Len(journal)
            k == manifest.pos - start
            T == at[n].top
            P == at[k].top
<1>1. /\ n \in Nat /\ k \in 0 .. n /\ Len(agreed) \in Nat /\ manifest.height \in Nat /\ tip \in Nat
      /\ \A i \in 0 .. n : /\ at[i] \in Position /\ at[i].top \in 0 .. Len(agreed)
                           /\ at[i].stage \in 0 .. 3
    BY Facts
<1>2. 0 \in 0 .. n /\ n \in 0 .. n /\ 0 <= k /\ k <= n
    BY <1>1
<1>3. at[0].top <= P /\ P <= T
    BY <1>1, <1>2 DEF Store, IsPath
<1>4. manifest.height <= P
    BY DEF Store, ManifestInv
<1>5. T \in {tip, tip + 1}
    BY EndIs
<1>6. T > at[0].top \/ T = manifest.height
    BY DEF Down
<1>7. at[0].top \in 0 .. Len(agreed) /\ P \in 0 .. Len(agreed) /\ T \in 0 .. Len(agreed)
      /\ at[n] \in Position /\ at[n].stage \in 0 .. 3
    BY <1>1, <1>2
<1>8. at[n] = Pos(T, at[n].stage)
    BY <1>7 DEF Position, Pos
<1>. HIDE DEF n, k, T, P
<1>9. T \in Nat /\ P \in 0 .. T /\ at[0].top \in 0 .. P /\ manifest.height \in 0 .. P /\ T >= tip
    BY <1>1, <1>3, <1>4, <1>5, <1>7
<1>. QED
    BY <1>6, <1>7, <1>8, <1>9 DEF n, k, T, P

\* The modules after a boot: at the sealed tip, unless the open block's
\* witness is durable and some of them committed it.
LEMMA BootModules ==
    ASSUME NEW at, Down(at), NEW st,
           st = [m \in Module |-> IF m \in Memory THEN StatesOf(agreed, m)[at[Len(journal)].top]
                                  ELSE live[m]]
    PROVE  LET p == at[Len(journal)]
           IN  /\ DiskAt(agreed, p, st)
               /\ p.stage # 3 => st = RootsAt(agreed, p.top)
               /\ p.stage = 3 =>
                     st = Halfway(agreed, p.top, Writes[agreed[p.top + 1]] \ MovedTo(at))
<1>. DEFINE p == at[Len(journal)]
            T == p.top
<1>1. DiskAt(agreed, p, live) /\ IsPath(agreed, journal, at) /\ agreed \in Seq(Batch)
      /\ Len(agreed) \in Nat
    BY DEF Down
<1>2. \A m \in Module : m \in Disk <=> m \notin Memory
    BY RecoveryAssumption DEF Module
<1>3. DiskAt(agreed, p, st)
    BY <1>1, <1>2 DEF DiskAt, Module
<1>4. p.stage # 3 => st = RootsAt(agreed, T)
    BY <1>1, <1>2 DEF DiskAt, RootsAt
<1>5. ASSUME p.stage = 3
      PROVE  st = Halfway(agreed, T, Writes[agreed[T + 1]] \ MovedTo(at))
    <2>1. T \in Nat /\ T + 1 \in 1 .. Len(agreed)
        <3>1. T \in 0 .. Len(agreed) /\ (p.stage > 0 => T + 1 \in 1 .. Len(agreed))
            BY <1>1, PathNumbers
        <3>. QED
            BY <1>5, <3>1
    <2>2. \A m : m \notin Writes[agreed[T + 1]] => StatesOf(agreed, m)[T + 1] = StatesOf(agreed, m)[T]
        BY <1>1, <2>1, NextRoots
    <2>3. ASSUME NEW m \in Module
          PROVE  st[m] = IF m \in Writes[agreed[T + 1]] \ MovedTo(at) THEN StatesOf(agreed, m)[T]
                         ELSE StatesOf(agreed, m)[T + 1]
        <3>1. CASE m \in MovedTo(at)
            <4>1. m \in Disk /\ live[m] # StatesOf(agreed, m)[T]
                BY <3>1 DEF MovedTo
            <4>2. st[m] = live[m]
                BY <1>2, <4>1
            <4>3. live[m] = StatesOf(agreed, m)[T + 1]
                BY <1>1, <4>1 DEF DiskAt
            <4>. QED
                BY <3>1, <4>2, <4>3
        <3>2. CASE m \notin MovedTo(at)
            <4>1. st[m] = StatesOf(agreed, m)[T]
                BY <1>2, <3>2 DEF MovedTo
            <4>. QED
                BY <2>2, <3>2, <4>1
        <3>. QED
            BY <3>1, <3>2
    <2>. QED
        BY <2>3 DEF Halfway
<1>. QED
    BY <1>3, <1>4, <1>5

\* The process a boot leaves.
LEMMA RecoverProcess ==
    ASSUME Repeating = {}, Typed, NEW at, Store(at), Process(at), Recover, NEW w,
           at[Len(journal)].stage \in {0, 3} => w[Len(journal')] = at[Len(journal)],
           at[Len(journal)].stage \in {1, 2} => w[Len(journal')] = Pos(at[Len(journal)].top, 2)
    PROVE  /\ Process(w)' /\ live' \in Roots /\ tip' \in 0 .. Len(agreed)
           /\ window' = Newest(1 .. tip') /\ todo' \subseteq Module
<1>. DEFINE p == at[Len(journal)]
            T == p.top
<1>1. /\ phase = "down" /\ Down(at)
      /\ phase' = IF p.stage = 0 THEN "idle" ELSE IF p.stage = 3 THEN "commit" ELSE "apply"
      /\ todo' = IF p.stage = 3 THEN Writes[agreed[p.top + 1]] \ MovedTo(at) ELSE {}
      /\ live' = [m \in Module |-> IF m \in Memory THEN StatesOf(agreed, m)[T] ELSE live[m]]
      /\ tip' = T
      /\ window' = Newest(manifest.window \cup {h \in 1 .. T : h > at[0].top /\ h > manifest.height})
      /\ finalized' = [height |-> T, roots |-> RootsAt(agreed, T)]
      /\ prev' = [height |-> manifest.height, pos |-> manifest.pos]
      /\ UNCHANGED <<agreed, start, manifest>>
    BY RecoverIs
<1>2. /\ T \in Nat /\ T \in 0 .. Len(agreed) /\ at[manifest.pos - start].top \in 0 .. T
      /\ at[0].top \in 0 .. at[manifest.pos - start].top
      /\ manifest.height \in 0 .. at[manifest.pos - start].top
      /\ p = Pos(T, p.stage) /\ p.stage \in 0 .. 3
    BY <1>1, BootNumbers
<1>3. window' = Newest(1 .. T)
    <2>1. manifest.window = Newest(1 .. at[manifest.pos - start].top)
        BY DEF Store, ManifestInv
    <2>2. PICK S : S = manifest.window
                       \cup {h \in 1 .. T : h > at[0].top /\ h > manifest.height}
        OBVIOUS
    <2>3. Newest(S) = Newest(1 .. T)
        <3>1. PICK t, P, b, mh : /\ t = T /\ P = at[manifest.pos - start].top
                                 /\ b = at[0].top /\ mh = manifest.height
            OBVIOUS
        <3>2. t \in Nat /\ P \in 0 .. t /\ b \in 0 .. P /\ mh \in 0 .. P
            BY <1>2, <3>1
        <3>3. Remembered(S, t, P, b, mh)
            BY <2>1, <2>2, <3>1, Zenon DEF Remembered
        <3>4. Newest(S) = Newest(1 .. t)
            BY <3>2, <3>3, WindowRebuilt
        <3>. QED
            BY <3>1, <3>4
    <2>. QED
        BY <1>1, <2>2, <2>3
<1>4. /\ p.stage # 3 => live' = RootsAt(agreed, T)
      /\ p.stage = 3 => live' = Halfway(agreed, T, Writes[agreed[T + 1]] \ MovedTo(at))
    <2>1. PICK st : st = [m \in Module |-> IF m \in Memory THEN StatesOf(agreed, m)[T] ELSE live[m]]
        OBVIOUS
    <2>2. /\ p.stage # 3 => st = RootsAt(agreed, T)
          /\ p.stage = 3 => st = Halfway(agreed, T, Writes[agreed[T + 1]] \ MovedTo(at))
        BY <1>1, <2>1, BootModules
    <2>. QED
        BY <1>1, <2>1, <2>2
<1>5. PhaseInv(w)'
    <2>1. CASE p.stage = 0
        BY <1>1, <1>2, <1>3, <1>4, <2>1 DEF PhaseInv
    <2>2. CASE p.stage = 3
        BY <1>1, <1>2, <1>3, <1>4, <2>2 DEF PhaseInv
    <2>3. CASE p.stage \in {1, 2}
        BY <1>1, <1>2, <1>3, <1>4, <2>3 DEF PhaseInv
    <2>4. p.stage = 0 \/ p.stage = 3 \/ p.stage \in {1, 2}
        BY <1>2
    <2>. QED
        BY <2>1, <2>2, <2>3, <2>4
<1>6. PrevInv(w)' /\ CutoverInv'
    <2>1. prev'.pos = manifest.pos /\ phase' \in {"idle", "commit", "apply"}
        BY <1>1
    <2>. QED
        BY <1>1, <2>1 DEF PrevInv, CutoverInv
<1>7. FinalInv'
    <2>1. finalized'.height = T /\ finalized'.roots = RootsAt(agreed, T)
          /\ phase' \in {"idle", "commit", "apply"}
        BY <1>1
    <2>2. manifest.height <= T /\ T <= T
        BY <1>2
    <2>. QED
        BY <1>1, <2>1, <2>2 DEF FinalInv
<1>8. Len(agreed) \in Nat /\ Len(agreed) <= MaxHeight /\ agreed \in Seq(Batch)
    BY Facts
<1>9. live' \in Roots
    <2>1. RootsAt(agreed, T) \in Roots
        BY <1>2, <1>8, RootsTyped
    <2>2. \A m \in Module : live[m] \in Seq(Height)
        BY DEF Typed, TypeOK, Roots
    <2>3. \A m \in Module : StatesOf(agreed, m)[T] \in Seq(Height)
        BY <2>1 DEF RootsAt, Roots
    <2>. QED
        BY <1>1, <2>2, <2>3 DEF Roots
<1>10. todo' \subseteq Module
    <2>1. CASE p.stage = 3
        <3>1. T + 1 \in 1 .. Len(agreed)
            BY <2>1, <1>8, EndIs
        <3>2. agreed[T + 1] \in Batch
            BY <1>8, <3>1, ElementOfSeq
        <3>3. Writes[agreed[T + 1]] \subseteq Module
            BY <3>2, RecoveryAssumption
        <3>. QED
            BY <1>1, <2>1, <3>3
    <2>2. CASE p.stage # 3
        BY <1>1, <2>2
    <2>. QED
        BY <2>1, <2>2
<1>. QED
    BY <1>1, <1>2, <1>3, <1>5, <1>6, <1>7, <1>9, <1>10 DEF Process

\* The disk a boot leaves, its journal rewound to an unwitnessed block or not.
LEMMA RecoverStore ==
    ASSUME Repeating = {}, Typed, NEW at, Store(at), Process(at), Recover
    PROVE  /\ \E w : Store(w)' /\ Process(w)'
           /\ journal' \in Seq(Record) /\ synced' \in start .. (start + Len(journal'))
<1>. DEFINE n == Len(journal)
            p == at[n]
            T == p.top
            P == at[manifest.pos - start].top
<1>1. /\ phase = "down" /\ Down(at) /\ synced = start + n
      /\ epoch' \in 0 .. MaxEpoch /\ EpochOf(epoch', n)
      /\ live' = [m \in Module |-> IF m \in Memory THEN StatesOf(agreed, m)[T] ELSE live[m]]
      /\ tip' = T /\ UNCHANGED <<agreed, start, manifest>>
    BY RecoverIs
<1>2. /\ T \in Nat /\ T \in 0 .. Len(agreed) /\ P \in 0 .. T /\ at[0].top \in 0 .. P
      /\ T > at[0].top \/ T = manifest.height
      /\ p = Pos(T, p.stage) /\ p.stage \in 0 .. 3
    BY <1>1, BootNumbers
<1>3. /\ DiskAt(agreed, p, live') /\ (p.stage # 3 => live' = RootsAt(agreed, T))
    <2>1. PICK st : st = [m \in Module |-> IF m \in Memory THEN StatesOf(agreed, m)[T] ELSE live[m]]
        OBVIOUS
    <2>2. DiskAt(agreed, p, st) /\ (p.stage # 3 => st = RootsAt(agreed, T))
        BY <1>1, <2>1, BootModules
    <2>. QED
        BY <1>1, <2>1, <2>2
<1>4. /\ n \in Nat /\ start \in Nat /\ manifest.pos - start \in 0 .. n /\ manifest.pos \in Nat
      /\ Len(agreed) \in Nat /\ agreed \in Seq(Batch) /\ manifest.epoch \in 0 .. MaxEpoch
      /\ MaxEpoch \in Nat
    BY Facts
<1>5. IsPath(agreed, journal, at) /\ journal \in Seq(Record)
    BY DEF Store, IsPath
<1>6. P <= T /\ at[0].top <= T
    BY <1>2
<1>7. CASE p.stage \in {0, 3}
    <2>1. journal' = journal /\ synced' = synced
        <3>1. p.stage \notin {1, 2}
            BY <1>7
        <3>. QED
            BY <3>1, RecoverIs
    <2>2. ManifestInv(at)'
        BY <1>1, <1>6, <2>1 DEF Store, ManifestInv
    <2>3. EpochKept'
        <3>1. synced' - start' = n
            BY <1>1, <1>4, <2>1
        <3>2. \/ epoch' <= manifest.epoch
              \/ \E i \in 1 .. n : journal[i].kind = "cutover" /\ journal[i].epoch >= epoch'
            <4>1. epoch' \in Nat /\ epoch' >= epoch' /\ epoch' <= epoch'
                BY <1>1, <1>4
            <4>. QED
                BY <1>1, <4>1 DEF EpochOf
        <3>. QED
            BY <1>1, <2>1, <3>1, <3>2 DEF EpochKept
    <2>4. TipInv(at)'
        BY <1>1, <1>2, <1>6 DEF TipInv
    <2>5. DurableInv(at)'
        <3>1. \A i \in (synced' - start') .. Len(journal') : i = n
            BY <1>1, <1>4, <2>1
        <3>. QED
            BY <1>1, <1>3, <2>1, <3>1 DEF DurableInv
    <2>6. Store(at)'
        BY <1>1, <1>5, <2>1, <2>2, <2>3, <2>4, <2>5 DEF Store
    <2>7. Process(at)'
        <3>1. at[Len(journal')] = p /\ p.stage \notin {1, 2}
            BY <1>7, <2>1
        <3>. QED
            BY <3>1, RecoverProcess
    <2>. QED
        BY <1>1, <1>4, <1>5, <2>1, <2>6, <2>7
<1>8. CASE p.stage \in {1, 2}
    <2>. DEFINE k == MaxOf(InScopeAt("block"))
                j == SubSeq(journal, 1, k - 1)
    <2>1. /\ journal' = j \o PreApplyRecs(T + 1, agreed[T + 1]) /\ synced' = start + k - 1
        BY <1>8, RecoverIs
    <2>2. /\ k \in 1 .. n /\ at[k - 1] = Pos(T, 0)
          /\ \A i \in k .. n : journal[i].kind \in {"block", "schedule", "witness"} /\ at[i].stage > 0
        <3>1. p.stage > 0
            BY <1>8
        <3>. QED
            BY <1>1, <3>1, OpenBlock
    <2>3. T + 1 \in 1 .. Len(agreed) /\ ~ RefusedHeight(agreed, T + 1)
        <3>1. p.stage > 0
            BY <1>8
        <3>. QED
            BY <3>1, EndIs
    <2>. HIDE DEF k
    <2>4. k - 1 \in 0 .. n /\ k \in Nat /\ k - 1 \in 0 .. k - 1 /\ 0 \in 0 .. k - 1
        BY <1>4, <2>2
    <2>5. PICK u : /\ IsPath(agreed, j, u) /\ Len(j) = k - 1
                   /\ \A i \in 0 .. k - 1 : u[i] = at[i]
                   /\ \A i \in 1 .. k - 1 : j[i] = journal[i]
        <3>1. PICK x : x = k - 1
            OBVIOUS
        <3>2. x \in 0 .. Len(journal) /\ j = SubSeq(journal, 1, x)
            BY <2>4, <3>1
        <3>3. \E u : /\ IsPath(agreed, SubSeq(journal, 1, x), u) /\ Len(SubSeq(journal, 1, x)) = x
                     /\ \A i \in 0 .. x : u[i] = at[i]
                     /\ \A i \in 1 .. x : SubSeq(journal, 1, x)[i] = journal[i]
            BY <1>4, <1>5, <3>2, PathPrefix
        <3>. HIDE DEF j
        <3>. QED
            BY <3>1, <3>2, <3>3
    <2>6. u[Len(j)] = Pos(T, 0)
        BY <2>2, <2>4, <2>5
    <2>. HIDE DEF j
    <2>7. PICK w : /\ IsPath(agreed, journal', w) /\ Len(journal') = Len(j) + 2
                   /\ \A i \in 0 .. Len(j) : w[i] = u[i]
                   /\ w[Len(j) + 1] = Pos(T, 1) /\ w[Len(j) + 2] = Pos(T, 2)
                   /\ journal' \in Seq(Record) /\ \A i \in 1 .. Len(j) : journal'[i] = j[i]
        <3>1. PICK t : t = T
            OBVIOUS
        <3>2. /\ IsPath(agreed, j, u) /\ agreed \in Seq(Batch) /\ t \in Nat
              /\ t + 1 \in 1 .. Len(agreed) /\ ~ RefusedHeight(agreed, t + 1)
              /\ u[Len(j)] = Pos(t, 0)
            BY <1>2, <1>4, <2>3, <2>5, <2>6, <3>1
        <3>3. PICK new : new = j \o PreApplyRecs(t + 1, agreed[t + 1])
            OBVIOUS
        <3>4. journal' = new
            BY <2>1, <3>1, <3>3
        <3>5. \E w : /\ IsPath(agreed, new, w) /\ Len(new) = Len(j) + 2
                     /\ \A i \in 0 .. Len(j) : w[i] = u[i]
                     /\ w[Len(j) + 1] = Pos(t, 1) /\ w[Len(j) + 2] = Pos(t, 2)
                     /\ new \in Seq(Record) /\ \A i \in 1 .. Len(j) : new[i] = j[i]
            BY <3>2, <3>3, BlockWritten
        <3>. QED
            BY <3>1, <3>4, <3>5
    <2>8. manifest.pos - start \in 0 .. k - 1
        <3>1. at[manifest.pos - start].stage = 0
            BY DEF Store, ManifestInv
        <3>2. manifest.pos - start \notin k .. n
            BY <2>2, <3>1
        <3>. DEFINE x == manifest.pos - start
        <3>3. x \in 0 .. n /\ x \notin k .. n
            BY <1>4, <3>2
        <3>. HIDE DEF x
        <3>4. x \in 0 .. k - 1
            BY <1>4, <2>4, <3>3
        <3>. QED
            BY <3>4 DEF x
    <2>9. w[manifest.pos - start] = at[manifest.pos - start] /\ w[0] = at[0] /\ w[k - 1] = Pos(T, 0)
        BY <2>4, <2>5, <2>6, <2>7, <2>8
    <2>10. /\ synced' - start' = k - 1 /\ Len(journal') = k + 1 /\ manifest.pos <= synced'
           /\ start <= manifest.pos /\ synced' \in start .. (start + Len(journal'))
        <3>1. start' = start /\ Len(journal') = (k - 1) + 2
            BY <1>1, <2>5, <2>7
        <3>2. manifest.pos - start <= k - 1 /\ 0 <= manifest.pos - start
            BY <1>4, <2>4, <2>8
        <3>. QED
            BY <1>4, <2>1, <2>4, <3>1, <3>2, SMTT(30)
    <2>11. ManifestInv(w)'
        BY <1>1, <1>6, <2>9, <2>10 DEF Store, ManifestInv
    <2>12. EpochKept'
        <3>1. epoch' \in Nat /\ epoch' >= epoch' /\ epoch' <= epoch'
            BY <1>1, <1>4
        <3>2. CASE epoch' = manifest.epoch
            BY <1>1, <3>1, <3>2 DEF EpochKept
        <3>3. CASE epoch' # manifest.epoch
            <4>1. PICK i \in 1 .. n : journal[i].kind = "cutover" /\ journal[i].epoch = epoch'
                BY <1>1, <3>3 DEF EpochOf
            <4>2. i \notin k .. n
                BY <2>2, <4>1
            <4>3. i \in 1 .. k - 1
                BY <1>4, <2>4, <4>2
            <4>4. journal'[i] = journal[i]
                BY <2>5, <2>7, <4>3
            <4>. QED
                BY <1>1, <2>10, <3>1, <4>1, <4>3, <4>4 DEF EpochKept
        <3>. QED
            BY <3>2, <3>3
    <2>13. TipInv(w)'
        BY <1>1, <1>2, <1>6, <2>9 DEF TipInv
    <2>14. DurableInv(w)'
        <3>1. \A i \in (synced' - start') .. Len(journal') : i = k - 1 \/ i = k \/ i = k + 1
            BY <2>4, <2>10
        <3>2. w[k - 1] = Pos(T, 0) /\ w[k] = Pos(T, 1) /\ w[k + 1] = Pos(T, 2)
            <4>1. Len(j) + 1 = k /\ Len(j) + 2 = k + 1
                BY <2>4, <2>5
            <4>. QED
                BY <2>7, <2>9, <4>1
        <3>3. \A s \in 0 .. 3 : Pos(T, s).top = T
            BY <1>2, PosIs
        <3>4. \A s \in 0 .. 3 : DiskAt(agreed, Pos(T, s), live')
            BY <1>3, <1>8, <3>3 DEF DiskAt, RootsAt, Module
        <3>5. \A i \in (synced' - start') .. Len(journal') : \E s \in 0 .. 3 : w[i] = Pos(T, s)
            BY <3>1, <3>2
        <3>. QED
            BY <1>1, <3>3, <3>4, <3>5 DEF DurableInv
    <2>15. Store(w)'
        BY <1>1, <2>7, <2>11, <2>12, <2>13, <2>14 DEF Store
    <2>16. Process(w)'
        <3>1. w[Len(journal')] = Pos(T, 2) /\ p.stage \notin {0, 3}
            BY <1>8, <2>7
        <3>. QED
            BY <3>1, RecoverProcess
    <2>. QED
        BY <2>7, <2>10, <2>15, <2>16
<1>9. p.stage \in {0, 3} \/ p.stage \in {1, 2}
    BY <1>2
<1>. QED
    BY <1>7, <1>8, <1>9

\* recover_with_sink.
LEMMA RecoverKeeps ==
    ASSUME Repeating = {}, Typed, NEW at, Store(at), Process(at), Recover
    PROVE  Typed' /\ \E w : Store(w)' /\ Process(w)'
<1>1. /\ \E w : Store(w)' /\ Process(w)'
      /\ journal' \in Seq(Record) /\ synced' \in start .. (start + Len(journal'))
    BY RecoverStore
<1>2. LET p == at[Len(journal)]
      IN  /\ phase' \in {"idle", "apply", "commit"} /\ epoch' \in 0 .. MaxEpoch
          /\ finalized' = [height |-> p.top, roots |-> RootsAt(agreed, p.top)]
          /\ prev' = [height |-> manifest.height, pos |-> manifest.pos]
          /\ anchored' = FALSE /\ booting' \in BOOLEAN
          /\ UNCHANGED <<agreed, start, manifest, floor, inPass>>
    BY RecoverIs
<1>3. /\ live' \in Roots /\ tip' \in 0 .. Len(agreed)
      /\ window' = Newest(1 .. tip') /\ todo' \subseteq Module
    <2>. DEFINE p == at[Len(journal)]
    <2>1. PICK n : n = Len(journal')
        OBVIOUS
    <2>2. PICK w : w = [i \in {n} |-> IF p.stage \in {0, 3} THEN p ELSE Pos(p.top, 2)]
        OBVIOUS
    <2>3. w[Len(journal')] = IF p.stage \in {0, 3} THEN p ELSE Pos(p.top, 2)
        BY <2>1, <2>2
    <2>4. (p.stage \in {0, 3} => w[Len(journal')] = p)
          /\ (p.stage \in {1, 2} => w[Len(journal')] = Pos(p.top, 2))
        BY <2>3
    <2>. QED
        BY <2>4, RecoverProcess
<1>4. Len(agreed) \in Nat /\ Len(agreed) <= MaxHeight /\ MaxHeight \in Nat
      /\ at[Len(journal)].top \in 0 .. Len(agreed)
    BY Facts, EndIs
<1>5. finalized' \in [height : 0 .. MaxHeight, roots : Roots]
    <2>1. RootsAt(agreed, at[Len(journal)].top) \in Roots
        BY <1>4, RootsTyped
    <2>2. at[Len(journal)].top \in 0 .. MaxHeight
        BY <1>4
    <2>. QED
        BY <1>2, <2>1, <2>2
<1>6. window' \subseteq Height /\ Cardinality(window') <= WindowDepth
    <2>1. tip' \in Nat /\ 1 .. tip' \subseteq Height
        BY <1>3, <1>4 DEF Height
    <2>. QED
        BY <1>3, <2>1, NewestSmall
<1>7. prev' \in [height : 0 .. MaxHeight, pos : Nat]
    BY <1>2 DEF Typed
<1>8. {anchored', inPass', booting'} \subseteq BOOLEAN
    BY <1>2, Zenon DEF Typed, TypeOK
<1>9. TypeOK'
    <2>1. synced' \in start' .. End'
        BY <1>1, <1>2 DEF End
    <2>2. phase' \in Phase
        BY <1>2 DEF Phase
    <2>3. finalized'.height \in 0 .. MaxHeight
        BY <1>5
    <2>. QED
        BY <1>2, <1>3, <1>6, <1>8, <2>1, <2>2, <2>3 DEF Typed, TypeOK
<1>10. Typed'
    BY <1>1, <1>2, <1>5, <1>7, <1>9 DEF Typed
<1>. QED
    BY <1>1, <1>10

--------------------------------------------------------------------------------
(***************************************************************************)
(* The theorems.  They hold where no batch holds the same member twice: a  *)
(* boot runs such a member again that the drain had skipped (the run       *)
(* Recovery_repeat).                                                       *)
(***************************************************************************)
Kept == \E w : Store(w)' /\ Process(w)'

\* Every step.
LEMMA StepKeeps ==
    ASSUME Repeating = {}, Typed, RefusedForCause, NEW at, Store(at), Process(at), Next
    PROVE  Typed' /\ (Kept \/ (Refused' /\ RefusedForCause'))
<1>1. CASE \E b \in Batch : Finalize(b)
    BY <1>1, FinalizeTyped, FinalizeKeeps DEF Kept
<1>2. CASE \E b \in Own : Pin(b)
    BY <1>2, PinKeeps DEF Kept
<1>3. CASE Sync
    BY <1>3, SyncKeeps DEF Kept
<1>4. CASE SealReplayed
    BY <1>4, SealReplayedKeeps DEF Kept
<1>5. CASE PreApply
    BY <1>5, PreApplyKeeps DEF Kept
<1>6. CASE Execute
    BY <1>6, ExecuteKeeps DEF Kept
<1>7. CASE Commit
    BY <1>7, CommitKeeps DEF Kept
<1>8. CASE SealBlock
    BY <1>8, SealBlockKeeps DEF Kept
<1>9. CASE Settle
    BY <1>9, SettleKeeps DEF Kept
<1>10. CASE EndPass \/ StallPass \/ PersistFloor
    BY <1>10, PassKeeps DEF Kept
<1>11. CASE Cutover
    BY <1>11, CutoverKeeps DEF Kept
<1>12. CASE EnterEpoch
    BY <1>12, EnterEpochKeeps DEF Kept
<1>13. CASE CutoverCheckpoint
    BY <1>13, CutoverCheckpointKeeps DEF Kept
<1>14. CASE Checkpoint
    BY <1>14, CheckpointKeeps DEF Kept
<1>15. CASE Prune
    BY <1>15, PruneKeeps DEF Kept
<1>16. CASE Crash
    BY <1>16, CrashKeeps DEF Kept
<1>17. CASE Recover
    BY <1>17, RecoverKeeps DEF Kept
<1>18. CASE RefuseBoot
    BY <1>18, RefuseBootKeeps
<1>. QED
    BY <1>1, <1>2, <1>3, <1>4, <1>5, <1>6, <1>7, <1>8, <1>9, <1>10, <1>11, <1>12, <1>13, <1>14,
       <1>15, <1>16, <1>17, <1>18 DEF Next

\* A process that refused to start does nothing more; the log goes on.
LEMMA RefusedStays ==
    ASSUME Refused, Next
    PROVE  \E b \in Batch : Finalize(b)
<1>1. phase \in {"corrupt", "torn", "verify"} /\ ~ Running
    BY DEF Refused, Running
<1>. QED
    BY <1>1 DEF Next, Pin, Sync, SealReplayed, PreApply, Execute, Commit, SealBlock, Settle, EndPass,
       StallPass, PersistFloor, Cutover, EnterEpoch, CutoverCheckpoint, Checkpoint, Prune, Crash,
       Recover, RefuseBoot, Idle

\* The invariant is inductive.
LEMMA InvariantKept ==
    ASSUME Repeating = {}, IInv, [Next]_vars
    PROVE  IInv'
<1>1. CASE UNCHANGED vars
    <2>1. /\ UNCHANGED <<agreed, journal, start, synced, manifest, floor, live, tip, window, epoch>>
          /\ UNCHANGED <<finalized, prev, anchored, inPass, phase, todo, booting>>
        BY <1>1 DEF vars, diskVars, nodeVars
    <2>2. Typed'
        BY <2>1 DEF IInv, Typed, TypeOK, End
    <2>3. TrailingHeight' = TrailingHeight
        BY <2>1 DEF TrailingHeight, InScopeAt, InScope, HasHeight
    <2>4. RefusedForCause'
        BY <2>1, <2>3 DEF IInv, RefusedForCause
    <2>5. ASSUME NEW at, Store(at), Process(at)
          PROVE  Store(at)' /\ Process(at)'
        <3>1. Store(at)'
            <4>1. IsPath(agreed, journal, at)' /\ ManifestInv(at)' /\ EpochKept' /\ TipInv(at)'
                BY <2>1, <2>5 DEF Store, ManifestInv, EpochKept, TipInv
            <4>2. DurableInv(at)'
                BY <2>1, <2>5 DEF Store, DurableInv
            <4>. QED
                BY <4>1, <4>2 DEF Store
        <3>2. PrevInv(at)' /\ FinalInv' /\ CutoverInv'
            BY <2>1, <2>5 DEF Process, PrevInv, FinalInv, CutoverInv, Running, Refused
        <3>3. PhaseInv(at)'
            BY <2>1, <2>5 DEF Process, PhaseInv, Running, Refused, IsDurable, End
        <3>. QED
            BY <3>1, <3>2, <3>3 DEF Process
    <2>6. Refused' = Refused
        BY <2>1 DEF Refused
    <2>. QED
        BY <2>2, <2>4, <2>5, <2>6 DEF IInv
<1>2. CASE Next /\ Refused
    <2>1. PICK b \in Batch : Finalize(b)
        BY <1>2, RefusedStays
    <2>2. Typed' /\ RefusedForCause' /\ phase' = phase
        BY <2>1, FinalizeTyped, FinalizeCause DEF IInv
    <2>. QED
        BY <1>2, <2>2 DEF IInv, Refused
<1>3. CASE Next /\ ~ Refused
    <2>1. PICK at : Store(at) /\ Process(at)
        BY <1>3 DEF IInv
    <2>2. Typed' /\ (Kept \/ (Refused' /\ RefusedForCause'))
        BY <1>3, <2>1, StepKeeps DEF IInv
    <2>3. ~ Refused' => RefusedForCause'
        BY DEF Refused, RefusedForCause
    <2>4. CASE Refused' /\ RefusedForCause'
        BY <2>2, <2>4 DEF IInv
    <2>5. CASE Kept /\ ~ Refused'
        BY <2>2, <2>3, <2>5 DEF IInv, Kept
    <2>6. CASE Kept /\ Refused' /\ ~ RefusedForCause'
        <3>1. ASSUME Next, ~ Refused, Refused' PROVE RefuseBoot
            BY <3>1 DEF Next, Finalize, Pin, Sync, SealReplayed, PreApply, Execute, Commit, SealBlock,
               Settle, EndPass, StallPass, PersistFloor, Cutover, EnterEpoch, CutoverCheckpoint,
               Checkpoint, Prune, Crash, Recover, Idle, Refused, nodeVars
        <3>2. RefuseBoot
            BY <1>3, <2>6, <3>1
        <3>. QED
            BY <2>1, <2>6, <3>2, RefuseBootKeeps DEF IInv
    <2>. QED
        BY <2>2, <2>4, <2>5, <2>6
<1>. QED
    BY <1>1, <1>2, <1>3

\* The invariant holds.
LEMMA Invariant ==
    ASSUME Repeating = {}
    PROVE  Spec => []IInv
<1>1. Init => IInv
    BY InitIs
<1>2. IInv /\ [Next]_vars => IInv'
    BY InvariantKept
<1>. QED
    BY <1>1, <1>2, PTL DEF Spec

\* The types of the journal, the manifest and the process, through every
\* write, crash, boot, checkpoint and prune.
THEOREM RecoveryTypeOK ==
    ASSUME Repeating = {}
    PROVE  Spec => []TypeOK
<1>1. IInv => TypeOK
    BY DEF IInv, Typed
<1>. QED
    BY <1>1, Invariant, PTL

\* Between blocks the node holds exactly the agreed blocks, each once, and a
\* replay window as deep as if it had never crashed: recover_with_sink loses
\* nothing and commits nothing twice, wherever the crashes fell.
THEOREM RecoveryIsAgreed ==
    ASSUME Repeating = {}
    PROVE  Spec => []RecoveredIsAgreed
<1>1. IInv => RecoveredIsAgreed
    <2>. SUFFICES ASSUME IInv, phase = "idle" PROVE StateIsAgreed /\ WindowAsDeep
        BY DEF RecoveredIsAgreed
    <2>1. Running /\ ~ Refused
        BY DEF Running, Refused
    <2>2. PICK at : Store(at) /\ Process(at)
        BY <2>1 DEF IInv
    <2>3. live = RootsAt(agreed, tip) /\ window = Newest(1 .. tip)
        BY <2>1, <2>2 DEF Process, PhaseInv
    <2>. QED
        BY <2>3 DEF StateIsAgreed, WindowAsDeep, RootsAt
<1>. QED
    BY <1>1, Invariant, PTL

\* A boot is refused only for a replay-refused height above the checkpoint or
\* for an open block that a module without a cursor, or several modules, made
\* durable; the final comparison of roots never fails.
THEOREM RecoveryRefusedForCause ==
    ASSUME Repeating = {}
    PROVE  Spec => []RefusedForCause
<1>1. IInv => RefusedForCause
    BY DEF IInv
<1>. QED
    BY <1>1, Invariant, PTL

\* A boot resumes at the sealed tip and in the epoch of the dead process, or
\* past them.
THEOREM RecoveryForgetsNothing ==
    ASSUME Repeating = {}
    PROVE  Spec => NothingForgotten
<1>1. ASSUME IInv, [Next]_vars, phase = "down", ~ Refused'
      PROVE  tip' >= tip /\ epoch' >= epoch
    <2>1. ~ Refused /\ ~ Running
        BY <1>1 DEF Refused, Running
    <2>2. PICK at : Store(at) /\ Process(at)
        BY <1>1, <2>1 DEF IInv
    <2>3. Typed
        BY <1>1 DEF IInv
    <2>4. tip \in Nat /\ epoch \in Nat /\ MaxEpoch \in Nat /\ manifest.epoch \in 0 .. MaxEpoch
        BY <2>2, <2>3, Facts DEF Typed, TypeOK
    <2>5. \/ UNCHANGED <<tip, epoch>>
          \/ Recover
        <3>1. CASE UNCHANGED vars
            BY <3>1 DEF vars, nodeVars
        <3>2. CASE Next
            BY <1>1, <2>1, <3>2
               DEF Next, Finalize, Pin, Sync, SealReplayed, PreApply, Execute, Commit, SealBlock,
               Settle, EndPass, StallPass, PersistFloor, Cutover, EnterEpoch, CutoverCheckpoint,
               Checkpoint, Prune, Crash, RefuseBoot, Idle, nodeVars
        <3>. QED
            BY <1>1, <3>1, <3>2
    <2>6. CASE UNCHANGED <<tip, epoch>>
        BY <2>4, <2>6
    <2>7. CASE Recover
        <3>1. /\ Down(at) /\ synced = start + Len(journal)
              /\ epoch' \in 0 .. MaxEpoch /\ EpochOf(epoch', Len(journal))
              /\ tip' = at[Len(journal)].top
            BY <2>2, <2>3, <2>7, RecoverIs
        <3>2. tip' >= tip
            BY <2>2, <2>3, <3>1, BootNumbers
        <3>3. CASE epoch <= manifest.epoch
            BY <2>4, <3>1, <3>2, <3>3 DEF EpochOf
        <3>4. CASE ~ (epoch <= manifest.epoch)
            <4>1. start \in Nat /\ Len(journal) \in Nat /\ journal \in Seq(Record)
                BY <2>2, <2>3, Facts DEF Typed
            <4>2. synced - start = Len(journal)
                BY <3>1, <4>1
            <4>3. PICK i \in 1 .. Len(journal) :
                      journal[i].kind = "cutover" /\ journal[i].epoch >= epoch
                BY <2>2, <3>4, <4>2 DEF Store, EpochKept
            <4>4. journal[i] \in Record
                BY <4>1, ElementOfSeq
            <4>5. journal[i].epoch \in 0 .. MaxEpoch
                BY <4>3, <4>4 DEF Record
            <4>6. epoch' >= journal[i].epoch
                BY <3>1, <4>3 DEF EpochOf
            <4>. QED
                BY <2>4, <3>1, <3>2, <4>3, <4>5, <4>6
        <3>. QED
            BY <3>2, <3>3, <3>4
    <2>. QED
        BY <2>5, <2>6, <2>7
<1>2. IInv /\ [Next]_vars => [phase = "down" /\ ~ Refused' => tip' >= tip /\ epoch' >= epoch]_vars
    BY <1>1
<1>. QED
    BY <1>2, Invariant, PTL DEF NothingForgotten, Spec

================================================================================
