------------------------------ MODULE ValsetProofs -----------------------------
(***************************************************************************)
(* The membership registry, proved for every key set, cap, genesis set and *)
(* retention.  The argument is local to one operation: Effect maps sound   *)
(* tiers to sound tiers and stages a record whenever it changes one        *)
(* (EffectSound).  What the block machine adds is that the overlay never   *)
(* differs from the committed tiers without a staged record.               *)
(***************************************************************************)
EXTENDS Valset, FiniteSetTheorems, TLAPS

\* What every handler keeps of a pair of tiers.
Sound(t) ==
    /\ t \in Tiers
    /\ t.validators # {}
    /\ t.validators \cap t.residents = {}

\* The strengthening: both copies are sound, and a change is always staged.
RegistryInv ==
    /\ Sound(committed) /\ Sound(overlay)
    /\ staged \subseteq {"validators", "residents"}
    /\ root \in Nat
    /\ overlay # committed => staged # {}

\* WindowIsHistory with the types its induction needs.
WindowInv ==
    /\ generation \in Nat
    /\ history \in Seq(Tiers)
    /\ window \in [DOMAIN window -> Tiers]
    /\ WindowIsHistory

--------------------------------------------------------------------------------
\* The effect of one handler on sound tiers: sound tiers, records of the two
\* tiers only, and a staged record whenever a tier changed.
SoundEffect(t, e) ==
    /\ Sound(e.tiers)
    /\ e.staged \subseteq {"validators", "residents"}
    /\ e.tiers # t => e.staged # {}

\* A set of keys with an element besides k keeps one when k leaves
\* (handle_leave's refusal of the last validator).
LEMMA LastLeaves ==
    ASSUME NEW V \in SUBSET WellFormed, NEW k \in V, Cardinality(V) # 1
    PROVE  V \ {k} # {}
<1>1. SUFFICES ASSUME V \ {k} = {} PROVE FALSE
    OBVIOUS
<1>2. V = {k}
    BY <1>1
<1>3. Cardinality({k}) = 1
    BY FS_Singleton
<1>. QED
    BY <1>2, <1>3

\* handle_join keeps the tiers sound: it promotes a resident and admits only
\* well-formed keys.
LEMMA JoinSound ==
    ASSUME NEW t, Sound(t), NEW k \in Key
    PROVE  SoundEffect(t, HandleJoin(t, k))
<1>. DEFINE promoted == IF k \in t.residents THEN {"residents"} ELSE {}
            rest == [t EXCEPT !.residents = @ \ {k}]
            more == [rest EXCEPT !.validators = @ \cup {k}]
<1>1. /\ rest \in Tiers
      /\ rest.validators = t.validators /\ rest.residents = t.residents \ {k}
    BY DEF Sound, Tiers
<1>2. ASSUME k \in WellFormed
      PROVE  /\ more \in Tiers
             /\ more.validators = t.validators \cup {k}
             /\ more.residents = t.residents \ {k}
    <2>. HIDE DEF rest
    <2>. QED
        BY <1>1, <1>2 DEF Tiers
<1>3. CASE k \notin WellFormed
    BY <1>3 DEF HandleJoin, Rejected, SoundEffect
<1>4. CASE k \in WellFormed /\ k \in t.validators
    <2>1. HandleJoin(t, k) = [ok |-> TRUE, tiers |-> rest, staged |-> promoted]
        BY <1>4 DEF HandleJoin
    <2>2. k \notin t.residents
        BY <1>4 DEF Sound
    <2>3. rest = t
        BY <2>2 DEF Sound, Tiers
    <2>. QED
        BY <2>1, <2>3 DEF SoundEffect
<1>5. CASE k \in WellFormed /\ k \notin t.validators
    <2>1. CASE Cardinality(t.validators) >= MaxMembers
        BY <1>5, <2>1 DEF HandleJoin, Rejected, SoundEffect
    <2>2. CASE ~(Cardinality(t.validators) >= MaxMembers)
        <3>1. HandleJoin(t, k) = [ok |-> TRUE, tiers |-> more,
                                  staged |-> promoted \cup {"validators"}]
            BY <1>5, <2>2 DEF HandleJoin
        <3>2. Sound(more)
            <4>. HIDE DEF more
            <4>. QED
                BY <1>2, <1>5 DEF Sound
        <3>. QED
            BY <3>1, <3>2 DEF SoundEffect
    <2>. QED
        BY <2>1, <2>2
<1>. QED
    BY <1>3, <1>4, <1>5

\* handle_leave keeps the tiers sound: the last validator stays.
LEMMA LeaveSound ==
    ASSUME NEW t, Sound(t), NEW k \in Key
    PROVE  SoundEffect(t, HandleLeave(t, k))
<1>. DEFINE less == [t EXCEPT !.validators = @ \ {k}]
<1>1. CASE k \notin t.validators
    BY <1>1 DEF HandleLeave, NoOp, SoundEffect
<1>2. CASE k \in t.validators /\ Cardinality(t.validators) = 1
    BY <1>2 DEF HandleLeave, Rejected, SoundEffect
<1>3. CASE k \in t.validators /\ Cardinality(t.validators) # 1
    <2>1. HandleLeave(t, k) = [ok |-> TRUE, tiers |-> less, staged |-> {"validators"}]
        BY <1>3 DEF HandleLeave
    <2>2. t.validators \ {k} # {}
        BY <1>3, LastLeaves DEF Sound, Tiers
    <2>3. Sound(less)
        BY <2>2 DEF Sound, Tiers
    <2>. QED
        BY <2>1, <2>3 DEF SoundEffect
<1>. QED
    BY <1>1, <1>2, <1>3

\* handle_grant keeps the tiers sound: a validator takes no resident standing.
LEMMA GrantSound ==
    ASSUME NEW t, Sound(t), NEW k \in Key
    PROVE  SoundEffect(t, HandleGrant(t, k))
<1>. DEFINE more == [t EXCEPT !.residents = @ \cup {k}]
<1>1. CASE \/ k \notin WellFormed \/ k \in t.validators
           \/ k \in t.residents
           \/ Cardinality(t.residents) >= MaxMembers
    BY <1>1 DEF HandleGrant, Rejected, NoOp, SoundEffect
<1>2. CASE /\ k \in WellFormed /\ k \notin t.validators
           /\ k \notin t.residents
           /\ ~(Cardinality(t.residents) >= MaxMembers)
    <2>1. HandleGrant(t, k) = [ok |-> TRUE, tiers |-> more, staged |-> {"residents"}]
        BY <1>2 DEF HandleGrant
    <2>2. Sound(more)
        BY <1>2 DEF Sound, Tiers
    <2>. QED
        BY <2>1, <2>2 DEF SoundEffect
<1>. QED
    BY <1>1, <1>2

\* handle_revoke keeps the tiers sound.
LEMMA RevokeSound ==
    ASSUME NEW t, Sound(t), NEW k \in Key
    PROVE  SoundEffect(t, HandleRevoke(t, k))
<1>1. Sound([t EXCEPT !.residents = @ \ {k}])
    BY DEF Sound, Tiers
<1>. QED
    BY <1>1 DEF HandleRevoke, NoOp, SoundEffect

\* execute's dispatch keeps the tiers sound, whatever the operation.
LEMMA EffectSound ==
    ASSUME NEW t, Sound(t), NEW o \in Op
    PROVE  SoundEffect(t, Effect(t, o))
<1>1. o.key \in Key /\ o.op \in {"join", "leave", "grant", "revoke"}
    BY DEF Op
<1>2. CASE o.op = "join"
    BY <1>1, <1>2, JoinSound DEF Effect
<1>3. CASE o.op = "leave"
    BY <1>1, <1>3, LeaveSound DEF Effect
<1>4. CASE o.op = "grant"
    BY <1>1, <1>4, GrantSound DEF Effect
<1>5. CASE o.op = "revoke"
    BY <1>1, <1>5, RevokeSound DEF Effect
<1>. QED
    BY <1>1, <1>2, <1>3, <1>4, <1>5
--------------------------------------------------------------------------------
\* One operation of a block, whatever its origin (execute).
LEMMA ExecuteRegistry ==
    ASSUME RegistryInv, NEW origin, NEW o \in Op, Execute(origin, o)
    PROVE  RegistryInv'
<1>. DEFINE e == IF origin = "other" THEN Rejected(overlay) ELSE Effect(overlay, o)
<1>1. SoundEffect(overlay, e)
    <2>1. CASE origin = "other"
        BY <2>1 DEF RegistryInv, Rejected, SoundEffect
    <2>2. CASE origin # "other"
        BY <2>2, EffectSound DEF RegistryInv
    <2>. QED
        BY <2>1, <2>2
<1>2. /\ overlay' = e.tiers /\ staged' = staged \cup e.staged
      /\ UNCHANGED <<committed, root>>
    BY DEF Execute
<1>. HIDE DEF e
<1>3. Sound(committed)' /\ Sound(overlay)'
    BY <1>1, <1>2 DEF RegistryInv, SoundEffect, Sound
<1>4. (overlay # committed => staged # {})'
    BY <1>1, <1>2 DEF RegistryInv, SoundEffect
<1>5. (staged \subseteq {"validators", "residents"})'
    BY <1>1, <1>2 DEF RegistryInv, SoundEffect
<1>. QED
    BY <1>2, <1>3, <1>4, <1>5 DEF RegistryInv

\* The invariant of the registry holds of every reachable state: the argument
\* is EffectSound for an operation, and that commit and abort leave the two
\* copies equal.
THEOREM RegistryInvariant == Spec => []RegistryInv
<1>1. Init => RegistryInv
    BY GenesisAssumption DEF Init, RegistryInv, Sound, Tiers
<1>2. RegistryInv /\ [Next]_vars => RegistryInv'
    <2>. SUFFICES ASSUME RegistryInv, [Next]_vars PROVE RegistryInv'
        OBVIOUS
    <2>1. CASE \E origin \in {"governance", "system", "other"}, o \in Op : Execute(origin, o)
        BY <2>1, ExecuteRegistry
    <2>2. CASE CommitBlock
        <3>1. committed' = overlay /\ overlay' = overlay /\ staged' = {}
            BY <2>2 DEF CommitBlock
        <3>2. root' \in Nat
            BY <2>2 DEF CommitBlock, RegistryInv
        <3>. QED
            BY <3>1, <3>2 DEF RegistryInv, Sound
    <2>3. CASE AbortBlock
        BY <2>3 DEF AbortBlock, RegistryInv, Sound
    <2>4. CASE UNCHANGED vars
        BY <2>4 DEF vars, RegistryInv, Sound
    <2>. QED
        BY <2>1, <2>2, <2>3, <2>4 DEF Next
<1>. QED
    BY <1>1, <1>2, PTL DEF Spec

\* The validator set never goes empty, committed or staged, for any number of
\* leaves in one block (handle_leave reads through the overlay).
THEOREM ValsetNeverEmpty == Spec => []NeverEmpty
<1>1. RegistryInv => NeverEmpty
    BY DEF RegistryInv, Sound, NeverEmpty
<1>. QED
    BY <1>1, RegistryInvariant, PTL

\* No key ever holds both tiers (handle_join promotes, handle_grant refuses).
THEOREM ValsetTiersDisjoint == Spec => []TiersDisjoint
<1>1. RegistryInv => TiersDisjoint
    BY DEF RegistryInv, Sound, TiersDisjoint
<1>. QED
    BY <1>1, RegistryInvariant, PTL

\* A commit that changes membership moves the root: the observation barrier of
\* drain_delivered, which watches the root, cannot miss a change.
THEOREM ValsetChangeMovesRoot == Spec => ChangeMovesRoot
<1>1. RegistryInv /\ [Next]_vars => [committed' # committed => root' # root]_vars
    <2>. SUFFICES ASSUME RegistryInv, [Next]_vars, committed' # committed
                  PROVE  root' # root
        OBVIOUS
    <2>1. CASE CommitBlock
        <3>1. staged # {}
            BY <2>1 DEF CommitBlock, RegistryInv
        <3>. QED
            BY <2>1, <3>1 DEF CommitBlock, RegistryInv
    <2>2. CASE ~CommitBlock
        BY <2>2 DEF Next, Execute, AbortBlock, vars
    <2>. QED
        BY <2>1, <2>2
<1>. QED
    BY <1>1, RegistryInvariant, PTL DEF Spec, ChangeMovesRoot
--------------------------------------------------------------------------------
\* advance_generation: pushing the block's tiers and pruning one generation
\* leaves the last Retained entries of the longer history.
LEMMA CommitWindow ==
    ASSUME WindowInv, RegistryInv, CommitBlock
    PROVE  WindowInv'
<1>1. CASE ~MembershipChanged
    BY <1>1 DEF CommitBlock, MembershipChanged, WindowInv, WindowIsHistory
<1>2. CASE MembershipChanged
    <2>. DEFINE g == generation + 1
                w == AdvanceWindow(window, g, overlay)
    <2>1. /\ generation' = g /\ committed' = overlay
          /\ history' = Append(history, overlay) /\ window' = w
        BY <1>2 DEF CommitBlock
    <2>2. /\ generation \in Nat /\ Len(history) = generation + 1
          /\ history \in Seq(Tiers) /\ overlay \in Tiers
          /\ history[Len(history)] = committed /\ overlay # committed
          /\ Retained \in Nat /\ Retained > 0
        BY <1>2, GenesisAssumption DEF WindowInv, WindowIsHistory, RegistryInv, Sound,
                                       MembershipChanged
    <2>3. /\ Len(history') = g + 1 /\ history' \in Seq(Tiers)
          /\ history'[g + 1] = overlay
          /\ \A i \in 1..g : history'[i] = history[i]
        BY <2>1, <2>2
    <2>4. DOMAIN window = {h \in 0..generation : h + Retained > generation}
        BY DEF WindowInv, WindowIsHistory
    <2>5. (DOMAIN window \cup {g}) \ {g - Retained} = {h \in 0..g : h + Retained > g}
        BY <2>2, <2>4
    <2>6. /\ DOMAIN w = {h \in 0..g : h + Retained > g}
          /\ \A h \in DOMAIN w : w[h] = IF h = g THEN overlay ELSE window[h]
        BY <2>5 DEF AdvanceWindow
    <2>7. \A h \in DOMAIN w : w[h] = history'[h + 1] /\ w[h] \in Tiers
        <3>. SUFFICES ASSUME NEW h \in DOMAIN w
                      PROVE  w[h] = history'[h + 1] /\ w[h] \in Tiers
            OBVIOUS
        <3>1. CASE h = g
            BY <3>1, <2>2, <2>3, <2>6
        <3>2. CASE h # g
            <4>1. h \in DOMAIN window /\ h + 1 \in 1..g
                BY <3>2, <2>2, <2>4, <2>6
            <4>2. window[h] = history[h + 1] /\ window[h] \in Tiers
                BY <4>1 DEF WindowInv, WindowIsHistory
            <4>. QED
                BY <3>2, <4>1, <4>2, <2>3, <2>6
        <3>. QED
            BY <3>1, <3>2
    <2>8. w \in [DOMAIN w -> Tiers]
        <3>1. w = [h \in DOMAIN w |-> w[h]]
            BY DEF AdvanceWindow
        <3>. QED
            BY <2>7, <3>1
    <2>9. \A h \in 1..g : history'[h] # history'[h + 1]
        <3>. SUFFICES ASSUME NEW h \in 1..g PROVE history'[h] # history'[h + 1]
            OBVIOUS
        <3>1. CASE h = g
            BY <3>1, <2>2, <2>3
        <3>2. CASE h # g
            <4>1. h \in 1..generation /\ h + 1 \in 1..g
                BY <3>2, <2>2
            <4>2. history[h] # history[h + 1]
                BY <4>1 DEF WindowInv, WindowIsHistory
            <4>. QED
                BY <4>1, <4>2, <2>3
        <3>. QED
            BY <3>1, <3>2
    <2>. HIDE DEF w
    <2>10. WindowIsHistory'
        BY <2>1, <2>2, <2>3, <2>6, <2>7, <2>9 DEF WindowIsHistory
    <2>. QED
        BY <2>1, <2>2, <2>3, <2>8, <2>10 DEF WindowInv
<1>. QED
    BY <1>1, <1>2

\* The mesh window of every reachable state is the tail of the replicated
\* membership history: consecutive generations differ, none is skipped and
\* none kept too long (advance_generation, staged_membership_changed).
THEOREM ValsetWindowIsHistory == Spec => []WindowIsHistory
<1>1. Init => WindowInv
    <2>. DEFINE t == [validators |-> Genesis, residents |-> {}]
    <2>. SUFFICES ASSUME Init PROVE WindowInv
        OBVIOUS
    <2>1. /\ committed = t /\ generation = 0
          /\ window = [g \in {0} |-> t] /\ history = <<t>>
        BY DEF Init
    <2>2. t \in Tiers
        BY GenesisAssumption DEF Tiers
    <2>. HIDE DEF t
    <2>3. {g \in 0..generation : g + Retained > generation} = {0}
        BY <2>1, GenesisAssumption
    <2>4. WindowIsHistory
        BY <2>1, <2>3 DEF WindowIsHistory
    <2>. QED
        BY <2>1, <2>2, <2>4 DEF WindowInv
<1>2. WindowInv /\ RegistryInv /\ [Next]_vars => WindowInv'
    <2>. SUFFICES ASSUME WindowInv, RegistryInv, [Next]_vars PROVE WindowInv'
        OBVIOUS
    <2>1. CASE CommitBlock
        BY <2>1, CommitWindow
    <2>2. CASE ~CommitBlock
        <3>1. UNCHANGED <<committed, generation, window, history>>
            BY <2>2 DEF Next, Execute, AbortBlock, vars
        <3>. QED
            BY <3>1 DEF WindowInv, WindowIsHistory
    <2>. QED
        BY <2>1, <2>2
<1>3. WindowInv => WindowIsHistory
    BY DEF WindowInv
<1>. QED
    BY <1>1, <1>2, <1>3, RegistryInvariant, PTL DEF Spec
--------------------------------------------------------------------------------
\* Every field stays in its type and bound: the retained generations among them
\* (commit_block, advance_generation).
THEOREM ValsetTypeOK == Spec => []TypeOK
<1>1. Init => TypeOK
    BY GenesisAssumption DEF Init, TypeOK, Tiers
<1>2. TypeOK /\ RegistryInv /\ RegistryInv' /\ [Next]_vars => TypeOK'
    <2>. SUFFICES ASSUME TypeOK, RegistryInv, RegistryInv', [Next]_vars PROVE TypeOK'
        OBVIOUS
    <2>1. /\ committed' \in Tiers /\ overlay' \in Tiers
          /\ staged' \subseteq {"validators", "residents"} /\ root' \in Nat
        BY DEF RegistryInv, Sound
    <2>2. ops' \in 0..MaxOps
        BY GenesisAssumption DEF TypeOK, Next, Execute, CommitBlock, AbortBlock, vars
    <2>3. CASE CommitBlock /\ MembershipChanged
        <3>1. /\ generation' = generation + 1 /\ generation < MaxGeneration
              /\ window' = AdvanceWindow(window, generation + 1, overlay)
            BY <2>3 DEF CommitBlock
        <3>2. generation' \in 0..MaxGeneration
            BY <3>1, GenesisAssumption DEF TypeOK
        <3>3. /\ DOMAIN window' = (DOMAIN window \cup {generation'}) \ {generation' - Retained}
              /\ \A h \in DOMAIN window' :
                    window'[h] = IF h = generation' THEN overlay ELSE window[h]
            BY <3>1 DEF AdvanceWindow
        <3>4. DOMAIN window' \subseteq 0..MaxGeneration
            BY <3>2, <3>3 DEF TypeOK
        <3>5. \A h \in DOMAIN window' : window'[h] \in Tiers
            BY <3>3 DEF TypeOK
        <3>. QED
            BY <2>1, <2>2, <3>2, <3>4, <3>5 DEF TypeOK
    <2>4. CASE ~(CommitBlock /\ MembershipChanged)
        <3>1. UNCHANGED <<generation, window>>
            BY <2>4 DEF Next, Execute, CommitBlock, AbortBlock, vars
        <3>. QED
            BY <2>1, <2>2, <3>1 DEF TypeOK
    <2>. QED
        BY <2>3, <2>4
<1>. QED
    BY <1>1, <1>2, RegistryInvariant, PTL DEF Spec

\* The registry stays well formed, committed, staged and retained: only keys
\* validate_key accepts, never without a validator, no key in both tiers.
THEOREM ValsetTiersSound == Spec => []TiersSound
<1>1. TypeOK /\ NeverEmpty /\ TiersDisjoint => TiersSound
    BY DEF TiersSound
<1>. QED
    BY <1>1, ValsetTypeOK, ValsetNeverEmpty, ValsetTiersDisjoint, PTL
================================================================================
