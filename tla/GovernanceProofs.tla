---------------------------- MODULE GovernanceProofs ---------------------------
(***************************************************************************)
(* Governance, proved for every set of keys, accounts, actions and every   *)
(* cap.  The records are well formed and the roster is the open ones; the  *)
(* network state stays sound under every outcome of Enact; and a majority  *)
(* that no missing ballot can turn is a fact about sums of powers.         *)
(***************************************************************************)
EXTENDS Governance, FiniteSetTheorems, TLAPS

(***************************************************************************)
(* Sums over finite sets (TotalPower, Tally).  The community fold is a     *)
(* recursive function; its unfolding and what follows from it are proved   *)
(* here by the least counterexample, over the well-founded order of the    *)
(* subsets of a finite set.                                                *)
(***************************************************************************)
Pick(s) == CHOOSE x \in s : TRUE
Step(f, g, s) == IF s = {} THEN 0 ELSE f[Pick(s)] + g[s \ {Pick(s)}]
Folds(f, g, T) == g = [s \in SUBSET T |-> Step(f, g, s)]
Folded(f, T) == CHOOSE g : Folds(f, g, T)

\* The sum of the community modules is the fold above, at its whole index set.
LEMMA SumIsFold ==
    ASSUME NEW f, NEW T
    PROVE  SumFunctionOnSet(f, T) = Folded(f, T)[T]
BY DEF SumFunctionOnSet, FoldFunctionOnSet, MapThenFoldSet, Folded, Folds, Step, Pick

\* The element the fold takes next is one of the set.
LEMMA PickIn ==
    ASSUME NEW s, s # {}
    PROVE  Pick(s) \in s
BY DEF Pick

\* A non-empty family of subsets of a finite set has a least member: every
\* induction below takes a least counterexample.
LEMMA LeastSubset ==
    ASSUME NEW S, IsFiniteSet(S), NEW B \in SUBSET SUBSET S, B # {}
    PROVE  \E T \in B : \A U \in B : U \subseteq T => U = T
<1>1. IsWellFoundedOn(StrictSubsetOrdering(S), SUBSET S)
    BY FS_StrictSubsetOrderingWellFounded, FS_FiniteSubsetsOfFinite
<1>2. PICK T \in B : \A U \in B : ~(<<U, T>> \in StrictSubsetOrdering(S))
    BY <1>1, WFMin
<1>. QED
    BY <1>2 DEF StrictSubsetOrdering

\* Two solutions of the recursion agree where both are defined.
LEMMA FoldsAgree ==
    ASSUME NEW f, NEW S, IsFiniteSet(S), NEW T \in SUBSET S, NEW U \in SUBSET T,
           NEW g, Folds(f, g, T), NEW h, Folds(f, h, U)
    PROVE  g[U] = h[U]
<1>. DEFINE B == {s \in SUBSET U : g[s] # h[s]}
<1>1. SUFFICES ASSUME B # {} PROVE FALSE
    OBVIOUS
<1>2. B \in SUBSET SUBSET S
    OBVIOUS
<1>3. PICK s \in B : \A r \in B : r \subseteq s => r = s
    <2>. HIDE DEF B
    <2>. QED BY <1>1, <1>2, LeastSubset
<1>4. g[s] = Step(f, g, s) /\ h[s] = Step(f, h, s)
    BY DEF Folds
<1>5. s # {}
    BY <1>4 DEF Step
<1>6. Pick(s) \in s
    BY <1>5, PickIn
<1>7. s \ {Pick(s)} \notin B
    BY <1>3, <1>6
<1>. QED
    BY <1>4, <1>5, <1>7 DEF Step

\* The recursion has a solution on every finite set.
LEMMA FoldsExists ==
    ASSUME NEW f, NEW S, IsFiniteSet(S)
    PROVE  \A T \in SUBSET S : Folds(f, Folded(f, T), T)
<1>. DEFINE B == {T \in SUBSET S : ~\E g : Folds(f, g, T)}
<1>1. SUFFICES ASSUME B # {} PROVE FALSE
    BY DEF Folded
<1>2. PICK U \in B : \A T \in B : T \subseteq U => T = U
    <2>1. B \in SUBSET SUBSET S
        OBVIOUS
    <2>. HIDE DEF B
    <2>. QED BY <1>1, <2>1, LeastSubset
<1>. DEFINE h(T) == Folded(f, T)
            g == [T \in SUBSET U |->
                    IF T = U THEN Step(f, [s \in SUBSET U |-> h(s)[s]], U) ELSE h(T)[T]]
<1>3. \A T \in SUBSET U : T # U => Folds(f, h(T), T)
    BY <1>2 DEF Folded
<1>4. \A T \in SUBSET U : g[T] = Step(f, g, T)
    <2>. SUFFICES ASSUME NEW T \in SUBSET U PROVE g[T] = Step(f, g, T)
        OBVIOUS
    <2>1. CASE T = {}
        <3>1. CASE T = U
            BY <2>1, <3>1 DEF Step
        <3>2. CASE T # U
            BY <2>1, <3>2, <1>3 DEF Step, Folds
        <3>. QED BY <3>1, <3>2
    <2>2. CASE T # {}
        <3>. DEFINE r == T \ {Pick(T)}
        <3>1. Pick(T) \in T /\ r \in SUBSET T /\ r # U /\ r \in SUBSET U
            BY <2>2, PickIn
        <3>2. g[r] = h(r)[r]
            BY <3>1
        <3>3. CASE T = U
            BY <2>2, <3>1, <3>2, <3>3 DEF Step
        <3>4. CASE T # U
            <4>1. Folds(f, h(T), T) /\ Folds(f, h(r), r)
                BY <1>3, <3>1, <3>4
            <4>2. h(T)[r] = h(r)[r]
                <5>. HIDE DEF h, r
                <5>. QED BY <4>1, <3>1, FoldsAgree
            <4>3. h(T)[T] = Step(f, h(T), T)
                BY <4>1 DEF Folds
            <4>. QED
                BY <2>2, <3>2, <3>4, <4>2, <4>3 DEF Step
        <3>. QED BY <3>3, <3>4
    <2>. QED BY <2>1, <2>2
<1>5. Folds(f, g, U)
    BY <1>4 DEF Folds
<1>. QED
    BY <1>2, <1>5

\* The sum unfolds: the picked element and the sum of the rest.
LEMMA SumUnfold ==
    ASSUME NEW f, NEW S, IsFiniteSet(S)
    PROVE  SumFunctionOnSet(f, S) =
             IF S = {} THEN 0
             ELSE f[Pick(S)] + SumFunctionOnSet(f, S \ {Pick(S)})
<1>. DEFINE r == S \ {Pick(S)}
<1>1. Folds(f, Folded(f, S), S) /\ Folds(f, Folded(f, r), r)
    BY FoldsExists
<1>2. Folded(f, S)[S] = Step(f, Folded(f, S), S)
    BY <1>1 DEF Folds
<1>3. Folded(f, S)[r] = Folded(f, r)[r]
    BY <1>1, FoldsAgree
<1>. QED
    BY <1>2, <1>3, SumIsFold DEF Step

\* Nobody has no power: an empty electorate totals zero.
LEMMA SumEmpty ==
    ASSUME NEW f
    PROVE  SumFunctionOnSet(f, {}) = 0
BY SumUnfold, FS_EmptySet

\* A sum of naturals is one.
LEMMA SumType ==
    ASSUME NEW S, IsFiniteSet(S), NEW f, \A x \in S : f[x] \in Nat
    PROVE  \A T \in SUBSET S : SumFunctionOnSet(f, T) \in Nat
<1>. DEFINE B == {T \in SUBSET S : SumFunctionOnSet(f, T) \notin Nat}
<1>1. SUFFICES ASSUME B # {} PROVE FALSE
    OBVIOUS
<1>2. PICK U \in B : \A T \in B : T \subseteq U => T = U
    <2>1. B \in SUBSET SUBSET S
        OBVIOUS
    <2>. HIDE DEF B
    <2>. QED BY <1>1, <2>1, LeastSubset
<1>. DEFINE r == U \ {Pick(U)}
<1>3. IsFiniteSet(U)
    BY FS_Subset
<1>4. U # {}
    <2>1. SumFunctionOnSet(f, U) \notin Nat
        BY <1>2
    <2>. QED
        BY <2>1, SumEmpty
<1>5. Pick(U) \in U
    BY <1>4, PickIn
<1>6. SumFunctionOnSet(f, r) \in Nat
    BY <1>2, <1>5
<1>7. SumFunctionOnSet(f, U) = f[Pick(U)] + SumFunctionOnSet(f, r)
    BY <1>3, <1>4, SumUnfold
<1>. QED
    BY <1>2, <1>5, <1>6, <1>7

\* Any element may be taken first: the sum does not depend on the order.
LEMMA SumRemove ==
    ASSUME NEW S, IsFiniteSet(S), NEW f, \A x \in S : f[x] \in Nat
    PROVE  \A T \in SUBSET S : \A x \in T :
              SumFunctionOnSet(f, T) = f[x] + SumFunctionOnSet(f, T \ {x})
<1>. DEFINE P(T) == \A x \in T :
                      SumFunctionOnSet(f, T) = f[x] + SumFunctionOnSet(f, T \ {x})
            B == {T \in SUBSET S : ~P(T)}
<1>1. SUFFICES ASSUME B # {} PROVE FALSE
    OBVIOUS
<1>2. PICK U \in B : \A T \in B : T \subseteq U => T = U
    <2>1. B \in SUBSET SUBSET S
        OBVIOUS
    <2>. HIDE DEF B
    <2>. QED BY <1>1, <2>1, LeastSubset
<1>3. PICK x \in U : SumFunctionOnSet(f, U) # f[x] + SumFunctionOnSet(f, U \ {x})
    BY <1>2
<1>. DEFINE c == Pick(U)
            sum(T) == SumFunctionOnSet(f, T)
<1>4. c \in U /\ sum(U) = f[c] + sum(U \ {c})
    <2>1. IsFiniteSet(U)
        BY FS_Subset
    <2>. QED BY <2>1, PickIn, SumUnfold
<1>5. c # x
    BY <1>3, <1>4
<1>6. P(U \ {c}) /\ P(U \ {x})
    BY <1>2, <1>3, <1>4
<1>7. sum(U \ {c}) = f[x] + sum((U \ {c}) \ {x}) /\ sum(U \ {x}) = f[c] + sum((U \ {x}) \ {c})
    BY <1>3, <1>4, <1>5, <1>6
<1>8. (U \ {c}) \ {x} = (U \ {x}) \ {c}
    OBVIOUS
<1>9. sum((U \ {x}) \ {c}) \in Nat /\ f[x] \in Nat /\ f[c] \in Nat
    BY <1>3, <1>4, SumType
<1>. HIDE DEF sum, c, P
<1>10. sum(U) = f[x] + sum(U \ {x})
    BY <1>4, <1>7, <1>8, <1>9
<1>. QED
    BY <1>3, <1>10 DEF sum

\* Disjoint parts add up.
LEMMA SumUnion ==
    ASSUME NEW S, IsFiniteSet(S), NEW f, \A x \in S : f[x] \in Nat, NEW A \in SUBSET S
    PROVE  \A T \in SUBSET (S \ A) :
              SumFunctionOnSet(f, A \cup T) = SumFunctionOnSet(f, A) + SumFunctionOnSet(f, T)
<1>. DEFINE sum(T) == SumFunctionOnSet(f, T)
            B == {T \in SUBSET (S \ A) : sum(A \cup T) # sum(A) + sum(T)}
<1>1. SUFFICES ASSUME B # {} PROVE FALSE
    OBVIOUS
<1>2. PICK U \in B : \A T \in B : T \subseteq U => T = U
    <2>1. B \in SUBSET SUBSET S
        OBVIOUS
    <2>. HIDE DEF B
    <2>. QED BY <1>1, <2>1, LeastSubset
<1>3. sum({}) = 0 /\ sum(A) \in Nat
    BY SumUnfold, FS_EmptySet, SumType
<1>4. U # {}
    <2>1. sum(A \cup U) # sum(A) + sum(U)
        BY <1>2
    <2>2. ASSUME U = {} PROVE sum(A \cup U) = sum(A) /\ sum(U) = 0
        <3>1. A \cup U = A
            BY <2>2
        <3>. HIDE DEF sum
        <3>. QED BY <1>3, <2>2, <3>1
    <2>. HIDE DEF sum
    <2>. QED BY <1>3, <2>1, <2>2
<1>5. PICK x \in U : TRUE
    BY <1>4
<1>6. /\ sum(A \cup U) = f[x] + sum((A \cup U) \ {x})
      /\ sum(U) = f[x] + sum(U \ {x})
    BY SumRemove
<1>7. (A \cup U) \ {x} = A \cup (U \ {x})
    OBVIOUS
<1>8. U \ {x} \in SUBSET (S \ A) /\ U \ {x} \notin B
    BY <1>2
<1>9. sum(U \ {x}) \in Nat /\ f[x] \in Nat
    BY SumType
<1>. HIDE DEF sum
<1>. QED
    BY <1>2, <1>3, <1>6, <1>7, <1>8, <1>9
--------------------------------------------------------------------------------
(***************************************************************************)
(* The invariant                                                           *)
(***************************************************************************)
Principals == Key \cup Account

\* normalize_share_action, the part of it that no later block can change: the
\* accounts an action names exist.
NamesAccounts(a) ==
    /\ a.kind = "AdoptShares" => DOMAIN a.allocations \subseteq Account
    /\ a.kind = "SetShares" => a.account \in Account

\* A proposal's record, with a frozen electorate that can be tallied.
RecordOK(p) ==
    /\ p \in [action : Action, proposer : {p.proposer}, deadline : Nat,
              status : {"open", "passed", "rejected"}, votes : {p.votes},
              electorate : {p.electorate}]
    /\ NamesAccounts(p.action)
    /\ p.votes \in [DOMAIN p.votes -> BOOLEAN]
    /\ DOMAIN p.votes \subseteq DOMAIN p.electorate.powers
    /\ DOMAIN p.electorate.powers \subseteq Principals
    /\ p.electorate.powers \in [DOMAIN p.electorate.powers -> Nat]
    /\ p.electorate.rule.bar \in Int

RecordsInv ==
    /\ now \in 0..MaxNow
    /\ DOMAIN proposals \subseteq Id
    /\ proposals = [id \in DOMAIN proposals |-> proposals[id]]
    /\ \A id \in DOMAIN proposals : RecordOK(proposals[id])

\* The roster is the open records, within both caps.
RosterInv ==
    /\ roster = {id \in DOMAIN proposals : proposals[id].status = "open"}
    /\ IsFiniteSet(roster)
    /\ Cardinality(roster) <= MaxProposals
    /\ \A id \in roster :
          Cardinality({i \in roster : proposals[i].proposer = proposals[id].proposer})
            <= MaxOpenPerSubmitter

\* The network state: sound tiers, and before shares are first adopted the
\* electorate is the validators and no policy asks for an account.
NetOK(n) ==
    /\ n \in [tiers : Tiers, shares : {n.shares}, mode : BOOLEAN, policy : [Target -> Standing]]
    /\ n.shares \in [DOMAIN n.shares -> Nat] /\ DOMAIN n.shares \subseteq Account
    /\ n.tiers.validators # {}
    /\ DOMAIN n.shares = {} => ~n.mode /\ \A t \in Target : n.policy[t] # "user"

RedeemInv ==
    /\ redeemed = [n \in DOMAIN redeemed |-> redeemed[n]]
    /\ DOMAIN redeemed \subseteq {i.nonce : i \in Invite}

GovInv == RecordsInv /\ RosterInv /\ NetOK(net) /\ RedeemInv

--------------------------------------------------------------------------------
(***************************************************************************)
(* What a passing action does to the network state                         *)
(***************************************************************************)
\* The tiers are finite sets of keys.
LEMMA TiersFinite ==
    ASSUME NEW t \in Tiers
    PROVE  IsFiniteSet(t.validators) /\ IsFiniteSet(t.residents)
<1>1. t.validators \in SUBSET Key /\ t.residents \in SUBSET Key
    BY ValsetAssumption DEF Tiers
<1>. QED
    BY <1>1, ValsetAssumption, FS_Subset

\* handle_join, when it accepts: a seat, and no resident standing left.
LEMMA JoinMoves ==
    ASSUME NEW t \in Tiers, NEW k \in Key, HandleJoin(t, k).ok
    PROVE  /\ HandleJoin(t, k).tiers \in Tiers
           /\ HandleJoin(t, k).tiers.validators = t.validators \cup {k}
           /\ HandleJoin(t, k).tiers.residents = t.residents \ {k}
<1>. DEFINE rest == [t EXCEPT !.residents = @ \ {k}]
            more == [rest EXCEPT !.validators = @ \cup {k}]
<1>1. k \in WellFormed
    BY DEF HandleJoin, Rejected
<1>2. /\ rest \in Tiers
      /\ rest.validators = t.validators /\ rest.residents = t.residents \ {k}
    BY DEF Tiers
<1>3. /\ more \in Tiers
      /\ more.validators = t.validators \cup {k} /\ more.residents = t.residents \ {k}
    <2>. HIDE DEF rest
    <2>. QED
        BY <1>1, <1>2 DEF Tiers
<1>4. CASE k \in t.validators
    <2>1. HandleJoin(t, k).tiers = rest
        BY <1>1, <1>4 DEF HandleJoin
    <2>. QED
        BY <1>2, <1>4, <2>1
<1>5. CASE k \notin t.validators
    <2>1. HandleJoin(t, k).tiers = more
        BY <1>1, <1>5 DEF HandleJoin, Rejected
    <2>. HIDE DEF more
    <2>. QED
        BY <1>3, <2>1
<1>. QED
    BY <1>4, <1>5

\* handle_leave, when it accepts: the seat is gone, and it was not the last.
LEMMA LeaveMoves ==
    ASSUME NEW t \in Tiers, t.validators # {}, NEW k \in Key, HandleLeave(t, k).ok
    PROVE  /\ HandleLeave(t, k).tiers \in Tiers
           /\ HandleLeave(t, k).tiers.validators = t.validators \ {k}
           /\ HandleLeave(t, k).tiers.residents = t.residents
           /\ t.validators \ {k} # {}
<1>1. CASE k \notin t.validators
    BY <1>1 DEF HandleLeave, NoOp
<1>2. CASE k \in t.validators
    <2>1. Cardinality(t.validators) # 1
        BY <1>2 DEF HandleLeave, Rejected
    <2>2. t.validators # {k}
        BY <2>1, FS_Singleton
    <2>. QED
        BY <1>2, <2>1, <2>2 DEF HandleLeave, Tiers
<1>. QED
    BY <1>1, <1>2

\* handle_grant, when it accepts: resident standing, for a key without a seat.
LEMMA GrantMoves ==
    ASSUME NEW t \in Tiers, NEW k \in Key, HandleGrant(t, k).ok
    PROVE  /\ HandleGrant(t, k).tiers \in Tiers
           /\ HandleGrant(t, k).tiers.validators = t.validators
           /\ HandleGrant(t, k).tiers.residents = t.residents \cup {k}
<1>1. CASE k \in t.residents
    BY <1>1 DEF HandleGrant, NoOp, Rejected
<1>2. CASE k \notin t.residents
    BY <1>2 DEF HandleGrant, NoOp, Rejected, Tiers
<1>. QED
    BY <1>1, <1>2

\* handle_revoke always accepts.
LEMMA RevokeMoves ==
    ASSUME NEW t \in Tiers, NEW k \in Key
    PROVE  /\ HandleRevoke(t, k).ok
           /\ HandleRevoke(t, k).tiers \in Tiers
           /\ HandleRevoke(t, k).tiers.validators = t.validators
           /\ HandleRevoke(t, k).tiers.residents = t.residents \ {k}
<1>1. CASE k \in t.residents
    BY <1>1 DEF HandleRevoke, Tiers
<1>2. CASE k \notin t.residents
    BY <1>2 DEF HandleRevoke, NoOp
<1>. QED
    BY <1>1, <1>2

\* Who may move between the tiers by an action a: the keys it names, a seat
\* only out of the resident tier.
MovesByMandate(a, t, u) ==
    LET named(kind) == IF a.kind = kind THEN {a.key} ELSE {}
    IN /\ u.validators \ t.validators \subseteq named("AddValidator") \cap t.residents
       /\ t.validators \ u.validators \subseteq named("RemoveValidator")
       /\ u.residents \ t.residents \subseteq named("AddResident")
       /\ t.residents \ u.residents \subseteq named("RemoveResident") \cup u.validators

\* What an outcome that is not refused leaves behind.
OutcomeSound(a, out) ==
    /\ NetOK(out.net) /\ out.passed \in BOOLEAN
    /\ ~out.passed => out.net = net
    /\ MovesByMandate(a, net.tiers, out.net.tiers)
    /\ out.net.policy # net.policy =>
          /\ a.kind = "SetAclPolicy" /\ ElectorateCanStillSubmit(a)
          /\ out.net = SetPolicy(net, a)

\* A stale mandate, and one that moves nothing, is sound.
LEMMA NothingMoves ==
    ASSUME NetOK(net), NEW a, NEW out, out.net = net, out.passed \in BOOLEAN
    PROVE  OutcomeSound(a, out)
BY DEF OutcomeSound, MovesByMandate

\* A follow-up that valset accepts.
LEMMA FollowUpSound ==
    ASSUME NetOK(net), NEW a, NEW e, e.tiers \in Tiers, e.tiers.validators # {},
           MovesByMandate(a, net.tiers, e.tiers)
    PROVE  OutcomeSound(a, FollowUp(e))
<1>. DEFINE n == [net EXCEPT !.tiers = e.tiers]
<1>1. /\ n.tiers = e.tiers /\ n.shares = net.shares
      /\ n.mode = net.mode /\ n.policy = net.policy
      /\ n \in [tiers : Tiers, shares : {n.shares}, mode : BOOLEAN, policy : [Target -> Standing]]
    BY DEF NetOK
<1>2. FollowUp(e).net = n /\ FollowUp(e).passed = TRUE
    BY DEF FollowUp
<1>. HIDE DEF n
<1>3. NetOK(n)
    BY <1>1 DEF NetOK
<1>. QED
    BY <1>1, <1>2, <1>3 DEF OutcomeSound

\* The membership actions.
LEMMA MembershipSound ==
    ASSUME NetOK(net), NEW a \in Action, a.kind \in Membership, Enact(a).ok
    PROVE  OutcomeSound(a, Enact(a))
<1>. DEFINE k == a.key
            t == net.tiers
<1>1. k \in Key /\ t \in Tiers /\ t.validators # {}
    BY ActionAssumption DEF NetOK
<1>2. Stale.net = net /\ Stale.passed \in BOOLEAN
    BY DEF Stale
<1>3. CASE a.kind = "AddValidator"
    <2>1. Enact(a) = EnactAddValidator(k)
        BY <1>3 DEF Enact
    <2>2. CASE k \notin Members /\ (k \notin Residents \/ Cardinality(Members) >= MaxMembers)
        BY <2>1, <2>2, <1>2, NothingMoves DEF EnactAddValidator
    <2>3. CASE ~(k \notin Members /\ (k \notin Residents \/ Cardinality(Members) >= MaxMembers))
        <3>. DEFINE e == HandleJoin(t, k)
        <3>1. Enact(a) = FollowUp(e)
            BY <2>1, <2>3 DEF EnactAddValidator
        <3>2. e.ok
            BY <3>1 DEF FollowUp
        <3>3. /\ e.tiers \in Tiers
              /\ e.tiers.validators = t.validators \cup {k} /\ e.tiers.residents = t.residents \ {k}
            BY <1>1, <3>2, JoinMoves
        <3>4. k \in t.validators \/ k \in t.residents
            BY <2>3 DEF Members, Residents
        <3>. HIDE DEF e
        <3>5. MovesByMandate(a, t, e.tiers)
            BY <1>3, <3>3, <3>4 DEF MovesByMandate
        <3>6. e.tiers.validators # {}
            BY <3>3
        <3>. QED
            BY <3>1, <3>3, <3>5, <3>6, FollowUpSound
    <2>. QED
        BY <2>2, <2>3
<1>4. CASE a.kind = "RemoveValidator"
    <2>1. Enact(a) = EnactRemoveValidator(k)
        BY <1>4 DEF Enact
    <2>2. CASE Members \subseteq {k}
        BY <2>1, <2>2, <1>2, NothingMoves DEF EnactRemoveValidator
    <2>3. CASE ~(Members \subseteq {k})
        <3>. DEFINE e == HandleLeave(t, k)
        <3>1. Enact(a) = FollowUp(e)
            BY <2>1, <2>3 DEF EnactRemoveValidator
        <3>2. e.ok
            BY <3>1 DEF FollowUp
        <3>3. /\ e.tiers \in Tiers
              /\ e.tiers.validators = t.validators \ {k} /\ e.tiers.residents = t.residents
              /\ t.validators \ {k} # {}
            BY <1>1, <3>2, LeaveMoves
        <3>. HIDE DEF e
        <3>4. MovesByMandate(a, t, e.tiers)
            BY <1>4, <3>3 DEF MovesByMandate
        <3>. QED
            BY <3>1, <3>3, <3>4, FollowUpSound
    <2>. QED
        BY <2>2, <2>3
<1>5. CASE a.kind = "AddResident"
    <2>1. Enact(a) = EnactAddResident(k)
        BY <1>5 DEF Enact
    <2>2. CASE k \in Members \/ (k \notin Residents /\ Cardinality(Residents) >= MaxMembers)
        BY <2>1, <2>2, <1>2, NothingMoves DEF EnactAddResident
    <2>3. CASE ~(k \in Members \/ (k \notin Residents /\ Cardinality(Residents) >= MaxMembers))
        <3>. DEFINE e == HandleGrant(t, k)
        <3>1. Enact(a) = FollowUp(e)
            BY <2>1, <2>3 DEF EnactAddResident
        <3>2. e.ok
            BY <3>1 DEF FollowUp
        <3>3. /\ e.tiers \in Tiers
              /\ e.tiers.validators = t.validators /\ e.tiers.residents = t.residents \cup {k}
            BY <1>1, <3>2, GrantMoves
        <3>. HIDE DEF e
        <3>4. MovesByMandate(a, t, e.tiers)
            BY <1>5, <3>3 DEF MovesByMandate
        <3>. QED
            BY <1>1, <3>1, <3>3, <3>4, FollowUpSound
    <2>. QED
        BY <2>2, <2>3
<1>6. CASE a.kind = "RemoveResident"
    <2>. DEFINE e == HandleRevoke(t, k)
    <2>1. Enact(a) = FollowUp(e)
        BY <1>6 DEF Enact
    <2>2. /\ e.tiers \in Tiers
          /\ e.tiers.validators = t.validators /\ e.tiers.residents = t.residents \ {k}
        BY <1>1, RevokeMoves
    <2>. HIDE DEF e
    <2>3. MovesByMandate(a, t, e.tiers)
        BY <1>6, <2>2 DEF MovesByMandate
    <2>. QED
        BY <1>1, <2>1, <2>2, <2>3, FollowUpSound
<1>. QED
    BY <1>3, <1>4, <1>5, <1>6 DEF Membership

\* A share map in force totals at least one: it is not empty.
LEMMA TotalNonEmpty ==
    ASSUME NEW s, ValidTotal(s)
    PROVE  DOMAIN s # {}
<1>1. SUFFICES ASSUME DOMAIN s = {} PROVE FALSE
    OBVIOUS
<1>2. TotalPower(s) = 0
    BY <1>1, SumEmpty DEF TotalPower, SumFunction
<1>. QED
    BY <1>2, GovernanceAssumption DEF ValidTotal

\* The shares after SetShares are a share map of accounts.
LEMMA SharesAfterType ==
    ASSUME NetOK(net), NEW a \in Action, a.kind = "SetShares", a.account \in Account
    PROVE  /\ SharesAfter(a) \in [DOMAIN SharesAfter(a) -> Nat]
           /\ DOMAIN SharesAfter(a) \subseteq Account
<1>1. a.shares \in Nat
    BY ActionAssumption
<1>2. net.shares \in [DOMAIN net.shares -> Nat] /\ DOMAIN net.shares \subseteq Account
    BY DEF NetOK
<1>3. CASE a.shares = 0
    BY <1>2, <1>3 DEF SharesAfter, Restrict
<1>4. CASE a.shares # 0
    BY <1>1, <1>2, <1>4 DEF SharesAfter
<1>. QED
    BY <1>3, <1>4

\* The share registry and the voting mode.
LEMMA SharesSound ==
    ASSUME NetOK(net), NEW a \in Action, NamesAccounts(a),
           a.kind \in {"AdoptShares", "SetShares", "SetShareMode"}
    PROVE  OutcomeSound(a, Enact(a))
<1>1. Stale.net = net /\ Stale.passed \in BOOLEAN
    BY DEF Stale
<1>2. ASSUME NEW s, NEW m \in BOOLEAN, s \in [DOMAIN s -> Nat],
             DOMAIN s \subseteq Account, DOMAIN s # {}, NEW n,
             n = [net EXCEPT !.shares = s, !.mode = m]
      PROVE  OutcomeSound(a, Performed(n))
    <2>1. /\ n.tiers = net.tiers /\ n.shares = s /\ n.mode = m /\ n.policy = net.policy
          /\ n \in [tiers : Tiers, shares : {n.shares}, mode : BOOLEAN,
                    policy : [Target -> Standing]]
        BY <1>2 DEF NetOK
    <2>2. NetOK(n)
        BY <1>2, <2>1 DEF NetOK
    <2>3. Performed(n).net = n /\ Performed(n).passed = TRUE
        BY DEF Performed
    <2>. QED
        BY <2>1, <2>2, <2>3 DEF OutcomeSound, MovesByMandate
<1>3. CASE a.kind = "AdoptShares"
    <2>. DEFINE s == a.allocations
                n == [net EXCEPT !.shares = s, !.mode = TRUE]
    <2>1. Enact(a) = IF Configured \/ ~ValidTotal(s) THEN Stale ELSE Performed(n)
        BY <1>3 DEF Enact, EnactAdoptShares
    <2>2. CASE Configured \/ ~ValidTotal(s)
        BY <1>1, <2>1, <2>2, NothingMoves
    <2>3. CASE ~(Configured \/ ~ValidTotal(s))
        <3>1. s \in [DOMAIN s -> Nat] /\ DOMAIN s \subseteq Account
            BY <1>3, ActionAssumption DEF NamesAccounts
        <3>2. DOMAIN s # {}
            BY <2>3, TotalNonEmpty
        <3>3. OutcomeSound(a, Performed(n))
            BY <3>1, <3>2, <1>2
        <3>. QED
            BY <2>1, <2>3, <3>3
    <2>. QED
        BY <2>2, <2>3
<1>4. CASE a.kind = "SetShares"
    <2>. DEFINE s == SharesAfter(a)
                n == [net EXCEPT !.shares = s]
    <2>1. Enact(a) = IF ~Configured \/ ~SharesFit(s) THEN Stale ELSE Performed(n)
        BY <1>4 DEF Enact, EnactSetShares
    <2>2. CASE ~Configured \/ ~SharesFit(s)
        BY <1>1, <2>1, <2>2, NothingMoves
    <2>3. CASE ~(~Configured \/ ~SharesFit(s))
        <3>1. s \in [DOMAIN s -> Nat] /\ DOMAIN s \subseteq Account
            BY <1>4, SharesAfterType DEF NamesAccounts
        <3>2. DOMAIN s # {}
            BY <2>3, TotalNonEmpty DEF SharesFit
        <3>3. n = [net EXCEPT !.shares = s, !.mode = net.mode] /\ net.mode \in BOOLEAN
            BY DEF NetOK
        <3>. HIDE DEF s
        <3>4. OutcomeSound(a, Performed(n))
            BY <3>1, <3>2, <3>3, <1>2
        <3>. QED
            BY <2>1, <2>3, <3>4
    <2>. QED
        BY <2>2, <2>3
<1>5. CASE a.kind = "SetShareMode"
    <2>. DEFINE n == [net EXCEPT !.mode = a.enabled]
    <2>1. Enact(a) = IF a.enabled /\ ~Configured THEN Stale ELSE Performed(n)
        BY <1>5 DEF Enact
    <2>2. CASE a.enabled /\ ~Configured
        BY <1>1, <2>1, <2>2, NothingMoves
    <2>3. CASE ~(a.enabled /\ ~Configured)
        <3>1. a.enabled \in BOOLEAN
            BY <1>5, ActionAssumption
        <3>2. /\ n.tiers = net.tiers /\ n.shares = net.shares
              /\ n.mode = a.enabled /\ n.policy = net.policy
              /\ n \in [tiers : Tiers, shares : {n.shares}, mode : BOOLEAN,
                        policy : [Target -> Standing]]
            BY <3>1 DEF NetOK
        <3>. HIDE DEF n
        <3>3. NetOK(n)
            BY <2>3, <3>1, <3>2 DEF NetOK, Configured
        <3>4. Performed(n).net = n /\ Performed(n).passed = TRUE
            BY DEF Performed
        <3>5. OutcomeSound(a, Performed(n))
            BY <3>2, <3>3, <3>4 DEF OutcomeSound, MovesByMandate
        <3>. QED
            BY <2>1, <2>3, <3>5
    <2>. QED
        BY <2>2, <2>3
<1>. QED
    BY <1>3, <1>4, <1>5

\* A policy is set only where the electorate in force keeps its standing.
LEMMA PolicySound ==
    ASSUME NetOK(net), NEW a \in Action, a.kind = "SetAclPolicy"
    PROVE  OutcomeSound(a, Enact(a))
<1>. DEFINE n == SetPolicy(net, a)
<1>1. Enact(a) = IF ~ElectorateCanStillSubmit(a) THEN Stale ELSE Performed(n)
    BY DEF Enact, EnactSetAclPolicy
<1>2. CASE ~ElectorateCanStillSubmit(a)
    <2>1. Stale.net = net /\ Stale.passed \in BOOLEAN
        BY DEF Stale
    <2>. QED
        BY <1>1, <1>2, <2>1, NothingMoves
<1>3. CASE ElectorateCanStillSubmit(a)
    <2>1. a.target \in Target /\ a.standing \in Standing
        BY ActionAssumption
    <2>2. /\ n.tiers = net.tiers /\ n.shares = net.shares /\ n.mode = net.mode
          /\ n.policy = [net.policy EXCEPT ![a.target] = a.standing]
          /\ n \in [tiers : Tiers, shares : {n.shares}, mode : BOOLEAN,
                    policy : [Target -> Standing]]
        BY <2>1 DEF NetOK, SetPolicy
    <2>3. ~net.mode => a.standing # "user"
        BY <1>3 DEF ElectorateCanStillSubmit
    <2>4. \A t \in Target : n.policy[t] = IF t = a.target THEN a.standing ELSE net.policy[t]
        BY <2>1, <2>2 DEF NetOK
    <2>5. Performed(n).net = n /\ Performed(n).passed = TRUE
        BY DEF Performed
    <2>. HIDE DEF n
    <2>6. NetOK(n)
        BY <2>2, <2>3, <2>4 DEF NetOK
    <2>7. MovesByMandate(a, net.tiers, n.tiers)
        BY <2>2 DEF MovesByMandate
    <2>8. OutcomeSound(a, Performed(n))
        BY <1>3, <2>5, <2>6, <2>7 DEF OutcomeSound, n
    <2>. QED
        BY <1>1, <1>3, <2>8
<1>. QED
    BY <1>2, <1>3

\* Every outcome of Enact that is not refused.
LEMMA EnactSound ==
    ASSUME NetOK(net), NEW a \in Action, NamesAccounts(a), Enact(a).ok
    PROVE  OutcomeSound(a, Enact(a))
<1>1. CASE a.kind \in Membership
    BY <1>1, MembershipSound
<1>2. CASE a.kind \in {"AdoptShares", "SetShares", "SetShareMode"}
    BY <1>2, SharesSound
<1>3. CASE a.kind = "SetAclPolicy"
    BY <1>3, PolicySound
<1>4. CASE a.kind \in {"UpdateModule", "Signal"}
    <2>1. Enact(a) = Performed(net)
        BY <1>4 DEF Enact
    <2>2. Performed(net).net = net /\ Performed(net).passed \in BOOLEAN
        BY DEF Performed
    <2>. QED
        BY <2>1, <2>2, NothingMoves
<1>. QED
    BY <1>1, <1>2, <1>3, <1>4, ActionAssumption

--------------------------------------------------------------------------------
(***************************************************************************)
(* The records and the roster                                              *)
(***************************************************************************)
\* A proposal's standing in the electorate it was opened in.
Frozen(p, q) ==
    /\ q.action = p.action /\ q.proposer = p.proposer
    /\ q.deadline = p.deadline /\ q.electorate = p.electorate

\* Settling a record changes its status and nothing else.
LEMMA Settling ==
    ASSUME NEW p, RecordOK(p), NEW s \in {"open", "passed", "rejected"}
    PROVE  LET q == [p EXCEPT !.status = s]
           IN RecordOK(q) /\ Frozen(p, q) /\ q.votes = p.votes /\ q.status = s
<1>. DEFINE q == [p EXCEPT !.status = s]
<1>1. /\ Frozen(p, q) /\ q.votes = p.votes /\ q.status = s
      /\ q \in [action : Action, proposer : {q.proposer}, deadline : Nat,
                status : {"open", "passed", "rejected"}, votes : {q.votes},
                electorate : {q.electorate}]
    BY DEF RecordOK, Frozen
<1>. HIDE DEF q
<1>2. RecordOK(q)
    BY <1>1 DEF RecordOK, Frozen
<1>. QED
    BY <1>1, <1>2 DEF q

\* reap_expired: the expired records are settled, the others are untouched,
\* and what stays open is what stays in the roster.
LEMMA Reaping ==
    ASSUME RecordsInv, RosterInv
    PROVE  /\ DOMAIN Reaped = DOMAIN proposals
           /\ \A id \in DOMAIN proposals :
                /\ RecordOK(Reaped[id]) /\ Frozen(proposals[id], Reaped[id])
                /\ Reaped[id].votes = proposals[id].votes
                /\ Reaped[id] = proposals[id] \/ Reaped[id].status = "rejected"
                /\ id \notin roster => Reaped[id] = proposals[id]
                /\ id \notin Expired => Reaped[id] = proposals[id]
                /\ Reaped[id].status = "open" <=> id \in roster \ Expired
<1>1. DOMAIN Reaped = DOMAIN proposals
    BY DEF Reaped
<1>2. ASSUME NEW id \in DOMAIN proposals
      PROVE  /\ RecordOK(Reaped[id]) /\ Frozen(proposals[id], Reaped[id])
             /\ Reaped[id].votes = proposals[id].votes
             /\ Reaped[id] = proposals[id] \/ Reaped[id].status = "rejected"
             /\ id \notin roster => Reaped[id] = proposals[id]
             /\ id \notin Expired => Reaped[id] = proposals[id]
             /\ Reaped[id].status = "open" <=> id \in roster \ Expired
    <2>1. RecordOK(proposals[id])
        BY DEF RecordsInv
    <2>2. id \in roster <=> proposals[id].status = "open"
        BY DEF RosterInv
    <2>3. CASE id \in Expired
        <3>1. Reaped[id] = [proposals[id] EXCEPT !.status = "rejected"] /\ id \in roster
            BY <2>3 DEF Reaped, Expired
        <3>. QED
            BY <2>1, <2>3, <3>1, Settling
    <2>4. CASE id \notin Expired
        <3>1. Reaped[id] = proposals[id]
            BY <2>4 DEF Reaped
        <3>. QED
            BY <2>1, <2>2, <2>4, <3>1 DEF Frozen
    <2>. QED
        BY <2>3, <2>4
<1>. QED
    BY <1>1, <1>2

\* A roster that only loses ids stays within both caps.
LEMMA RosterShrinks ==
    ASSUME RosterInv, roster' \subseteq roster,
           roster' = {id \in DOMAIN proposals' : proposals'[id].status = "open"},
           \A id \in roster' : proposals'[id].proposer = proposals[id].proposer
    PROVE  RosterInv'
<1>1. IsFiniteSet(roster') /\ Cardinality(roster') <= Cardinality(roster)
    BY FS_Subset DEF RosterInv
<1>2. Cardinality(roster') \in Nat /\ Cardinality(roster) \in Nat
    BY <1>1, FS_CardinalityType DEF RosterInv
<1>3. ASSUME NEW id \in roster'
      PROVE  Cardinality({i \in roster' : proposals'[i].proposer = proposals'[id].proposer})
               <= MaxOpenPerSubmitter
    <2>. DEFINE S == {i \in roster : proposals[i].proposer = proposals[id].proposer}
                T == {i \in roster' : proposals'[i].proposer = proposals'[id].proposer}
    <2>1. T \subseteq S /\ S \subseteq roster
        OBVIOUS
    <2>. HIDE DEF S, T
    <2>2. IsFiniteSet(S) /\ IsFiniteSet(T) /\ Cardinality(T) <= Cardinality(S)
        BY <2>1, FS_Subset DEF RosterInv
    <2>3. Cardinality(S) <= MaxOpenPerSubmitter
        BY DEF RosterInv, S
    <2>4. Cardinality(S) \in Nat /\ Cardinality(T) \in Nat
        BY <2>2, FS_CardinalityType
    <2>. QED
        BY <2>2, <2>3, <2>4, GovernanceAssumption DEF T
<1>. QED
    BY <1>1, <1>2, <1>3, GovernanceAssumption DEF RosterInv

\* The electorate in force, as a proposal freezes it.
LEMMA CurrentPowersType ==
    ASSUME NetOK(net)
    PROVE  /\ DOMAIN CurrentPowers(net) \subseteq Principals
           /\ CurrentPowers(net) \in [DOMAIN CurrentPowers(net) -> Nat]
<1>1. net.tiers.validators \subseteq Key
    BY ValsetAssumption DEF NetOK, Tiers
<1>. QED
    BY <1>1 DEF CurrentPowers, NetOK, Principals

\* handle_propose files a well-formed record.
LEMMA FreshRecord ==
    ASSUME NetOK(net), NEW a \in Action, PassesNormalization(a), NEW proposer,
           NEW deadline \in Nat, ValidTotal(FrozenElectorate(a).powers)
    PROVE  LET q == [action |-> a, proposer |-> proposer, deadline |-> deadline,
                     status |-> "open", votes |-> <<>>, electorate |-> FrozenElectorate(a)]
           IN RecordOK(q)
<1>. DEFINE e == FrozenElectorate(a)
            q == [action |-> a, proposer |-> proposer, deadline |-> deadline,
                  status |-> "open", votes |-> <<>>, electorate |-> e]
<1>1. NamesAccounts(a)
    BY DEF PassesNormalization, NamesAccounts
<1>2. e.powers = CurrentPowers(net)
    BY DEF FrozenElectorate
<1>3. /\ DOMAIN e.powers \subseteq Principals /\ e.powers \in [DOMAIN e.powers -> Nat]
    BY <1>2, CurrentPowersType
<1>4. e.rule.bar \in Int
    <2>1. TotalPower(e.powers) \in Int
        BY GovernanceAssumption DEF ValidTotal
    <2>2. e.rule = ThresholdRule(TotalPower(e.powers), a, net.mode)
        BY DEF FrozenElectorate
    <2>. QED
        BY <2>1, <2>2 DEF ThresholdRule
<1>5. <<>> \in [DOMAIN <<>> -> BOOLEAN] /\ DOMAIN <<>> = {}
    OBVIOUS
<1>. HIDE DEF e
<1>6. /\ q \in [action : Action, proposer : {q.proposer}, deadline : Nat,
                status : {"open", "passed", "rejected"}, votes : {q.votes},
                electorate : {q.electorate}]
      /\ q.action = a /\ q.votes = <<>> /\ q.electorate = e
    OBVIOUS
<1>. HIDE DEF q
<1>7. RecordOK(q)
    BY <1>1, <1>3, <1>4, <1>5, <1>6 DEF RecordOK
<1>. QED
    BY <1>7 DEF q, e

\* One more element keeps a set below its cap within it.
LEMMA OneMore ==
    ASSUME NEW S, IsFiniteSet(S), NEW x, NEW n \in Nat, Cardinality(S) < n
    PROVE  IsFiniteSet(S \cup {x}) /\ Cardinality(S \cup {x}) <= n
<1>1. Cardinality(S) \in Nat
    BY FS_CardinalityType
<1>2. /\ IsFiniteSet(S \cup {x})
      /\ Cardinality(S \cup {x}) = IF x \in S THEN Cardinality(S) ELSE Cardinality(S) + 1
    BY FS_AddElement
<1>. QED
    BY <1>1, <1>2

\* handle_propose.
LEMMA ProposeKeeps ==
    ASSUME GovInv, NEW k, NEW id \in Id, NEW a \in Action, NEW period \in Period,
           Propose(k, id, a, period)
    PROVE  RecordsInv' /\ RosterInv'
<1>. DEFINE e == FrozenElectorate(a)
            proposer == Principal(k, e.accounts)
            q == [action |-> a, proposer |-> proposer, deadline |-> now + period,
                  status |-> "open", votes |-> <<>>, electorate |-> e]
            kept == roster \ Expired
<1>1. /\ id \notin DOMAIN proposals
      /\ ValidTotal(e.powers) /\ PassesNormalization(a)
      /\ Cardinality(kept) < MaxProposals
      /\ Cardinality(OpenBy(proposer)) < MaxOpenPerSubmitter
      /\ proposals' = [i \in DOMAIN proposals \cup {id} |-> IF i = id THEN q ELSE Reaped[i]]
      /\ roster' = kept \cup {id}
      /\ now' = now
    BY DEF Propose, IdIsSpent
<1>2. now + period \in Nat
    BY GovernanceAssumption DEF GovInv, RecordsInv
<1>3. RecordOK(q)
    BY <1>1, <1>2, FreshRecord DEF GovInv
<1>4. q.status = "open" /\ q.proposer = proposer
    OBVIOUS
<1>5. /\ DOMAIN Reaped = DOMAIN proposals
      /\ \A i \in DOMAIN proposals :
           /\ RecordOK(Reaped[i]) /\ Reaped[i].proposer = proposals[i].proposer
           /\ Reaped[i].status = "open" <=> i \in kept
    BY Reaping DEF GovInv, Frozen
<1>. HIDE DEF e, proposer, q
<1>6. /\ DOMAIN proposals' = DOMAIN proposals \cup {id}
      /\ proposals'[id] = q
      /\ \A i \in DOMAIN proposals : proposals'[i] = Reaped[i]
    BY <1>1
<1>7. RecordsInv'
    BY <1>1, <1>3, <1>5, <1>6 DEF GovInv, RecordsInv
<1>8. kept \subseteq roster /\ roster \subseteq DOMAIN proposals /\ IsFiniteSet(kept)
    BY FS_Subset DEF GovInv, RosterInv
<1>. HIDE DEF kept
<1>9. roster' = {i \in DOMAIN proposals' : proposals'[i].status = "open"}
    BY <1>1, <1>4, <1>5, <1>6, <1>8
<1>10. IsFiniteSet(roster') /\ Cardinality(roster') <= MaxProposals
    <2>1. MaxProposals \in Nat
        BY GovernanceAssumption
    <2>. QED
        BY <1>1, <1>8, <2>1, OneMore
<1>11. ASSUME NEW j \in roster'
       PROVE  Cardinality({i \in roster' : proposals'[i].proposer = proposals'[j].proposer})
                <= MaxOpenPerSubmitter
    <2>. DEFINE T == {i \in roster' : proposals'[i].proposer = proposals'[j].proposer}
    <2>1. \A i \in kept : proposals'[i].proposer = proposals[i].proposer
        BY <1>5, <1>6, <1>8
    <2>2. CASE proposals'[j].proposer = proposer
        <3>1. T = OpenBy(proposer) \cup {id}
            BY <1>1, <1>4, <1>6, <2>1, <2>2 DEF OpenBy, kept
        <3>2. OpenBy(proposer) \subseteq kept
            BY DEF OpenBy, kept
        <3>3. IsFiniteSet(OpenBy(proposer))
            BY <1>8, <3>2, FS_Subset
        <3>4. MaxOpenPerSubmitter \in Nat
            BY GovernanceAssumption
        <3>. HIDE DEF T
        <3>5. Cardinality(T) <= MaxOpenPerSubmitter
            BY <1>1, <3>1, <3>3, <3>4, OneMore
        <3>. QED
            BY <3>5 DEF T
    <2>3. CASE proposals'[j].proposer # proposer
        <3>. DEFINE S == {i \in roster : proposals[i].proposer = proposals[j].proposer}
        <3>1. j \in kept
            BY <1>1, <1>4, <1>6, <2>3
        <3>2. T \subseteq S /\ S \subseteq roster
            BY <1>1, <1>4, <1>6, <1>8, <2>1, <2>3, <3>1
        <3>3. Cardinality(S) <= MaxOpenPerSubmitter
            BY <1>8, <3>1 DEF GovInv, RosterInv
        <3>. HIDE DEF S, T
        <3>4. IsFiniteSet(S) /\ IsFiniteSet(T) /\ Cardinality(T) <= Cardinality(S)
            BY <3>2, FS_Subset DEF GovInv, RosterInv
        <3>5. Cardinality(S) \in Nat /\ Cardinality(T) \in Nat
            BY <3>4, FS_CardinalityType
        <3>6. Cardinality(T) <= MaxOpenPerSubmitter
            BY <3>3, <3>4, <3>5, GovernanceAssumption
        <3>. QED
            BY <3>6 DEF T
    <2>. QED
        BY <2>2, <2>3
<1>. QED
    BY <1>7, <1>9, <1>10, <1>11 DEF RosterInv

\* The ballots after one more vote.
Cast(votes, voter, approve) ==
    [v \in DOMAIN votes \cup {voter} |-> IF v = voter THEN approve ELSE votes[v]]

\* A vote changes the ballots of its record and nothing else.
LEMMA Voting ==
    ASSUME NEW p, RecordOK(p), NEW voter \in DOMAIN p.electorate.powers,
           NEW approve \in BOOLEAN
    PROVE  LET q == [p EXCEPT !.votes = Cast(p.votes, voter, approve)]
           IN RecordOK(q) /\ Frozen(p, q) /\ q.status = p.status
<1>. DEFINE c == Cast(p.votes, voter, approve)
            q == [p EXCEPT !.votes = c]
<1>1. /\ c \in [DOMAIN c -> BOOLEAN]
      /\ DOMAIN c \subseteq DOMAIN p.electorate.powers
    BY DEF Cast, RecordOK
<1>. HIDE DEF c
<1>2. /\ Frozen(p, q) /\ q.votes = c /\ q.status = p.status
      /\ q \in [action : Action, proposer : {q.proposer}, deadline : Nat,
                status : {"open", "passed", "rejected"}, votes : {q.votes},
                electorate : {q.electorate}]
    BY DEF RecordOK, Frozen
<1>. HIDE DEF q
<1>3. RecordOK(q)
    BY <1>1, <1>2 DEF RecordOK, Frozen
<1>. QED
    BY <1>2, <1>3 DEF q, c

\* What a step that touches record id, after reaping or not, comes to.
OneRecordMoves(id, q) ==
    /\ DOMAIN proposals' = DOMAIN proposals
    /\ proposals' = [i \in DOMAIN proposals' |-> proposals'[i]]
    /\ proposals'[id] = q
    /\ \A i \in DOMAIN proposals : i # id =>
         /\ RecordOK(proposals'[i]) /\ Frozen(proposals[i], proposals'[i])
         /\ proposals'[i].votes = proposals[i].votes
         /\ proposals'[i] = proposals[i] \/ proposals'[i].status = "rejected"
         /\ proposals[i].status # "open" => proposals'[i] = proposals[i]
         /\ proposals'[i].status = "open" <=> i \in roster'

\* Such a step keeps the records and the roster.
LEMMA OneRecordKeeps ==
    ASSUME GovInv, now' = now, NEW id \in roster, NEW q, RecordOK(q),
           Frozen(proposals[id], q), OneRecordMoves(id, q),
           roster' \subseteq roster, q.status = "open" <=> id \in roster'
    PROVE  RecordsInv' /\ RosterInv'
<1>1. RecordsInv'
    BY DEF GovInv, RecordsInv, OneRecordMoves
<1>2. roster \subseteq DOMAIN proposals
    BY DEF GovInv, RosterInv
<1>3. roster' = {i \in DOMAIN proposals' : proposals'[i].status = "open"}
    BY <1>2 DEF OneRecordMoves
<1>4. \A i \in roster' : proposals'[i].proposer = proposals[i].proposer
    BY <1>2 DEF OneRecordMoves, Frozen
<1>. QED
    BY <1>1, <1>3, <1>4, RosterShrinks DEF GovInv

\* The record EXCEPT of the records after reaping, at an id that stays.
LEMMA ReapedExcept ==
    ASSUME GovInv, NEW id \in roster \ Expired, NEW q,
           proposals' = [Reaped EXCEPT ![id] = q],
           roster' = (roster \ Expired) \/ roster' = roster \ (Expired \cup {id})
    PROVE  OneRecordMoves(id, q)
<1>1. /\ DOMAIN Reaped = DOMAIN proposals
      /\ \A i \in DOMAIN proposals :
           /\ RecordOK(Reaped[i]) /\ Frozen(proposals[i], Reaped[i])
           /\ Reaped[i].votes = proposals[i].votes
           /\ Reaped[i] = proposals[i] \/ Reaped[i].status = "rejected"
           /\ i \notin roster => Reaped[i] = proposals[i]
           /\ Reaped[i].status = "open" <=> i \in roster \ Expired
    BY Reaping DEF GovInv
<1>2. /\ Reaped = [i \in DOMAIN proposals |-> Reaped[i]]
      /\ id \in DOMAIN proposals
      /\ \A i \in DOMAIN proposals : proposals[i].status # "open" => i \notin roster
    BY DEF Reaped, GovInv, RosterInv
<1>3. /\ DOMAIN proposals' = DOMAIN proposals
      /\ proposals' = [i \in DOMAIN proposals' |-> proposals'[i]]
      /\ proposals'[id] = q
      /\ \A i \in DOMAIN proposals : i # id => proposals'[i] = Reaped[i]
    BY <1>2
<1>. QED
    BY <1>1, <1>2, <1>3 DEF OneRecordMoves

\* An open id within its window is in the roster and not expired.
LEMMA OpenStays ==
    ASSUME GovInv, NEW id, Open(id), now < ExecutionDeadline(proposals[id])
    PROVE  id \in roster \ Expired /\ id \in DOMAIN proposals
<1>1. id \in DOMAIN proposals /\ id \in roster
    BY DEF Open, GovInv, RosterInv
<1>2. now \in Nat /\ ExecutionDeadline(proposals[id]) \in Nat
    BY <1>1, GovernanceAssumption DEF GovInv, RecordsInv, RecordOK, ExecutionDeadline
<1>. QED
    BY <1>1, <1>2 DEF Expired

\* handle_vote.
VoteStep(id, q) ==
    /\ id \in roster \ Expired /\ id \in DOMAIN proposals
    /\ RecordOK(q) /\ Frozen(proposals[id], q) /\ q.status = "open"
    /\ OneRecordMoves(id, q)
    /\ roster' = roster \ Expired
    /\ UNCHANGED <<now, net, redeemed>>

\* A vote is such a step: the ballot lands in one record, the rest is reaped.
LEMMA VoteMoves ==
    ASSUME GovInv, NEW k, NEW id \in Id, NEW approve \in BOOLEAN, Vote(k, id, approve)
    PROVE  \E q : VoteStep(id, q)
<1>. DEFINE p == proposals[id]
            voter == Principal(k, p.electorate.accounts)
            c == Cast(p.votes, voter, approve)
            q == [p EXCEPT !.votes = c]
<1>1. /\ Open(id) /\ now < p.deadline /\ voter \in DOMAIN p.electorate.powers
      /\ roster' = roster \ Expired /\ UNCHANGED <<now, net, redeemed>>
      /\ proposals' = [Reaped EXCEPT ![id].votes =
            [v \in DOMAIN @ \cup {voter} |-> IF v = voter THEN approve ELSE @[v]]]
    BY DEF Vote
<1>2. id \in DOMAIN proposals /\ RecordOK(p) /\ p.status = "open"
    BY <1>1 DEF Open, GovInv, RecordsInv
<1>3. now < ExecutionDeadline(p)
    BY <1>1, <1>2, GovernanceAssumption DEF ExecutionDeadline, RecordOK, GovInv, RecordsInv
<1>4. id \in roster \ Expired
    BY <1>1, <1>3, OpenStays
<1>5. Reaped[id] = p
    BY <1>2, <1>4, Reaping DEF GovInv
<1>6. proposals' = [Reaped EXCEPT ![id] = [Reaped[id] EXCEPT !.votes =
            [v \in DOMAIN Reaped[id].votes \cup {voter} |->
               IF v = voter THEN approve ELSE Reaped[id].votes[v]]]]
    BY <1>1
<1>7. proposals' = [Reaped EXCEPT ![id] = q]
    BY <1>5, <1>6 DEF Cast
<1>8. RecordOK(q) /\ Frozen(p, q) /\ q.status = p.status
    BY <1>1, <1>2, Voting
<1>. HIDE DEF q
<1>9. OneRecordMoves(id, q)
    BY <1>1, <1>4, <1>7, ReapedExcept
<1>. QED
    BY <1>1, <1>2, <1>4, <1>8, <1>9 DEF VoteStep

\* handle_execute inside the window.
ExecuteStep(id, out) ==
    LET p == proposals[id]
        q == [p EXCEPT !.status = IF out.passed THEN "passed" ELSE "rejected"]
    IN /\ id \in roster \ Expired /\ id \in DOMAIN proposals
       /\ out = IF Passes(p) THEN Enact(p.action) ELSE Stale
       /\ out.ok /\ OutcomeSound(p.action, out) /\ net' = out.net
       /\ now >= p.deadline \/ DecidableEarly(p)
       /\ now < ExecutionDeadline(p)
       /\ OneRecordMoves(id, q)
       /\ roster' = roster \ (Expired \cup {id})
       /\ UNCHANGED <<now, redeemed>>

\* An execution settles one record and moves the network by its outcome.
LEMMA ExecuteMoves ==
    ASSUME GovInv, NEW id \in Id, Execute(id)
    PROVE  \E out : ExecuteStep(id, out)
<1>. DEFINE p == proposals[id]
            out == IF Passes(p) THEN Enact(p.action) ELSE Stale
            s == IF out.passed THEN "passed" ELSE "rejected"
            q == [p EXCEPT !.status = s]
<1>1. /\ Open(id) /\ now < ExecutionDeadline(p)
      /\ now >= p.deadline \/ DecidableEarly(p)
      /\ out.ok /\ net' = out.net
      /\ proposals' = [Reaped EXCEPT ![id].status = s]
      /\ roster' = roster \ (Expired \cup {id}) /\ UNCHANGED <<now, redeemed>>
    BY DEF Execute, Settle, WithinWindow
<1>2. id \in DOMAIN proposals /\ RecordOK(p) /\ id \in roster \ Expired
    BY <1>1, OpenStays DEF GovInv, RecordsInv
<1>3. OutcomeSound(p.action, out)
    <2>1. CASE Passes(p)
        BY <1>1, <1>2, <2>1, EnactSound DEF GovInv, RecordOK
    <2>2. CASE ~Passes(p)
        <3>1. Stale.net = net /\ Stale.passed \in BOOLEAN
            BY DEF Stale
        <3>. QED
            BY <2>2, <3>1, NothingMoves DEF GovInv
    <2>. QED
        BY <2>1, <2>2
<1>. HIDE DEF out
<1>4. Reaped[id] = p
    BY <1>2, Reaping DEF GovInv
<1>5. proposals' = [Reaped EXCEPT ![id] = q]
    <2>1. proposals' = [Reaped EXCEPT ![id] = [Reaped[id] EXCEPT !.status = s]]
        BY <1>1
    <2>. QED
        BY <1>4, <2>1
<1>6. OneRecordMoves(id, q)
    <2>. HIDE DEF q
    <2>. QED
        BY <1>1, <1>2, <1>5, ReapedExcept
<1>7. ExecuteStep(id, out)
    BY <1>1, <1>2, <1>3, <1>6 DEF ExecuteStep, out
<1>. QED
    BY <1>7

\* handle_execute past the window.
LateStep(id) ==
    /\ id \in roster /\ id \in DOMAIN proposals
    /\ OneRecordMoves(id, [proposals[id] EXCEPT !.status = "rejected"])
    /\ roster' = roster \ {id}
    /\ UNCHANGED <<now, net, redeemed>>

\* A late execution settles one record and reaps nothing.
LEMMA LateMoves ==
    ASSUME GovInv, NEW id \in Id, ExecuteLate(id)
    PROVE  LateStep(id)
<1>. DEFINE q == [proposals[id] EXCEPT !.status = "rejected"]
<1>1. /\ Open(id) /\ roster' = roster \ {id} /\ UNCHANGED <<now, net, redeemed>>
      /\ proposals' = [proposals EXCEPT ![id] = q]
    BY DEF ExecuteLate, Settle
<1>2. id \in DOMAIN proposals /\ id \in roster
    BY <1>1 DEF Open, GovInv, RosterInv
<1>3. \A i \in DOMAIN proposals : RecordOK(proposals[i]) /\ Frozen(proposals[i], proposals[i])
    BY DEF GovInv, RecordsInv, Frozen
<1>. HIDE DEF q
<1>4. /\ DOMAIN proposals' = DOMAIN proposals
      /\ proposals' = [i \in DOMAIN proposals' |-> proposals'[i]]
      /\ proposals'[id] = q
      /\ \A i \in DOMAIN proposals : i # id => proposals'[i] = proposals[i]
    BY <1>1, <1>2 DEF GovInv, RecordsInv
<1>5. \A i \in DOMAIN proposals : i # id => (proposals[i].status = "open" <=> i \in roster')
    BY <1>1 DEF GovInv, RosterInv
<1>6. OneRecordMoves(id, q)
    BY <1>3, <1>4, <1>5 DEF OneRecordMoves
<1>. QED
    BY <1>1, <1>2, <1>6 DEF LateStep, q

\* handle_redeem: the joiner becomes resident, on a nonce never used before.
LEMMA RedeemMoves ==
    ASSUME GovInv, NEW i \in Invite, NEW joiner \in WellFormed, Redeem(i, joiner)
    PROVE  /\ NetOK(net')
           /\ net'.tiers.validators = Members /\ net'.tiers.residents = Residents \cup {joiner}
           /\ net'.policy = net.policy
           /\ i.nonce \notin DOMAIN redeemed /\ i.issuer \in Members
           /\ DOMAIN redeemed' = DOMAIN redeemed \cup {i.nonce}
           /\ redeemed' = [n \in DOMAIN redeemed' |-> redeemed'[n]]
           /\ redeemed'[i.nonce] = [issuer |-> i.issuer, joiner |-> joiner]
           /\ \A n \in DOMAIN redeemed : redeemed'[n] = redeemed[n]
           /\ UNCHANGED <<now, proposals, roster>>
<1>. DEFINE e == HandleGrant(net.tiers, joiner)
            r == [issuer |-> i.issuer, joiner |-> joiner]
<1>1. /\ MayRedeem(i, joiner) /\ e.ok /\ net' = [net EXCEPT !.tiers = e.tiers]
      /\ redeemed' = [n \in DOMAIN redeemed \cup {i.nonce} |->
                        IF n = i.nonce THEN r ELSE redeemed[n]]
      /\ UNCHANGED <<now, proposals, roster>>
    BY DEF Redeem
<1>2. joiner \in Key /\ net.tiers \in Tiers
    BY ValsetAssumption DEF GovInv, NetOK
<1>3. /\ e.tiers \in Tiers /\ e.tiers.validators = Members
      /\ e.tiers.residents = Residents \cup {joiner}
    BY <1>1, <1>2, GrantMoves DEF Members, Residents
<1>. HIDE DEF e, r
<1>4. /\ net'.tiers = e.tiers /\ net'.shares = net.shares
      /\ net'.mode = net.mode /\ net'.policy = net.policy
      /\ net' \in [tiers : Tiers, shares : {net'.shares}, mode : BOOLEAN,
                   policy : [Target -> Standing]]
    BY <1>1, <1>3 DEF GovInv, NetOK
<1>5. NetOK(net')
    BY <1>3, <1>4 DEF GovInv, NetOK, Members
<1>6. /\ i.nonce \notin DOMAIN redeemed /\ i.issuer \in Members
    BY <1>1 DEF MayRedeem
<1>7. /\ DOMAIN redeemed' = DOMAIN redeemed \cup {i.nonce}
      /\ redeemed' = [n \in DOMAIN redeemed' |-> redeemed'[n]]
      /\ redeemed'[i.nonce] = r
      /\ \A n \in DOMAIN redeemed : redeemed'[n] = redeemed[n]
    BY <1>1, <1>6
<1>. QED
    BY <1>1, <1>3, <1>4, <1>5, <1>6, <1>7 DEF r

--------------------------------------------------------------------------------
(***************************************************************************)
(* The invariant holds                                                     *)
(***************************************************************************)
\* One step, by the operation that takes it.
LEMMA GovStep ==
    ASSUME GovInv, [Next]_vars
    PROVE  GovInv'
<1>1. ASSUME NEW k \in Submitter, NEW id \in Id, NEW a \in Action, NEW period \in Period,
             Propose(k, id, a, period)
      PROVE  GovInv'
    <2>1. UNCHANGED <<net, redeemed>>
        BY <1>1 DEF Propose
    <2>2. RecordsInv' /\ RosterInv'
        BY <1>1, ProposeKeeps
    <2>. QED
        BY <2>1, <2>2 DEF GovInv, NetOK, RedeemInv
<1>2. ASSUME NEW k \in Submitter, NEW id \in Id, NEW approve \in BOOLEAN, Vote(k, id, approve)
      PROVE  GovInv'
    <2>1. PICK q : VoteStep(id, q)
        BY <1>2, VoteMoves
    <2>2. RecordsInv' /\ RosterInv'
        BY <2>1, OneRecordKeeps DEF VoteStep
    <2>. QED
        BY <2>1, <2>2 DEF VoteStep, GovInv, NetOK, RedeemInv
<1>3. ASSUME NEW id \in Id, Execute(id)
      PROVE  GovInv'
    <2>1. PICK out : ExecuteStep(id, out)
        BY <1>3, ExecuteMoves
    <2>. DEFINE p == proposals[id]
                s == IF out.passed THEN "passed" ELSE "rejected"
                q == [p EXCEPT !.status = s]
    <2>2. RecordOK(p) /\ s \in {"open", "passed", "rejected"} /\ s # "open"
        BY <2>1 DEF ExecuteStep, GovInv, RecordsInv
    <2>3. RecordOK(q) /\ Frozen(p, q) /\ q.status = s
        <3>. HIDE DEF s
        <3>. QED
            BY <2>2, Settling
    <2>4. OneRecordMoves(id, q) /\ id \in roster
        BY <2>1 DEF ExecuteStep
    <2>5. roster' = roster \ (Expired \cup {id}) /\ now' = now
        BY <2>1 DEF ExecuteStep
    <2>. HIDE DEF q
    <2>6. RecordsInv' /\ RosterInv'
        BY <2>2, <2>3, <2>4, <2>5, OneRecordKeeps
    <2>7. NetOK(net') /\ redeemed' = redeemed
        BY <2>1 DEF ExecuteStep, OutcomeSound
    <2>. QED
        BY <2>6, <2>7 DEF GovInv, NetOK, RedeemInv
<1>4. ASSUME NEW id \in Id, ExecuteLate(id)
      PROVE  GovInv'
    <2>1. LateStep(id)
        BY <1>4, LateMoves
    <2>. DEFINE p == proposals[id]
                q == [p EXCEPT !.status = "rejected"]
    <2>2. RecordOK(p)
        BY <2>1 DEF LateStep, GovInv, RecordsInv
    <2>3. RecordOK(q) /\ Frozen(p, q) /\ q.status = "rejected"
        BY <2>2, Settling
    <2>4. OneRecordMoves(id, q) /\ id \in roster /\ roster' = roster \ {id} /\ now' = now
        BY <2>1 DEF LateStep
    <2>. HIDE DEF q
    <2>5. RecordsInv' /\ RosterInv'
        BY <2>3, <2>4, OneRecordKeeps
    <2>. QED
        BY <2>1, <2>5 DEF LateStep, GovInv, NetOK, RedeemInv
<1>5. ASSUME NEW i \in Invite, NEW joiner \in WellFormed, Redeem(i, joiner)
      PROVE  GovInv'
    <2>1. /\ NetOK(net') /\ UNCHANGED <<now, proposals, roster>>
          /\ DOMAIN redeemed' = DOMAIN redeemed \cup {i.nonce}
          /\ redeemed' = [n \in DOMAIN redeemed' |-> redeemed'[n]]
        BY <1>5, RedeemMoves
    <2>2. RecordsInv' /\ RosterInv'
        BY <2>1 DEF GovInv, RecordsInv, RosterInv
    <2>. QED
        BY <2>1, <2>2 DEF GovInv, NetOK, RedeemInv
<1>6. CASE Tick
    <2>1. RecordsInv'
        BY <1>6, GovernanceAssumption DEF Tick, GovInv, RecordsInv
    <2>. QED
        BY <1>6, <2>1 DEF Tick, GovInv, RosterInv, NetOK, RedeemInv
<1>7. CASE UNCHANGED vars
    BY <1>7 DEF vars, GovInv, RecordsInv, RosterInv, NetOK, RedeemInv
<1>. QED
    BY <1>1, <1>2, <1>3, <1>4, <1>5, <1>6, <1>7 DEF Next

\* The genesis network satisfies the invariant.
LEMMA GovInit == Init => GovInv
<1>. SUFFICES ASSUME Init PROVE GovInv
    OBVIOUS
<1>1. DOMAIN <<>> = {}
    OBVIOUS
<1>2. RecordsInv
    BY <1>1, GovernanceAssumption DEF Init, RecordsInv
<1>3. RosterInv
    BY <1>1, FS_EmptySet, GovernanceAssumption DEF Init, RosterInv
<1>4. NetOK(net)
    BY <1>1, GovernanceAssumption DEF Init, NetOK, Tiers, Standing
<1>5. RedeemInv
    BY <1>1 DEF Init, RedeemInv
<1>. QED
    BY <1>2, <1>3, <1>4, <1>5 DEF GovInv

\* The inductive invariant holds of every reachable state.
THEOREM GovInvariant == Spec => []GovInv
<1>1. GovInv /\ [Next]_vars => GovInv'
    BY GovStep
<1>. QED
    BY <1>1, GovInit, PTL DEF Spec

\* The roster is exactly the open proposals, within the network's cap and each
\* proposer's (handle_propose, reap_expired, settle), and the state is typed.
THEOREM GovRosterSound == Spec => []RosterSound
<1>1. GovInv => RosterSound
    <2>. SUFFICES ASSUME GovInv PROVE RosterSound
        OBVIOUS
    <2>1. \A id \in DOMAIN proposals :
             /\ proposals[id].action \in Action
             /\ proposals[id].status \in {"open", "passed", "rejected"}
             /\ DOMAIN proposals[id].votes \subseteq DOMAIN proposals[id].electorate.powers
        BY DEF GovInv, RecordsInv, RecordOK
    <2>2. TypeOK
        BY <2>1 DEF TypeOK, GovInv, RecordsInv, RosterInv, NetOK, RedeemInv
    <2>. QED
        BY <2>2 DEF RosterSound, GovInv, RosterInv
<1>. QED
    BY <1>1, GovInvariant, PTL

\* No passing membership mandate over a key that decodes is refused by valset:
\* execute_proposal's own checks are at least as strict as the handlers'.
THEOREM GovNeverWedged == Spec => []NeverWedged
<1>1. GovInv => NeverWedged
    <2>. SUFFICES ASSUME GovInv, NEW id \in DOMAIN proposals, NEW a, a = proposals[id].action,
                         "key" \in DOMAIN a, a.key \in WellFormed
                  PROVE  Enact(a).ok
        BY DEF NeverWedged
    <2>. DEFINE k == a.key
                t == net.tiers
    <2>1. a \in Action /\ a.kind \in Membership /\ k \in Key
        BY ActionAssumption DEF GovInv, RecordsInv, RecordOK
    <2>2. t \in Tiers /\ IsFiniteSet(t.validators)
        BY TiersFinite DEF GovInv, NetOK
    <2>3. Stale.ok /\ \A e : FollowUp(e).ok = e.ok
        BY DEF Stale, FollowUp
    <2>4. CASE a.kind = "AddValidator"
        <3>1. Enact(a) = EnactAddValidator(k)
            BY <2>4 DEF Enact
        <3>2. CASE k \in Members \/ (k \in Residents /\ ~(Cardinality(Members) >= MaxMembers))
            <4>1. HandleJoin(t, k).ok
                BY <3>2 DEF HandleJoin, Members
            <4>. QED
                BY <3>1, <3>2, <4>1, <2>3 DEF EnactAddValidator
        <3>3. CASE ~(k \in Members \/ (k \in Residents /\ ~(Cardinality(Members) >= MaxMembers)))
            BY <3>1, <3>3, <2>3 DEF EnactAddValidator
        <3>. QED
            BY <3>2, <3>3
    <2>5. CASE a.kind = "RemoveValidator"
        <3>1. Enact(a) = EnactRemoveValidator(k)
            BY <2>5 DEF Enact
        <3>2. CASE Members \subseteq {k}
            BY <3>1, <3>2, <2>3 DEF EnactRemoveValidator
        <3>3. CASE ~(Members \subseteq {k})
            <4>1. k \in t.validators => Cardinality(t.validators) # 1
                <5>. SUFFICES ASSUME k \in t.validators, Cardinality(t.validators) = 1
                              PROVE  FALSE
                    OBVIOUS
                <5>1. PICK x : t.validators = {x}
                    BY <2>2, FS_Singleton
                <5>. QED
                    BY <3>3, <5>1 DEF Members
            <4>2. HandleLeave(t, k).ok
                BY <4>1 DEF HandleLeave, NoOp
            <4>. QED
                BY <3>1, <3>3, <4>2, <2>3 DEF EnactRemoveValidator
        <3>. QED
            BY <3>2, <3>3
    <2>6. CASE a.kind = "AddResident"
        <3>1. Enact(a) = EnactAddResident(k)
            BY <2>6 DEF Enact
        <3>2. CASE k \in Members \/ (k \notin Residents /\ Cardinality(Residents) >= MaxMembers)
            BY <3>1, <3>2, <2>3 DEF EnactAddResident
        <3>3. CASE ~(k \in Members \/ (k \notin Residents /\ Cardinality(Residents) >= MaxMembers))
            <4>1. HandleGrant(t, k).ok
                BY <3>3 DEF HandleGrant, NoOp, Members, Residents
            <4>. QED
                BY <3>1, <3>3, <4>1, <2>3 DEF EnactAddResident
        <3>. QED
            BY <3>2, <3>3
    <2>7. CASE a.kind = "RemoveResident"
        <3>1. Enact(a) = FollowUp(HandleRevoke(t, k))
            BY <2>7 DEF Enact
        <3>. QED
            BY <3>1, <2>1, <2>2, <2>3, RevokeMoves
    <2>. QED
        BY <2>1, <2>4, <2>5, <2>6, <2>7 DEF Membership
<1>. QED
    BY <1>1, GovInvariant, PTL

\* Once shares are in force the electorate is accounts: whom a submitter
\* speaks for is then the account of a user key.
LEMMA AccountSpeaks ==
    ASSUME NetOK(net), net.mode, NEW k, Principal(k, net.mode) \in DOMAIN CurrentPowers(net)
    PROVE  k \in UserKey
<1>1. "nobody" \notin Account
    BY GovernanceAssumption DEF Account
<1>2. DOMAIN CurrentPowers(net) \subseteq Account
    BY DEF CurrentPowers, NetOK
<1>. QED
    BY <1>1, <1>2 DEF Principal

\* electorate_can_still_submit, at the door and again when it is enacted: the
\* electorate that could reach governance still can.
LEMMA PolicyStep ==
    ASSUME NetOK(net), NEW a \in Action, a.kind = "SetAclPolicy",
           ElectorateCanStillSubmit(a), NEW n, n = SetPolicy(net, a),
           Reachable(net), \A t \in Target : n.policy[t] = "unset" => net.policy[t] = "unset"
    PROVE  Reachable(n)
<1>1. a.target \in Target /\ a.standing \in Standing
    BY ActionAssumption
<1>2. /\ n.tiers = net.tiers /\ n.shares = net.shares /\ n.mode = net.mode
      /\ \A t \in Target : n.policy[t] = IF t = a.target THEN a.standing ELSE net.policy[t]
    BY <1>1 DEF NetOK, SetPolicy
<1>3. PICK k \in Submitter :
         HoldsStanding(net, k) /\ Principal(k, net.mode) \in DOMAIN CurrentPowers(net)
    BY DEF Reachable
<1>4. \/ PolicyFor(n, "governance") = PolicyFor(net, "governance")
      \/ PolicyFor(n, "governance") = a.standing
    BY <1>1, <1>2 DEF PolicyFor, Target
<1>5. CurrentPowers(n) = CurrentPowers(net) /\ Principal(k, n.mode) = Principal(k, net.mode)
    BY <1>2 DEF CurrentPowers
<1>6. HoldsStanding(n, k)
    <2>1. CASE PolicyFor(n, "governance") = PolicyFor(net, "governance")
        BY <1>2, <1>3, <2>1 DEF HoldsStanding
    <2>2. CASE PolicyFor(n, "governance") = a.standing
        <3>1. CASE net.mode
            <4>1. a.standing \notin {"node", "validator"}
                BY <3>1 DEF ElectorateCanStillSubmit
            <4>2. k \in UserKey
                BY <1>3, <3>1, AccountSpeaks
            <4>. QED
                BY <2>2, <4>1, <4>2 DEF HoldsStanding
        <3>2. CASE ~net.mode
            <4>1. a.standing # "user"
                BY <3>2 DEF ElectorateCanStillSubmit
            <4>2. k \in n.tiers.validators
                BY <1>2, <1>3, <3>2 DEF Principal, CurrentPowers
            <4>. QED
                BY <2>2, <4>1, <4>2 DEF HoldsStanding
        <3>. QED
            BY <3>1, <3>2
    <2>. QED
        BY <1>4, <2>1, <2>2
<1>. QED
    BY <1>3, <1>5, <1>6 DEF Reachable

\* Only an execution moves a policy.
LEMMA PolicyMoves ==
    ASSUME GovInv, [Next]_vars, net'.policy # net.policy
    PROVE  \E a \in Action : /\ a.kind = "SetAclPolicy" /\ ElectorateCanStillSubmit(a)
                             /\ net' = SetPolicy(net, a)
<1>1. PICK id \in Id : Execute(id)
    <2>1. ASSUME NEW i \in Invite, NEW joiner \in WellFormed, Redeem(i, joiner) PROVE FALSE
        BY <2>1, RedeemMoves
    <2>. QED
        BY <2>1 DEF Next, vars, Propose, Vote, ExecuteLate, Tick
<1>2. PICK out : ExecuteStep(id, out)
    BY <1>1, ExecuteMoves
<1>3. proposals[id].action \in Action
    BY <1>2 DEF ExecuteStep, GovInv, RecordsInv, RecordOK
<1>. QED
    BY <1>2, <1>3 DEF ExecuteStep, OutcomeSound

\* No vote on policy locks the electorate out of governance.
THEOREM GovElectorateReachable == Spec => ElectorateReachable
<1>1. GovInv => (~Configured => Reachable(net))
    <2>. SUFFICES ASSUME GovInv, ~Configured PROVE Reachable(net)
        OBVIOUS
    <2>1. /\ ~net.mode /\ net.tiers.validators # {} /\ net.tiers.validators \subseteq Key
          /\ \A t \in Target : net.policy[t] # "user"
        BY ValsetAssumption DEF Configured, GovInv, NetOK, Tiers
    <2>2. PICK k \in net.tiers.validators : TRUE
        BY <2>1
    <2>3. PolicyFor(net, "governance") # "user"
        BY <2>1 DEF PolicyFor, Target
    <2>4. HoldsStanding(net, k)
        BY <2>3 DEF HoldsStanding
    <2>5. Principal(k, net.mode) \in DOMAIN CurrentPowers(net) /\ k \in Submitter
        BY <2>1 DEF Principal, CurrentPowers, Submitter
    <2>. QED
        BY <2>4, <2>5 DEF Reachable
<1>2. GovInv /\ [Next]_vars => [PolicyKeepsReach]_vars
    <2>. SUFFICES ASSUME GovInv, [Next]_vars, net'.policy # net.policy, Reachable(net),
                         \A t \in Target : net'.policy[t] = "unset" => net.policy[t] = "unset"
                  PROVE  Reachable(net')
        BY DEF PolicyKeepsReach
    <2>1. PICK a \in Action : /\ a.kind = "SetAclPolicy" /\ ElectorateCanStillSubmit(a)
                              /\ net' = SetPolicy(net, a)
        BY PolicyMoves
    <2>. QED
        BY <2>1, PolicyStep DEF GovInv
<1>. QED
    BY <1>1, <1>2, GovInvariant, PTL DEF Spec, ElectorateReachable

\* What any step leaves of what was put to the vote, once filed.
LEMMA SameMandate ==
    ASSUME NEW p, NEW q, RecordOK(p), RecordOK(q), Frozen(p, q)
    PROVE  [p EXCEPT !.votes = q.votes, !.status = q.status] = q
BY DEF RecordOK, Frozen

\* More ballots of a kind never weigh less.
LEMMA SumMonotone ==
    ASSUME NEW D, IsFiniteSet(D), NEW f, \A x \in D : f[x] \in Nat,
           NEW T \in SUBSET D, NEW U \in SUBSET T
    PROVE  /\ SumFunctionOnSet(f, U) \in Nat /\ SumFunctionOnSet(f, T) \in Nat
           /\ SumFunctionOnSet(f, U) <= SumFunctionOnSet(f, T)
<1>. DEFINE sum(S) == SumFunctionOnSet(f, S)
<1>1. T \ U \in SUBSET (D \ U) /\ U \cup (T \ U) = T
    OBVIOUS
<1>2. sum(U \cup (T \ U)) = sum(U) + sum(T \ U)
    BY <1>1, SumUnion
<1>3. sum(T \ U) \in Nat /\ sum(U) \in Nat /\ sum(T) \in Nat
    BY SumType
<1>. HIDE DEF sum
<1>4. sum(U) <= sum(T)
    BY <1>1, <1>2, <1>3
<1>. QED
    BY <1>3, <1>4 DEF sum

\* The principals are finitely many.
LEMMA PrincipalsFinite == IsFiniteSet(Principals)
<1>. DEFINE f == [k \in UserKey |-> AccountOf[k]]
<1>1. f \in Surjection(UserKey, Account)
    BY DEF Account, Surjection
<1>2. IsFiniteSet(Account)
    BY <1>1, FS_Surjection, GovernanceAssumption
<1>. QED
    BY <1>2, FS_Union, ValsetAssumption DEF Principals

\* decidable_early: a lead the rule decides on before the deadline is one that
\* no ballot still missing can turn.
LEMMA EarlyIsDecided ==
    ASSUME NEW p, RecordOK(p), DecidableEarly(p)
    PROVE  Decided(p)
<1>. DEFINE f == p.electorate.powers
            D == DOMAIN f
            bar == p.electorate.rule.bar
            uncast == D \ DOMAIN p.votes
            sum(S) == SumFunctionOnSet(f, S)
<1>. SUFFICES ASSUME NEW rest \in [uncast -> BOOLEAN]
              PROVE  Passes([p EXCEPT !.votes = [v \in D |-> IF v \in uncast THEN rest[v]
                                                             ELSE p.votes[v]]])
    BY DEF Decided
<1>. DEFINE full == [v \in D |-> IF v \in uncast THEN rest[v] ELSE p.votes[v]]
            q == [p EXCEPT !.votes = full]
            Y == {v \in DOMAIN p.votes : p.votes[v] = TRUE}
            N == {v \in DOMAIN p.votes : p.votes[v] = FALSE}
            YY == {v \in DOMAIN full : full[v] = TRUE}
            NN == {v \in DOMAIN full : full[v] = FALSE}
<1>1. /\ DOMAIN p.votes \subseteq D /\ D \subseteq Principals
      /\ \A v \in D : f[v] \in Nat
      /\ \A v \in DOMAIN p.votes : p.votes[v] \in BOOLEAN
      /\ bar \in Int
    BY DEF RecordOK
<1>2. IsFiniteSet(D)
    BY <1>1, PrincipalsFinite, FS_Subset
<1>3. DOMAIN full = D /\ \A v \in D : full[v] \in BOOLEAN
    BY <1>1
<1>4. YY \in SUBSET D /\ NN \in SUBSET D /\ Y \in SUBSET YY /\ N \in SUBSET NN
    BY <1>1, <1>3
<1>5. NN \in SUBSET (D \ YY) /\ YY \cup NN = D
    BY <1>3
<1>6. q.votes = full /\ q.electorate = p.electorate
    BY DEF RecordOK
<1>7. /\ Tally(p, TRUE) = sum(Y) /\ Tally(p, FALSE) = sum(N)
      /\ Tally(q, TRUE) = sum(YY) /\ Tally(q, FALSE) = sum(NN)
    BY <1>6 DEF Tally
<1>. HIDE DEF f, D, uncast, full, q, Y, N, YY, NN
<1>8. /\ sum(Y) \in Nat /\ sum(YY) \in Nat /\ sum(Y) <= sum(YY)
      /\ sum(N) \in Nat /\ sum(NN) \in Nat /\ sum(N) <= sum(NN)
    BY <1>1, <1>2, <1>4, SumMonotone
<1>9. sum(D) = sum(YY) + sum(NN)
    BY <1>1, <1>2, <1>4, <1>5, SumUnion
<1>10. TotalPower(f) = sum(D)
    BY DEF TotalPower, SumFunction, D
<1>. HIDE DEF sum
<1>11. Passes(q)
    <2>1. CASE p.electorate.rule.kind = "threshold"
        <3>1. sum(Y) >= bar
            BY <1>7, <2>1 DEF DecidableEarly
        <3>2. sum(YY) >= bar
            BY <1>1, <1>8, <3>1
        <3>. QED
            BY <1>6, <1>7, <2>1, <3>2 DEF Passes
    <2>2. CASE p.electorate.rule.kind # "threshold"
        <3>1. sum(Y) + sum(N) >= bar /\ sum(Y) > sum(D) - sum(Y)
            BY <1>7, <1>10, <2>2 DEF DecidableEarly, f
        <3>2. sum(YY) + sum(NN) >= bar /\ sum(YY) > sum(NN)
            BY <1>1, <1>8, <1>9, <3>1
        <3>. QED
            BY <1>6, <1>7, <2>2, <3>2 DEF Passes
    <2>. QED
        BY <2>1, <2>2
<1>. QED
    BY <1>11 DEF q, full, D, f, uncast

\* A record that a step leaves to itself, or reaps, keeps its mandate.
LEMMA UntouchedKept ==
    ASSUME NEW p, NEW q, RecordOK(p), RecordOK(q), Frozen(p, q),
           q = p \/ (p.status = "open" /\ q.status = "rejected")
    PROVE  /\ [p EXCEPT !.votes = q.votes, !.status = q.status] = q
           /\ p.status # "open" => q = p
           /\ ~(p.status = "open" /\ q.status = "passed")
<1>1. [p EXCEPT !.votes = q.votes, !.status = q.status] = q
    BY SameMandate
<1>. QED
    BY <1>1

\* A decision stands: what was put to the vote never changes, nor a settled
\* record; a proposal passes only inside its window, by its own frozen rule,
\* and before the deadline only if no missing ballot could turn it.
THEOREM GovMandateStands == Spec => MandateStands
<1>1. GovInv /\ [Next]_vars => [MandateKept]_vars
    <2>. SUFFICES ASSUME GovInv, Next, NEW id \in DOMAIN proposals
                  PROVE  LET p == proposals[id]
                             q == proposals'[id]
                         IN /\ [p EXCEPT !.votes = q.votes, !.status = q.status] = q
                            /\ p.status # "open" => q = p
                            /\ p.status = "open" /\ q.status = "passed" =>
                                  /\ Passes(p) /\ now < p.deadline + Grace
                                  /\ now < p.deadline => Decided(p)
        BY DEF MandateKept
    <2>. DEFINE p == proposals[id]
                q == proposals'[id]
                Goal == /\ [p EXCEPT !.votes = q.votes, !.status = q.status] = q
                        /\ p.status # "open" => q = p
                        /\ p.status = "open" /\ q.status = "passed" =>
                              /\ Passes(p) /\ now < p.deadline + Grace
                              /\ now < p.deadline => Decided(p)
    <2>1. RecordOK(p) /\ Frozen(p, p) /\ (p.status = "open" <=> id \in roster)
        BY DEF GovInv, RecordsInv, RosterInv, Frozen
    <2>2. ASSUME RecordOK(q), Frozen(p, q), q = p \/ (p.status = "open" /\ q.status = "rejected")
          PROVE  Goal
        <3>. HIDE DEF p, q
        <3>. QED
            BY <2>1, <2>2, UntouchedKept
    <2>3. ASSUME NEW j \in roster, NEW r, OneRecordMoves(j, r), j # id
          PROVE  Goal
        <3>1. /\ RecordOK(q) /\ Frozen(p, q)
              /\ q = p \/ q.status = "rejected"
              /\ p.status # "open" => q = p
            BY <2>3 DEF OneRecordMoves
        <3>. HIDE DEF Goal, p, q
        <3>. QED
            BY <3>1, <2>2
    <2>4. ASSUME NEW k \in Submitter, NEW j \in Id, NEW a \in Action, NEW period \in Period,
                 Propose(k, j, a, period)
          PROVE  Goal
        <3>1. j # id /\ q = Reaped[id]
            BY <2>4 DEF Propose, IdIsSpent
        <3>2. /\ RecordOK(q) /\ Frozen(p, q)
              /\ q = p \/ q.status = "rejected"
              /\ id \notin roster => q = p
            BY <3>1, Reaping DEF GovInv
        <3>. HIDE DEF Goal, p, q
        <3>. QED
            BY <3>2, <2>1, <2>2
    <2>5. ASSUME NEW k \in Submitter, NEW j \in Id, NEW approve \in BOOLEAN, Vote(k, j, approve)
          PROVE  Goal
        <3>1. PICK r : VoteStep(j, r)
            BY <2>5, VoteMoves
        <3>2. CASE j # id
            BY <3>1, <3>2, <2>3 DEF VoteStep
        <3>3. CASE j = id
            <4>1. q = r /\ RecordOK(q) /\ Frozen(p, q) /\ q.status = "open" /\ p.status = "open"
                BY <3>1, <3>3, <2>1 DEF VoteStep, OneRecordMoves
            <4>2. [p EXCEPT !.votes = q.votes, !.status = q.status] = q
                <5>. HIDE DEF p, q
                <5>. QED
                    BY <4>1, <2>1, SameMandate
            <4>. QED
                BY <4>1, <4>2
        <3>. QED
            BY <3>2, <3>3
    <2>6. ASSUME NEW j \in Id, Execute(j)
          PROVE  Goal
        <3>1. PICK out : ExecuteStep(j, out)
            BY <2>6, ExecuteMoves
        <3>. DEFINE s == IF out.passed THEN "passed" ELSE "rejected"
        <3>2. CASE j # id
            BY <3>1, <3>2, <2>3 DEF ExecuteStep
        <3>3. CASE j = id
            <4>1. q = [p EXCEPT !.status = s] /\ s \in {"open", "passed", "rejected"}
                BY <3>1, <3>3 DEF ExecuteStep, OneRecordMoves
            <4>2. RecordOK(q) /\ Frozen(p, q) /\ q.status = s
                <5>. HIDE DEF s, p, q
                <5>. QED
                    BY <4>1, <2>1, Settling
            <4>3. [p EXCEPT !.votes = q.votes, !.status = q.status] = q
                <5>. HIDE DEF p, q
                <5>. QED
                    BY <4>2, <2>1, SameMandate
            <4>4. /\ p.status = "open" /\ now < p.deadline + Grace
                  /\ now >= p.deadline \/ DecidableEarly(p)
                BY <3>1, <3>3, <2>1 DEF ExecuteStep, ExecutionDeadline
            <4>5. q.status = "passed" => Passes(p)
                BY <3>1, <3>3, <4>2 DEF ExecuteStep, Stale
            <4>6. now < p.deadline => Decided(p)
                <5>1. now \in Nat /\ p.deadline \in Nat
                    BY <2>1 DEF GovInv, RecordsInv, RecordOK
                <5>. HIDE DEF p
                <5>. QED
                    BY <5>1, <4>4, <2>1, EarlyIsDecided
            <4>. QED
                BY <4>3, <4>4, <4>5, <4>6
        <3>. QED
            BY <3>2, <3>3
    <2>7. ASSUME NEW j \in Id, ExecuteLate(j)
          PROVE  Goal
        <3>1. LateStep(j)
            BY <2>7, LateMoves
        <3>2. CASE j # id
            BY <3>1, <3>2, <2>3 DEF LateStep
        <3>3. CASE j = id
            <4>1. q = [p EXCEPT !.status = "rejected"] /\ p.status = "open"
                BY <3>1, <3>3, <2>1 DEF LateStep, OneRecordMoves
            <4>2. RecordOK(q) /\ Frozen(p, q) /\ q.status = "rejected"
                <5>. HIDE DEF p, q
                <5>. QED
                    BY <4>1, <2>1, Settling
            <4>. QED
                BY <4>1, <4>2, <2>2
        <3>. QED
            BY <3>2, <3>3
    <2>8. ASSUME proposals' = proposals PROVE Goal
        <3>1. q = p
            BY <2>8
        <3>. HIDE DEF Goal, p, q
        <3>. QED
            BY <3>1, <2>1, <2>2
    <2>. HIDE DEF Goal
    <2>9. Goal
        BY <2>4, <2>5, <2>6, <2>7, <2>8 DEF Next, Redeem, Tick
    <2>. QED
        BY <2>9 DEF Goal
<1>. QED
    BY <1>1, GovInvariant, PTL DEF Spec, MandateStands

\* Standing is earned: seats only out of the resident tier and by a mandate of
\* this step, residence by a mandate or an unspent invite of a validator.
THEOREM GovStandingEarned == Spec => StandingEarned
<1>1. GovInv /\ [Next]_vars => [MovesEarned]_vars
    <2>. SUFFICES ASSUME GovInv, Next PROVE MovesEarned
        OBVIOUS
    <2>1. ASSUME UNCHANGED <<net, redeemed>> PROVE MovesEarned
        BY <2>1 DEF MovesEarned
    <2>2. ASSUME NEW id \in Id, Execute(id) PROVE MovesEarned
        <3>1. PICK out : ExecuteStep(id, out)
            BY <2>2, ExecuteMoves
        <3>. DEFINE a == proposals[id].action
        <3>2. /\ OutcomeSound(a, out) /\ net' = out.net /\ redeemed' = redeemed
              /\ id \in DOMAIN proposals /\ id \in roster
            BY <3>1 DEF ExecuteStep
        <3>3. CASE ~out.passed
            BY <3>2, <3>3, <2>1 DEF OutcomeSound
        <3>4. CASE out.passed
            <4>1. proposals'[id] = [proposals[id] EXCEPT !.status = "passed"]
                BY <3>1, <3>4 DEF ExecuteStep, OneRecordMoves
            <4>2. RecordOK(proposals[id]) /\ Open(id)
                BY <3>2 DEF GovInv, RecordsInv, RosterInv, Open
            <4>3. proposals'[id].status = "passed"
                BY <4>1, <4>2, Settling
            <4>4. \A i \in DOMAIN proposals : i # id /\ Open(i) => proposals'[i].status # "passed"
                BY <3>1 DEF ExecuteStep, OneRecordMoves, Open
            <4>5. PassedNow = {id}
                BY <3>2, <4>2, <4>3, <4>4 DEF PassedNow
            <4>6. RedeemedNow = {}
                BY <3>2 DEF RedeemedNow
            <4>7. Cardinality(PassedNow) + Cardinality(RedeemedNow) = 1
                <5>1. Cardinality(PassedNow) = 1 /\ Cardinality(RedeemedNow) = 0
                    BY <4>5, <4>6, FS_Singleton, FS_EmptySet
                <5>. QED
                    BY <5>1
            <4>8. \A kind : NamedNow(kind) = IF a.kind = kind THEN {a.key} ELSE {}
                BY <4>5 DEF NamedNow
            <4>9. MovesByMandate(a, net.tiers, net'.tiers)
                BY <3>2 DEF OutcomeSound
            <4>. QED
                BY <3>2, <4>7, <4>8, <4>9 DEF MovesEarned, MovesByMandate
        <3>. QED
            BY <3>3, <3>4
    <2>3. ASSUME NEW i \in Invite, NEW joiner \in WellFormed, Redeem(i, joiner)
          PROVE  MovesEarned
        <3>1. /\ net'.tiers.validators = Members /\ net'.tiers.residents = Residents \cup {joiner}
              /\ i.nonce \notin DOMAIN redeemed /\ i.issuer \in Members
              /\ DOMAIN redeemed' = DOMAIN redeemed \cup {i.nonce}
              /\ redeemed'[i.nonce] = [issuer |-> i.issuer, joiner |-> joiner]
              /\ \A n \in DOMAIN redeemed : redeemed'[n] = redeemed[n]
              /\ proposals' = proposals
            BY <2>3, RedeemMoves
        <3>2. PassedNow = {}
            BY <3>1 DEF PassedNow, Open
        <3>3. RedeemedNow = {i.nonce}
            BY <3>1 DEF RedeemedNow
        <3>4. joiner \in InvitedNow
            BY <3>1, <3>3 DEF InvitedNow
        <3>5. Cardinality(PassedNow) + Cardinality(RedeemedNow) = 1
            <4>1. Cardinality(PassedNow) = 0 /\ Cardinality(RedeemedNow) = 1
                BY <3>2, <3>3, FS_Singleton, FS_EmptySet
            <4>. QED
                BY <4>1
        <3>. QED
            BY <3>1, <3>4, <3>5 DEF MovesEarned, Members, Residents
    <2>. QED
        BY <2>1, <2>2, <2>3 DEF Next, Propose, Vote, ExecuteLate, Tick
<1>. QED
    BY <1>1, GovInvariant, PTL DEF Spec, StandingEarned
================================================================================
