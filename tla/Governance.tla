------------------------------ MODULE Governance -------------------------------
(***************************************************************************)
(* On-chain governance (crates/modules/system/governance/src/lib.rs) with  *)
(* the modules a passing proposal moves: the tiers of valset, the submit   *)
(* policies of acl, governance's own share registry and voting mode, and   *)
(* the acl gate of the host that every submission passes first.            *)
(*                                                                         *)
(* One action is one operation of a block.  An operation that errs, or     *)
(* whose follow-up errs, is rolled back whole by the host, so it is no     *)
(* action here.  Ids and keys that fail the shape checks never get past    *)
(* the door: Key holds 32-byte keys, and those outside WellFormed are no   *)
(* curve point.  Every sibling module is wired.  Invites are tokens whose  *)
(* signature and join proof verify.  An Identity account may have several  *)
(* keys, the same throughout; a node key is never one of them.             *)
(***************************************************************************)
EXTENDS ValsetOps

CONSTANTS
    Id,             \* proposal ids
    UserKey,        \* keys of Identity accounts
    AccountOf,      \* the account of each (IdentityQuery::OfKey)
    Founders,       \* the genesis validators
    Action,         \* the actions proposals may name
    Period,         \* the voting periods they may ask for
    Invite,         \* minted invites: [issuer, nonce]
    Grace,          \* EXECUTION_GRACE
    MaxProposals, MaxOpenPerSubmitter,
    MaxShareAccounts, MaxShares,
    MaxNow          \* bound: consensus time

ASSUME GovernanceAssumption ==
    /\ IsFiniteSet(UserKey) /\ UserKey \cap Key = {}
    /\ \A k \in UserKey : AccountOf[k] # "nobody"
    /\ Founders \subseteq WellFormed /\ Founders # {} /\ Cardinality(Founders) <= MaxMembers
    /\ Period \subseteq Nat \ {0}
    /\ \A i \in Invite : i.issuer \in WellFormed
    /\ Grace \in Nat \ {0} /\ MaxProposals \in Nat \ {0} /\ MaxOpenPerSubmitter \in Nat \ {0}
    /\ MaxShareAccounts \in Nat \ {0} /\ MaxShares \in Nat \ {0} /\ MaxNow \in Nat

VARIABLES
    now,        \* consensus_time
    proposals,  \* id -> its record; an id once in the domain stays there
    roster,     \* ids of the proposals record
    net,        \* what proposals move: tiers, shares, mode, policy
    redeemed    \* nonce -> its redemption

vars == <<now, proposals, roster, net, redeemed>>

Account   == {AccountOf[k] : k \in UserKey}
Submitter == Key \cup UserKey
Target    == {"governance", "*"}
Standing  == {"unset", "open", "user", "node", "validator"}
Members   == net.tiers.validators
Residents == net.tiers.residents

\* A GovAction that does not decode is no proposal: the actions are well typed.
Membership == {"AddValidator", "RemoveValidator", "AddResident", "RemoveResident"}

ASSUME ActionAssumption ==
    \A a \in Action :
        /\ a.kind \in Membership \cup {"AdoptShares", "SetShares", "SetShareMode",
                                      "SetAclPolicy", "UpdateModule", "Signal"}
        /\ "key" \in DOMAIN a <=> a.kind \in Membership
        /\ a.kind \in Membership => a.key \in Key
        /\ a.kind = "AdoptShares" => a.allocations \in [DOMAIN a.allocations -> Nat]
        /\ a.kind = "SetShares" => a.shares \in Nat
        /\ a.kind = "SetShareMode" => a.enabled \in BOOLEAN
        /\ a.kind = "SetAclPolicy" => a.target \in Target /\ a.standing \in Standing

Init ==
    /\ now = 0
    /\ proposals = <<>> /\ roster = {}
    /\ net = [tiers  |-> [validators |-> Founders, residents |-> {}],
              shares |-> <<>>,              \* none configured
              mode   |-> FALSE,             \* share_mode
              policy |-> [t \in Target |-> "unset"]]
    /\ redeemed = <<>>

(***************************************************************************)
(* The host's acl gate                                                     *)
(***************************************************************************)
\* Acl::policy_for.
PolicyFor(n, t) == IF n.policy[t] # "unset" THEN n.policy[t] ELSE n.policy["*"]

\* Acl::handle_set_policy; an entry set to "unset" is removed.
SetPolicy(n, a) == [n EXCEPT !.policy[a.target] = a.standing]

\* Does submitter k hold the standing governance requires in network state n?
HoldsStanding(n, k) ==
    CASE PolicyFor(n, "governance") = "validator" -> k \in n.tiers.validators
      [] PolicyFor(n, "governance") = "node" -> k \in n.tiers.validators \cup n.tiers.residents
      [] PolicyFor(n, "governance") = "user" -> k \in UserKey
      [] OTHER -> TRUE

\* Execute and Redeem ask nothing of their submitter beyond the gate.
AnyoneAdmitted == \E k \in Submitter : HoldsStanding(net, k)

(***************************************************************************)
(* The frozen electorate                                                   *)
(***************************************************************************)
TotalPower(powers) == SumFunction(powers)
ValidTotal(powers) == TotalPower(powers) \in 1..MaxShares

\* Whom submitter k speaks for, in an electorate of accounts or of nodes.
Principal(k, accounts) ==
    IF ~accounts THEN k ELSE IF k \in UserKey THEN AccountOf[k] ELSE "nobody"

\* The powers a proposal opened in network state n is decided by.
CurrentPowers(n) == IF n.mode THEN n.shares ELSE [m \in n.tiers.validators |-> 1]

ThresholdRule(total, a, accounts) ==
    IF accounts /\ a.kind = "Signal"
    THEN [kind |-> "majority", bar |-> (total \div 2) + (total % 2)]
    ELSE [kind |-> "threshold",
          bar |-> IF accounts THEN total - (total \div 3) ELSE (total \div 2) + 1]

FrozenElectorate(a) ==
    [accounts |-> net.mode, powers |-> CurrentPowers(net),
     rule |-> ThresholdRule(TotalPower(CurrentPowers(net)), a, net.mode)]

(***************************************************************************)
(* Expiry and settlement                                                   *)
(***************************************************************************)
ExecutionDeadline(p) == p.deadline + Grace

Open(id) == id \in DOMAIN proposals /\ proposals[id].status = "open"

\* reap_expired: rejected, and out of the roster.
Expired == {id \in roster : Open(id) /\ now >= ExecutionDeadline(proposals[id])}

BugReaped == proposals                  \* the record is left open

Reaped ==
    [id \in DOMAIN proposals |->
        IF id \in Expired THEN [proposals[id] EXCEPT !.status = "rejected"]
        ELSE proposals[id]]

BugOpenBy(proposer) ==                  \* closed ballots are not counted
    {id \in roster : proposals[id].proposer = proposer /\ now < proposals[id].deadline}

OpenBy(proposer) == {id \in roster \ Expired : proposals[id].proposer = proposer}

(***************************************************************************)
(* Propose                                                                 *)
(***************************************************************************)
\* electorate_can_still_submit.
BugElectorateCanStillSubmit(a) ==       \* the wildcard is forgotten
    CASE a.target = "*" -> TRUE
      [] a.standing = "user" -> net.mode
      [] a.standing \in {"node", "validator"} -> ~net.mode
      [] OTHER -> TRUE

ElectorateCanStillSubmit(a) ==
    CASE a.standing = "user" -> net.mode
      [] a.standing \in {"node", "validator"} -> ~net.mode
      [] OTHER -> TRUE

StandsForPromotion(k) == k \in Members \cup Residents

\* The checks at the door that depend on state.
PassesDoor(a) ==
    /\ a.kind = "AddValidator" => StandsForPromotion(a.key)
    /\ a.kind = "SetAclPolicy" => ElectorateCanStillSubmit(a)

SharesAfter(a) ==
    IF a.shares = 0 THEN Restrict(net.shares, DOMAIN net.shares \ {a.account})
    ELSE [c \in DOMAIN net.shares \cup {a.account} |->
            IF c = a.account THEN a.shares ELSE net.shares[c]]

SharesFit(s) == Cardinality(DOMAIN s) <= MaxShareAccounts /\ ValidTotal(s)

Configured == DOMAIN net.shares # {}

\* normalize_share_action.
PassesNormalization(a) ==
    CASE a.kind = "AdoptShares" ->
           /\ ~Configured
           /\ DOMAIN a.allocations \subseteq Account
           /\ \A c \in DOMAIN a.allocations : a.allocations[c] > 0
           /\ SharesFit(a.allocations)
      [] a.kind = "SetShares" ->
           /\ Configured
           /\ a.account \in Account /\ a.shares <= MaxShares
           /\ SharesFit(SharesAfter(a))
      [] a.kind = "SetShareMode" -> (a.enabled => Configured) /\ a.enabled # net.mode
      [] OTHER -> TRUE

BugIdIsSpent(id) == id \in roster           \* only an open id is taken

IdIsSpent(id) == id \in DOMAIN proposals

Propose(k, id, a, period) ==
    LET e == FrozenElectorate(a)
        proposer == Principal(k, e.accounts)
    IN /\ ~IdIsSpent(id)
       /\ HoldsStanding(net, k)
       /\ PassesDoor(a)
       /\ proposer \in DOMAIN e.powers
       /\ ValidTotal(e.powers)
       /\ Cardinality(roster \ Expired) < MaxProposals
       /\ Cardinality(OpenBy(proposer)) < MaxOpenPerSubmitter
       /\ PassesNormalization(a)
       /\ proposals' = [i \in DOMAIN proposals \cup {id} |->
             IF i = id
             THEN [action |-> a, proposer |-> proposer, deadline |-> now + period,
                   status |-> "open", votes |-> <<>>, electorate |-> e]
             ELSE Reaped[i]]
       /\ roster' = (roster \ Expired) \cup {id}
       /\ UNCHANGED <<now, net, redeemed>>

(***************************************************************************)
(* Vote                                                                    *)
(***************************************************************************)
\* The last ballot of a principal counts; what else has expired is reaped.
Vote(k, id, approve) ==
    /\ HoldsStanding(net, k)
    /\ Open(id) /\ now < proposals[id].deadline
    /\ LET p == proposals[id]
           voter == Principal(k, p.electorate.accounts)
       IN /\ voter \in DOMAIN p.electorate.powers
          /\ proposals' = [Reaped EXCEPT ![id].votes =
                [v \in DOMAIN @ \cup {voter} |-> IF v = voter THEN approve ELSE @[v]]]
    /\ roster' = roster \ Expired
    /\ UNCHANGED <<now, net, redeemed>>

(***************************************************************************)
(* Execute                                                                 *)
(***************************************************************************)
Tally(p, approve) ==
    SumFunctionOnSet(p.electorate.powers, {v \in DOMAIN p.votes : p.votes[v] = approve})

Passes(p) ==
    LET yes == Tally(p, TRUE)
        no  == Tally(p, FALSE)
    IN IF p.electorate.rule.kind = "threshold" THEN yes >= p.electorate.rule.bar
       ELSE yes + no >= p.electorate.rule.bar /\ yes > no

BugDecidableEarly(p) == Passes(p)       \* a lead is enough

DecidableEarly(p) ==
    LET yes == Tally(p, TRUE)
        no  == Tally(p, FALSE)
    IN IF p.electorate.rule.kind = "threshold" THEN yes >= p.electorate.rule.bar
       ELSE /\ yes + no >= p.electorate.rule.bar
            /\ yes > TotalPower(p.electorate.powers) - yes

\* What a passing action comes to: performed (n is the network state after
\* it), settled Rejected because the mandate went stale, or not ok: its
\* follow-up is refused, and the operation with it.
Performed(n) == [ok |-> TRUE, passed |-> TRUE, net |-> n]
Stale        == [ok |-> TRUE, passed |-> FALSE, net |-> net]
FollowUp(e)  == [ok |-> e.ok, passed |-> TRUE, net |-> [net EXCEPT !.tiers = e.tiers]]

BugEnactAddValidator(k) == FollowUp(HandleJoin(net.tiers, k))   \* the door's check is trusted

EnactAddValidator(k) ==
    IF k \notin Members /\ (k \notin Residents \/ Cardinality(Members) >= MaxMembers)
    THEN Stale ELSE FollowUp(HandleJoin(net.tiers, k))

EnactRemoveValidator(k) ==
    IF Members \subseteq {k} THEN Stale ELSE FollowUp(HandleLeave(net.tiers, k))

BugEnactAddResident(k) == FollowUp(HandleGrant(net.tiers, k))   \* promoted meanwhile

EnactAddResident(k) ==
    IF k \in Members \/ (k \notin Residents /\ Cardinality(Residents) >= MaxMembers)
    THEN Stale ELSE FollowUp(HandleGrant(net.tiers, k))

EnactAdoptShares(allocations) ==
    IF Configured \/ ~ValidTotal(allocations) THEN Stale
    ELSE Performed([net EXCEPT !.shares = allocations, !.mode = TRUE])

EnactSetShares(a) ==
    IF ~Configured \/ ~SharesFit(SharesAfter(a)) THEN Stale
    ELSE Performed([net EXCEPT !.shares = SharesAfter(a)])

BugEnactSetAclPolicy(a) ==              \* checked when proposed only
    Performed(SetPolicy(net, a))

EnactSetAclPolicy(a) ==
    IF ~ElectorateCanStillSubmit(a) THEN Stale
    ELSE Performed(SetPolicy(net, a))

\* "UpdateModule" stands for the three actions the code registry performs; it
\* has gates of its own, and a follow-up it refuses takes the Execute with it,
\* which is then no step.
Enact(a) ==
    CASE a.kind = "AddValidator"    -> EnactAddValidator(a.key)
      [] a.kind = "RemoveValidator" -> EnactRemoveValidator(a.key)
      [] a.kind = "AddResident"     -> EnactAddResident(a.key)
      [] a.kind = "RemoveResident"  -> FollowUp(HandleRevoke(net.tiers, a.key))
      [] a.kind = "AdoptShares"     -> EnactAdoptShares(a.allocations)
      [] a.kind = "SetShares"       -> EnactSetShares(a)
      [] a.kind = "SetShareMode"    ->
            IF a.enabled /\ ~Configured THEN Stale
            ELSE Performed([net EXCEPT !.mode = a.enabled])
      [] a.kind = "SetAclPolicy"    -> EnactSetAclPolicy(a)
      [] a.kind = "UpdateModule"    -> Performed(net)
      [] a.kind = "Signal"          -> Performed(net)

Settle(id, records, status) ==
    proposals' = [records EXCEPT ![id].status = status]

\* Execute past the execution window: settled Rejected on the spot, and
\* nothing else is reaped.
ExecuteLate(id) ==
    /\ AnyoneAdmitted
    /\ Open(id) /\ now >= ExecutionDeadline(proposals[id])
    /\ Settle(id, proposals, "rejected")
    /\ roster' = roster \ {id}
    /\ UNCHANGED <<now, net, redeemed>>

BugWithinWindow(id) == TRUE             \* a mandate never expires

WithinWindow(id) == now < ExecutionDeadline(proposals[id])

Execute(id) ==
    /\ AnyoneAdmitted
    /\ Open(id) /\ WithinWindow(id)
    /\ LET p == proposals[id]
           out == IF Passes(p) THEN Enact(p.action) ELSE Stale
       IN /\ now >= p.deadline \/ DecidableEarly(p)
          /\ out.ok
          /\ Settle(id, Reaped, IF out.passed THEN "passed" ELSE "rejected")
          /\ net' = out.net
    /\ roster' = roster \ (Expired \cup {id})
    /\ UNCHANGED <<now, redeemed>>

(***************************************************************************)
(* Redeem                                                                  *)
(***************************************************************************)
BugMayRedeem(i, joiner) ==              \* an invite outlives its issuer's seat
    /\ joiner \notin Members \cup Residents
    /\ i.nonce \notin DOMAIN redeemed

MayRedeem(i, joiner) ==
    /\ i.issuer \in Members
    /\ joiner \notin Members \cup Residents
    /\ i.nonce \notin DOMAIN redeemed

\* The redemption and the grant commit together, or neither does.
Redeem(i, joiner) ==
    /\ AnyoneAdmitted
    /\ MayRedeem(i, joiner)
    /\ LET e == HandleGrant(net.tiers, joiner)
       IN /\ e.ok
          /\ net' = [net EXCEPT !.tiers = e.tiers]
    /\ redeemed' = [n \in DOMAIN redeemed \cup {i.nonce} |->
          IF n = i.nonce THEN [issuer |-> i.issuer, joiner |-> joiner] ELSE redeemed[n]]
    /\ UNCHANGED <<now, proposals, roster>>

\* The next block: consensus time moves on.
Tick ==
    /\ now < MaxNow
    /\ now' = now + 1
    /\ UNCHANGED <<proposals, roster, net, redeemed>>

Next ==
    \/ \E k \in Submitter, id \in Id :
          \/ \E a \in Action, period \in Period : Propose(k, id, a, period)
          \/ \E approve \in BOOLEAN : Vote(k, id, approve)
    \/ \E id \in Id :
          \/ Execute(id)
          \/ ExecuteLate(id)
    \/ \E i \in Invite, joiner \in WellFormed : Redeem(i, joiner)
    \/ Tick

Spec == Init /\ [][Next]_vars

(***************************************************************************)
(* Properties                                                              *)
(***************************************************************************)
TypeOK ==
    /\ now \in 0..MaxNow
    /\ DOMAIN proposals \subseteq Id /\ roster \subseteq Id
    /\ \A id \in DOMAIN proposals :
          /\ proposals[id].action \in Action
          /\ proposals[id].status \in {"open", "passed", "rejected"}
          /\ DOMAIN proposals[id].votes \subseteq DOMAIN proposals[id].electorate.powers
    /\ net.tiers \in Tiers
    /\ DOMAIN net.shares \subseteq Account
    /\ net.mode \in BOOLEAN /\ net.policy \in [Target -> Standing]
    /\ DOMAIN redeemed \subseteq {i.nonce : i \in Invite}

\* The roster is exactly the open proposals, within the network's and each
\* proposer's cap: a settled id left behind would hold a slot for ever, and
\* the caps are what keeps one member from filling it.
RosterSound ==
    /\ TypeOK
    /\ roster = {id \in DOMAIN proposals : proposals[id].status = "open"}
    /\ Cardinality(roster) <= MaxProposals
    /\ \A id \in roster :
          Cardinality({i \in roster : proposals[i].proposer = proposals[id].proposer})
            <= MaxOpenPerSubmitter

\* The outcome under every way the ballots not yet cast could fall.
Decided(p) ==
    LET uncast == DOMAIN p.electorate.powers \ DOMAIN p.votes
    IN \A rest \in [uncast -> BOOLEAN] :
          Passes([p EXCEPT !.votes = [v \in DOMAIN p.electorate.powers |->
                     IF v \in uncast THEN rest[v] ELSE p.votes[v]]])

\* What one step may do to the record of a proposal.
MandateKept ==
    \A id \in DOMAIN proposals :
        LET p == proposals[id]
            q == proposals'[id]
        IN /\ [p EXCEPT !.votes = q.votes, !.status = q.status] = q
           /\ p.status # "open" => q = p
           /\ p.status = "open" /\ q.status = "passed" =>
                 /\ Passes(p) /\ now < p.deadline + Grace
                 /\ now < p.deadline => Decided(p)

\* A decision stands: what was put to the vote, who decides it and until when
\* never change, a settled record and its ballots never change, and a proposal
\* passes only inside its execution window with the ballots its own frozen
\* rule asks for, before the deadline only if no missing ballot could turn it.
MandateStands == [][MandateKept]_vars

\* The proposal that passes in this step, if one does.
PassedNow == {id \in DOMAIN proposals : Open(id) /\ proposals'[id].status = "passed"}

\* The keys it names by a kind of action, and those an invite lets in.
NamedNow(kind) ==
    {proposals[id].action.key : id \in {i \in PassedNow : proposals[i].action.kind = kind}}
RedeemedNow == DOMAIN redeemed' \ DOMAIN redeemed
InvitedNow ==
    {redeemed'[n].joiner : n \in {m \in RedeemedNow : redeemed'[m].issuer \in Members}}

\* What one step may do to the tiers.
MovesEarned ==
    LET t == net.tiers
        u == net'.tiers
    IN /\ u.validators \ t.validators \subseteq NamedNow("AddValidator") \cap t.residents
       /\ t.validators \ u.validators \subseteq NamedNow("RemoveValidator")
       /\ u.residents \ t.residents \subseteq NamedNow("AddResident") \cup InvitedNow
       /\ t.residents \ u.residents \subseteq NamedNow("RemoveResident") \cup u.validators
       /\ net' # net => Cardinality(PassedNow) + Cardinality(RedeemedNow) = 1
       /\ \A n \in DOMAIN redeemed : redeemed'[n] = redeemed[n]

\* Standing is earned: a key takes a seat only out of the resident tier, so
\* the quorum never counts a node nobody has met, however long its ballot was
\* open; it becomes resident only by a proposal that passes in that step or by
\* an unspent invite of a sitting validator; and nothing a proposal governs
\* moves without one passing.
StandingEarned == [][MovesEarned]_vars

\* Somebody of the electorate that decides new proposals can reach governance
\* through the acl gate.
Reachable(n) ==
    \E k \in Submitter : HoldsStanding(n, k) /\ Principal(k, n.mode) \in DOMAIN CurrentPowers(n)

\* A step that sets policies, and removes none, keeps the electorate's door.
PolicyKeepsReach ==
    /\ net'.policy # net.policy /\ Reachable(net)
    /\ \A t \in Target : net'.policy[t] = "unset" => net.policy[t] = "unset"
    => Reachable(net')

\* No policy vote locks the electorate out of governance: setting an entry
\* never takes the door from an electorate that has it, also when the voting
\* mode moved while the ballot was open; and before account shares are first
\* adopted, whatever policies and memberships are voted in, a sitting validator
\* can propose.
ElectorateReachable == [](~Configured => Reachable(net)) /\ [][PolicyKeepsReach]_vars

\* A mandate that can pass can be performed: valset refuses no follow-up of a
\* passing membership proposal over a key that decodes, so such a proposal
\* never has to wait for its window to run out.
NeverWedged ==
    \A id \in DOMAIN proposals :
        LET a == proposals[id].action
        IN "key" \in DOMAIN a /\ a.key \in WellFormed => Enact(a).ok
================================================================================
