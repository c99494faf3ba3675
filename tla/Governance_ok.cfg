\* Two proposals, two founders and a candidate, two accounts.
CONSTANTS
    k1 = k1
    k2 = k2
    k3 = k3
    bad = bad
    u1 = u1
    u2 = u2
    u3 = u3
    c1 = c1
    c2 = c2
    p1 = p1
    p2 = p2
    Key <- Keys
    WellFormed <- GoodKeys
    MaxMembers = 3
    Id <- Ids
    UserKey <- Users
    AccountOf <- Accounts
    Founders <- Seats
    Action <- Actions
    Period <- Periods
    Invite <- Invites
    Grace = 1
    MaxProposals = 2
    MaxOpenPerSubmitter = 1
    MaxShareAccounts = 2
    MaxShares = 10
    MaxNow = 2
SPECIFICATION Spec
SYMMETRY Renaming
CHECK_DEADLOCK FALSE
INVARIANTS RosterSound NeverWedged
PROPERTIES MandateStands StandingEarned ElectorateReachable
