SPECIFICATION OpsSpec
CONSTANTS
    sub1 = sub1
    sub2 = sub2
    admin1 = admin1
    sale1 = sale1
    sale2 = sale2
    form1 = form1
    call1 = call1
    call2 = call2
    req1 = req1
    req2 = req2
    code1 = code1
    pw1 = pw1
    pw2 = pw2
    invite1 = invite1
    invite2 = invite2
    org1 = org1
    org2 = org2
    own1 = own1
    own2 = own2
    key1 = key1
    key2 = key2
    post1 = post1
    post2 = post2
    NoSub = NoSub
    NoCall = NoCall
    NoRow = NoRow
    NoPassword = NoPassword
    NoCode = NoCode
    Subs <- TwoSubs
    Admins <- OneAdmin
    MaxVersion = 3
    MaxClock = 2
    Sales <- TwoSales
    Forms <- OneForm
    MaxThreshold = 1
    MaxStock = 2
    MaxAlerts = 1
    Calls <- TwoCalls
    Trip = 2
    MaxDeaths = 1
    MaxEvents = 5
    Requests <- TwoRequests
    Codes <- OneCode
    Passwords <- TwoPasswords
    MaxTokenVersion = 2
    Invites <- TwoInvites
    Orgs <- TwoOrgs
    Own <- TwoOwn
    TeamRequests <- TwoRequests
    Keys <- TwoKeys
    Posts <- TwoPosts
    MaxUses = 2
CHECK_DEADLOCK FALSE
INVARIANTS
    OpsTypeOK
    PlanFollowsStripe
    LedgerMatchesStock
    OneProbe
    DisputeFollowsStripe
    SessionFollowsPassword
    OneMembership
    HandedOutIsLive
    LimitNeedsOverlap
PROPERTIES
    ProEnds
    LowIsAnnounced
    CoolsToHalfOpen
