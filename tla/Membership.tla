------------------------------- MODULE Membership -------------------------------
(***************************************************************************)
(* How one person becomes a member of an organization: by redeeming an     *)
(* invite to an account they have or one created on the spot, or by        *)
(* opening a store of their own.  A redemption is a Serializable           *)
(* transaction, which Postgres protects from other redemptions only; store *)
(* creation and revocation read before they write.                         *)
(***************************************************************************)
EXTENDS Naturals, FiniteSets

CONSTANTS
    Invites,        \* TeamInvite rows mailed to the person
    Orgs,           \* the organizations that may invite them
    Own,            \* an organization of their own, per store request
    TeamRequests    \* requests of the person, and of a teammate who revokes

ASSUME MembershipAssumption == Orgs \cap Own = {}

VARIABLES
    hasAccount, \* a User with that email exists
    memberOf,   \* their OrganizationMember rows
    invite,     \* each invite: organization and status
    pending,    \* requests between their checks and their writes
    overtaken   \* history: a store creation and another way in crossed, both checks passed

memberVars == <<hasAccount, memberOf, invite, pending, overtaken>>

InviteRecord == [org: Orgs, status: {"none", "PENDING", "EXPIRED", "ACCEPTED", "REVOKED"}]

PendingRecord ==
    [at: {"idle", "store"}, target: {{}}]
    \cup [at: {"invite", "join", "rejoin", "claim", "revoke"}, target: {{i} : i \in Invites}]

NotPending == [at |-> "idle", target |-> {}]

MemberTypeOK ==
    /\ hasAccount \in BOOLEAN
    /\ memberOf \subseteq Orgs \cup Own
    /\ invite \in [Invites -> InviteRecord]
    /\ pending \in [TeamRequests -> PendingRecord]
    /\ overtaken \in BOOLEAN

MemberInit ==
    /\ hasAccount \in BOOLEAN
    /\ memberOf = {}
    /\ invite \in [Invites -> [org: Orgs, status: {"none"}]]
    /\ pending = [r \in TeamRequests |-> NotPending]
    /\ overtaken = FALSE

Waits(r, at, target) ==
    /\ pending[r].at = "idle"
    /\ pending' = [pending EXCEPT ![r] = [at |-> at, target |-> target]]
    /\ UNCHANGED <<hasAccount, memberOf, invite, overtaken>>

Ends(r) == pending' = [pending EXCEPT ![r] = NotPending]

-----------------------------------------------------------------------------
\* POST team/invites: not to a member, and one pending invite (one that expired
\* still has that status) per organization, as far as the checks saw.
StartInvite(r, i) ==
    /\ invite[i].status = "none"
    /\ invite[i].org \notin memberOf
    /\ \A j \in Invites : invite[j].org = invite[i].org => invite[j].status \notin {"PENDING", "EXPIRED"}
    /\ Waits(r, "invite", {i})

CommitInvite(r) ==
    /\ pending[r].at = "invite"
    /\ \E i \in pending[r].target :
         /\ invite[i].status = "none"
         /\ invite' = [invite EXCEPT ![i].status = "PENDING"]
    /\ Ends(r)
    /\ UNCHANGED <<hasAccount, memberOf, overtaken>>

InviteExpires(i) ==
    /\ invite[i].status = "PENDING"
    /\ invite' = [invite EXCEPT ![i].status = "EXPIRED"]
    /\ UNCHANGED <<hasAccount, memberOf, pending, overtaken>>

\* Somebody signs up with the address the ordinary way.
SignUp ==
    /\ ~hasAccount
    /\ hasAccount' = TRUE
    /\ UNCHANGED <<memberOf, invite, pending, overtaken>>

\* acceptInvite reads in a Serializable snapshot: an account with no membership joins, one
\* whose membership is this one only has the invite closed.
StartAccept(r, i) ==
    /\ hasAccount
    /\ invite[i].status = "PENDING"
    /\ \/ memberOf = {} /\ Waits(r, "join", {i})
       \/ invite[i].org \in memberOf /\ Waits(r, "rejoin", {i})

\* Nobody has written the row of an invite that may still be redeemed.
Untouched(i) == invite[i].status \in {"PENDING", "EXPIRED"}

\* Mutant of CommitJoin: as a Read Committed transaction, which lets the others finish.
JoinBesideOthers(r) ==
    /\ pending[r].at = "join"
    /\ \E i \in pending[r].target :
         /\ Untouched(i)
         /\ memberOf' = memberOf \cup {invite[i].org}
         /\ invite' = [invite EXCEPT ![i].status = "ACCEPTED"]
    /\ overtaken' = (overtaken \/ memberOf \cap Own # {})
    /\ Ends(r)
    /\ UNCHANGED hasAccount

\* It commits.  Of redemptions that all read no membership, Postgres aborts the others;
\* it does not see a store creation, which is Read Committed and may have committed since.
CommitJoin(r) ==
    /\ pending[r].at = "join"
    /\ \E i \in pending[r].target :
         /\ Untouched(i)
         /\ memberOf' = memberOf \cup {invite[i].org}
         /\ invite' = [invite EXCEPT ![i].status = "ACCEPTED"]
    /\ overtaken' = (overtaken \/ memberOf \cap Own # {})
    /\ pending' = [q \in TeamRequests |->
                      IF q = r \/ pending[q].at = "join" THEN NotPending ELSE pending[q]]
    /\ UNCHANGED hasAccount

CommitRejoin(r) ==
    /\ pending[r].at = "rejoin"
    /\ \E i \in pending[r].target :
         /\ Untouched(i)
         /\ invite' = [invite EXCEPT ![i].status = "ACCEPTED"]
    /\ Ends(r)
    /\ UNCHANGED <<hasAccount, memberOf, overtaken>>

\* The invite was redeemed or revoked since the snapshot: the update fails to serialize.
AcceptAborts(r) ==
    /\ pending[r].at \in {"join", "rejoin"}
    /\ \E i \in pending[r].target : ~Untouched(i)
    /\ Ends(r)
    /\ UNCHANGED <<hasAccount, memberOf, invite, overtaken>>

\* claimInviteWithNewAccount: the checks, then the transaction; it tests the status
\* again, and the unique email fails it when an account appeared meanwhile.
StartClaim(r, i) ==
    /\ invite[i].status = "PENDING" /\ ~hasAccount
    /\ Waits(r, "claim", {i})

CommitClaim(r) ==
    /\ pending[r].at = "claim"
    /\ \E i \in pending[r].target :
         IF Untouched(i) /\ ~hasAccount
         THEN /\ hasAccount' = TRUE
              /\ memberOf' = memberOf \cup {invite[i].org}
              /\ invite' = [invite EXCEPT ![i].status = "ACCEPTED"]
         ELSE UNCHANGED <<hasAccount, memberOf, invite>>
    /\ Ends(r)
    /\ UNCHANGED overtaken

\* DELETE team/invites/[id]: the status is tested on the row that was read.
StartRevoke(r, i) ==
    /\ Untouched(i)
    /\ Waits(r, "revoke", {i})

CommitRevoke(r) ==
    /\ pending[r].at = "revoke"
    /\ \E i \in pending[r].target :
         invite' = [invite EXCEPT ![i].status = "REVOKED"]
    /\ Ends(r)
    /\ UNCHANGED <<hasAccount, memberOf, overtaken>>

\* POST stores: resolveOwnStore, then a Read Committed transaction.
StartStore(r) ==
    /\ hasAccount /\ memberOf = {}
    /\ Waits(r, "store", {})

CommitStore(r, org) ==
    /\ pending[r].at = "store"
    /\ org \in Own \ memberOf
    /\ memberOf' = memberOf \cup {org}
    /\ overtaken' = (overtaken \/ memberOf # {})
    /\ Ends(r)
    /\ UNCHANGED <<hasAccount, invite>>

\* DELETE team/members/[id]; an owner cannot be removed.
RemoveMember(org) ==
    /\ org \in memberOf \cap Orgs
    /\ memberOf' = memberOf \ {org}
    /\ UNCHANGED <<hasAccount, invite, pending, overtaken>>

-----------------------------------------------------------------------------
MemberNext ==
    \/ \E i \in Invites : InviteExpires(i)
    \/ SignUp
    \/ \E r \in TeamRequests :
         \/ \E i \in Invites : \/ StartInvite(r, i) \/ StartAccept(r, i)
                              \/ StartClaim(r, i) \/ StartRevoke(r, i)
         \/ CommitInvite(r) \/ CommitJoin(r) \/ CommitRejoin(r) \/ AcceptAborts(r)
         \/ CommitClaim(r) \/ CommitRevoke(r) \/ StartStore(r)
         \/ \E org \in Own : CommitStore(r, org)
    \/ \E org \in Orgs : RemoveMember(org)

MemberSpec == MemberInit /\ [][MemberNext]_memberVars

-----------------------------------------------------------------------------
\* A person is a member of one organization at a time, whatever invites they redeem, claim
\* or are removed from in parallel, until the creation of a store crosses another one or
\* an invite they accept: whichever commits last had checked before the other was written.
OneMembership == ~overtaken => Cardinality(memberOf) <= 1
=============================================================================
