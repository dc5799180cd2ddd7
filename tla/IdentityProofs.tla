----------------------------- MODULE IdentityProofs -----------------------------
(***************************************************************************)
(* Proofs about Accounts and Membership: sessions never outlive the        *)
(* password they were opened under, and nobody redeems their way into two  *)
(* organizations, for any number of requests, codes, invites and stores.   *)
(***************************************************************************)
EXTENDS Accounts, Membership, FiniteSetTheorems, TLAPS

-----------------------------------------------------------------------------
(* Accounts.                                                                 *)

\* What was read at a version says what the password was: it is the one in force if
\* the version still is.
Grounded(version, knew) ==
    /\ version <= tokenVersion
    /\ version = tokenVersion => knew = password

SessionsGrounded == \A s \in sessions : Grounded(s.version, s.knew)

RequestsGrounded ==
    \A r \in Requests : request[r].at # "idle" => Grounded(request[r].version, request[r].knew)

AccountsInv == AccountsTypeOK /\ SessionsGrounded /\ RequestsGrounded

\* A new account satisfies the invariant.
LEMMA AccountsStart == AccountsInit => AccountsInv
BY AccountsAssumption
   DEF AccountsInit, AccountsInv, AccountsTypeOK, SessionsGrounded, RequestsGrounded,
       RequestIdle, RequestRecord, Session, Secrets

\* A request that reads the user holds something grounded.
LEMMA ReadsKeeps ==
    ASSUME AccountsInv, NEW r \in Requests, NEW c \in Codes \cup {NoCode},
           NEW at \in {"login", "refresh", "verify", "reset", "change", "set"},
           Reads(r, at, c)
    PROVE  AccountsInv'
<1>1. AccountsTypeOK'
  BY DEF AccountsInv, AccountsTypeOK, Reads, RequestRecord, Secrets
<1>2. SessionsGrounded'
  BY DEF AccountsInv, SessionsGrounded, Grounded, Reads
<1>3. RequestsGrounded'
  BY DEF AccountsInv, AccountsTypeOK, RequestsGrounded, Grounded, Reads
<1> QED BY <1>1, <1>2, <1>3 DEF AccountsInv

\* A request that ends holds nothing.
LEMMA ReturnsKeeps ==
    ASSUME AccountsInv, NEW r \in Requests, Returns(r),
           UNCHANGED <<password, tokenVersion>>
    PROVE  RequestsGrounded' /\ request' \in [Requests -> RequestRecord]
BY AccountsAssumption
   DEF AccountsInv, AccountsTypeOK, RequestsGrounded, Grounded, Returns, RequestIdle,
       RequestRecord, Secrets

\* A new password bumps the version: whatever was grounded before is older now.
LEMMA SetPasswordOutdates ==
    ASSUME AccountsInv, NEW p \in Passwords, SetPassword(p),
           NEW version \in 0..MaxTokenVersion, NEW knew, Grounded(version, knew)
    PROVE  Grounded(version, knew)'
BY AccountsAssumption DEF AccountsInv, AccountsTypeOK, SetPassword, Grounded

\* Setting a password raises the token version by one, within its bound.
LEMMA SetPasswordTyped ==
    ASSUME AccountsInv, NEW p \in Passwords, SetPassword(p)
    PROVE  /\ password' \in Secrets /\ tokenVersion' \in 0..MaxTokenVersion
           /\ tokenVersion' = tokenVersion + 1 /\ password' = p
BY AccountsAssumption DEF AccountsInv, AccountsTypeOK, SetPassword, Secrets

\* Consuming a code leaves every code in one of its states.
LEMMA ConsumeTyped ==
    ASSUME AccountsInv, NEW c, Consume(c)
    PROVE  code' \in [Codes -> {"none", "verify", "reset", "used", "expired"}]
BY DEF AccountsInv, AccountsTypeOK, Consume

\* Every step of a login, reset, change or verification keeps the invariant.
LEMMA AccountsStep == AccountsInv /\ [AccountsNext]_accountVars => AccountsInv'
<1> SUFFICES ASSUME AccountsInv, [AccountsNext]_accountVars
             PROVE  AccountsInv'
  OBVIOUS
<1>1. ASSUME NEW c \in Codes,
             CodeExpires(c) \/ \E type \in {"verify", "reset"} : IssueCode(c, type)
      PROVE  AccountsInv'
  BY <1>1 DEF AccountsInv, AccountsTypeOK, SessionsGrounded, RequestsGrounded, Grounded,
              CodeExpires, IssueCode
<1>2. ASSUME NEW r \in Requests,
             \/ ReadLogin(r) \/ ReadGoogle(r) \/ ReadRefresh(r) \/ ReadChange(r)
             \/ \E c \in Codes : ReadCode(r, c)
      PROVE  AccountsInv'
  <2>1. CASE ReadLogin(r) \/ ReadGoogle(r) \/ ReadRefresh(r) \/ ReadChange(r)
    <3>1. PICK at \in {"login", "refresh", "change", "set"} : Reads(r, at, NoCode)
      BY <2>1, Zenon DEF ReadLogin, ReadGoogle, ReadRefresh, ReadChange
    <3> QED BY <3>1, ReadsKeeps
  <2>2. CASE \E c \in Codes : ReadCode(r, c)
    <3>1. PICK c \in Codes : ReadCode(r, c)
      BY <2>2
    <3>2. Reads(r, code[c], c) /\ code[c] \in {"verify", "reset"}
      BY <3>1 DEF ReadCode
    <3> QED BY <3>2, ReadsKeeps
  <2> QED BY <1>2, <2>1, <2>2
<1>3. ASSUME NEW r \in Requests, MintRead(r)
      PROVE  AccountsInv'
  <2> DEFINE s == [version |-> request[r].version, knew |-> request[r].knew]
  <2>1. Grounded(s.version, s.knew) /\ s \in Session
    BY <1>3 DEF AccountsInv, AccountsTypeOK, RequestsGrounded, MintRead, RequestRecord, Session
  <2>2. sessions' = sessions \cup {s}
    BY <1>3 DEF MintRead, Mint
  <2>3. SessionsGrounded'
    BY <1>3, <2>1, <2>2 DEF AccountsInv, SessionsGrounded, Grounded, MintRead
  <2>4. RequestsGrounded' /\ request' \in [Requests -> RequestRecord]
    BY <1>3, ReturnsKeeps DEF MintRead
  <2> QED BY <1>3, <2>1, <2>2, <2>3, <2>4 DEF AccountsInv, AccountsTypeOK, MintRead
<1>4. ASSUME NEW r \in Requests, CommitVerify(r)
      PROVE  AccountsInv'
  <2>1. code' \in [Codes -> {"none", "verify", "reset", "used", "expired"}]
    BY <1>4, ConsumeTyped DEF CommitVerify
  <2>2. RequestsGrounded' /\ request' \in [Requests -> RequestRecord]
    BY <1>4 DEF AccountsInv, AccountsTypeOK, RequestsGrounded, Grounded, CommitVerify, RequestRecord
  <2> QED BY <1>4, <2>1, <2>2
          DEF AccountsInv, AccountsTypeOK, SessionsGrounded, Grounded, CommitVerify
<1>5. ASSUME NEW r \in Requests, CodeRaceLost(r) \/ Abandon(r)
      PROVE  AccountsInv'
  <2>1. RequestsGrounded' /\ request' \in [Requests -> RequestRecord]
    BY <1>5, ReturnsKeeps DEF CodeRaceLost, Abandon
  <2> QED BY <1>5, <2>1
          DEF AccountsInv, AccountsTypeOK, SessionsGrounded, Grounded, CodeRaceLost, Abandon
<1>6. ASSUME NEW p \in Passwords,
             TempPassword(p) \/ \E r \in Requests : CommitReset(r, p) \/ CommitChange(r, p)
      PROVE  AccountsInv'
  <2>1. SetPassword(p)
    BY <1>6 DEF TempPassword, CommitReset, CommitChange
  <2>2. /\ password' \in Secrets /\ tokenVersion' \in 0..MaxTokenVersion
        /\ tokenVersion' = tokenVersion + 1 /\ password' = p
    BY <2>1, SetPasswordTyped
  <2>3. SessionsGrounded'
    <3>1. sessions' = sessions
      BY <1>6 DEF TempPassword, CommitReset, CommitChange
    <3>2. \A s \in sessions : s.version \in 0..MaxTokenVersion /\ Grounded(s.version, s.knew)
      BY DEF AccountsInv, AccountsTypeOK, SessionsGrounded, Session
    <3> QED BY <2>1, <3>1, <3>2, SetPasswordOutdates DEF SessionsGrounded
  <2>4. \A q \in Requests : request[q].at # "idle" =>
            request[q].version <= tokenVersion' /\ request[q].version # tokenVersion'
    <3> SUFFICES ASSUME NEW q \in Requests, request[q].at # "idle"
                 PROVE  request[q].version <= tokenVersion' /\ request[q].version # tokenVersion'
      OBVIOUS
    <3>1. request[q].version \in 0..MaxTokenVersion
      BY DEF AccountsInv, AccountsTypeOK, RequestRecord
    <3>2. Grounded(request[q].version, request[q].knew)
      BY DEF AccountsInv, RequestsGrounded
    <3> QED BY <2>2, <3>1, <3>2, AccountsAssumption DEF Grounded, AccountsInv, AccountsTypeOK
  <2>5. CASE TempPassword(p)
    BY <2>2, <2>3, <2>4, <2>5
       DEF AccountsInv, AccountsTypeOK, RequestsGrounded, Grounded, TempPassword
  <2>6. ASSUME NEW r \in Requests, CommitReset(r, p)
        PROVE  AccountsInv'
    <3>1. code' \in [Codes -> {"none", "verify", "reset", "used", "expired"}]
      BY <2>6, ConsumeTyped DEF CommitReset
    <3>2. request' = [request EXCEPT ![r] = RequestIdle]
      BY <2>6 DEF CommitReset, Returns
    <3>3. request' \in [Requests -> RequestRecord]
      BY <3>2, AccountsAssumption
         DEF AccountsInv, AccountsTypeOK, RequestRecord, RequestIdle, Secrets
    <3>4. RequestsGrounded'
      BY <2>4, <3>2 DEF AccountsInv, AccountsTypeOK, RequestsGrounded, RequestIdle, Grounded
    <3> QED BY <2>2, <2>3, <2>6, <3>1, <3>3, <3>4 DEF AccountsInv, AccountsTypeOK, CommitReset
  <2>7. ASSUME NEW r \in Requests, CommitChange(r, p)
        PROVE  AccountsInv'
    <3>1. request' = [request EXCEPT ![r] = [at |-> "mint", version |-> tokenVersion',
                                             knew |-> password', code |-> NoCode]]
      BY <2>2, <2>7 DEF CommitChange
    <3>2. request' \in [Requests -> RequestRecord]
      BY <2>2, <3>1 DEF AccountsInv, AccountsTypeOK, RequestRecord
    <3>3. tokenVersion' <= tokenVersion'
      BY <2>2
    <3>4. RequestsGrounded'
      BY <2>4, <3>1, <3>3 DEF AccountsInv, AccountsTypeOK, RequestsGrounded, Grounded
    <3> QED BY <2>2, <2>3, <2>7, <3>2, <3>4 DEF AccountsInv, AccountsTypeOK, CommitChange
  <2> QED BY <1>6, <2>5, <2>6, <2>7
<1>7. CASE UNCHANGED accountVars
  BY <1>7 DEF AccountsInv, AccountsTypeOK, SessionsGrounded, RequestsGrounded, Grounded, accountVars
<1> QED BY <1>1, <1>2, <1>3, <1>4, <1>5, <1>6, <1>7 DEF AccountsNext

\* The inductive invariant of Accounts: everything read and every token says truly
\* what the password was at its version, for any number of requests in flight.
THEOREM AccountsInvariant == AccountsSpec => []AccountsInv
<1> QED BY AccountsStart, AccountsStep, PTL DEF AccountsSpec

\* No session outlives the password it was opened under, whatever login, refresh,
\* verification, reset, change or temporary password overlapped.
THEOREM SessionFollowsPasswordAlways == AccountsSpec => []SessionFollowsPassword
<1>1. AccountsInv => SessionFollowsPassword
  BY DEF AccountsInv, SessionsGrounded, Grounded, SessionFollowsPassword, Accepted
<1> QED BY <1>1, AccountsInvariant, PTL

-----------------------------------------------------------------------------
(* Membership.                                                               *)

AtMostOne == ~overtaken => \A a, b \in memberOf : a = b

\* Without an account there is no membership, and only accounts open stores.
AccountFirst ==
    ~hasAccount => memberOf = {} /\ \A r \in TeamRequests : pending[r].at # "store"

\* Who is about to join by an invite has an account and is in no organization that invites:
\* of the others that read the same, the first to commit aborted the rest.
JoinsAlone ==
    \A r \in TeamRequests : pending[r].at = "join" => hasAccount /\ memberOf \cap Orgs = {}

MemberInv == MemberTypeOK /\ AtMostOne /\ AccountFirst /\ JoinsAlone

\* A person without an organization satisfies the invariant.
LEMMA MemberStart == MemberInit => MemberInv
<1> SUFFICES ASSUME MemberInit
             PROVE  MemberInv
  OBVIOUS
<1>1. NotPending \in PendingRecord /\ NotPending.at \notin {"store", "join"}
  BY DEF NotPending, PendingRecord
<1>2. pending \in [TeamRequests -> PendingRecord]
  BY <1>1 DEF MemberInit
<1>3. invite \in [Invites -> InviteRecord]
  BY DEF MemberInit, InviteRecord
<1> QED BY <1>1, <1>2, <1>3 DEF MemberInit, MemberInv, MemberTypeOK, AtMostOne, AccountFirst, JoinsAlone

\* A request that ends leaves the others as they are.
LEMMA EndsKeeps ==
    ASSUME MemberInv, NEW r \in TeamRequests, Ends(r)
    PROVE  /\ pending' \in [TeamRequests -> PendingRecord]
           /\ \A q \in TeamRequests :
                pending'[q].at \in {"store", "join"} => pending'[q].at = pending[q].at
BY DEF MemberInv, MemberTypeOK, Ends, NotPending, PendingRecord

\* A request that starts writes nothing yet, opens a store only with an account, and joins
\* only without a membership.
LEMMA WaitsKeeps ==
    ASSUME MemberInv, NEW r \in TeamRequests, NEW at, NEW target, Waits(r, at, target),
           [at |-> at, target |-> target] \in PendingRecord, at \in {"store", "join"} => hasAccount,
           at = "join" => memberOf = {}
    PROVE  MemberInv'
<1>1. pending' = [pending EXCEPT ![r] = [at |-> at, target |-> target]]
  BY DEF Waits
<1>2. pending' \in [TeamRequests -> PendingRecord]
  BY <1>1 DEF MemberInv, MemberTypeOK
<1>3. ~hasAccount => \A q \in TeamRequests : pending'[q].at # "store"
  BY <1>1 DEF MemberInv, MemberTypeOK, AccountFirst
<1>4. UNCHANGED <<hasAccount, memberOf, invite, overtaken>>
  BY DEF Waits
<1>5. JoinsAlone'
  BY <1>1, <1>4 DEF MemberInv, MemberTypeOK, JoinsAlone
<1> QED BY <1>2, <1>3, <1>4, <1>5 DEF MemberInv, MemberTypeOK, AtMostOne, AccountFirst, JoinsAlone

\* The status of an invite changes, its organization does not.
LEMMA InviteTyped ==
    ASSUME MemberInv, NEW i \in Invites,
           NEW s \in {"none", "PENDING", "EXPIRED", "ACCEPTED", "REVOKED"},
           invite' = [invite EXCEPT ![i].status = s]
    PROVE  invite' \in [Invites -> InviteRecord]
BY DEF MemberInv, MemberTypeOK, InviteRecord

\* A request's target is an invite.
LEMMA TargetIsInvite ==
    ASSUME MemberInv, NEW r \in TeamRequests, NEW i \in pending[r].target
    PROVE  i \in Invites /\ invite[i].org \in Orgs
BY DEF MemberInv, MemberTypeOK, PendingRecord, InviteRecord

\* Joining by an invite gives a second membership only to who opened a store since the
\* snapshot, and leaves nobody about to join.
LEMMA JoinKeeps ==
    ASSUME MemberInv, NEW r \in TeamRequests, CommitJoin(r)
    PROVE  MemberInv'
<1>1. PICK i \in pending[r].target :
        /\ memberOf' = memberOf \cup {invite[i].org}
        /\ invite' = [invite EXCEPT ![i].status = "ACCEPTED"]
  BY DEF CommitJoin
<1>2. /\ pending[r].at = "join" /\ UNCHANGED hasAccount
      /\ overtaken' = (overtaken \/ memberOf \cap Own # {})
      /\ pending' = [q \in TeamRequests |->
                        IF q = r \/ pending[q].at = "join" THEN NotPending ELSE pending[q]]
  BY DEF CommitJoin
<1>3. i \in Invites /\ invite[i].org \in Orgs
  BY TargetIsInvite
<1>4. invite' \in [Invites -> InviteRecord]
  BY <1>1, <1>3, InviteTyped
<1>5. NotPending \in PendingRecord /\ NotPending.at \notin {"store", "join"}
  BY DEF NotPending, PendingRecord
<1>6. /\ pending' \in [TeamRequests -> PendingRecord]
      /\ \A q \in TeamRequests : pending'[q].at # "join"
  BY <1>2, <1>5 DEF MemberInv, MemberTypeOK
<1>7. hasAccount /\ memberOf \subseteq Own
  BY <1>2 DEF MemberInv, MemberTypeOK, JoinsAlone
<1>8. MemberTypeOK'
  BY <1>1, <1>2, <1>3, <1>4, <1>6 DEF MemberInv, MemberTypeOK
<1>9. AtMostOne'
  BY <1>1, <1>2, <1>7 DEF AtMostOne
<1>10. AccountFirst' /\ JoinsAlone'
  BY <1>2, <1>6, <1>7 DEF AccountFirst, JoinsAlone
<1> QED BY <1>8, <1>9, <1>10 DEF MemberInv

\* Every step of an invite, a claim or a store request keeps the invariant.
LEMMA MemberStep == MemberInv /\ [MemberNext]_memberVars => MemberInv'
<1> SUFFICES ASSUME MemberInv, [MemberNext]_memberVars
             PROVE  MemberInv'
  OBVIOUS
<1>1. ASSUME NEW i \in Invites, InviteExpires(i)
      PROVE  MemberInv'
  BY <1>1, InviteTyped DEF MemberInv, MemberTypeOK, AtMostOne, AccountFirst, JoinsAlone, InviteExpires
<1>2. ASSUME NEW r \in TeamRequests, CommitJoin(r)
      PROVE  MemberInv'
  BY <1>2, JoinKeeps
<1>3. CASE SignUp
  BY <1>3 DEF MemberInv, MemberTypeOK, AtMostOne, AccountFirst, JoinsAlone, SignUp
<1>4. ASSUME NEW r \in TeamRequests, NEW i \in Invites,
             \/ StartInvite(r, i) \/ StartAccept(r, i)
             \/ StartClaim(r, i) \/ StartRevoke(r, i)
      PROVE  MemberInv'
  <2>1. PICK at \in {"invite", "join", "rejoin", "claim", "revoke"} :
            Waits(r, at, {i}) /\ (at = "join" => hasAccount /\ memberOf = {})
    BY <1>4 DEF StartInvite, StartAccept, StartClaim, StartRevoke
  <2>2. [at |-> at, target |-> {i}] \in PendingRecord
    BY DEF PendingRecord
  <2> QED BY <2>1, <2>2, WaitsKeeps
<1>5. ASSUME NEW r \in TeamRequests, StartStore(r)
      PROVE  MemberInv'
  <2>1. [at |-> "store", target |-> {}] \in PendingRecord
    BY DEF PendingRecord
  <2> QED BY <1>5, <2>1, WaitsKeeps DEF StartStore
<1>6. ASSUME NEW r \in TeamRequests, CommitInvite(r) \/ CommitRejoin(r) \/ CommitRevoke(r)
      PROVE  MemberInv'
  <2>1. PICK i \in pending[r].target, s \in {"PENDING", "ACCEPTED", "REVOKED"} :
            invite' = [invite EXCEPT ![i].status = s]
    BY <1>6 DEF CommitInvite, CommitRejoin, CommitRevoke
  <2>2. invite' \in [Invites -> InviteRecord]
    BY <2>1, TargetIsInvite, InviteTyped
  <2> QED BY <1>6, <2>2, EndsKeeps
          DEF MemberInv, MemberTypeOK, AtMostOne, AccountFirst, JoinsAlone, CommitInvite, CommitRejoin, CommitRevoke
<1>7. ASSUME NEW r \in TeamRequests, CommitClaim(r)
      PROVE  MemberInv'
  <2>1. PICK i \in pending[r].target :
            \/ /\ ~hasAccount /\ hasAccount' = TRUE
               /\ memberOf' = memberOf \cup {invite[i].org}
               /\ invite' = [invite EXCEPT ![i].status = "ACCEPTED"]
            \/ UNCHANGED <<hasAccount, memberOf, invite>>
    BY <1>7 DEF CommitClaim
  <2>2. i \in Invites /\ invite[i].org \in Orgs
    BY TargetIsInvite
  <2>3. invite' \in [Invites -> InviteRecord]
    BY <2>1, <2>2, InviteTyped DEF MemberInv, MemberTypeOK
  <2> QED BY <1>7, <2>1, <2>2, <2>3, EndsKeeps
          DEF MemberInv, MemberTypeOK, AtMostOne, AccountFirst, JoinsAlone, CommitClaim
<1>8. ASSUME NEW r \in TeamRequests, NEW org \in Own, CommitStore(r, org)
      PROVE  MemberInv'
  <2>1. (memberOf' \cap Orgs) = (memberOf \cap Orgs) /\ UNCHANGED hasAccount
    BY <1>8, MembershipAssumption DEF CommitStore
  <2>2. JoinsAlone'
    BY <1>8, <2>1, EndsKeeps DEF MemberInv, JoinsAlone, CommitStore
  <2>3. AtMostOne'
    BY <1>8 DEF MemberInv, AtMostOne, CommitStore
  <2>4. AccountFirst'
    BY <1>8, EndsKeeps DEF MemberInv, AccountFirst, CommitStore
  <2>5. MemberTypeOK'
    BY <1>8, EndsKeeps DEF MemberInv, MemberTypeOK, CommitStore
  <2> QED BY <2>2, <2>3, <2>4, <2>5 DEF MemberInv
<1>9. ASSUME NEW org \in Orgs, RemoveMember(org)
      PROVE  MemberInv'
  BY <1>9 DEF MemberInv, MemberTypeOK, AtMostOne, AccountFirst, JoinsAlone, RemoveMember
<1>11. ASSUME NEW r \in TeamRequests, AcceptAborts(r)
       PROVE  MemberInv'
  BY <1>11, EndsKeeps DEF MemberInv, MemberTypeOK, AtMostOne, AccountFirst, JoinsAlone, AcceptAborts
<1>10. CASE UNCHANGED memberVars
  BY <1>10 DEF MemberInv, MemberTypeOK, AtMostOne, AccountFirst, JoinsAlone, memberVars
<1> QED BY <1>1, <1>2, <1>3, <1>4, <1>5, <1>6, <1>7, <1>8, <1>9, <1>10, <1>11 DEF MemberNext

\* The inductive invariant of Membership: one membership until the creation of a store
\* crosses another way in, none without an account, and a redemption under way finds no
\* membership but of a store opened since it read.
THEOREM MemberInvariant == MemberSpec => []MemberInv
<1> QED BY MemberStart, MemberStep, PTL DEF MemberSpec

\* Nobody is a member of two organizations unless the creation of a store crossed another
\* one or a redemption, however many invites they accept, claim or have revoked at once.
THEOREM OneMembershipAlways == MemberSpec => []OneMembership
<1>1. MemberInv => OneMembership
  <2> SUFFICES ASSUME MemberInv, ~overtaken
               PROVE  Cardinality(memberOf) <= 1
    BY DEF OneMembership
  <2>1. CASE memberOf = {}
    BY <2>1, FS_EmptySet
  <2>2. CASE memberOf # {}
    <3>0. PICK a : a \in memberOf
      BY <2>2
    <3>1. memberOf = {a}
      BY <3>0 DEF MemberInv, AtMostOne
    <3>2. Cardinality({a}) = 1
      BY FS_Singleton, Zenon
    <3>3. Cardinality(memberOf) = 1
      BY <3>1, <3>2
    <3> QED BY <3>3
  <2> QED BY <2>1, <2>2
<1> QED BY <1>1, MemberInvariant, PTL
=============================================================================
