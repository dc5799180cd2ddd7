-------------------------------- MODULE Accounts --------------------------------
(***************************************************************************)
(* One account: its password, the tokenVersion every session is checked    *)
(* against, and the one-time codes mailed to it.  A request reads the user *)
(* (and the code) in one statement and commits later; requests overlap.    *)
(***************************************************************************)
EXTENDS Naturals, FiniteSets

CONSTANTS
    Requests,       \* requests in flight
    Codes,          \* VerificationCode rows
    Passwords,
    NoPassword,     \* passwordHash is null: an OAuth-only account
    NoCode,
    MaxTokenVersion \* bound: password changes

ASSUME AccountsAssumption ==
    /\ NoPassword \notin Passwords
    /\ NoCode \notin Codes
    /\ MaxTokenVersion \in Nat

VARIABLES
    password,       \* User.passwordHash, as the password it is a hash of
    tokenVersion,   \* User.tokenVersion
    verified,       \* User.emailVerifiedAt is set
    code,           \* each code: its type, unused, used or expired
    sessions,       \* the tokens ever minted
    request         \* requests between their reads and their writes

accountVars == <<password, tokenVersion, verified, code, sessions, request>>

Secrets == Passwords \cup {NoPassword}

\* A session carries the version; `knew` is the password when that was read.
Session == [version: 0..MaxTokenVersion, knew: Secrets]

RequestIdle == [at |-> "idle", version |-> 0, knew |-> NoPassword, code |-> NoCode]
RequestRecord == [at: {"idle", "login", "refresh", "verify", "reset", "change", "set", "mint"},
                  version: 0..MaxTokenVersion, knew: Secrets, code: Codes \cup {NoCode}]

AccountsTypeOK ==
    /\ password \in Secrets
    /\ tokenVersion \in 0..MaxTokenVersion
    /\ verified \in BOOLEAN
    /\ code \in [Codes -> {"none", "verify", "reset", "used", "expired"}]
    /\ sessions \subseteq Session
    /\ request \in [Requests -> RequestRecord]

AccountsInit ==
    /\ password \in Secrets
    /\ tokenVersion = 0
    /\ verified \in BOOLEAN
    /\ code = [c \in Codes |-> "none"]
    /\ sessions = {}
    /\ request = [r \in Requests |-> RequestIdle]

\* The request holds what its SELECT of the user returned.
Reads(r, at, c) ==
    /\ request[r].at = "idle"
    /\ request' = [request EXCEPT ![r] =
         [at |-> at, version |-> tokenVersion, knew |-> password, code |-> c]]
    /\ UNCHANGED <<password, tokenVersion, verified, code, sessions>>

Returns(r) == request' = [request EXCEPT ![r] = RequestIdle]

\* createAccessToken, createRefreshToken
Mint(version, knew) == sessions' = sessions \cup {[version |-> version, knew |-> knew]}

\* requireAuth and refresh: the version is compared with the user's.
Accepted(s) == s \in sessions /\ s.version = tokenVersion

\* Mutant of SetPassword: open sessions survive.
SetPasswordOnly(p) ==
    /\ password' = p
    /\ UNCHANGED tokenVersion

\* The writes that replace the password, in one UPDATE.
SetPassword(p) ==
    /\ tokenVersion < MaxTokenVersion
    /\ password' = p
    /\ tokenVersion' = tokenVersion + 1

-----------------------------------------------------------------------------
\* signup, resend-verification and forgot-password: a code and its outbox event (the
\* check that the address is not verified yet and the insert are one step here).
IssueCode(c, type) ==
    /\ code[c] = "none"
    /\ type = "verify" => ~verified
    /\ code' = [code EXCEPT ![c] = type]
    /\ UNCHANGED <<password, tokenVersion, verified, sessions, request>>

CodeExpires(c) ==
    /\ code[c] \in {"verify", "reset"}
    /\ code' = [code EXCEPT ![c] = "expired"]
    /\ UNCHANGED <<password, tokenVersion, verified, sessions, request>>

\* POST login: the password matches the hash that was read.
ReadLogin(r) == verified /\ password # NoPassword /\ Reads(r, "login", NoCode)

\* oauth/google/callback: Google vouches for the address.
ReadGoogle(r) == Reads(r, "login", NoCode)

\* POST refresh
ReadRefresh(r) == (\E s \in sessions : Accepted(s)) /\ Reads(r, "refresh", NoCode)

MintRead(r) ==
    /\ request[r].at \in {"login", "refresh", "mint"}
    /\ Mint(request[r].version, request[r].knew)
    /\ Returns(r)
    /\ UNCHANGED <<password, tokenVersion, verified, code>>

\* POST verify-email and reset-password: the user and the unused code (two reads, taken
\* as one: a version read earlier is only refused sooner).
ReadCode(r, c) ==
    /\ code[c] \in {"verify", "reset"}
    /\ Reads(r, code[c], c)

\* updateMany with usedAt: null; a code that expired since is still taken.
Unused(c) == code[c] \in {"verify", "reset", "expired"}

Consume(c) == code' = [code EXCEPT ![c] = "used"]

CommitVerify(r) ==
    LET c == request[r].code IN
    /\ request[r].at = "verify"
    /\ Unused(c)
    /\ Consume(c)
    /\ verified' = TRUE
    /\ request' = [request EXCEPT ![r].at = "mint"]
    /\ UNCHANGED <<password, tokenVersion, sessions>>

\* reset-password signs nobody in.
CommitReset(r, p) ==
    LET c == request[r].code IN
    /\ request[r].at = "reset"
    /\ Unused(c)
    /\ Consume(c)
    /\ SetPassword(p)
    /\ Returns(r)
    /\ UNCHANGED <<verified, sessions>>

CodeRaceLost(r) ==
    /\ request[r].at \in {"verify", "reset"}
    /\ ~Unused(request[r].code)
    /\ Returns(r)
    /\ UNCHANGED <<password, tokenVersion, verified, code, sessions>>

\* change-password and set-password: by a session, on the user that was read.
ReadChange(r) ==
    /\ \E s \in sessions : Accepted(s)
    /\ Reads(r, IF password = NoPassword THEN "set" ELSE "change", NoCode)

CommitChange(r, p) ==
    /\ request[r].at \in {"change", "set"}
    /\ SetPassword(p)
    /\ request' = [request EXCEPT ![r] = [at |-> "mint", version |-> tokenVersion + 1,
                                          knew |-> p, code |-> NoCode]]
    /\ UNCHANGED <<verified, code, sessions>>

\* POST admin/users/[id]/temp-password
TempPassword(p) ==
    /\ SetPassword(p)
    /\ UNCHANGED <<verified, code, sessions, request>>

\* An error answer, a failed check, or the server dies.
Abandon(r) ==
    /\ request[r].at # "idle"
    /\ Returns(r)
    /\ UNCHANGED <<password, tokenVersion, verified, code, sessions>>

-----------------------------------------------------------------------------
AccountsNext ==
    \/ \E c \in Codes : CodeExpires(c) \/ \E type \in {"verify", "reset"} : IssueCode(c, type)
    \/ \E r \in Requests :
         \/ ReadLogin(r) \/ ReadGoogle(r) \/ ReadRefresh(r) \/ ReadChange(r)
         \/ MintRead(r) \/ CommitVerify(r) \/ CodeRaceLost(r) \/ Abandon(r)
         \/ \E c \in Codes : ReadCode(r, c)
         \/ \E p \in Passwords : CommitReset(r, p) \/ CommitChange(r, p)
    \/ \E p \in Passwords : TempPassword(p)

AccountsSpec == AccountsInit /\ [][AccountsNext]_accountVars

-----------------------------------------------------------------------------
\* A session that is accepted was opened under the password in force: whatever was
\* read before a change, reset or temporary password committed, the tokens minted
\* from it afterwards are refused.
SessionFollowsPassword == \A s \in sessions : Accepted(s) => s.knew = password
=============================================================================
