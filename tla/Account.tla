------------------------------- MODULE Account -------------------------------
(***************************************************************************)
(* One account of the gateway and the requests made for it: signing in     *)
(* with a password and, when it is on, a second factor; the sessions that  *)
(* sign-ins leave behind and how authenticate admits a request that shows  *)
(* one; the self-service requests (password, second factor, sessions) and  *)
(* what an administrator does to the account.  Every statement of this     *)
(* code names one user id, so accounts do not interfere with each other;   *)
(* what relates several accounts is in Members.                            *)
(*                                                                         *)
(* Each awaited statement is a step, and requests interleave between them. *)
(* A step that only reads keeps what the request will use of the row.      *)
(* Hashing and comparing passwords is awaited too, which is why the read   *)
(* and the write of such a request are far apart.                          *)
(*                                                                         *)
(* Data: passwords, secrets, challenges and sets of recovery codes are     *)
(* numbers drawn from one counter, 0 standing for null (or, for passwords, *)
(* for the first one).  A sign-in with a wrong password or an authenticate *)
(* that refuses changes nothing and is no step.  The lockout's end is the  *)
(* step LockoutEnds, the end of a session's life SessionExpires.           *)
(***************************************************************************)
EXTENDS Integers

CONSTANTS
    Reqs,         \* request slots: how many requests may overlap
    Sids,         \* ids for rows of the sessions table
    Codes,        \* the recovery codes of one set
    MaxAttempts,  \* MAX_2FA_ATTEMPTS
    MaxFresh,     \* bound: passwords, secrets, challenges and code sets made
    MaxVersion,   \* bound: the largest tokenVersion
    NoSid

ASSUME BoundAssumption == MaxAttempts \in Nat \ {0} /\ MaxFresh \in Nat /\ MaxVersion \in Nat
ASSUME SidAssumption   == NoSid \notin Sids

VARIABLES
    acct,      \* the users row
    sessions,  \* the sessions rows, each with the token minted for it
    temps,     \* the temporary tokens handed out between the two factors
    req,       \* the requests
    fresh,     \* the last number drawn
    spent,     \* history: the recovery codes a sign-in was let in with
    proved,    \* history: the secret the last activation was verified with
    wrong,     \* history: wrong codes answered since the count last restarted
    overlap,   \* history: two requests worked on the second factor at once
    shared     \* history: challenges two requests had checked before either cleared it

vars == <<acct, sessions, temps, req, fresh, spent, proved, wrong, overlap, shared>>

Fresh == 0 .. MaxFresh
Code  == (1 .. MaxFresh) \X Codes

\* users: the columns the code below reads or writes
User ==
    [isActive               : BOOLEAN,
     passwordHash           : Fresh,
     tokenVersion           : 0 .. MaxVersion,
     twoFactorEnabled       : BOOLEAN,
     twoFactorSecret        : Fresh,
     recoveryCodes          : SUBSET Code,
     twoFactorFailedAttempts: 0 .. MaxAttempts - 1,
     locked                 : BOOLEAN,   \* twoFactorLockedUntil > now
     twoFactorChallenge     : Fresh]

NewUser ==
    [isActive |-> TRUE, passwordHash |-> 0, tokenVersion |-> 0, twoFactorEnabled |-> FALSE,
     twoFactorSecret |-> 0, recoveryCodes |-> {}, twoFactorFailedAttempts |-> 0,
     locked |-> FALSE, twoFactorChallenge |-> 0]

\* A session and its token: whether the row is live, revoked or expired
\* ("ended") or deleted, the version signed into it, and as history the
\* password the sign-in proved and the challenge it answered (0: none).
Session ==
    [state        : {"none", "live", "ended", "deleted"},
     tokenVersion : 0 .. MaxVersion,
     password     : Fresh,
     challenge    : Fresh]

NoSession == [state |-> "none", tokenVersion |-> 0, password |-> 0, challenge |-> 0]

\* signShortLivedToken: what the temporary token carries, and the password proved
TempToken == [nonce : 1 .. MaxFresh, tokenVersion : 0 .. MaxVersion, password : Fresh]

PC == {"idle", "challenge", "issue",                        \* login
       "code", "success", "failure", "signin",              \* 2fa/verify
       "session", "in",                                     \* authenticate
       "password", "setup", "enable", "disable", "revoke"}  \* self-service

Request ==
    [pc        : PC,
     sid       : Sids \cup {NoSid},     \* the session it shows, or revokes
     version   : 0 .. MaxVersion,       \* tokenVersion as it read it
     attempts  : 0 .. MaxAttempts - 1,  \* twoFactorFailedAttempts as it read it
     secret    : Fresh,                 \* twoFactorSecret as it read it
     codes     : SUBSET Code,           \* the recovery codes it will write back
     used      : SUBSET Code,           \* the recovery code it was given
     password  : Fresh,                 \* the password this sign-in proved
     challenge : Fresh]                 \* the challenge this sign-in answers

Idle ==
    [pc |-> "idle", sid |-> NoSid, version |-> 0, attempts |-> 0, secret |-> 0,
     codes |-> {}, used |-> {}, password |-> 0, challenge |-> 0]

TypeOK ==
    /\ acct \in User
    /\ sessions \in [Sids -> Session]
    /\ temps \subseteq TempToken
    /\ req \in [Reqs -> Request]
    /\ fresh \in Fresh
    /\ spent \subseteq Code
    /\ proved \in Fresh
    /\ wrong \in Nat
    /\ overlap \in BOOLEAN
    /\ shared \subseteq Fresh

\* The account after its first activation of a second factor, or without one
Init ==
    /\ acct \in {NewUser} \cup
          {[NewUser EXCEPT !.twoFactorEnabled = TRUE, !.twoFactorSecret = 1,
                           !.recoveryCodes = {1} \X Codes] : n \in {1} \cap Fresh}
    /\ sessions = [s \in Sids |-> NoSession]
    /\ temps = {}
    /\ req = [r \in Reqs |-> Idle]
    /\ fresh = acct.twoFactorSecret
    /\ spent = {}
    /\ proved = acct.twoFactorSecret
    /\ wrong = 0
    /\ overlap = FALSE
    /\ shared = {}

-----------------------------------------------------------------------------
(* Steps of a request and draws of a number *)

Done(r) == req' = [req EXCEPT ![r] = Idle]

Go(r, pc) == req' = [req EXCEPT ![r].pc = pc]

Draw == fresh < MaxFresh /\ fresh' = fresh + 1

History == <<spent, proved, wrong, overlap, shared>>

\* A request is between its read of the second factor's columns and its write.
InTwoFactor(r) == req[r].pc \in {"success", "failure", "setup", "enable", "disable"}

NoteOverlap(r) == overlap' = (overlap \/ \E o \in Reqs \ {r} : InTwoFactor(o))

-----------------------------------------------------------------------------
(* Sessions *)

\* issueSession: a row, and a token with the tokenVersion the caller read before
issueSession(s, version, password, challenge) ==
    /\ sessions[s].state = "none"
    /\ sessions' = [sessions EXCEPT ![s] =
           [state |-> "live", tokenVersion |-> version,
            password |-> password, challenge |-> challenge]]

validateSession(s) == sessions[s].state = "live"

\* revokeSession: only a session that is not revoked yet changes
revokeSession(s) ==
    sessions' = [sessions EXCEPT ![s].state = IF @ = "live" THEN "ended" ELSE @]

revokeOtherSessions(keep) ==
    sessions' = [s \in Sids |->
        IF s # keep /\ sessions[s].state = "live"
        THEN [sessions[s] EXCEPT !.state = "ended"] ELSE sessions[s]]

SessionExpires(s) ==
    /\ sessions[s].state = "live"
    /\ sessions' = [sessions EXCEPT ![s].state = "ended"]
    /\ UNCHANGED <<acct, temps, req, fresh, History>>

\* cleanupSessions, from the scheduled job
cleanupSessions ==
    /\ \E s \in Sids : sessions[s].state = "ended"
    /\ sessions' = [s \in Sids |->
           IF sessions[s].state = "ended"
           THEN [sessions[s] EXCEPT !.state = "deleted"] ELSE sessions[s]]
    /\ UNCHANGED <<acct, temps, req, fresh, History>>

-----------------------------------------------------------------------------
(* Signing in *)

\* login: the row is read once; what follows uses it however old it is by then
login(r, next) ==
    /\ req[r].pc = "idle"
    /\ acct.isActive
    /\ req' = [req EXCEPT ![r] = [Idle EXCEPT !.pc = next, !.version = acct.tokenVersion,
                                              !.password = acct.passwordHash]]
    /\ UNCHANGED <<acct, sessions, temps, fresh, History>>

\* POST /login, without and with a second factor
Login(r)          == ~acct.twoFactorEnabled /\ login(r, "issue")
LoginTwoFactor(r) == acct.twoFactorEnabled /\ login(r, "challenge")

\* startLoginChallenge and the temporary token: a new challenge replaces an
\* older one, whose token thereby dies
startLoginChallenge(r) ==
    /\ req[r].pc = "challenge"
    /\ Draw
    /\ acct' = [acct EXCEPT !.twoFactorChallenge = fresh']
    /\ temps' = temps \cup {[nonce |-> fresh', tokenVersion |-> req[r].version,
                             password |-> req[r].password]}
    /\ Done(r)
    /\ UNCHANGED <<sessions, History>>

\* Mutant of Issue: signs the version of now, not the one the login read.
IssueCurrentVersion(r, s) ==
    /\ req[r].pc = "issue"
    /\ issueSession(s, acct.tokenVersion, req[r].password, req[r].challenge)
    /\ Done(r)
    /\ UNCHANGED <<acct, temps, fresh, History>>

\* The session of a sign-in (lastLoginAt, written just before, is not modelled)
Issue(r, s) ==
    /\ req[r].pc = "issue"
    /\ issueSession(s, req[r].version, req[r].password, req[r].challenge)
    /\ Done(r)
    /\ UNCHANGED <<acct, temps, fresh, History>>

\* POST /2fa/verify: the temporary token must answer the stored challenge and
\* carry the current version
VerifyStart(r, t) ==
    /\ req[r].pc = "idle"
    /\ t.nonce = acct.twoFactorChallenge
    /\ t.tokenVersion = acct.tokenVersion
    /\ req' = [req EXCEPT ![r] = [Idle EXCEPT !.pc = "code", !.password = t.password,
                                              !.challenge = t.nonce]]
    /\ shared' = shared \cup {c \in {t.nonce} : \E o \in Reqs \ {r} :
                    req[o].challenge = c /\ req[o].pc \in {"code", "success"}}
    /\ UNCHANGED <<acct, sessions, temps, fresh, spent, proved, wrong, overlap>>

\* verifyToken, up to what it decides: nothing to verify, a lockout, a code of
\* the authenticator, one recovery code, or a wrong code
verifyRefuses(r) ==
    /\ req[r].pc = "code"
    /\ ~acct.twoFactorEnabled \/ acct.twoFactorSecret = 0 \/ acct.locked
    /\ Done(r)
    /\ UNCHANGED <<acct, sessions, temps, fresh, History>>

\* Mutant of verifyToken: the recovery code that was used stays in the list.
VerifyKeepsCode(r, next, used) ==
    /\ req[r].pc = "code"
    /\ acct.twoFactorEnabled /\ acct.twoFactorSecret # 0 /\ ~acct.locked
    /\ used \subseteq acct.recoveryCodes
    /\ req' = [req EXCEPT ![r].pc = next, ![r].attempts = acct.twoFactorFailedAttempts,
                          ![r].codes = acct.recoveryCodes, ![r].used = used]
    /\ NoteOverlap(r)
    /\ UNCHANGED <<acct, sessions, temps, fresh, spent, proved, wrong, shared>>

verifyToken(r, next, used) ==
    /\ req[r].pc = "code"
    /\ acct.twoFactorEnabled /\ acct.twoFactorSecret # 0 /\ ~acct.locked
    /\ used \subseteq acct.recoveryCodes
    /\ req' = [req EXCEPT ![r].pc = next, ![r].attempts = acct.twoFactorFailedAttempts,
                          ![r].codes = acct.recoveryCodes \ used, ![r].used = used]
    /\ NoteOverlap(r)
    /\ UNCHANGED <<acct, sessions, temps, fresh, spent, proved, wrong, shared>>

VerifyCode(r)        == verifyToken(r, "success", {})
VerifyRecovery(r, c) == verifyToken(r, "success", {c})
VerifyWrong(r)       == verifyToken(r, "failure", {})

\* Mutant of onVerifySuccess: leaves the challenge in place.
SuccessKeepsChallenge(r) ==
    /\ req[r].pc = "success"
    /\ acct' = [acct EXCEPT !.recoveryCodes = req[r].codes, !.twoFactorFailedAttempts = 0,
                            !.locked = FALSE]
    /\ req' = [req EXCEPT ![r].pc = "signin", ![r].attempts = 0, ![r].codes = {}, ![r].used = {}]
    /\ spent' = spent \cup req[r].used
    /\ wrong' = 0
    /\ UNCHANGED <<sessions, temps, fresh, proved, overlap, shared>>

\* onVerifySuccess: writes the list of codes computed from the earlier read
onVerifySuccess(r) ==
    /\ req[r].pc = "success"
    /\ acct' = [acct EXCEPT !.recoveryCodes = req[r].codes, !.twoFactorFailedAttempts = 0,
                            !.locked = FALSE, !.twoFactorChallenge = 0]
    /\ req' = [req EXCEPT ![r].pc = "signin", ![r].attempts = 0, ![r].codes = {}, ![r].used = {}]
    /\ spent' = spent \cup req[r].used
    /\ wrong' = 0
    /\ UNCHANGED <<sessions, temps, fresh, proved, overlap, shared>>

\* Mutant of onVerifyFailure: locks one failure late.
FailureLocksLate(r) ==
    /\ req[r].pc = "failure"
    /\ LET attempts == req[r].attempts + 1
       IN  IF attempts > MaxAttempts
           THEN acct' = [acct EXCEPT !.twoFactorFailedAttempts = 0, !.locked = TRUE]
           ELSE acct' = [acct EXCEPT !.twoFactorFailedAttempts = attempts]
    /\ wrong' = wrong + 1
    /\ Done(r)
    /\ UNCHANGED <<sessions, temps, fresh, spent, proved, overlap, shared>>

\* onVerifyFailure: counts on from the number read earlier
onVerifyFailure(r) ==
    /\ req[r].pc = "failure"
    /\ LET attempts == req[r].attempts + 1
       IN  IF attempts >= MaxAttempts
           THEN acct' = [acct EXCEPT !.twoFactorFailedAttempts = 0, !.locked = TRUE]
           ELSE acct' = [acct EXCEPT !.twoFactorFailedAttempts = attempts]
    /\ wrong' = IF wrong + 1 >= MaxAttempts THEN 0 ELSE wrong + 1
    /\ Done(r)
    /\ UNCHANGED <<sessions, temps, fresh, spent, proved, overlap, shared>>

LockoutEnds ==
    /\ acct.locked
    /\ acct' = [acct EXCEPT !.locked = FALSE]
    /\ UNCHANGED <<sessions, temps, req, fresh, History>>

\* The rest of /2fa/verify reads the row again and signs in with what it finds
VerifySignIn(r) ==
    /\ req[r].pc = "signin"
    /\ IF acct.isActive
       THEN req' = [req EXCEPT ![r].pc = "issue", ![r].version = acct.tokenVersion]
       ELSE Done(r)
    /\ UNCHANGED <<acct, sessions, temps, fresh, History>>

-----------------------------------------------------------------------------
(* Requests that show a session *)

\* authenticate: the user row first, the session row second
AuthenticateUser(r, s) ==
    /\ req[r].pc = "idle"
    /\ sessions[s].state # "none"
    /\ acct.isActive
    /\ sessions[s].tokenVersion = acct.tokenVersion
    /\ req' = [req EXCEPT ![r] = [Idle EXCEPT !.pc = "session", !.sid = s]]
    /\ UNCHANGED <<acct, sessions, temps, fresh, History>>

AuthenticateSession(r) ==
    /\ req[r].pc = "session"
    /\ IF validateSession(req[r].sid) THEN Go(r, "in") ELSE Done(r)
    /\ UNCHANGED <<acct, sessions, temps, fresh, History>>

\* GET /me and /sessions: a request that only reads is answered
Answered(r) ==
    /\ req[r].pc = "in"
    /\ Done(r)
    /\ UNCHANGED <<acct, sessions, temps, fresh, History>>

\* A self-service request reads the row and goes on when `allowed'
SelfRead(r, next, allowed, secret) ==
    /\ req[r].pc = "in"
    /\ allowed
    /\ req' = [req EXCEPT ![r] = [Idle EXCEPT !.pc = next, !.secret = secret]]
    /\ UNCHANGED <<acct, sessions, temps, fresh, spent, proved, wrong, shared>>

\* POST /change-password; whoever asks knows the password that is read
ChangePassword(r) == SelfRead(r, "password", TRUE, 0) /\ UNCHANGED overlap

changePassword(r) ==
    /\ req[r].pc = "password"
    /\ Draw
    /\ acct.tokenVersion < MaxVersion
    /\ acct' = [acct EXCEPT !.passwordHash = fresh', !.tokenVersion = @ + 1]
    /\ Done(r)
    /\ UNCHANGED <<sessions, temps, History>>

\* POST /2fa/setup, /2fa/enable, /2fa/disable
TwoFactorSetup(r)   == SelfRead(r, "setup", ~acct.twoFactorEnabled, 0) /\ NoteOverlap(r)
TwoFactorEnable(r)  == SelfRead(r, "enable", ~acct.twoFactorEnabled /\ acct.twoFactorSecret # 0,
                                acct.twoFactorSecret) /\ NoteOverlap(r)
TwoFactorDisable(r) == SelfRead(r, "disable", acct.twoFactorEnabled, 0) /\ NoteOverlap(r)

generateSetup(r) ==
    /\ req[r].pc = "setup"
    /\ Draw
    /\ acct' = [acct EXCEPT !.twoFactorSecret = fresh']
    /\ Done(r)
    /\ UNCHANGED <<sessions, temps, History>>

\* verifyAndEnable: the code was checked against the secret that was read
verifyAndEnable(r) ==
    /\ req[r].pc = "enable"
    /\ Draw
    /\ acct' = [acct EXCEPT !.twoFactorEnabled = TRUE, !.recoveryCodes = {fresh'} \X Codes]
    /\ proved' = req[r].secret
    /\ Done(r)
    /\ UNCHANGED <<sessions, temps, spent, wrong, overlap, shared>>

\* What disable and adminDisable2FA write
WithoutTwoFactor ==
    [acct EXCEPT !.twoFactorSecret = 0, !.twoFactorEnabled = FALSE, !.recoveryCodes = {}]

disable(r) ==
    /\ req[r].pc = "disable"
    /\ acct' = WithoutTwoFactor
    /\ Done(r)
    /\ UNCHANGED <<sessions, temps, fresh, History>>

\* POST /logout: revokes the session shown; its failure is ignored
Logout(r) ==
    /\ req[r].pc = "in"
    /\ revokeSession(req[r].sid) \/ UNCHANGED sessions
    /\ Done(r)
    /\ UNCHANGED <<acct, temps, fresh, History>>

\* POST /sessions/revoke-others
RevokeOthers(r) ==
    /\ req[r].pc = "in"
    /\ revokeOtherSessions(req[r].sid)
    /\ Done(r)
    /\ UNCHANGED <<acct, temps, fresh, History>>

\* DELETE /sessions/:id: looks for the row, then revokes it
RevokeOne(r, s) ==
    /\ req[r].pc = "in"
    /\ sessions[s].state \notin {"none", "deleted"}
    /\ req' = [req EXCEPT ![r].pc = "revoke", ![r].sid = s]
    /\ UNCHANGED <<acct, sessions, temps, fresh, History>>

RevokeOneWrite(r) ==
    /\ req[r].pc = "revoke"
    /\ revokeSession(req[r].sid)
    /\ Done(r)
    /\ UNCHANGED <<acct, temps, fresh, History>>

-----------------------------------------------------------------------------
(* What an administrator does to the account; the checks that involve other *)
(* accounts are in Members                                                  *)

AdminWrite(new) ==
    /\ acct' = new
    /\ UNCHANGED <<sessions, temps, req, spent, proved, wrong, shared>>

adminResetPassword ==
    /\ Draw
    /\ acct.tokenVersion < MaxVersion
    /\ AdminWrite([acct EXCEPT !.passwordHash = fresh', !.tokenVersion = @ + 1])
    /\ UNCHANGED overlap

adminDisable2FA ==
    /\ acct.twoFactorEnabled
    /\ AdminWrite(WithoutTwoFactor)
    /\ overlap' = (overlap \/ \E o \in Reqs : InTwoFactor(o))
    /\ UNCHANGED fresh

\* updateUser with isActive: no session is revoked
Deactivate == AdminWrite([acct EXCEPT !.isActive = FALSE]) /\ UNCHANGED <<fresh, overlap>>

\* deleteUser: a soft delete that revokes every session
DeleteAccount ==
    /\ acct.tokenVersion < MaxVersion
    /\ AdminWrite([acct EXCEPT !.isActive = FALSE, !.tokenVersion = @ + 1])
    /\ UNCHANGED <<fresh, overlap>>

\* Mutant of RestoreAccount: starts the versions again.
RestoreRestartsVersion ==
    /\ ~acct.isActive
    /\ AdminWrite([acct EXCEPT !.isActive = TRUE, !.tokenVersion = 0])
    /\ UNCHANGED <<fresh, overlap>>

RestoreAccount ==
    /\ ~acct.isActive
    /\ AdminWrite([acct EXCEPT !.isActive = TRUE])
    /\ UNCHANGED <<fresh, overlap>>

-----------------------------------------------------------------------------

SignIn(r) ==
    \/ Login(r) \/ LoginTwoFactor(r) \/ startLoginChallenge(r)
    \/ \E s \in Sids : Issue(r, s)
    \/ \E t \in temps : VerifyStart(r, t)
    \/ verifyRefuses(r) \/ VerifyCode(r) \/ VerifyWrong(r)
    \/ \E c \in acct.recoveryCodes : VerifyRecovery(r, c)
    \/ onVerifySuccess(r) \/ onVerifyFailure(r) \/ VerifySignIn(r)

SelfService(r) ==
    \/ \E s \in Sids : AuthenticateUser(r, s)
    \/ AuthenticateSession(r) \/ Answered(r)
    \/ ChangePassword(r) \/ changePassword(r)
    \/ TwoFactorSetup(r) \/ generateSetup(r)
    \/ TwoFactorEnable(r) \/ verifyAndEnable(r)
    \/ TwoFactorDisable(r) \/ disable(r)
    \/ Logout(r) \/ RevokeOthers(r) \/ RevokeOneWrite(r)
    \/ \E s \in Sids : RevokeOne(r, s)

Admin == adminResetPassword \/ adminDisable2FA \/ Deactivate \/ DeleteAccount \/ RestoreAccount

Next ==
    \/ \E r \in Reqs : SignIn(r) \/ SelfService(r)
    \/ Admin
    \/ \E s \in Sids : SessionExpires(s)
    \/ cleanupSessions
    \/ LockoutEnds

Spec == Init /\ [][Next]_vars

-----------------------------------------------------------------------------
(* Properties *)

\* The token of this session is refused for good: its row is revoked, expired
\* or deleted, or the account has moved on to another tokenVersion.
Dead(s) ==
    \/ sessions[s].state \in {"ended", "deleted"}
    \/ sessions[s].state = "live" /\ sessions[s].tokenVersion # acct.tokenVersion

\* A token that was withdrawn never works again, whatever is restored, reset,
\* revoked or issued later: nothing un-revokes a row, and tokenVersion (which
\* sign-ins under way copied before it moved) never returns to an old value.
WithdrawnStaysWithdrawn == [][\A s \in Sids : Dead(s) => Dead(s)']_vars

\* A sign-in by password alone that read the row before the password was
\* changed or reset is of no use after it: whatever token works now was issued
\* to somebody who proved the present password.
PasswordBound ==
    \A s \in Sids :
        sessions[s].state = "live" /\ sessions[s].challenge = 0 /\ ~Dead(s)
            => sessions[s].password = acct.passwordHash

\* "Enforce single-use": one temporary token signs in once, unless two requests
\* had both passed the check of its challenge before the first one cleared it.
ChallengeOnce ==
    \A s, t \in Sids :
        s # t /\ sessions[s].challenge = sessions[t].challenge /\ sessions[s].challenge # 0
            => sessions[s].challenge \in shared

\* As long as no two requests work on the second factor at once, its columns
\* are exact: no spent recovery code is listed, the secret in force is the one
\* whose code was verified, and every wrong answer counts towards the lockout.
TwoFactorExact ==
    overlap \/ /\ spent \cap acct.recoveryCodes = {}
               /\ acct.twoFactorEnabled => acct.twoFactorSecret = proved
               /\ acct.twoFactorFailedAttempts = wrong

=============================================================================
