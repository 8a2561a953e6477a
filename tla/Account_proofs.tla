--------------------------- MODULE Account_proofs ---------------------------
(***************************************************************************)
(* What sign-ins, sessions and the second factor of an account keep, for   *)
(* any number of requests under way, of sessions and of recovery codes,    *)
(* and any bounds on the versions and numbers drawn.                       *)
(***************************************************************************)
EXTENDS Account, TLAPS

-----------------------------------------------------------------------------
(* Types *)

LEMMA NumbersTyped ==
    /\ Fresh \subseteq Nat /\ 0 \in Fresh
    /\ 0 .. MaxVersion \subseteq Nat /\ 0 \in 0 .. MaxVersion
    /\ 0 .. MaxAttempts - 1 \subseteq Nat /\ 0 \in 0 .. MaxAttempts - 1
  BY BoundAssumption DEF Fresh

LEMMA IdleTyped == Idle \in Request
  BY NumbersTyped DEF Idle, Request, PC

\* What the steps make of the record of a request.
LEMMA RequestTyped ==
    ASSUME NEW q \in Request, NEW pc \in PC, NEW v \in 0 .. MaxVersion, NEW n \in 0 .. MaxAttempts - 1,
           NEW x \in SUBSET Code, NEW y \in SUBSET Code
    PROVE  /\ [q EXCEPT !.pc = pc] \in Request
           /\ [q EXCEPT !.pc = pc, !.version = v] \in Request
           /\ [q EXCEPT !.pc = pc, !.attempts = n, !.codes = x, !.used = y] \in Request
           /\ \A s \in Sids : [q EXCEPT !.pc = pc, !.sid = s] \in Request
  BY DEF Request

LEMMA StartTyped ==
    ASSUME NEW pc \in PC, NEW v \in 0 .. MaxVersion, NEW p \in Fresh, NEW c \in Fresh
    PROVE  /\ [Idle EXCEPT !.pc = pc, !.version = v, !.password = p] \in Request
           /\ [Idle EXCEPT !.pc = pc, !.password = p, !.challenge = c] \in Request
           /\ \A s \in Sids : [Idle EXCEPT !.pc = pc, !.sid = s] \in Request
           /\ [Idle EXCEPT !.pc = pc, !.secret = c] \in Request
  BY IdleTyped DEF Request

\* What the steps make of the users row.
LEMMA UserTyped ==
    ASSUME NEW a \in User, NEW f \in Fresh, NEW v \in 0 .. MaxVersion, NEW n \in 0 .. MaxAttempts - 1,
           NEW x \in SUBSET Code, NEW b \in BOOLEAN
    PROVE  /\ [a EXCEPT !.twoFactorChallenge = f] \in User
           /\ [a EXCEPT !.recoveryCodes = x, !.twoFactorFailedAttempts = n, !.locked = b,
                        !.twoFactorChallenge = f] \in User
           /\ [a EXCEPT !.twoFactorFailedAttempts = n, !.locked = b] \in User
           /\ [a EXCEPT !.twoFactorFailedAttempts = n] \in User
           /\ [a EXCEPT !.locked = b] \in User
           /\ [a EXCEPT !.passwordHash = f, !.tokenVersion = v] \in User
           /\ [a EXCEPT !.twoFactorSecret = f] \in User
           /\ [a EXCEPT !.twoFactorEnabled = b, !.recoveryCodes = x] \in User
           /\ [a EXCEPT !.twoFactorSecret = f, !.twoFactorEnabled = b, !.recoveryCodes = x] \in User
           /\ [a EXCEPT !.isActive = b] \in User
           /\ [a EXCEPT !.isActive = b, !.tokenVersion = v] \in User
  BY DEF User

\* The request r becomes q.
LEMMA RequestStep ==
    ASSUME TypeOK, NEW r \in Reqs, NEW q \in Request, req' = [req EXCEPT ![r] = q]
    PROVE  /\ req' \in [Reqs -> Request] /\ req'[r] = q
           /\ \A o \in Reqs \ {r} : req'[o] = req[o]
  BY DEF TypeOK

LEMMA DoneStep ==
    ASSUME TypeOK, NEW r \in Reqs, Done(r)
    PROVE  /\ req' \in [Reqs -> Request] /\ req'[r] = Idle
           /\ \A o \in Reqs \ {r} : req'[o] = req[o]
  BY IdleTyped, RequestStep DEF Done

LEMMA DrawStep ==
    ASSUME TypeOK, Draw
    PROVE  fresh \in Nat /\ fresh' = fresh + 1 /\ fresh' \in Fresh /\ fresh' \in 1 .. MaxFresh
  BY BoundAssumption DEF TypeOK, Draw, Fresh

-----------------------------------------------------------------------------
(* What each step does to the columns and fields the properties are about *)

\* Of the requests only r may have changed.
Only(r) == req' \in [Reqs -> Request] /\ \A o \in Reqs \ {r} : req'[o] = req[o]

KeepsPassword  == acct'.passwordHash = acct.passwordHash /\ acct'.tokenVersion = acct.tokenVersion
KeepsChallenge == acct'.twoFactorChallenge = acct.twoFactorChallenge
KeepsFactor    == /\ acct'.twoFactorEnabled = acct.twoFactorEnabled
                  /\ acct'.twoFactorSecret = acct.twoFactorSecret
                  /\ acct'.recoveryCodes = acct.recoveryCodes
                  /\ acct'.twoFactorFailedAttempts = acct.twoFactorFailedAttempts

\* Sessions only ever go from live to ended to deleted.
Aged ==
    /\ sessions' \in [Sids -> Session]
    /\ \A s \in Sids :
          /\ sessions'[s].tokenVersion = sessions[s].tokenVersion
          /\ sessions'[s].password = sessions[s].password
          /\ sessions'[s].challenge = sessions[s].challenge
          /\ \/ sessions'[s].state = sessions[s].state
             \/ sessions[s].state \in {"live", "ended"} /\ sessions'[s].state \in {"ended", "deleted"}

LEMMA SessionAged ==
    ASSUME NEW x \in Session, NEW st \in {"ended", "deleted"}
    PROVE  /\ [x EXCEPT !.state = st] \in Session /\ [x EXCEPT !.state = st].state = st
           /\ [x EXCEPT !.state = st].tokenVersion = x.tokenVersion
           /\ [x EXCEPT !.state = st].password = x.password
           /\ [x EXCEPT !.state = st].challenge = x.challenge
  BY DEF Session

LEMMA SessionsAged ==
    ASSUME TypeOK, sessions' = sessions \/ (\E s \in Sids : revokeSession(s)) \/ (\E s : revokeOtherSessions(s))
                   \/ (\E s \in Sids : SessionExpires(s)) \/ cleanupSessions
    PROVE  Aged
  <1>0. sessions \in [Sids -> Session]
    BY DEF TypeOK
  <1>2. ASSUME NEW s \in Sids, revokeSession(s) \/ SessionExpires(s)
        PROVE  /\ sessions' \in [Sids -> Session]
               /\ \A t \in Sids :
                    \/ sessions'[t] = sessions[t]
                    \/ sessions[t].state = "live" /\ sessions'[t] = [sessions[t] EXCEPT !.state = "ended"]
    <2>1. CASE sessions[s].state = "live"
      <3>1. sessions' = [sessions EXCEPT ![s] = [sessions[s] EXCEPT !.state = "ended"]]
        BY <1>0, <1>2, <2>1 DEF revokeSession, SessionExpires
      <3> QED BY <1>0, <2>1, <3>1, SessionAged
    <2>2. CASE sessions[s].state # "live"
      <3>1. sessions' = [sessions EXCEPT ![s].state = @]
        BY <1>0, <1>2, <2>2 DEF revokeSession, SessionExpires
      <3>2. sessions[s] \in Session
        BY <1>0
      <3>3. sessions' = [sessions EXCEPT ![s] = sessions[s]]
        BY <1>0, <3>1, <3>2 DEF Session
      <3> QED BY <1>0, <3>3
    <2> QED BY <2>1, <2>2
  <1>3. ASSUME NEW k, revokeOtherSessions(k)
        PROVE  /\ sessions' \in [Sids -> Session]
               /\ \A t \in Sids :
                    \/ sessions'[t] = sessions[t]
                    \/ sessions[t].state = "live" /\ sessions'[t] = [sessions[t] EXCEPT !.state = "ended"]
    BY <1>0, <1>3, SessionAged DEF revokeOtherSessions
  <1>4. ASSUME cleanupSessions
        PROVE  /\ sessions' \in [Sids -> Session]
               /\ \A t \in Sids :
                    \/ sessions'[t] = sessions[t]
                    \/ sessions[t].state = "ended" /\ sessions'[t] = [sessions[t] EXCEPT !.state = "deleted"]
    BY <1>0, <1>4, SessionAged DEF cleanupSessions
  <1>5. /\ sessions' \in [Sids -> Session]
        /\ \A t \in Sids :
             \/ sessions'[t] = sessions[t]
             \/ sessions[t].state = "live" /\ sessions'[t] = [sessions[t] EXCEPT !.state = "ended"]
             \/ sessions[t].state = "ended" /\ sessions'[t] = [sessions[t] EXCEPT !.state = "deleted"]
    <2>1. CASE sessions' = sessions
      BY <1>0, <2>1
    <2> QED BY <1>2, <1>3, <1>4, <2>1
  <1>6. ASSUME NEW s \in Sids
        PROVE  /\ sessions'[s].tokenVersion = sessions[s].tokenVersion
               /\ sessions'[s].password = sessions[s].password
               /\ sessions'[s].challenge = sessions[s].challenge
               /\ \/ sessions'[s].state = sessions[s].state
                  \/ sessions[s].state \in {"live", "ended"} /\ sessions'[s].state \in {"ended", "deleted"}
    <2>1. sessions[s] \in Session
      BY <1>0
    <2>2. \/ sessions'[s] = sessions[s]
          \/ sessions[s].state = "live" /\ sessions'[s] = [sessions[s] EXCEPT !.state = "ended"]
          \/ sessions[s].state = "ended" /\ sessions'[s] = [sessions[s] EXCEPT !.state = "deleted"]
      BY <1>5
    <2>3. \A st \in {"ended", "deleted"} :
             LET y == [sessions[s] EXCEPT !.state = st] IN
               /\ y.state = st /\ y.tokenVersion = sessions[s].tokenVersion
               /\ y.password = sessions[s].password /\ y.challenge = sessions[s].challenge
      BY <2>1, SessionAged
    <2>4. CASE sessions'[s] = sessions[s]
      BY <2>4
    <2>5. CASE sessions[s].state = "live" /\ sessions'[s] = [sessions[s] EXCEPT !.state = "ended"]
      BY <2>3, <2>5
    <2>6. CASE sessions[s].state = "ended" /\ sessions'[s] = [sessions[s] EXCEPT !.state = "deleted"]
      BY <2>3, <2>6
    <2> QED BY <2>2, <2>4, <2>5, <2>6
  <1> QED BY <1>5, <1>6 DEF Aged

\* login read the row.
LEMMA LoginStep ==
    ASSUME TypeOK, NEW r \in Reqs, Login(r) \/ LoginTwoFactor(r)
    PROVE  /\ Only(r) /\ UNCHANGED <<acct, sessions, temps, fresh, History>>
           /\ req'[r].pc \in {"issue", "challenge"} /\ req'[r].version = acct.tokenVersion
           /\ req'[r].password = acct.passwordHash /\ req'[r].challenge = 0 /\ req'[r].used = {}
  <1>1. PICK pc \in {"issue", "challenge"} :
           /\ req' = [req EXCEPT ![r] = [Idle EXCEPT !.pc = pc, !.version = acct.tokenVersion,
                                                     !.password = acct.passwordHash]]
           /\ UNCHANGED <<acct, sessions, temps, fresh, History>>
    BY DEF Login, LoginTwoFactor, login
  <1> DEFINE q == [Idle EXCEPT !.pc = pc, !.version = acct.tokenVersion, !.password = acct.passwordHash]
  <1>2. acct.tokenVersion \in 0 .. MaxVersion /\ acct.passwordHash \in Fresh /\ pc \in PC
    BY DEF TypeOK, User, PC
  <1>3. q \in Request
    BY <1>2, StartTyped
  <1>4. /\ q.pc = pc /\ q.version = acct.tokenVersion /\ q.password = acct.passwordHash
        /\ q.challenge = 0 /\ q.used = {}
    BY DEF Idle
  <1> HIDE DEF q
  <1> QED BY <1>1, <1>3, <1>4, RequestStep DEF Only, q

\* VerifyStart: the token answers the challenge that is stored.
LEMMA VerifyStartStep ==
    ASSUME TypeOK, NEW r \in Reqs, NEW t \in temps, VerifyStart(r, t)
    PROVE  /\ Only(r) /\ UNCHANGED <<acct, sessions, temps, fresh, spent, proved, wrong, overlap>>
           /\ req'[r].pc = "code" /\ req'[r].version = 0 /\ req'[r].used = {}
           /\ req'[r].challenge = acct.twoFactorChallenge /\ acct.twoFactorChallenge \in 1 .. MaxFresh
           /\ shared \subseteq shared' /\ shared' \subseteq Fresh
           /\ (\E o \in Reqs \ {r} : req[o].challenge = acct.twoFactorChallenge /\ req[o].pc \in {"code", "success"})
                 => acct.twoFactorChallenge \in shared'
  <1> DEFINE q == [Idle EXCEPT !.pc = "code", !.password = t.password, !.challenge = t.nonce]
  <1>1. t \in TempToken /\ "code" \in PC
    BY DEF TypeOK, PC
  <1>2. t.nonce \in 1 .. MaxFresh /\ t.nonce \in Fresh /\ t.password \in Fresh
    BY <1>1, BoundAssumption DEF TempToken, Fresh
  <1>3. q \in Request
    BY <1>1, <1>2, StartTyped, NumbersTyped
  <1>4. q.pc = "code" /\ q.version = 0 /\ q.used = {} /\ q.challenge = t.nonce
    BY DEF Idle
  <1>5. req' = [req EXCEPT ![r] = q] /\ t.nonce = acct.twoFactorChallenge
    BY DEF VerifyStart
  <1>6. /\ shared \subseteq shared' /\ shared' \subseteq Fresh
        /\ (\E o \in Reqs \ {r} : req[o].challenge = t.nonce /\ req[o].pc \in {"code", "success"})
              => t.nonce \in shared'
    BY <1>2 DEF VerifyStart, TypeOK
  <1>7. UNCHANGED <<acct, sessions, temps, fresh, spent, proved, wrong, overlap>>
    BY DEF VerifyStart
  <1> HIDE DEF q
  <1>8. Only(r) /\ req'[r] = q
    BY <1>3, <1>5, RequestStep DEF Only
  <1> QED BY <1>2, <1>4, <1>5, <1>6, <1>7, <1>8

\* verifyToken read the second factor.
LEMMA VerifyTokenStep ==
    ASSUME TypeOK, NEW r \in Reqs,
           VerifyCode(r) \/ VerifyWrong(r) \/ (\E c \in acct.recoveryCodes : VerifyRecovery(r, c))
    PROVE  /\ Only(r) /\ UNCHANGED <<acct, sessions, temps, fresh, spent, proved, wrong, shared>>
           /\ NoteOverlap(r) /\ req[r].pc = "code" /\ req'[r].pc \in {"success", "failure"}
           /\ req'[r].version = req[r].version /\ req'[r].challenge = req[r].challenge
           /\ req'[r].attempts = acct.twoFactorFailedAttempts
           /\ req'[r].used \subseteq acct.recoveryCodes
           /\ req'[r].codes = acct.recoveryCodes \ req'[r].used
  <1>1. PICK pc \in {"success", "failure"}, used \in SUBSET acct.recoveryCodes : verifyToken(r, pc, used)
    BY DEF VerifyCode, VerifyWrong, VerifyRecovery
  <1> DEFINE q == [req[r] EXCEPT !.pc = pc, !.attempts = acct.twoFactorFailedAttempts,
                                 !.codes = acct.recoveryCodes \ used, !.used = used]
  <1>2. /\ req[r] \in Request /\ pc \in PC /\ acct.twoFactorFailedAttempts \in 0 .. MaxAttempts - 1
        /\ acct.recoveryCodes \in SUBSET Code
    BY DEF TypeOK, User, PC
  <1>3. used \in SUBSET Code /\ acct.recoveryCodes \ used \in SUBSET Code
    BY <1>2
  <1>4. q \in Request
    BY <1>2, <1>3, RequestTyped, NumbersTyped
  <1>5. /\ q.pc = pc /\ q.version = req[r].version /\ q.challenge = req[r].challenge
        /\ q.attempts = acct.twoFactorFailedAttempts /\ q.used = used
        /\ q.codes = acct.recoveryCodes \ used
    BY <1>2 DEF Request
  <1>6. req' = [req EXCEPT ![r] = q]
    BY <1>1 DEF verifyToken
  <1>7. /\ UNCHANGED <<acct, sessions, temps, fresh, spent, proved, wrong, shared>>
        /\ NoteOverlap(r) /\ req[r].pc = "code"
    BY <1>1 DEF verifyToken
  <1> HIDE DEF q
  <1>8. Only(r) /\ req'[r] = q
    BY <1>4, <1>6, RequestStep DEF Only
  <1> QED BY <1>5, <1>7, <1>8

\* onVerifySuccess wrote the row.
LEMMA SuccessStep ==
    ASSUME TypeOK, NEW r \in Reqs, onVerifySuccess(r)
    PROVE  /\ Only(r) /\ UNCHANGED <<sessions, temps, fresh, proved, overlap, shared>>
           /\ req[r].pc = "success" /\ req'[r].pc = "signin" /\ req'[r].version = req[r].version
           /\ req'[r].challenge = req[r].challenge /\ req'[r].used = {}
           /\ spent' = spent \cup req[r].used /\ wrong' = 0
           /\ acct' \in User /\ KeepsPassword /\ acct'.twoFactorChallenge = 0
           /\ acct'.recoveryCodes = req[r].codes /\ acct'.twoFactorFailedAttempts = 0
           /\ acct'.twoFactorEnabled = acct.twoFactorEnabled /\ acct'.twoFactorSecret = acct.twoFactorSecret
  <1> DEFINE q == [req[r] EXCEPT !.pc = "signin", !.attempts = 0, !.codes = {}, !.used = {}]
  <1>1. /\ req[r] \in Request /\ acct \in User /\ "signin" \in PC /\ req[r].codes \in SUBSET Code
        /\ {} \in SUBSET Code
    BY DEF TypeOK, PC, Request
  <1>2. q \in Request
    BY <1>1, RequestTyped, NumbersTyped
  <1>3. /\ q.pc = "signin" /\ q.version = req[r].version /\ q.challenge = req[r].challenge /\ q.used = {}
    BY <1>1 DEF Request
  <1>4. req' = [req EXCEPT ![r] = q]
    BY DEF onVerifySuccess
  <1>5. acct' \in User
    BY <1>1, UserTyped, NumbersTyped DEF onVerifySuccess
  <1>6. /\ KeepsPassword /\ acct'.twoFactorChallenge = 0
        /\ acct'.recoveryCodes = req[r].codes /\ acct'.twoFactorFailedAttempts = 0
        /\ acct'.twoFactorEnabled = acct.twoFactorEnabled /\ acct'.twoFactorSecret = acct.twoFactorSecret
    BY <1>1 DEF onVerifySuccess, User, KeepsPassword
  <1>7. /\ UNCHANGED <<sessions, temps, fresh, proved, overlap, shared>>
        /\ req[r].pc = "success" /\ spent' = spent \cup req[r].used /\ wrong' = 0
    BY DEF onVerifySuccess
  <1> HIDE DEF q
  <1>8. Only(r) /\ req'[r] = q
    BY <1>2, <1>4, RequestStep DEF Only
  <1> QED BY <1>3, <1>5, <1>6, <1>7, <1>8

\* onVerifyFailure wrote the row.
LEMMA FailureStep ==
    ASSUME TypeOK, NEW r \in Reqs, onVerifyFailure(r)
    PROVE  /\ Only(r) /\ UNCHANGED <<sessions, temps, fresh, spent, proved, overlap, shared>>
           /\ req[r].pc = "failure" /\ req'[r] = Idle
           /\ acct' \in User /\ KeepsPassword /\ KeepsChallenge
           /\ acct'.recoveryCodes = acct.recoveryCodes
           /\ acct'.twoFactorEnabled = acct.twoFactorEnabled /\ acct'.twoFactorSecret = acct.twoFactorSecret
           /\ acct'.twoFactorFailedAttempts = IF req[r].attempts + 1 >= MaxAttempts THEN 0 ELSE req[r].attempts + 1
           /\ wrong' = IF wrong + 1 >= MaxAttempts THEN 0 ELSE wrong + 1
           /\ wrong' \in Nat
  <1>1. /\ req[r] \in Request /\ acct \in User /\ wrong \in Nat /\ TRUE \in BOOLEAN
        /\ req[r].attempts \in 0 .. MaxAttempts - 1
    BY DEF TypeOK, Request
  <1>2. Only(r) /\ req'[r] = Idle
    BY DoneStep DEF onVerifyFailure, Only
  <1>3. CASE req[r].attempts + 1 >= MaxAttempts
    <2>1. acct' = [acct EXCEPT !.twoFactorFailedAttempts = 0, !.locked = TRUE]
      BY <1>3 DEF onVerifyFailure
    <2>2. acct' \in User
      BY <1>1, <2>1, UserTyped, NumbersTyped
    <2>3. /\ KeepsPassword /\ KeepsChallenge /\ acct'.recoveryCodes = acct.recoveryCodes
          /\ acct'.twoFactorEnabled = acct.twoFactorEnabled /\ acct'.twoFactorSecret = acct.twoFactorSecret
          /\ acct'.twoFactorFailedAttempts = 0
      BY <1>1, <2>1 DEF User, KeepsPassword, KeepsChallenge
    <2> QED BY <1>1, <1>2, <1>3, <2>2, <2>3 DEF onVerifyFailure
  <1>4. CASE ~(req[r].attempts + 1 >= MaxAttempts)
    <2>1. acct' = [acct EXCEPT !.twoFactorFailedAttempts = req[r].attempts + 1]
      BY <1>4 DEF onVerifyFailure
    <2>2. req[r].attempts + 1 \in 0 .. MaxAttempts - 1
      BY <1>1, <1>4, BoundAssumption
    <2>3. acct' \in User
      BY <1>1, <2>1, <2>2, UserTyped, NumbersTyped
    <2>4. /\ KeepsPassword /\ KeepsChallenge /\ acct'.recoveryCodes = acct.recoveryCodes
          /\ acct'.twoFactorEnabled = acct.twoFactorEnabled /\ acct'.twoFactorSecret = acct.twoFactorSecret
          /\ acct'.twoFactorFailedAttempts = req[r].attempts + 1
      BY <1>1, <2>1 DEF User, KeepsPassword, KeepsChallenge
    <2> QED BY <1>1, <1>2, <1>4, <2>3, <2>4 DEF onVerifyFailure
  <1> QED BY <1>3, <1>4

\* VerifySignIn read the row again.
LEMMA SignInStep ==
    ASSUME TypeOK, NEW r \in Reqs, VerifySignIn(r), acct.isActive
    PROVE  /\ Only(r) /\ UNCHANGED <<acct, sessions, temps, fresh, History>>
           /\ req[r].pc = "signin" /\ req'[r].pc = "issue" /\ req'[r].version = acct.tokenVersion
           /\ req'[r].challenge = req[r].challenge /\ req'[r].used = req[r].used
  <1> DEFINE q == [req[r] EXCEPT !.pc = "issue", !.version = acct.tokenVersion]
  <1>1. req[r] \in Request /\ "issue" \in PC /\ acct.tokenVersion \in 0 .. MaxVersion
    BY DEF TypeOK, User, PC
  <1>2. q \in Request
    BY <1>1, RequestTyped, NumbersTyped
  <1>3. /\ q.pc = "issue" /\ q.version = acct.tokenVersion /\ q.challenge = req[r].challenge
        /\ q.used = req[r].used
    BY <1>1 DEF Request
  <1>4. req' = [req EXCEPT ![r] = q]
    BY DEF VerifySignIn
  <1>5. UNCHANGED <<acct, sessions, temps, fresh, History>> /\ req[r].pc = "signin"
    BY DEF VerifySignIn
  <1> HIDE DEF q
  <1>6. Only(r) /\ req'[r] = q
    BY <1>2, <1>4, RequestStep DEF Only
  <1> QED BY <1>3, <1>5, <1>6

\* A request ends, and may have ended sessions.
LEMMA EndStep ==
    ASSUME TypeOK, NEW r \in Reqs,
           \/ verifyRefuses(r) \/ (VerifySignIn(r) /\ ~acct.isActive)
           \/ (AuthenticateSession(r) /\ ~validateSession(req[r].sid))
           \/ Answered(r) \/ Logout(r) \/ RevokeOthers(r) \/ RevokeOneWrite(r)
    PROVE  /\ Only(r) /\ req'[r] = Idle /\ Aged /\ UNCHANGED <<acct, temps, fresh, History>>
  <1>1. Done(r) /\ UNCHANGED <<acct, temps, fresh, History>>
    BY DEF verifyRefuses, VerifySignIn, AuthenticateSession, Answered, Logout, RevokeOthers, RevokeOneWrite
  <1>2. sessions' = sessions \/ (\E s \in Sids : revokeSession(s)) \/ (\E s : revokeOtherSessions(s))
    <2>1. CASE \E s : revokeSession(s)
      <3>1. PICK s : revokeSession(s)
        BY <2>1
      <3>2. CASE s \in Sids
        BY <3>1, <3>2
      <3>3. CASE s \notin Sids
        BY <3>1, <3>3 DEF revokeSession, TypeOK
      <3> QED BY <3>2, <3>3
    <2> QED
      BY <2>1 DEF verifyRefuses, VerifySignIn, AuthenticateSession, Answered, Logout, RevokeOthers, RevokeOneWrite
  <1>3. Aged
    BY <1>2, SessionsAged
  <1> QED BY <1>1, <1>3, DoneStep DEF Only

\* A request shows its session, or is let in.
LEMMA ShowStep ==
    ASSUME TypeOK, NEW r \in Reqs,
           \/ (\E s \in Sids : AuthenticateUser(r, s) \/ RevokeOne(r, s))
           \/ (AuthenticateSession(r) /\ validateSession(req[r].sid))
           \/ ChangePassword(r)
    PROVE  /\ Only(r) /\ UNCHANGED <<acct, sessions, temps, fresh, History>>
           /\ req'[r].pc \in {"session", "in", "revoke", "password"}
           /\ req'[r].version \in {0, req[r].version} /\ req'[r].challenge \in {0, req[r].challenge}
           /\ req'[r].used \in {{}, req[r].used}
  <1>0. req[r] \in Request /\ {"session", "in", "revoke", "password"} \subseteq PC
    BY DEF TypeOK, PC
  <1>1. UNCHANGED <<acct, sessions, temps, fresh, History>>
    BY DEF AuthenticateUser, RevokeOne, AuthenticateSession, ChangePassword, SelfRead, History
  <1>2. ASSUME NEW q \in Request, req' = [req EXCEPT ![r] = q],
               q.pc \in {"session", "in", "revoke", "password"},
               q.version \in {0, req[r].version}, q.challenge \in {0, req[r].challenge},
               q.used \in {{}, req[r].used}
        PROVE  /\ Only(r) /\ req'[r].pc \in {"session", "in", "revoke", "password"}
               /\ req'[r].version \in {0, req[r].version} /\ req'[r].challenge \in {0, req[r].challenge}
               /\ req'[r].used \in {{}, req[r].used}
    <2>1. Only(r) /\ req'[r] = q
      BY <1>2, RequestStep DEF Only
    <2> QED BY <1>2, <2>1
  <1>3. ASSUME NEW s \in Sids, AuthenticateUser(r, s)
        PROVE  \E q \in Request : /\ req' = [req EXCEPT ![r] = q] /\ q.pc = "session"
                                  /\ q.version = 0 /\ q.challenge = 0 /\ q.used = {}
    <2>1. [Idle EXCEPT !.pc = "session", !.sid = s] \in Request
      BY <1>0, StartTyped, NumbersTyped
    <2>2. req' = [req EXCEPT ![r] = [Idle EXCEPT !.pc = "session", !.sid = s]]
      BY <1>3 DEF AuthenticateUser
    <2> QED BY <2>1, <2>2 DEF Idle
  <1>4. ASSUME ChangePassword(r)
        PROVE  \E q \in Request : /\ req' = [req EXCEPT ![r] = q] /\ q.pc = "password"
                                  /\ q.version = 0 /\ q.challenge = 0 /\ q.used = {}
    <2>1. [Idle EXCEPT !.pc = "password", !.secret = 0] \in Request
      BY <1>0, StartTyped, NumbersTyped
    <2>2. req' = [req EXCEPT ![r] = [Idle EXCEPT !.pc = "password", !.secret = 0]]
      BY <1>4 DEF ChangePassword, SelfRead
    <2> QED BY <2>1, <2>2 DEF Idle
  <1>5. ASSUME NEW s \in Sids, RevokeOne(r, s)
        PROVE  \E q \in Request : /\ req' = [req EXCEPT ![r] = q] /\ q.pc = "revoke"
                                  /\ q.version = req[r].version /\ q.challenge = req[r].challenge
                                  /\ q.used = req[r].used
    <2> DEFINE q == [req[r] EXCEPT !.pc = "revoke", !.sid = s]
    <2>1. q \in Request
      BY <1>0, RequestTyped, NumbersTyped
    <2>2. req' = [req EXCEPT ![r] = q]
      BY <1>5 DEF RevokeOne
    <2>3. q.pc = "revoke" /\ q.version = req[r].version /\ q.challenge = req[r].challenge /\ q.used = req[r].used
      BY <1>0 DEF Request
    <2> QED BY <2>1, <2>2, <2>3
  <1>6. ASSUME AuthenticateSession(r), validateSession(req[r].sid)
        PROVE  \E q \in Request : /\ req' = [req EXCEPT ![r] = q] /\ q.pc = "in"
                                  /\ q.version = req[r].version /\ q.challenge = req[r].challenge
                                  /\ q.used = req[r].used
    <2> DEFINE q == [req[r] EXCEPT !.pc = "in"]
    <2>1. q \in Request
      BY <1>0, RequestTyped, NumbersTyped
    <2>2. req' = [req EXCEPT ![r] = q]
      BY <1>6 DEF AuthenticateSession, Go
    <2>3. q.pc = "in" /\ q.version = req[r].version /\ q.challenge = req[r].challenge /\ q.used = req[r].used
      BY <1>0 DEF Request
    <2> QED BY <2>1, <2>2, <2>3
  <1>7. \E q \in Request : /\ req' = [req EXCEPT ![r] = q]
                           /\ q.pc \in {"session", "in", "revoke", "password"}
                           /\ q.version \in {0, req[r].version} /\ q.challenge \in {0, req[r].challenge}
                           /\ q.used \in {{}, req[r].used}
    BY <1>3, <1>4, <1>5, <1>6
  <1> QED BY <1>1, <1>2, <1>7

\* /2fa/setup, /2fa/enable and /2fa/disable read the row.
LEMMA FactorReadStep ==
    ASSUME TypeOK, NEW r \in Reqs, TwoFactorSetup(r) \/ TwoFactorEnable(r) \/ TwoFactorDisable(r)
    PROVE  /\ Only(r) /\ UNCHANGED <<acct, sessions, temps, fresh, spent, proved, wrong, shared>>
           /\ NoteOverlap(r) /\ req'[r].pc \in {"setup", "enable", "disable"}
           /\ req'[r].version = 0 /\ req'[r].challenge = 0 /\ req'[r].used = {}
           /\ req'[r].pc \in {"setup", "enable"} => ~acct.twoFactorEnabled
           /\ req'[r].pc = "enable" => req'[r].secret = acct.twoFactorSecret
  <1>1. PICK pc \in {"setup", "enable", "disable"}, x \in Fresh :
           /\ req' = [req EXCEPT ![r] = [Idle EXCEPT !.pc = pc, !.secret = x]]
           /\ pc \in {"setup", "enable"} => ~acct.twoFactorEnabled
           /\ pc = "enable" => x = acct.twoFactorSecret
    <2>1. acct.twoFactorSecret \in Fresh /\ 0 \in Fresh
      BY NumbersTyped DEF TypeOK, User
    <2>2. CASE TwoFactorSetup(r)
      <3>1. req' = [req EXCEPT ![r] = [Idle EXCEPT !.pc = "setup", !.secret = 0]] /\ ~acct.twoFactorEnabled
        BY <2>2 DEF TwoFactorSetup, SelfRead
      <3> QED BY <2>1, <3>1
    <2>3. CASE TwoFactorEnable(r)
      <3>1. /\ req' = [req EXCEPT ![r] = [Idle EXCEPT !.pc = "enable", !.secret = acct.twoFactorSecret]]
            /\ ~acct.twoFactorEnabled
        BY <2>3 DEF TwoFactorEnable, SelfRead
      <3> QED BY <2>1, <3>1
    <2>4. CASE TwoFactorDisable(r)
      <3>1. req' = [req EXCEPT ![r] = [Idle EXCEPT !.pc = "disable", !.secret = 0]]
        BY <2>4 DEF TwoFactorDisable, SelfRead
      <3> QED BY <2>1, <3>1
    <2> QED BY <2>2, <2>3, <2>4
  <1> DEFINE q == [Idle EXCEPT !.pc = pc, !.secret = x]
  <1>2. pc \in PC
    BY DEF PC
  <1>3. q \in Request
    BY <1>2, StartTyped, NumbersTyped
  <1>4. q.pc = pc /\ q.secret = x /\ q.version = 0 /\ q.challenge = 0 /\ q.used = {}
    BY DEF Idle
  <1>5. UNCHANGED <<acct, sessions, temps, fresh, spent, proved, wrong, shared>> /\ NoteOverlap(r)
    BY DEF TwoFactorSetup, TwoFactorEnable, TwoFactorDisable, SelfRead
  <1>6. Only(r) /\ req'[r] = q
    <2> HIDE DEF q
    <2> QED BY <1>1, <1>3, RequestStep DEF Only, q
  <1> HIDE DEF q
  <1> QED BY <1>1, <1>4, <1>5, <1>6

\* A new password, or a deletion, moves the version on.
LEMMA VersionStep ==
    ASSUME TypeOK, (\E r \in Reqs : changePassword(r)) \/ adminResetPassword \/ DeleteAccount
    PROVE  /\ req' \in [Reqs -> Request]
           /\ \A r \in Reqs : req'[r] = req[r] \/ (req'[r] = Idle /\ req[r].pc = "password")
           /\ UNCHANGED <<sessions, temps, History>>
           /\ fresh' \in Fresh /\ fresh' >= fresh
           /\ acct' \in User /\ acct'.tokenVersion = acct.tokenVersion + 1 /\ KeepsChallenge /\ KeepsFactor
  <1>1. acct \in User /\ FALSE \in BOOLEAN /\ acct.tokenVersion \in 0 .. MaxVersion /\ req \in [Reqs -> Request]
    BY DEF TypeOK, User
  <1>2. acct.tokenVersion + 1 \in 0 .. MaxVersion
    BY <1>1, BoundAssumption DEF changePassword, adminResetPassword, DeleteAccount
  <1>3. fresh' \in Fresh /\ fresh' >= fresh
    <2>1. fresh \in Fresh /\ fresh >= fresh
      BY NumbersTyped DEF TypeOK
    <2>2. CASE Draw
      BY <2>2, DrawStep
    <2> QED BY <2>1, <2>2 DEF changePassword, adminResetPassword, DeleteAccount
  <1>4. \/ acct' = [acct EXCEPT !.passwordHash = fresh', !.tokenVersion = acct.tokenVersion + 1]
        \/ acct' = [acct EXCEPT !.isActive = FALSE, !.tokenVersion = acct.tokenVersion + 1]
    <2>1. CASE \E r \in Reqs : changePassword(r)
      BY <1>1, <2>1 DEF changePassword, User
    <2>2. CASE adminResetPassword
      BY <1>1, <2>2 DEF adminResetPassword, AdminWrite, User
    <2>3. CASE DeleteAccount
      BY <1>1, <2>3 DEF DeleteAccount, AdminWrite, User
    <2> QED BY <2>1, <2>2, <2>3
  <1>5. acct' \in User
    <2>1. {} \in SUBSET Code /\ 0 \in 0 .. MaxAttempts - 1
      BY NumbersTyped
    <2>2. [acct EXCEPT !.passwordHash = fresh', !.tokenVersion = acct.tokenVersion + 1] \in User
      BY <1>1, <1>2, <1>3, <2>1, UserTyped
    <2>3. [acct EXCEPT !.isActive = FALSE, !.tokenVersion = acct.tokenVersion + 1] \in User
      BY <1>1, <1>2, <1>3, <2>1, UserTyped
    <2> QED BY <1>4, <2>2, <2>3
  <1>6. acct'.tokenVersion = acct.tokenVersion + 1 /\ KeepsChallenge /\ KeepsFactor
    BY <1>1, <1>4 DEF User, KeepsChallenge, KeepsFactor
  <1>7. UNCHANGED <<sessions, temps, History>>
    BY DEF changePassword, adminResetPassword, DeleteAccount, AdminWrite, History
  <1>8. /\ req' \in [Reqs -> Request]
        /\ \A r \in Reqs : req'[r] = req[r] \/ (req'[r] = Idle /\ req[r].pc = "password")
    <2>1. CASE \E r \in Reqs : changePassword(r)
      BY <2>1, DoneStep DEF changePassword
    <2>2. CASE req' = req
      BY <1>1, <2>2
    <2> QED BY <2>1, <2>2 DEF adminResetPassword, DeleteAccount, AdminWrite
  <1> QED BY <1>3, <1>5, <1>6, <1>7, <1>8

\* startLoginChallenge drew a challenge.
LEMMA ChallengeStep ==
    ASSUME TypeOK, NEW r \in Reqs, startLoginChallenge(r)
    PROVE  /\ Only(r) /\ req'[r] = Idle /\ UNCHANGED <<sessions, History>>
           /\ fresh \in Nat /\ fresh' = fresh + 1 /\ fresh' \in Fresh
           /\ temps' \subseteq TempToken /\ \A t \in temps' : t \in temps \/ t.nonce = fresh'
           /\ acct' \in User /\ KeepsPassword /\ KeepsFactor /\ acct'.twoFactorChallenge = fresh'
  <1>1. acct \in User /\ req[r] \in Request /\ temps \subseteq TempToken
    BY DEF TypeOK
  <1>2. fresh \in Nat /\ fresh' = fresh + 1 /\ fresh' \in Fresh /\ fresh' \in 1 .. MaxFresh
    BY DrawStep DEF startLoginChallenge
  <1>3. acct' = [acct EXCEPT !.twoFactorChallenge = fresh']
    BY DEF startLoginChallenge
  <1>4. acct' \in User
    BY <1>1, <1>2, <1>3, UserTyped, NumbersTyped
  <1>5. KeepsPassword /\ KeepsFactor /\ acct'.twoFactorChallenge = fresh'
    BY <1>1, <1>3 DEF User, KeepsPassword, KeepsFactor
  <1>6. req[r].version \in 0 .. MaxVersion /\ req[r].password \in Fresh
    BY <1>1 DEF Request
  <1>7. temps' \subseteq TempToken /\ \A t \in temps' : t \in temps \/ t.nonce = fresh'
    BY <1>1, <1>2, <1>6 DEF startLoginChallenge, TempToken
  <1>8. Only(r) /\ req'[r] = Idle
    BY DoneStep DEF startLoginChallenge, Only
  <1> QED BY <1>2, <1>4, <1>5, <1>7, <1>8 DEF startLoginChallenge

\* A session is issued.
LEMMA IssueStep ==
    ASSUME TypeOK, NEW r \in Reqs, NEW s \in Sids, Issue(r, s)
    PROVE  /\ Only(r) /\ req'[r] = Idle /\ UNCHANGED <<acct, temps, fresh, History>>
           /\ req[r].pc = "issue" /\ sessions[s].state = "none"
           /\ sessions' \in [Sids -> Session] /\ \A t \in Sids \ {s} : sessions'[t] = sessions[t]
           /\ sessions'[s].state = "live" /\ sessions'[s].tokenVersion = req[r].version
           /\ sessions'[s].password = req[r].password /\ sessions'[s].challenge = req[r].challenge
  <1>1. req[r].version \in 0 .. MaxVersion /\ req[r].password \in Fresh /\ req[r].challenge \in Fresh
    BY DEF TypeOK, Request
  <1>2. Only(r) /\ req'[r] = Idle
    BY DoneStep DEF Issue, Only
  <1> DEFINE x == [state |-> "live", tokenVersion |-> req[r].version,
                   password |-> req[r].password, challenge |-> req[r].challenge]
  <1>3. x \in Session
    BY <1>1 DEF Session
  <1>4. sessions' = [sessions EXCEPT ![s] = x] /\ sessions[s].state = "none"
    BY DEF Issue, issueSession
  <1>5. sessions' \in [Sids -> Session] /\ sessions'[s] = x /\ \A t \in Sids \ {s} : sessions'[t] = sessions[t]
    <2> HIDE DEF x
    <2> QED BY <1>3, <1>4 DEF TypeOK
  <1> QED BY <1>2, <1>4, <1>5 DEF Issue

\* generateSetup, verifyAndEnable and disable wrote the row.
LEMMA SetupStep ==
    ASSUME TypeOK, NEW r \in Reqs, generateSetup(r)
    PROVE  /\ Only(r) /\ req'[r] = Idle /\ req[r].pc = "setup" /\ UNCHANGED <<sessions, temps, History>>
           /\ fresh \in Nat /\ fresh' = fresh + 1 /\ fresh' \in Fresh
           /\ acct' \in User /\ KeepsPassword /\ KeepsChallenge
           /\ acct'.twoFactorEnabled = acct.twoFactorEnabled /\ acct'.recoveryCodes = acct.recoveryCodes
           /\ acct'.twoFactorFailedAttempts = acct.twoFactorFailedAttempts
  <1>1. acct \in User
    BY DEF TypeOK
  <1>2. fresh \in Nat /\ fresh' = fresh + 1 /\ fresh' \in Fresh
    BY DrawStep DEF generateSetup
  <1>3. acct' = [acct EXCEPT !.twoFactorSecret = fresh']
    BY DEF generateSetup
  <1>4. acct' \in User
    BY <1>1, <1>2, <1>3, UserTyped, NumbersTyped
  <1>5. /\ KeepsPassword /\ KeepsChallenge
        /\ acct'.twoFactorEnabled = acct.twoFactorEnabled /\ acct'.recoveryCodes = acct.recoveryCodes
        /\ acct'.twoFactorFailedAttempts = acct.twoFactorFailedAttempts
    BY <1>1, <1>3 DEF User, KeepsPassword, KeepsChallenge
  <1>6. Only(r) /\ req'[r] = Idle
    BY DoneStep DEF generateSetup, Only
  <1> QED BY <1>2, <1>4, <1>5, <1>6 DEF generateSetup

LEMMA EnableStep ==
    ASSUME TypeOK, NEW r \in Reqs, verifyAndEnable(r)
    PROVE  /\ Only(r) /\ req'[r] = Idle /\ req[r].pc = "enable"
           /\ UNCHANGED <<sessions, temps, spent, wrong, overlap, shared>> /\ proved' = req[r].secret
           /\ fresh \in Nat /\ fresh' = fresh + 1 /\ fresh' \in Fresh
           /\ acct' \in User /\ KeepsPassword /\ KeepsChallenge
           /\ acct'.recoveryCodes = {fresh'} \X Codes /\ acct'.twoFactorSecret = acct.twoFactorSecret
           /\ acct'.twoFactorFailedAttempts = acct.twoFactorFailedAttempts
  <1>1. acct \in User /\ TRUE \in BOOLEAN
    BY DEF TypeOK
  <1>2. fresh \in Nat /\ fresh' = fresh + 1 /\ fresh' \in Fresh /\ fresh' \in 1 .. MaxFresh
    BY DrawStep DEF verifyAndEnable
  <1>3. acct' = [acct EXCEPT !.twoFactorEnabled = TRUE, !.recoveryCodes = {fresh'} \X Codes]
    BY DEF verifyAndEnable
  <1>4. {fresh'} \X Codes \in SUBSET Code
    BY <1>2 DEF Code
  <1>5. acct' \in User
    BY <1>1, <1>2, <1>3, <1>4, UserTyped, NumbersTyped
  <1>6. /\ KeepsPassword /\ KeepsChallenge
        /\ acct'.recoveryCodes = {fresh'} \X Codes /\ acct'.twoFactorSecret = acct.twoFactorSecret
        /\ acct'.twoFactorFailedAttempts = acct.twoFactorFailedAttempts
    BY <1>1, <1>3 DEF User, KeepsPassword, KeepsChallenge
  <1>7. Only(r) /\ req'[r] = Idle
    BY DoneStep DEF verifyAndEnable, Only
  <1> QED BY <1>2, <1>5, <1>6, <1>7 DEF verifyAndEnable

LEMMA WithoutTwoFactorTyped ==
    ASSUME TypeOK, acct' = WithoutTwoFactor
    PROVE  /\ acct' \in User /\ KeepsPassword /\ KeepsChallenge
           /\ ~acct'.twoFactorEnabled /\ acct'.recoveryCodes = {}
           /\ acct'.twoFactorFailedAttempts = acct.twoFactorFailedAttempts
  <1>1. acct \in User /\ FALSE \in BOOLEAN /\ {} \in SUBSET Code
    BY DEF TypeOK
  <1>2. acct' \in User
    BY <1>1, UserTyped, NumbersTyped DEF WithoutTwoFactor
  <1> QED BY <1>1, <1>2 DEF WithoutTwoFactor, User, KeepsPassword, KeepsChallenge

\* A flag of the row changed.
LEMMA FlagStep ==
    ASSUME TypeOK, LockoutEnds \/ Deactivate \/ RestoreAccount
    PROVE  /\ acct' \in User /\ KeepsPassword /\ KeepsChallenge /\ KeepsFactor
           /\ UNCHANGED <<sessions, temps, req, fresh, History>>
  <1>1. acct \in User /\ FALSE \in BOOLEAN /\ TRUE \in BOOLEAN
    BY DEF TypeOK
  <1>2. \E b \in BOOLEAN : acct' = [acct EXCEPT !.locked = b] \/ acct' = [acct EXCEPT !.isActive = b]
    BY <1>1 DEF LockoutEnds, Deactivate, RestoreAccount, AdminWrite
  <1>3. acct' \in User
    BY <1>1, <1>2, UserTyped, NumbersTyped
  <1>4. KeepsPassword /\ KeepsChallenge /\ KeepsFactor
    BY <1>1, <1>2 DEF User, KeepsPassword, KeepsChallenge, KeepsFactor
  <1>5. UNCHANGED <<sessions, temps, req, fresh, History>>
    BY DEF LockoutEnds, Deactivate, RestoreAccount, AdminWrite, History
  <1> QED BY <1>3, <1>4, <1>5

LEMMA DisableStep ==
    ASSUME TypeOK, (\E r \in Reqs : disable(r)) \/ adminDisable2FA
    PROVE  /\ req' \in [Reqs -> Request]
           /\ \A r \in Reqs : req'[r] = req[r] \/ (req'[r] = Idle /\ req[r].pc = "disable")
           /\ acct' = WithoutTwoFactor /\ UNCHANGED <<sessions, temps, fresh, spent, proved, wrong, shared>>
           /\ overlap' \in BOOLEAN
           /\ \/ overlap' = overlap /\ \E r \in Reqs : req[r].pc = "disable" /\ req'[r] = Idle
              \/ ~overlap' => ~overlap /\ \A o \in Reqs : ~InTwoFactor(o)
  <1>0. overlap \in BOOLEAN /\ req \in [Reqs -> Request]
    BY DEF TypeOK
  <1>1. CASE adminDisable2FA
    <2>1. req' = req /\ acct' = WithoutTwoFactor /\ UNCHANGED <<sessions, temps, fresh, spent, proved, wrong, shared>>
      BY <1>1 DEF adminDisable2FA, AdminWrite
    <2>2. overlap' = (overlap \/ \E o \in Reqs : InTwoFactor(o))
      BY <1>1 DEF adminDisable2FA
    <2>3. overlap' \in BOOLEAN /\ (~overlap' => ~overlap /\ \A o \in Reqs : ~InTwoFactor(o))
      BY <1>0, <2>2
    <2> QED BY <1>0, <2>1, <2>3
  <1>2. ASSUME NEW r \in Reqs, disable(r)
        PROVE  /\ req' \in [Reqs -> Request]
               /\ \A o \in Reqs : req'[o] = req[o] \/ (req'[o] = Idle /\ req[o].pc = "disable")
               /\ req[r].pc = "disable" /\ req'[r] = Idle
               /\ acct' = WithoutTwoFactor /\ overlap' = overlap
               /\ UNCHANGED <<sessions, temps, fresh, spent, proved, wrong, shared>>
    BY <1>2, DoneStep DEF disable, History
  <1> QED BY <1>0, <1>1, <1>2

-----------------------------------------------------------------------------
(* The invariants *)

\* No version that was read or signed is ahead of the row's.
VersionsGrow ==
    /\ \A s \in Sids : sessions[s].tokenVersion <= acct.tokenVersion
    /\ \A r \in Reqs : req[r].version <= acct.tokenVersion

\* A sign-in by password alone, as long as its version is current, proved the current password.
PasswordKnown ==
    /\ \A r \in Reqs : req[r].pc \in {"code", "success", "failure", "signin"} => req[r].challenge # 0
    /\ \A r \in Reqs :
          req[r].pc = "issue" /\ req[r].challenge = 0 /\ req[r].version = acct.tokenVersion
             => req[r].password = acct.passwordHash
    /\ \A s \in Sids :
          sessions[s].state = "live" /\ sessions[s].challenge = 0
             /\ sessions[s].tokenVersion = acct.tokenVersion
             => sessions[s].password = acct.passwordHash

\* A request that may still turn the challenge c into a session.
Holding(r, c) == req[r].pc \in {"code", "success", "signin", "issue"} /\ req[r].challenge = c

\* Every challenge in use was drawn, so that the next one is new.
Drawn ==
    /\ acct.twoFactorChallenge <= fresh
    /\ \A r \in Reqs : req[r].challenge <= fresh
    /\ \A s \in Sids : sessions[s].challenge <= fresh

\* A challenge that was answered is no longer the one stored.
Cleared ==
    /\ \A r \in Reqs : req[r].pc \in {"signin", "issue"} /\ req[r].challenge # 0
                          => req[r].challenge # acct.twoFactorChallenge
    /\ \A s \in Sids : sessions[s].challenge # 0 => sessions[s].challenge # acct.twoFactorChallenge

\* A challenge that was not shared has one holder at most, request or session.
SingleUse ==
    \A c \in Fresh \ (shared \cup {0}) :
       /\ \A r, q \in Reqs : Holding(r, c) /\ Holding(q, c) => r = q
       /\ \A r \in Reqs, s \in Sids : ~(Holding(r, c) /\ sessions[s].challenge = c)
       /\ \A s, t \in Sids : sessions[s].challenge = c /\ sessions[t].challenge = c => s = t

\* The recovery codes made so far; every one in use is among them.
Made == (1 .. fresh) \X Codes

CodesMade ==
    /\ spent \subseteq Made
    /\ acct.recoveryCodes \subseteq Made
    /\ \A r \in Reqs : req[r].used \subseteq Made
    /\ \A r \in Reqs : req[r].pc = "success" => req[r].codes \subseteq Made

\* Without an overlap the one request that works on the second factor knows its columns.
FactorKept ==
    overlap \/ /\ \A r, q \in Reqs : InTwoFactor(r) /\ InTwoFactor(q) => r = q
               /\ \A r \in Reqs :
                    /\ req[r].pc = "success" => /\ req[r].codes \subseteq acct.recoveryCodes
                                                /\ req[r].codes \cap req[r].used = {}
                    /\ req[r].pc \in {"success", "failure"} => req[r].attempts = acct.twoFactorFailedAttempts
                    /\ req[r].pc \in {"setup", "enable"} => ~acct.twoFactorEnabled
                    /\ req[r].pc = "enable" => req[r].secret = acct.twoFactorSecret

PasswordInv  == VersionsGrow /\ PasswordKnown
ChallengeInv == Drawn /\ Cleared /\ SingleUse
FactorInv    == CodesMade /\ FactorKept /\ TwoFactorExact

LEMMA IdleFields ==
    /\ Idle.pc = "idle" /\ Idle.version = 0 /\ Idle.challenge = 0 /\ Idle.used = {}
  BY DEF Idle

\* A step in which no session is issued, the version moves on with the password, and a
\* request gets a version and a password only from the row.
LEMMA PasswordKept ==
    ASSUME TypeOK, TypeOK', PasswordInv, Aged,
           KeepsPassword \/ acct'.tokenVersion = acct.tokenVersion + 1,
           \A r \in Reqs :
              \/ req'[r] = req[r]
              \/ /\ req'[r].version <= acct.tokenVersion
                 /\ req'[r].pc \in {"code", "success", "failure", "signin"} => req'[r].challenge # 0
                 /\ req'[r].pc = "issue" /\ req'[r].challenge = 0 /\ req'[r].version = acct.tokenVersion
                       => req'[r].password = acct.passwordHash
    PROVE  PasswordInv'
  <1>1. /\ acct.tokenVersion \in Nat /\ acct'.tokenVersion \in Nat
        /\ \A r \in Reqs : req[r].version \in Nat /\ req'[r].version \in Nat
        /\ \A s \in Sids : sessions[s].tokenVersion \in Nat
    BY NumbersTyped DEF TypeOK, User, Request, Session
  <1>2. acct'.tokenVersion = acct.tokenVersion \/ acct'.tokenVersion = acct.tokenVersion + 1
    BY DEF KeepsPassword
  <1>3. /\ \A r \in Reqs : req'[r].version <= acct.tokenVersion
        /\ \A s \in Sids : sessions'[s].tokenVersion <= acct.tokenVersion
    BY DEF Aged, PasswordInv, VersionsGrow
  <1>4. VersionsGrow'
    BY <1>1, <1>2, <1>3 DEF VersionsGrow, Aged
  <1>5. \A r \in Reqs : req'[r].pc \in {"code", "success", "failure", "signin"} => req'[r].challenge # 0
    BY DEF PasswordInv, PasswordKnown
  <1>6. CASE KeepsPassword
    <2>1. \A r \in Reqs :
             req'[r].pc = "issue" /\ req'[r].challenge = 0 /\ req'[r].version = acct.tokenVersion
                => req'[r].password = acct.passwordHash
      BY DEF PasswordInv, PasswordKnown
    <2>2. \A s \in Sids :
             sessions'[s].state = "live" /\ sessions'[s].challenge = 0
                /\ sessions'[s].tokenVersion = acct.tokenVersion
                => sessions'[s].password = acct.passwordHash
      BY DEF PasswordInv, PasswordKnown, Aged
    <2> QED BY <1>4, <1>5, <1>6, <2>1, <2>2 DEF PasswordInv, PasswordKnown, KeepsPassword
  <1>7. CASE acct'.tokenVersion = acct.tokenVersion + 1
    <2>1. /\ \A r \in Reqs : req'[r].version # acct'.tokenVersion
          /\ \A s \in Sids : sessions'[s].tokenVersion # acct'.tokenVersion
      BY <1>1, <1>3, <1>7 DEF Aged
    <2> QED BY <1>4, <1>5, <2>1 DEF PasswordInv, PasswordKnown
  <1> QED BY <1>6, <1>7

\* A step in which no challenge is answered anew.
LEMMA ChallengeKept ==
    ASSUME TypeOK, TypeOK', ChallengeInv, Aged, fresh' >= fresh, shared \subseteq shared',
           \/ acct'.twoFactorChallenge \in {acct.twoFactorChallenge, 0}
           \/ acct'.twoFactorChallenge = fresh' /\ fresh' > fresh,
           \A r \in Reqs :
              \/ req'[r] = req[r] \/ req'[r].challenge = 0
              \/ req'[r].pc \notin {"code", "success", "signin", "issue"} /\ req'[r].challenge = req[r].challenge
              \/ /\ req'[r].challenge = req[r].challenge /\ Holding(r, req[r].challenge)
                 /\ req'[r].pc \in {"signin", "issue"} =>
                       req[r].pc \in {"signin", "issue"} \/ acct'.twoFactorChallenge = 0
    PROVE  ChallengeInv'
  <1>1. /\ fresh \in Nat /\ fresh' \in Nat /\ acct.twoFactorChallenge \in Nat /\ acct'.twoFactorChallenge \in Nat
        /\ \A r \in Reqs : req[r].challenge \in Nat /\ req'[r].challenge \in Nat
        /\ \A s \in Sids : sessions[s].challenge \in Nat
    BY NumbersTyped DEF TypeOK, User, Request, Session
  <1>2. \A r \in Reqs : req'[r].challenge = req[r].challenge \/ req'[r].challenge = 0
    OBVIOUS
  <1>3. Drawn'
    BY <1>1, <1>2 DEF ChallengeInv, Drawn, Aged
  <1>4. \A r \in Reqs, c \in Nat \ {0} : Holding(r, c)' => Holding(r, c)
    BY DEF Holding
  <1>5. Cleared'
    <2>1. \A r \in Reqs : req'[r].pc \in {"signin", "issue"} /\ req'[r].challenge # 0
                             => req'[r].challenge # acct'.twoFactorChallenge
      <3> SUFFICES ASSUME NEW r \in Reqs, req'[r].pc \in {"signin", "issue"}, req'[r].challenge # 0
                   PROVE  req'[r].challenge # acct'.twoFactorChallenge
        OBVIOUS
      <3>1. req'[r].challenge = req[r].challenge /\ req[r].challenge <= fresh
        BY <1>2 DEF ChallengeInv, Drawn
      <3>2. req[r].pc \in {"signin", "issue"} \/ acct'.twoFactorChallenge = 0
        OBVIOUS
      <3>3. CASE acct'.twoFactorChallenge = 0
        BY <3>3
      <3>4. CASE acct'.twoFactorChallenge = acct.twoFactorChallenge /\ req[r].pc \in {"signin", "issue"}
        BY <3>1, <3>4 DEF ChallengeInv, Cleared
      <3>5. CASE acct'.twoFactorChallenge = fresh' /\ fresh' > fresh
        BY <1>1, <3>1, <3>5
      <3> QED BY <3>2, <3>3, <3>4, <3>5
    <2>2. \A s \in Sids : sessions'[s].challenge # 0 => sessions'[s].challenge # acct'.twoFactorChallenge
      <3>1. \A s \in Sids : sessions'[s].challenge = sessions[s].challenge /\ sessions[s].challenge <= fresh
        BY DEF ChallengeInv, Drawn, Aged
      <3>2. CASE acct'.twoFactorChallenge \in {acct.twoFactorChallenge, 0}
        BY <3>1, <3>2 DEF ChallengeInv, Cleared
      <3>3. CASE acct'.twoFactorChallenge = fresh' /\ fresh' > fresh
        BY <1>1, <3>1, <3>3
      <3> QED BY <3>2, <3>3
    <2> QED BY <2>1, <2>2 DEF Cleared
  <1>6. SingleUse'
    <2> SUFFICES ASSUME NEW c \in Fresh, c \notin shared', c # 0
                 PROVE  /\ \A r, q \in Reqs : Holding(r, c)' /\ Holding(q, c)' => r = q
                        /\ \A r \in Reqs, s \in Sids : ~(Holding(r, c)' /\ sessions'[s].challenge = c)
                        /\ \A s, t \in Sids : sessions'[s].challenge = c /\ sessions'[t].challenge = c => s = t
      BY DEF SingleUse
    <2>1. c \in Nat \ {0} /\ c \in Fresh \ (shared \cup {0})
      BY NumbersTyped
    <2>2. \A r \in Reqs : Holding(r, c)' => Holding(r, c)
      BY <1>4, <2>1
    <2>3. \A s \in Sids : sessions'[s].challenge = sessions[s].challenge
      BY DEF Aged
    <2> QED BY <2>1, <2>2, <2>3 DEF ChallengeInv, SingleUse
  <1> QED BY <1>3, <1>5, <1>6 DEF ChallengeInv

\* Whoever passes the check of the challenge is its first holder, or it becomes shared.
LEMMA VerifyStartChallenge ==
    ASSUME TypeOK, TypeOK', ChallengeInv, NEW r \in Reqs, NEW t \in temps, VerifyStart(r, t)
    PROVE  ChallengeInv'
  <1> DEFINE now == acct.twoFactorChallenge
  <1>1. /\ \A o \in Reqs \ {r} : req'[o] = req[o]
        /\ UNCHANGED <<acct, sessions, temps, fresh>>
        /\ req'[r].pc = "code" /\ req'[r].challenge = now
        /\ shared \subseteq shared'
        /\ (\E o \in Reqs \ {r} : req[o].challenge = now /\ req[o].pc \in {"code", "success"}) => now \in shared'
    BY VerifyStartStep DEF Only
  <1>2. Drawn'
    BY <1>1 DEF ChallengeInv, Drawn
  <1>3. Cleared'
    BY <1>1 DEF ChallengeInv, Cleared
  <1>4. SingleUse'
    <2> SUFFICES ASSUME NEW c \in Fresh, c \notin shared', c # 0
                 PROVE  /\ \A p, q \in Reqs : Holding(p, c)' /\ Holding(q, c)' => p = q
                        /\ \A q \in Reqs, s \in Sids : ~(Holding(q, c)' /\ sessions'[s].challenge = c)
                        /\ \A s, u \in Sids : sessions'[s].challenge = c /\ sessions'[u].challenge = c => s = u
      BY DEF SingleUse
    <2>1. /\ c \in Fresh \ (shared \cup {0}) /\ sessions' = sessions
          /\ \A o \in Reqs \ {r} : Holding(o, c)' <=> Holding(o, c)
      BY <1>1 DEF Holding
    <2>2. CASE c # now
      <3>1. ~Holding(r, c)'
        BY <1>1, <2>2 DEF Holding
      <3> QED BY <2>1, <3>1 DEF ChallengeInv, SingleUse
    <2>3. CASE c = now
      <3>1. \A o \in Reqs \ {r} : ~Holding(o, c)
        BY <1>1, <2>3 DEF Holding, ChallengeInv, Cleared
      <3>2. \A s \in Sids : sessions[s].challenge # c
        BY <2>3 DEF ChallengeInv, Cleared
      <3> QED BY <2>1, <3>1, <3>2
    <2> QED BY <2>2, <2>3
  <1> QED BY <1>2, <1>3, <1>4 DEF ChallengeInv

\* The session takes over from the request.
LEMMA IssueChallenge ==
    ASSUME TypeOK, TypeOK', ChallengeInv, NEW r \in Reqs, NEW s \in Sids, Issue(r, s)
    PROVE  ChallengeInv'
  <1>1. /\ \A o \in Reqs \ {r} : req'[o] = req[o]
        /\ UNCHANGED <<acct, temps, fresh, shared>>
        /\ req[r].pc = "issue" /\ req'[r].pc = "idle" /\ req'[r].challenge = 0
        /\ \A t \in Sids \ {s} : sessions'[t] = sessions[t]
        /\ sessions'[s].challenge = req[r].challenge
    BY IssueStep, IdleFields DEF Only, History
  <1>2. /\ fresh \in Nat
        /\ \A o \in Reqs : req[o].challenge \in Nat
    BY NumbersTyped DEF TypeOK, Request
  <1>3. Drawn'
    BY <1>1, <1>2 DEF ChallengeInv, Drawn
  <1>4. Cleared'
    BY <1>1 DEF ChallengeInv, Cleared
  <1>5. SingleUse'
    <2> SUFFICES ASSUME NEW c \in Fresh, c \notin shared, c # 0
                 PROVE  /\ \A p, q \in Reqs : Holding(p, c)' /\ Holding(q, c)' => p = q
                        /\ \A q \in Reqs, t \in Sids : ~(Holding(q, c)' /\ sessions'[t].challenge = c)
                        /\ \A t, u \in Sids : sessions'[t].challenge = c /\ sessions'[u].challenge = c => t = u
      BY <1>1 DEF SingleUse
    <2>1. /\ c \in Fresh \ (shared \cup {0}) /\ ~Holding(r, c)'
          /\ \A o \in Reqs \ {r} : Holding(o, c)' <=> Holding(o, c)
          /\ sessions'[s].challenge = c <=> Holding(r, c)
      BY <1>1 DEF Holding
    <2> QED BY <1>1, <2>1 DEF ChallengeInv, SingleUse
  <1> QED BY <1>3, <1>4, <1>5 DEF ChallengeInv

LEMMA IssuePassword ==
    ASSUME TypeOK, TypeOK', PasswordInv, NEW r \in Reqs, NEW s \in Sids, Issue(r, s)
    PROVE  PasswordInv'
  <1>1. /\ \A o \in Reqs \ {r} : req'[o] = req[o]
        /\ acct' = acct
        /\ req[r].pc = "issue" /\ req'[r].pc = "idle" /\ req'[r].version = 0
        /\ \A t \in Sids \ {s} : sessions'[t] = sessions[t]
        /\ sessions'[s].tokenVersion = req[r].version
        /\ sessions'[s].password = req[r].password /\ sessions'[s].challenge = req[r].challenge
    BY IssueStep, IdleFields DEF Only
  <1>2. acct.tokenVersion \in Nat
    BY NumbersTyped DEF TypeOK, User
  <1>3. VersionsGrow'
    BY <1>1, <1>2 DEF PasswordInv, VersionsGrow
  <1>4. PasswordKnown'
    BY <1>1 DEF PasswordInv, PasswordKnown
  <1> QED BY <1>3, <1>4 DEF PasswordInv

-----------------------------------------------------------------------------
(* The second factor *)

LEMMA MadeGrows ==
    ASSUME fresh \in Nat, fresh' \in Nat, fresh' >= fresh
    PROVE  Made \subseteq Made'
  <1>1. 1 .. fresh \subseteq 1 .. fresh'
    OBVIOUS
  <1> QED BY <1>1 DEF Made

\* A step that leaves the columns alone, and brings no request to work on them.
LEMMA FactorUntouched ==
    ASSUME TypeOK, TypeOK', FactorInv, KeepsFactor, UNCHANGED <<spent, proved, wrong, overlap>>, fresh' >= fresh,
           \A r \in Reqs :
              \/ req'[r] = req[r]
              \/ /\ req'[r].pc \notin {"success", "failure", "setup", "enable", "disable"}
                 /\ req'[r].used \in {{}, req[r].used}
    PROVE  FactorInv'
  <1>1. Made \subseteq Made'
    BY MadeGrows, NumbersTyped DEF TypeOK
  <1>2. CodesMade'
    BY <1>1 DEF FactorInv, CodesMade, KeepsFactor
  <1>3. TwoFactorExact'
    BY DEF FactorInv, TwoFactorExact, KeepsFactor
  <1>4. FactorKept'
    BY DEF FactorInv, FactorKept, KeepsFactor, InTwoFactor
  <1> QED BY <1>2, <1>3, <1>4 DEF FactorInv

\* A request that begins to work on the columns is alone, or an overlap is noted.
LEMMA FactorBegun ==
    ASSUME TypeOK, TypeOK', FactorInv, NEW r \in Reqs, Only(r), acct' = acct, fresh' = fresh,
           UNCHANGED <<spent, proved, wrong>>, NoteOverlap(r),
           req'[r].used \subseteq acct.recoveryCodes,
           req'[r].pc = "success" => req'[r].codes = acct.recoveryCodes \ req'[r].used,
           req'[r].pc \in {"success", "failure"} => req'[r].attempts = acct.twoFactorFailedAttempts,
           req'[r].pc \in {"setup", "enable"} => ~acct.twoFactorEnabled,
           req'[r].pc = "enable" => req'[r].secret = acct.twoFactorSecret
    PROVE  FactorInv'
  <1>1. Made' = Made
    BY DEF Made
  <1>2. CodesMade'
    BY <1>1 DEF FactorInv, CodesMade, Only
  <1>3. ~overlap' => ~overlap /\ \A o \in Reqs \ {r} : ~InTwoFactor(o)
    BY DEF NoteOverlap, TypeOK
  <1>4. TwoFactorExact'
    BY <1>3 DEF FactorInv, TwoFactorExact
  <1>5. FactorKept'
    <2>1. ASSUME ~overlap'
          PROVE  \A q \in Reqs : InTwoFactor(q)' => q = r
      BY <1>3, <2>1 DEF InTwoFactor, Only
    <2>2. ASSUME ~overlap', NEW q \in Reqs
          PROVE  /\ req'[q].pc = "success" => /\ req'[q].codes \subseteq acct.recoveryCodes
                                              /\ req'[q].codes \cap req'[q].used = {}
                 /\ req'[q].pc \in {"success", "failure"} => req'[q].attempts = acct.twoFactorFailedAttempts
                 /\ req'[q].pc \in {"setup", "enable"} => ~acct.twoFactorEnabled
                 /\ req'[q].pc = "enable" => req'[q].secret = acct.twoFactorSecret
      <3>1. CASE q = r
        BY <3>1
      <3>2. CASE q # r
        BY <2>1, <2>2, <3>2 DEF InTwoFactor
      <3> QED BY <3>1, <3>2
    <2> QED BY <2>1, <2>2 DEF FactorKept
  <1> QED BY <1>2, <1>4, <1>5 DEF FactorInv

\* The one request that worked on the columns is done with them.
LEMMA FactorDone ==
    ASSUME TypeOK, TypeOK', FactorInv, NEW r \in Reqs, Only(r), fresh' >= fresh, UNCHANGED overlap,
           InTwoFactor(r), req'[r].pc \in {"idle", "signin"}, req'[r].used = {},
           CodesMade', TwoFactorExact'
    PROVE  FactorInv'
  <1>1. ASSUME ~overlap', NEW q \in Reqs
        PROVE  ~InTwoFactor(q)'
    <2>1. CASE q = r
      BY <2>1 DEF InTwoFactor
    <2>2. CASE q # r
      BY <1>1, <2>2 DEF FactorInv, FactorKept, InTwoFactor, Only
    <2> QED BY <2>1, <2>2
  <1>2. FactorKept'
    BY <1>1 DEF FactorKept, InTwoFactor
  <1> QED BY <1>2 DEF FactorInv

-----------------------------------------------------------------------------
(* Every step keeps the invariants *)

Inv == TypeOK /\ PasswordInv /\ ChallengeInv /\ FactorInv

LEMMA InitInv == Init => Inv
  <1> SUFFICES ASSUME Init PROVE Inv
    OBVIOUS
  <1>1. acct \in User /\ acct.tokenVersion = 0 /\ acct.passwordHash = 0 /\ acct.twoFactorChallenge = 0
        /\ acct.twoFactorFailedAttempts = 0 /\ acct.twoFactorSecret \in Fresh
        /\ acct.recoveryCodes \subseteq (1 .. acct.twoFactorSecret) \X Codes
    <2>1. CASE acct = NewUser
      BY <2>1, NumbersTyped DEF NewUser, User
    <2>2. CASE acct # NewUser
      <3>1. /\ 1 \in Fresh
            /\ acct = [NewUser EXCEPT !.twoFactorEnabled = TRUE, !.twoFactorSecret = 1, !.recoveryCodes = {1} \X Codes]
        BY <2>2 DEF Init
      <3>2. {1} \X Codes \subseteq Code
        BY <3>1, BoundAssumption DEF Code, Fresh
      <3>3. {1} \X Codes \subseteq (1 .. 1) \X Codes
        OBVIOUS
      <3> QED BY <3>1, <3>2, <3>3, NumbersTyped DEF NewUser, User
    <2> QED BY <2>1, <2>2
  <1>2. NoSession \in Session /\ NoSession.tokenVersion = 0 /\ NoSession.challenge = 0 /\ NoSession.state = "none"
    BY NumbersTyped DEF NoSession, Session
  <1>3. TypeOK
    BY <1>1, <1>2, IdleTyped, NumbersTyped DEF Init, TypeOK
  <1>4. /\ \A r \in Reqs : req[r].pc = "idle" /\ req[r].version = 0 /\ req[r].challenge = 0 /\ req[r].used = {}
        /\ \A s \in Sids : sessions[s].tokenVersion = 0 /\ sessions[s].challenge = 0 /\ sessions[s].state = "none"
    BY <1>2, IdleFields DEF Init
  <1>5. PasswordInv
    BY <1>1, <1>4 DEF PasswordInv, VersionsGrow, PasswordKnown
  <1>6. fresh \in Nat /\ fresh >= 0 /\ fresh = acct.twoFactorSecret
    BY <1>1, NumbersTyped DEF Init
  <1>7. ChallengeInv
    BY <1>1, <1>4, <1>6 DEF ChallengeInv, Drawn, Cleared, SingleUse, Holding
  <1>8. FactorInv
    BY <1>1, <1>4, <1>6 DEF Init, FactorInv, CodesMade, Made, FactorKept, InTwoFactor, TwoFactorExact
  <1> QED BY <1>3, <1>5, <1>7, <1>8 DEF Inv

\* A step that works on neither the sign-in's columns nor the second factor's: a request
\* reads, shows a session, ends, or ends sessions.
LEMMA QuietStep ==
    ASSUME Inv, Aged, UNCHANGED <<temps, fresh, History>>, acct' \in User,
           KeepsPassword, KeepsChallenge, KeepsFactor, req' \in [Reqs -> Request],
           \A r \in Reqs :
              \/ req'[r] = req[r] \/ req'[r] = Idle
              \/ /\ req'[r].pc \in {"session", "in", "revoke", "password"}
                 /\ req'[r].version \in {0, req[r].version} /\ req'[r].challenge \in {0, req[r].challenge}
                 /\ req'[r].used \in {{}, req[r].used}
              \/ /\ req'[r].pc \in {"issue", "challenge"} /\ req'[r].version = acct.tokenVersion
                 /\ req'[r].password = acct.passwordHash /\ req'[r].challenge = 0 /\ req'[r].used = {}
              \/ /\ req[r].pc = "signin" /\ req'[r].pc = "issue" /\ req'[r].version = acct.tokenVersion
                 /\ req'[r].challenge = req[r].challenge /\ req'[r].used = req[r].used
    PROVE  Inv'
  <1>0. TypeOK /\ PasswordInv /\ ChallengeInv /\ FactorInv
    BY DEF Inv
  <1>1. TypeOK'
    BY <1>0 DEF TypeOK, Aged, History
  <1>2. /\ acct.tokenVersion \in Nat /\ 0 <= acct.tokenVersion /\ acct.tokenVersion <= acct.tokenVersion
        /\ fresh \in Nat /\ fresh' >= fresh
    BY <1>0, NumbersTyped DEF TypeOK, User
  <1>3. PasswordInv'
    <2>1. \A r \in Reqs : req[r].version <= acct.tokenVersion /\ (req[r].pc = "signin" => req[r].challenge # 0)
      BY <1>0 DEF PasswordInv, VersionsGrow, PasswordKnown
    <2>2. \A r \in Reqs :
             \/ req'[r] = req[r]
             \/ /\ req'[r].version <= acct.tokenVersion
                /\ req'[r].pc \in {"code", "success", "failure", "signin"} => req'[r].challenge # 0
                /\ req'[r].pc = "issue" /\ req'[r].challenge = 0 /\ req'[r].version = acct.tokenVersion
                      => req'[r].password = acct.passwordHash
      BY <1>2, <2>1, IdleFields
    <2> QED BY <1>0, <1>1, <2>2, PasswordKept
  <1>4. ChallengeInv'
    <2>1. \A r \in Reqs :
             \/ req'[r] = req[r] \/ req'[r].challenge = 0
             \/ req'[r].pc \notin {"code", "success", "signin", "issue"} /\ req'[r].challenge = req[r].challenge
             \/ /\ req'[r].challenge = req[r].challenge /\ Holding(r, req[r].challenge)
                /\ req'[r].pc \in {"signin", "issue"} =>
                      req[r].pc \in {"signin", "issue"} \/ acct'.twoFactorChallenge = 0
      BY IdleFields DEF Holding
    <2>2. acct'.twoFactorChallenge \in {acct.twoFactorChallenge, 0} /\ shared \subseteq shared'
      BY DEF KeepsChallenge, History
    <2> QED BY <1>0, <1>1, <1>2, <2>1, <2>2, ChallengeKept
  <1>5. FactorInv'
    <2>1. \A r \in Reqs :
             \/ req'[r] = req[r]
             \/ /\ req'[r].pc \notin {"success", "failure", "setup", "enable", "disable"}
                /\ req'[r].used \in {{}, req[r].used}
      BY IdleFields
    <2>2. UNCHANGED <<spent, proved, wrong, overlap>>
      BY DEF History
    <2> QED BY <1>0, <1>1, <1>2, <2>1, <2>2, FactorUntouched
  <1> QED BY <1>1, <1>3, <1>4, <1>5 DEF Inv

\* The steps of that kind.
LEMMA QuietSteps ==
    ASSUME Inv,
           \/ \E r \in Reqs :
                \/ Login(r) \/ LoginTwoFactor(r) \/ verifyRefuses(r) \/ VerifySignIn(r)
                \/ AuthenticateSession(r) \/ Answered(r) \/ ChangePassword(r)
                \/ Logout(r) \/ RevokeOthers(r) \/ RevokeOneWrite(r)
                \/ \E s \in Sids : AuthenticateUser(r, s) \/ RevokeOne(r, s)
           \/ Deactivate \/ RestoreAccount \/ LockoutEnds \/ cleanupSessions
           \/ \E s \in Sids : SessionExpires(s)
    PROVE  Inv'
  <1>0. TypeOK /\ acct \in User /\ req \in [Reqs -> Request]
    BY DEF Inv, TypeOK
  <1>1. ASSUME acct' = acct
        PROVE  acct' \in User /\ KeepsPassword /\ KeepsChallenge /\ KeepsFactor
    BY <1>0, <1>1 DEF KeepsPassword, KeepsChallenge, KeepsFactor
  <1>2. ASSUME NEW r \in Reqs, Login(r) \/ LoginTwoFactor(r)
        PROVE  Inv'
    <2>1. /\ Only(r) /\ UNCHANGED <<acct, sessions, temps, fresh, History>>
          /\ req'[r].pc \in {"issue", "challenge"} /\ req'[r].version = acct.tokenVersion
          /\ req'[r].password = acct.passwordHash /\ req'[r].challenge = 0 /\ req'[r].used = {}
      BY <1>0, <1>2, LoginStep
    <2> QED BY <1>0, <1>1, <2>1, SessionsAged, QuietStep DEF Only
  <1>3. ASSUME NEW r \in Reqs, VerifySignIn(r), acct.isActive
        PROVE  Inv'
    <2>1. /\ Only(r) /\ UNCHANGED <<acct, sessions, temps, fresh, History>>
          /\ req[r].pc = "signin" /\ req'[r].pc = "issue" /\ req'[r].version = acct.tokenVersion
          /\ req'[r].challenge = req[r].challenge /\ req'[r].used = req[r].used
      BY <1>0, <1>3, SignInStep
    <2> QED BY <1>0, <1>1, <2>1, SessionsAged, QuietStep DEF Only
  <1>4. ASSUME NEW r \in Reqs,
               \/ verifyRefuses(r) \/ (VerifySignIn(r) /\ ~acct.isActive)
               \/ (AuthenticateSession(r) /\ ~validateSession(req[r].sid))
               \/ Answered(r) \/ Logout(r) \/ RevokeOthers(r) \/ RevokeOneWrite(r)
        PROVE  Inv'
    <2>1. Only(r) /\ req'[r] = Idle /\ Aged /\ UNCHANGED <<acct, temps, fresh, History>>
      BY <1>0, <1>4, EndStep
    <2> QED BY <1>0, <1>1, <2>1, QuietStep DEF Only
  <1>5. ASSUME NEW r \in Reqs,
               \/ (\E s \in Sids : AuthenticateUser(r, s) \/ RevokeOne(r, s))
               \/ (AuthenticateSession(r) /\ validateSession(req[r].sid))
               \/ ChangePassword(r)
        PROVE  Inv'
    <2>1. /\ Only(r) /\ UNCHANGED <<acct, sessions, temps, fresh, History>>
          /\ req'[r].pc \in {"session", "in", "revoke", "password"}
          /\ req'[r].version \in {0, req[r].version} /\ req'[r].challenge \in {0, req[r].challenge}
          /\ req'[r].used \in {{}, req[r].used}
      BY <1>0, <1>5, ShowStep
    <2> QED BY <1>0, <1>1, <2>1, SessionsAged, QuietStep DEF Only
  <1>6. CASE Deactivate \/ RestoreAccount \/ LockoutEnds
    <2>1. /\ acct' \in User /\ KeepsPassword /\ KeepsChallenge /\ KeepsFactor
          /\ UNCHANGED <<sessions, temps, req, fresh, History>>
      BY <1>0, <1>6, FlagStep
    <2> QED BY <1>0, <2>1, SessionsAged, QuietStep
  <1>7. CASE cleanupSessions \/ \E s \in Sids : SessionExpires(s)
    <2>1. Aged
      BY <1>0, <1>7, SessionsAged
    <2>2. UNCHANGED <<acct, temps, req, fresh, History>>
      BY <1>7 DEF cleanupSessions, SessionExpires
    <2> QED BY <1>0, <1>1, <2>1, <2>2, QuietStep
  <1> QED BY <1>2, <1>3, <1>4, <1>5, <1>6, <1>7

\* The version moves on, with the password or without.
LEMMA VersionInv ==
    ASSUME Inv, (\E r \in Reqs : changePassword(r)) \/ adminResetPassword \/ DeleteAccount
    PROVE  Inv'
  <1>0. TypeOK /\ PasswordInv /\ ChallengeInv /\ FactorInv
    BY DEF Inv
  <1>1. /\ req' \in [Reqs -> Request]
        /\ \A r \in Reqs : req'[r] = req[r] \/ req'[r] = Idle
        /\ UNCHANGED <<sessions, temps, History>>
        /\ fresh' \in Fresh /\ fresh' >= fresh
        /\ acct' \in User /\ acct'.tokenVersion = acct.tokenVersion + 1 /\ KeepsChallenge /\ KeepsFactor
    BY <1>0, VersionStep
  <1>2. Aged
    BY <1>0, <1>1, SessionsAged
  <1>3. TypeOK'
    BY <1>0, <1>1 DEF TypeOK, History
  <1>4. 0 <= acct.tokenVersion
    BY <1>0, NumbersTyped DEF TypeOK, User
  <1>5. PasswordInv'
    BY <1>0, <1>1, <1>2, <1>3, <1>4, IdleFields, PasswordKept
  <1>6. ChallengeInv'
    <2>1. acct'.twoFactorChallenge \in {acct.twoFactorChallenge, 0} /\ shared \subseteq shared'
      BY <1>1 DEF KeepsChallenge, History
    <2> QED BY <1>0, <1>1, <1>2, <1>3, <2>1, IdleFields, ChallengeKept
  <1>7. FactorInv'
    <2>1. UNCHANGED <<spent, proved, wrong, overlap>>
      BY <1>1 DEF History
    <2> QED BY <1>0, <1>1, <1>3, <2>1, IdleFields, FactorUntouched
  <1> QED BY <1>3, <1>5, <1>6, <1>7 DEF Inv

\* A challenge replaces the one stored.
LEMMA StartChallengeInv ==
    ASSUME Inv, NEW r \in Reqs, startLoginChallenge(r)
    PROVE  Inv'
  <1>0. TypeOK /\ PasswordInv /\ ChallengeInv /\ FactorInv
    BY DEF Inv
  <1>1. /\ Only(r) /\ req'[r] = Idle /\ UNCHANGED <<sessions, History>>
        /\ fresh \in Nat /\ fresh' = fresh + 1 /\ fresh' \in Fresh
        /\ temps' \subseteq TempToken
        /\ acct' \in User /\ KeepsPassword /\ KeepsFactor /\ acct'.twoFactorChallenge = fresh'
    BY <1>0, ChallengeStep
  <1>2. Aged
    BY <1>0, <1>1, SessionsAged
  <1>3. TypeOK'
    BY <1>0, <1>1 DEF TypeOK, History, Only
  <1>4. /\ 0 <= acct.tokenVersion /\ fresh' >= fresh /\ fresh' > fresh
        /\ \A o \in Reqs : req'[o] = req[o] \/ req'[o] = Idle
    BY <1>0, <1>1, NumbersTyped DEF TypeOK, User, Only
  <1>5. PasswordInv'
    BY <1>0, <1>1, <1>2, <1>3, <1>4, IdleFields, PasswordKept
  <1>6. ChallengeInv'
    <2>1. shared \subseteq shared'
      BY <1>1 DEF History
    <2> QED BY <1>0, <1>1, <1>2, <1>3, <1>4, <2>1, IdleFields, ChallengeKept
  <1>7. FactorInv'
    <2>1. UNCHANGED <<spent, proved, wrong, overlap>>
      BY <1>1 DEF History
    <2> QED BY <1>0, <1>1, <1>3, <1>4, <2>1, IdleFields, FactorUntouched
  <1> QED BY <1>3, <1>5, <1>6, <1>7 DEF Inv

LEMMA IssueInv ==
    ASSUME Inv, NEW r \in Reqs, NEW s \in Sids, Issue(r, s)
    PROVE  Inv'
  <1>0. TypeOK /\ PasswordInv /\ ChallengeInv /\ FactorInv
    BY DEF Inv
  <1>1. /\ Only(r) /\ req'[r] = Idle /\ UNCHANGED <<acct, temps, fresh, History>>
        /\ sessions' \in [Sids -> Session]
    BY <1>0, IssueStep
  <1>2. TypeOK'
    BY <1>0, <1>1 DEF TypeOK, History, Only
  <1>3. PasswordInv' /\ ChallengeInv'
    BY <1>0, <1>2, IssuePassword, IssueChallenge
  <1>4. FactorInv'
    <2>1. UNCHANGED <<spent, proved, wrong, overlap>> /\ KeepsFactor /\ fresh' >= fresh
      BY <1>0, <1>1, NumbersTyped DEF History, KeepsFactor, TypeOK
    <2> QED BY <1>0, <1>1, <1>2, <2>1, IdleFields, FactorUntouched DEF Only
  <1> QED BY <1>2, <1>3, <1>4 DEF Inv

LEMMA VerifyStartInv ==
    ASSUME Inv, NEW r \in Reqs, NEW t \in temps, VerifyStart(r, t)
    PROVE  Inv'
  <1>0. TypeOK /\ PasswordInv /\ ChallengeInv /\ FactorInv
    BY DEF Inv
  <1>1. /\ Only(r) /\ UNCHANGED <<acct, sessions, temps, fresh, spent, proved, wrong, overlap>>
        /\ req'[r].pc = "code" /\ req'[r].version = 0 /\ req'[r].used = {}
        /\ req'[r].challenge = acct.twoFactorChallenge /\ acct.twoFactorChallenge \in 1 .. MaxFresh
        /\ shared' \subseteq Fresh
    BY <1>0, VerifyStartStep
  <1>2. TypeOK'
    BY <1>0, <1>1 DEF TypeOK, Only
  <1>3. PasswordInv'
    <2>1. Aged /\ KeepsPassword
      BY <1>0, <1>1, SessionsAged DEF KeepsPassword
    <2>2. 0 <= acct.tokenVersion /\ acct.twoFactorChallenge # 0
      BY <1>0, <1>1, NumbersTyped DEF TypeOK, User
    <2>3. \A o \in Reqs :
             \/ req'[o] = req[o]
             \/ /\ req'[o].version <= acct.tokenVersion
                /\ req'[o].pc \in {"code", "success", "failure", "signin"} => req'[o].challenge # 0
                /\ req'[o].pc = "issue" /\ req'[o].challenge = 0 /\ req'[o].version = acct.tokenVersion
                      => req'[o].password = acct.passwordHash
      BY <1>1, <2>2 DEF Only
    <2> QED BY <1>0, <1>2, <2>1, <2>3, PasswordKept
  <1>4. ChallengeInv'
    BY <1>0, <1>2, VerifyStartChallenge
  <1>5. FactorInv'
    <2>1. KeepsFactor /\ fresh' >= fresh
      BY <1>0, <1>1, NumbersTyped DEF KeepsFactor, TypeOK
    <2> QED BY <1>0, <1>1, <1>2, <2>1, FactorUntouched DEF Only
  <1> QED BY <1>2, <1>3, <1>4, <1>5 DEF Inv

LEMMA OverlapTyped ==
    ASSUME NEW r \in Reqs, NoteOverlap(r)
    PROVE  overlap' \in BOOLEAN
  BY DEF NoteOverlap

\* A request read the second factor: verifyToken, or the setup, enable and disable requests.
LEMMA FactorReadInv ==
    ASSUME Inv, NEW r \in Reqs,
           \/ VerifyCode(r) \/ VerifyWrong(r) \/ (\E c \in acct.recoveryCodes : VerifyRecovery(r, c))
           \/ TwoFactorSetup(r) \/ TwoFactorEnable(r) \/ TwoFactorDisable(r)
    PROVE  Inv'
  <1>0. TypeOK /\ PasswordInv /\ ChallengeInv /\ FactorInv
    BY DEF Inv
  <1>1. /\ Only(r) /\ UNCHANGED <<acct, sessions, temps, fresh, spent, proved, wrong, shared>>
        /\ NoteOverlap(r) /\ req'[r].pc \in {"success", "failure", "setup", "enable", "disable"}
        /\ req'[r].used \subseteq acct.recoveryCodes
        /\ req'[r].pc = "success" => req'[r].codes = acct.recoveryCodes \ req'[r].used
        /\ req'[r].pc \in {"success", "failure"} =>
              /\ req[r].pc = "code" /\ req'[r].challenge = req[r].challenge
              /\ req'[r].version = req[r].version /\ req'[r].attempts = acct.twoFactorFailedAttempts
        /\ req'[r].pc \notin {"success", "failure"} => req'[r].version = 0 /\ req'[r].challenge = 0
        /\ req'[r].pc \in {"setup", "enable"} => ~acct.twoFactorEnabled
        /\ req'[r].pc = "enable" => req'[r].secret = acct.twoFactorSecret
    <2>1. CASE VerifyCode(r) \/ VerifyWrong(r) \/ (\E c \in acct.recoveryCodes : VerifyRecovery(r, c))
      BY <1>0, <2>1, VerifyTokenStep
    <2>2. CASE TwoFactorSetup(r) \/ TwoFactorEnable(r) \/ TwoFactorDisable(r)
      BY <1>0, <2>2, FactorReadStep
    <2> QED BY <2>1, <2>2
  <1>2. TypeOK'
    BY <1>0, <1>1, OverlapTyped DEF TypeOK, Only
  <1>3. Aged /\ KeepsPassword /\ fresh' >= fresh /\ 0 <= acct.tokenVersion
    BY <1>0, <1>1, SessionsAged, NumbersTyped DEF KeepsPassword, TypeOK, User
  <1>4. PasswordInv'
    <2>1. req[r].pc = "code" => req[r].challenge # 0 /\ req[r].version <= acct.tokenVersion
      BY <1>0 DEF PasswordInv, PasswordKnown, VersionsGrow
    <2>2. \A o \in Reqs :
             \/ req'[o] = req[o]
             \/ /\ req'[o].version <= acct.tokenVersion
                /\ req'[o].pc \in {"code", "success", "failure", "signin"} => req'[o].challenge # 0
                /\ req'[o].pc = "issue" /\ req'[o].challenge = 0 /\ req'[o].version = acct.tokenVersion
                      => req'[o].password = acct.passwordHash
      BY <1>1, <1>3, <2>1 DEF Only
    <2> QED BY <1>0, <1>2, <1>3, <2>2, PasswordKept
  <1>5. ChallengeInv'
    <2>1. \A o \in Reqs :
             \/ req'[o] = req[o] \/ req'[o].challenge = 0
             \/ req'[o].pc \notin {"code", "success", "signin", "issue"} /\ req'[o].challenge = req[o].challenge
             \/ /\ req'[o].challenge = req[o].challenge /\ Holding(o, req[o].challenge)
                /\ req'[o].pc \in {"signin", "issue"} =>
                      req[o].pc \in {"signin", "issue"} \/ acct'.twoFactorChallenge = 0
      BY <1>1 DEF Holding, Only
    <2> QED BY <1>0, <1>1, <1>2, <1>3, <2>1, ChallengeKept
  <1>6. FactorInv'
    BY <1>0, <1>1, <1>2, FactorBegun
  <1> QED BY <1>2, <1>4, <1>5, <1>6 DEF Inv

\* A request wrote the second factor's columns: what the invariants of the sign-in need.
LEMMA FactorWritten ==
    ASSUME Inv, TypeOK', NEW r \in Reqs, Only(r), sessions' = sessions, shared' = shared, fresh' >= fresh,
           KeepsPassword, InTwoFactor(r),
           \/ req'[r] = Idle /\ KeepsChallenge
           \/ /\ req[r].pc = "success" /\ req'[r].pc = "signin" /\ req'[r].version = req[r].version
              /\ req'[r].challenge = req[r].challenge /\ acct'.twoFactorChallenge = 0
    PROVE  PasswordInv' /\ ChallengeInv'
  <1>0. TypeOK /\ PasswordInv /\ ChallengeInv
    BY DEF Inv
  <1>1. Aged /\ 0 <= acct.tokenVersion
    BY <1>0, SessionsAged, NumbersTyped DEF TypeOK, User
  <1>2. PasswordInv'
    <2>1. req[r].pc = "success" => req[r].challenge # 0 /\ req[r].version <= acct.tokenVersion
      BY <1>0 DEF PasswordInv, PasswordKnown, VersionsGrow
    <2>2. \A o \in Reqs :
             \/ req'[o] = req[o]
             \/ /\ req'[o].version <= acct.tokenVersion
                /\ req'[o].pc \in {"code", "success", "failure", "signin"} => req'[o].challenge # 0
                /\ req'[o].pc = "issue" /\ req'[o].challenge = 0 /\ req'[o].version = acct.tokenVersion
                      => req'[o].password = acct.passwordHash
      BY <1>1, <2>1, IdleFields DEF Only
    <2> QED BY <1>0, <1>1, <2>2, PasswordKept
  <1>3. ChallengeInv'
    <2>1. \A o \in Reqs :
             \/ req'[o] = req[o] \/ req'[o].challenge = 0
             \/ req'[o].pc \notin {"code", "success", "signin", "issue"} /\ req'[o].challenge = req[o].challenge
             \/ /\ req'[o].challenge = req[o].challenge /\ Holding(o, req[o].challenge)
                /\ req'[o].pc \in {"signin", "issue"} =>
                      req[o].pc \in {"signin", "issue"} \/ acct'.twoFactorChallenge = 0
      BY IdleFields DEF Holding, Only
    <2>2. acct'.twoFactorChallenge \in {acct.twoFactorChallenge, 0}
      BY DEF KeepsChallenge
    <2> QED BY <1>0, <1>1, <2>1, <2>2, ChallengeKept
  <1> QED BY <1>2, <1>3

\* onVerifySuccess: the code used leaves the list for good, unless an overlap was noted.
LEMMA SuccessInv ==
    ASSUME Inv, NEW r \in Reqs, onVerifySuccess(r)
    PROVE  Inv'
  <1>0. TypeOK /\ FactorInv /\ fresh >= fresh /\ req[r].used \subseteq Code
    BY NumbersTyped DEF Inv, TypeOK, Request
  <1>1. /\ Only(r) /\ UNCHANGED <<sessions, temps, fresh, proved, overlap, shared>>
        /\ req[r].pc = "success" /\ req'[r].pc = "signin" /\ req'[r].version = req[r].version
        /\ req'[r].challenge = req[r].challenge /\ req'[r].used = {}
        /\ spent' = spent \cup req[r].used /\ wrong' = 0
        /\ acct' \in User /\ KeepsPassword /\ acct'.twoFactorChallenge = 0
        /\ acct'.recoveryCodes = req[r].codes /\ acct'.twoFactorFailedAttempts = 0
        /\ acct'.twoFactorEnabled = acct.twoFactorEnabled /\ acct'.twoFactorSecret = acct.twoFactorSecret
    BY <1>0, SuccessStep
  <1>2. TypeOK'
    BY <1>0, <1>1 DEF TypeOK, Only
  <1>3. InTwoFactor(r)
    BY <1>1 DEF InTwoFactor
  <1>4. PasswordInv' /\ ChallengeInv'
    BY <1>0, <1>1, <1>2, <1>3, FactorWritten
  <1>5. CodesMade'
    BY <1>0, <1>1 DEF FactorInv, CodesMade, Made, Only
  <1>6. TwoFactorExact'
    BY <1>0, <1>1 DEF FactorInv, FactorKept, TwoFactorExact
  <1>7. FactorInv'
    BY <1>0, <1>1, <1>2, <1>3, <1>5, <1>6, FactorDone
  <1> QED BY <1>2, <1>4, <1>7 DEF Inv

\* onVerifyFailure: the failure counts on from the number of failures so far.
LEMMA FailureInv ==
    ASSUME Inv, NEW r \in Reqs, onVerifyFailure(r)
    PROVE  Inv'
  <1>0. TypeOK /\ FactorInv /\ fresh >= fresh
    BY NumbersTyped DEF Inv, TypeOK
  <1>1. /\ Only(r) /\ UNCHANGED <<sessions, temps, fresh, spent, proved, overlap, shared>>
        /\ req[r].pc = "failure" /\ req'[r] = Idle
        /\ acct' \in User /\ KeepsPassword /\ KeepsChallenge
        /\ acct'.recoveryCodes = acct.recoveryCodes
        /\ acct'.twoFactorEnabled = acct.twoFactorEnabled /\ acct'.twoFactorSecret = acct.twoFactorSecret
        /\ acct'.twoFactorFailedAttempts = IF req[r].attempts + 1 >= MaxAttempts THEN 0 ELSE req[r].attempts + 1
        /\ wrong' = IF wrong + 1 >= MaxAttempts THEN 0 ELSE wrong + 1
        /\ wrong' \in Nat
    BY <1>0, FailureStep
  <1>2. TypeOK'
    BY <1>0, <1>1 DEF TypeOK, Only
  <1>3. InTwoFactor(r)
    BY <1>1 DEF InTwoFactor
  <1>4. PasswordInv' /\ ChallengeInv'
    BY <1>0, <1>1, <1>2, <1>3, FactorWritten
  <1>5. CodesMade'
    BY <1>0, <1>1, IdleFields DEF FactorInv, CodesMade, Made, Only
  <1>6. TwoFactorExact'
    <2>1. ~overlap => req[r].attempts = wrong
      BY <1>0, <1>1 DEF FactorInv, FactorKept, TwoFactorExact
    <2> QED BY <1>0, <1>1, <2>1 DEF FactorInv, TwoFactorExact
  <1>7. FactorInv'
    BY <1>0, <1>1, <1>2, <1>3, <1>5, <1>6, IdleFields, FactorDone
  <1> QED BY <1>2, <1>4, <1>7 DEF Inv

\* generateSetup: only an account without a second factor gets a new secret.
LEMMA SetupInv ==
    ASSUME Inv, NEW r \in Reqs, generateSetup(r)
    PROVE  Inv'
  <1>0. TypeOK /\ FactorInv
    BY DEF Inv
  <1>1. /\ Only(r) /\ req'[r] = Idle /\ req[r].pc = "setup" /\ UNCHANGED <<sessions, temps, History>>
        /\ fresh \in Nat /\ fresh' = fresh + 1 /\ fresh' \in Fresh
        /\ acct' \in User /\ KeepsPassword /\ KeepsChallenge
        /\ acct'.twoFactorEnabled = acct.twoFactorEnabled /\ acct'.recoveryCodes = acct.recoveryCodes
        /\ acct'.twoFactorFailedAttempts = acct.twoFactorFailedAttempts
    BY <1>0, SetupStep
  <1>2. TypeOK'
    BY <1>0, <1>1 DEF TypeOK, Only, History
  <1>3. InTwoFactor(r) /\ fresh' >= fresh /\ UNCHANGED <<spent, proved, wrong, overlap, shared>>
    BY <1>1 DEF InTwoFactor, History
  <1>4. PasswordInv' /\ ChallengeInv'
    BY <1>0, <1>1, <1>2, <1>3, FactorWritten
  <1>5. CodesMade'
    <2>1. Made \subseteq Made'
      BY <1>1, <1>3, MadeGrows, NumbersTyped
    <2> QED BY <1>0, <1>1, <1>3, <2>1, IdleFields DEF FactorInv, CodesMade, Only
  <1>6. TwoFactorExact'
    BY <1>0, <1>1, <1>3 DEF FactorInv, FactorKept, TwoFactorExact
  <1>7. FactorInv'
    BY <1>0, <1>1, <1>2, <1>3, <1>5, <1>6, IdleFields, FactorDone
  <1> QED BY <1>2, <1>4, <1>7 DEF Inv

\* verifyAndEnable: the codes are new, and the secret is the one whose code was checked.
LEMMA EnableInv ==
    ASSUME Inv, NEW r \in Reqs, verifyAndEnable(r)
    PROVE  Inv'
  <1>0. TypeOK /\ FactorInv /\ req[r].secret \in Fresh
    BY DEF Inv, TypeOK, Request
  <1>1. /\ Only(r) /\ req'[r] = Idle /\ req[r].pc = "enable"
        /\ UNCHANGED <<sessions, temps, spent, wrong, overlap, shared>> /\ proved' = req[r].secret
        /\ fresh \in Nat /\ fresh' = fresh + 1 /\ fresh' \in Fresh
        /\ acct' \in User /\ KeepsPassword /\ KeepsChallenge
        /\ acct'.recoveryCodes = {fresh'} \X Codes /\ acct'.twoFactorSecret = acct.twoFactorSecret
        /\ acct'.twoFactorFailedAttempts = acct.twoFactorFailedAttempts
    BY <1>0, EnableStep
  <1>2. TypeOK'
    BY <1>0, <1>1 DEF TypeOK, Only
  <1>3. InTwoFactor(r) /\ fresh' >= fresh
    BY <1>1 DEF InTwoFactor
  <1>4. PasswordInv' /\ ChallengeInv'
    BY <1>0, <1>1, <1>2, <1>3, FactorWritten
  <1>5. CodesMade'
    <2>1. Made \subseteq Made'
      BY <1>1, <1>3, MadeGrows, NumbersTyped
    <2>2. acct'.recoveryCodes \subseteq Made'
      BY <1>1 DEF Made
    <2> QED BY <1>0, <1>1, <2>1, <2>2, IdleFields DEF FactorInv, CodesMade, Only
  <1>6. TwoFactorExact'
    <2>1. spent \cap ({fresh'} \X Codes) = {}
      <3>1. \A c \in spent : c[1] \in 1 .. fresh
        BY <1>0 DEF FactorInv, CodesMade, Made
      <3>2. \A c \in {fresh'} \X Codes : c[1] = fresh + 1
        BY <1>1
      <3> QED BY <1>1, <3>1, <3>2
    <2> QED BY <1>0, <1>1, <2>1 DEF FactorInv, FactorKept, TwoFactorExact
  <1>7. FactorInv'
    BY <1>0, <1>1, <1>2, <1>3, <1>5, <1>6, IdleFields, FactorDone
  <1> QED BY <1>2, <1>4, <1>7 DEF Inv

\* disable and adminDisable2FA: nothing of the second factor remains.
LEMMA DisableInv ==
    ASSUME Inv, (\E r \in Reqs : disable(r)) \/ adminDisable2FA
    PROVE  Inv'
  <1>0. TypeOK /\ PasswordInv /\ ChallengeInv /\ FactorInv
    BY DEF Inv
  <1>1. /\ req' \in [Reqs -> Request]
        /\ \A r \in Reqs : req'[r] = req[r] \/ (req'[r] = Idle /\ req[r].pc = "disable")
        /\ acct' = WithoutTwoFactor /\ UNCHANGED <<sessions, temps, fresh, spent, proved, wrong, shared>>
        /\ overlap' \in BOOLEAN
        /\ \/ overlap' = overlap /\ \E r \in Reqs : req[r].pc = "disable" /\ req'[r] = Idle
           \/ ~overlap' => ~overlap /\ \A o \in Reqs : ~InTwoFactor(o)
    BY <1>0, DisableStep
  <1>2. /\ acct' \in User /\ KeepsPassword /\ KeepsChallenge
        /\ ~acct'.twoFactorEnabled /\ acct'.recoveryCodes = {}
        /\ acct'.twoFactorFailedAttempts = acct.twoFactorFailedAttempts
    BY <1>0, <1>1, WithoutTwoFactorTyped
  <1>3. TypeOK'
    BY <1>0, <1>1, <1>2 DEF TypeOK
  <1>4. Aged /\ 0 <= acct.tokenVersion /\ fresh' >= fresh
    BY <1>0, <1>1, SessionsAged, NumbersTyped DEF TypeOK, User
  <1>5. PasswordInv'
    BY <1>0, <1>1, <1>2, <1>3, <1>4, IdleFields, PasswordKept
  <1>6. ChallengeInv'
    <2>1. acct'.twoFactorChallenge \in {acct.twoFactorChallenge, 0}
      BY <1>2 DEF KeepsChallenge
    <2> QED BY <1>0, <1>1, <1>3, <1>4, <2>1, IdleFields, ChallengeKept
  <1>7. CodesMade'
    BY <1>0, <1>1, <1>2, IdleFields DEF FactorInv, CodesMade, Made
  <1>8. ~overlap' => ~overlap /\ \A o \in Reqs : ~InTwoFactor(o)'
    <2>1. ASSUME overlap' = overlap, ~overlap, NEW r \in Reqs, req[r].pc = "disable", req'[r] = Idle, NEW o \in Reqs
          PROVE  ~InTwoFactor(o)'
      <3>1. InTwoFactor(r)
        BY <2>1 DEF InTwoFactor
      <3>2. o # r => ~InTwoFactor(o)
        BY <1>0, <2>1, <3>1 DEF FactorInv, FactorKept
      <3>3. CASE o = r
        BY <2>1, <3>3, IdleFields DEF InTwoFactor
      <3>4. CASE o # r
        BY <1>1, <3>2, <3>4, IdleFields DEF InTwoFactor
      <3> QED BY <3>3, <3>4
    <2>2. ASSUME NEW o \in Reqs, ~InTwoFactor(o)
          PROVE  ~InTwoFactor(o)'
      BY <1>1, <2>2, IdleFields DEF InTwoFactor
    <2>3. CASE overlap' = overlap /\ \E r \in Reqs : req[r].pc = "disable" /\ req'[r] = Idle
      BY <2>1, <2>3
    <2> QED BY <1>1, <2>2, <2>3
  <1>9. FactorKept'
    BY <1>8 DEF FactorKept, InTwoFactor
  <1>10. TwoFactorExact'
    BY <1>0, <1>1, <1>2, <1>8 DEF FactorInv, TwoFactorExact
  <1> QED BY <1>3, <1>5, <1>6, <1>7, <1>9, <1>10 DEF Inv, FactorInv

LEMMA StepInv == Inv /\ [Next]_vars => Inv'
  <1> SUFFICES ASSUME Inv, [Next]_vars PROVE Inv'
    OBVIOUS
  <1>1. CASE UNCHANGED vars
    <2>1. /\ TypeOK' = TypeOK /\ PasswordInv' = PasswordInv /\ ChallengeInv' = ChallengeInv
      BY <1>1 DEF vars, TypeOK, PasswordInv, VersionsGrow, PasswordKnown, ChallengeInv, Drawn, Cleared,
                  SingleUse, Holding
    <2>2. FactorInv' = FactorInv
      BY <1>1 DEF vars, FactorInv, CodesMade, Made, FactorKept, InTwoFactor, TwoFactorExact
    <2> QED BY <2>1, <2>2 DEF Inv
  <1>2. ASSUME NEW r \in Reqs, SignIn(r)
        PROVE  Inv'
    <2>1. CASE \/ Login(r) \/ LoginTwoFactor(r) \/ verifyRefuses(r) \/ VerifySignIn(r)
      BY <2>1, QuietSteps
    <2>2. CASE \/ VerifyCode(r) \/ VerifyWrong(r) \/ (\E c \in acct.recoveryCodes : VerifyRecovery(r, c))
      BY <2>2, FactorReadInv
    <2> QED
      BY <1>2, <2>1, <2>2, StartChallengeInv, IssueInv, VerifyStartInv, SuccessInv, FailureInv DEF SignIn
  <1>3. ASSUME NEW r \in Reqs, SelfService(r)
        PROVE  Inv'
    <2>1. CASE \/ AuthenticateSession(r) \/ Answered(r) \/ ChangePassword(r)
               \/ Logout(r) \/ RevokeOthers(r) \/ RevokeOneWrite(r)
               \/ \E s \in Sids : AuthenticateUser(r, s) \/ RevokeOne(r, s)
      BY <2>1, QuietSteps
    <2>2. CASE TwoFactorSetup(r) \/ TwoFactorEnable(r) \/ TwoFactorDisable(r)
      BY <2>2, FactorReadInv
    <2> QED BY <1>3, <2>1, <2>2, VersionInv, SetupInv, EnableInv, DisableInv DEF SelfService
  <1>4. CASE Admin
    BY <1>4, QuietSteps, VersionInv, DisableInv DEF Admin
  <1> QED BY <1>1, <1>2, <1>3, <1>4, QuietSteps DEF Next

LEMMA Invariance == Spec => []Inv
  BY InitInv, StepInv, PTL DEF Spec

-----------------------------------------------------------------------------
(* The theorems *)

\* Every column, session, token and request keeps its type: the count of
\* failures that onVerifyFailure writes back stays below the limit, and no
\* version or number is drawn past its bound.
THEOREM AccountTypes == Spec => []TypeOK
  BY Invariance, PTL DEF Inv

\* Whatever session works was issued to somebody who proved the present
\* password, although login reads the row, compares the password and issues
\* the session in separate steps: a change in between also moved the version.
THEOREM PasswordIsBound == Spec => []PasswordBound
  <1>1. Inv => PasswordBound
    BY DEF Inv, PasswordInv, PasswordKnown, PasswordBound, Dead
  <1> QED BY <1>1, Invariance, PTL

\* A temporary token of /login signs in once, except where two requests had
\* checked its challenge before onVerifySuccess cleared it.
THEOREM ChallengeSignsInOnce == Spec => []ChallengeOnce
  <1>1. Inv => ChallengeOnce
    <2> SUFFICES ASSUME Inv, NEW s \in Sids, NEW t \in Sids, s # t,
                        sessions[s].challenge = sessions[t].challenge, sessions[s].challenge # 0,
                        sessions[s].challenge \notin shared
                 PROVE  FALSE
      BY DEF ChallengeOnce
    <2>1. sessions[s].challenge \in Fresh
      BY DEF Inv, TypeOK, Session
    <2> QED BY <2>1 DEF Inv, ChallengeInv, SingleUse
  <1> QED BY <1>1, Invariance, PTL

\* As long as no two requests work on the second factor at once, verifyToken,
\* verifyAndEnable, disable and their writes keep its columns exact.
THEOREM TwoFactorIsExact == Spec => []TwoFactorExact
  <1>1. Inv => TwoFactorExact
    BY DEF Inv, FactorInv
  <1> QED BY <1>1, Invariance, PTL

\* What a step does to the sessions and to the version.
LEMMA SessionsStep ==
    ASSUME Inv, [Next]_vars
    PROVE  /\ Aged \/ \E r \in Reqs, s \in Sids : Issue(r, s)
           /\ acct'.tokenVersion \in Nat /\ acct'.tokenVersion >= acct.tokenVersion
  <1>0. TypeOK /\ TypeOK'
    BY StepInv DEF Inv
  <1>1. acct.tokenVersion \in Nat /\ acct'.tokenVersion \in Nat
    BY <1>0, NumbersTyped DEF TypeOK, User
  <1> DEFINE Goal == /\ Aged \/ \E r \in Reqs, s \in Sids : Issue(r, s)
                     /\ acct'.tokenVersion >= acct.tokenVersion
  <1>2. ASSUME sessions' = sessions, acct' = acct PROVE Goal
    BY <1>0, <1>1, <1>2, SessionsAged
  <1>3. ASSUME sessions' = sessions, KeepsPassword PROVE Goal
    BY <1>0, <1>1, <1>3, SessionsAged DEF KeepsPassword
  <1>4. ASSUME NEW r \in Reqs, SignIn(r) PROVE Goal
    <2>1. CASE \E s \in Sids : Issue(r, s)
      BY <1>1, <2>1 DEF Issue
    <2>2. CASE Login(r) \/ LoginTwoFactor(r) \/ verifyRefuses(r) \/ VerifySignIn(r)
      BY <1>2, <2>2 DEF Login, LoginTwoFactor, login, verifyRefuses, VerifySignIn
    <2>3. CASE \E t \in temps : VerifyStart(r, t)
      BY <1>2, <2>3 DEF VerifyStart
    <2>4. CASE VerifyCode(r) \/ VerifyWrong(r) \/ (\E c \in acct.recoveryCodes : VerifyRecovery(r, c))
      BY <1>0, <1>2, <2>4, VerifyTokenStep
    <2> QED
      BY <1>0, <1>3, <1>4, <2>1, <2>2, <2>3, <2>4, ChallengeStep, SuccessStep, FailureStep DEF SignIn
  <1>5. CASE (\E r \in Reqs : changePassword(r)) \/ adminResetPassword \/ DeleteAccount
    BY <1>0, <1>1, <1>5, VersionStep, SessionsAged
  <1>6. CASE (\E r \in Reqs : disable(r)) \/ adminDisable2FA
    BY <1>0, <1>1, <1>3, <1>6, DisableStep, WithoutTwoFactorTyped
  <1>7. ASSUME NEW r \in Reqs, SelfService(r) PROVE Goal
    <2>1. CASE \/ Answered(r) \/ Logout(r) \/ RevokeOthers(r) \/ RevokeOneWrite(r)
               \/ (AuthenticateSession(r) /\ ~validateSession(req[r].sid))
      BY <1>0, <1>1, <2>1, EndStep
    <2>2. CASE \/ (\E s \in Sids : AuthenticateUser(r, s) \/ RevokeOne(r, s))
               \/ (AuthenticateSession(r) /\ validateSession(req[r].sid))
               \/ ChangePassword(r)
      BY <1>0, <1>2, <2>2, ShowStep
    <2>3. CASE TwoFactorSetup(r) \/ TwoFactorEnable(r) \/ TwoFactorDisable(r)
      BY <1>0, <1>2, <2>3, FactorReadStep
    <2> QED
      BY <1>0, <1>3, <1>5, <1>6, <1>7, <2>1, <2>2, <2>3, SetupStep, EnableStep DEF SelfService
  <1>8. CASE Deactivate \/ RestoreAccount \/ LockoutEnds
    BY <1>0, <1>1, <1>3, <1>8, FlagStep
  <1>9. CASE cleanupSessions \/ \E s \in Sids : SessionExpires(s)
    BY <1>0, <1>1, <1>9, SessionsAged DEF cleanupSessions, SessionExpires
  <1>10. CASE UNCHANGED vars
    BY <1>1, <1>2, <1>10 DEF vars
  <1>11. Goal
    BY <1>4, <1>5, <1>6, <1>7, <1>8, <1>9, <1>10 DEF Next, Admin
  <1> QED BY <1>1, <1>11

\* A token that was withdrawn never works again: no statement un-revokes a
\* session, and every change of tokenVersion moves it past all it ever was.
THEOREM WithdrawnTokensStayDead == Spec => WithdrawnStaysWithdrawn
  <1>1. ASSUME Inv, [Next]_vars, NEW s \in Sids, Dead(s)
        PROVE  Dead(s)'
    <2>1. /\ sessions[s].tokenVersion \in Nat /\ acct.tokenVersion \in Nat
          /\ sessions[s].tokenVersion <= acct.tokenVersion
      BY <1>1, NumbersTyped DEF Inv, TypeOK, Session, User, PasswordInv, VersionsGrow
    <2>2. acct'.tokenVersion \in Nat /\ acct'.tokenVersion >= acct.tokenVersion
      BY <1>1, SessionsStep
    <2>3. CASE Aged
      <3>1. /\ sessions'[s].tokenVersion = sessions[s].tokenVersion
            /\ \/ sessions'[s].state = sessions[s].state
               \/ sessions[s].state \in {"live", "ended"} /\ sessions'[s].state \in {"ended", "deleted"}
        BY <2>3 DEF Aged
      <3> QED BY <1>1, <2>1, <2>2, <3>1 DEF Dead
    <2>4. ASSUME NEW r \in Reqs, NEW t \in Sids, Issue(r, t)
          PROVE  Dead(s)'
      <3>1. sessions[t].state = "none" /\ acct' = acct /\ (s # t => sessions'[s] = sessions[s])
        BY <1>1, <2>4, IssueStep DEF Inv
      <3> QED BY <1>1, <3>1 DEF Dead
    <2> QED BY <1>1, <2>3, <2>4, SessionsStep
  <1>2. Inv /\ [Next]_vars => [\A s \in Sids : Dead(s) => Dead(s)']_vars
    BY <1>1
  <1> QED BY <1>2, Invariance, PTL DEF Spec, WithdrawnStaysWithdrawn
=============================================================================
