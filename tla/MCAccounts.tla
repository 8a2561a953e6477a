----------------------------- MODULE MCAccounts -----------------------------
(***************************************************************************)
(* Accounts for TLC: the modules Account, Members, Browser and RateLimit   *)
(* side by side.  They share no state, so a behaviour is that of one of    *)
(* them, which `part' names; Account and Members are further split by the  *)
(* operations that have to do with each other, so that two requests        *)
(* overlap in every way that matters within a state space TLC can cover.   *)
(***************************************************************************)
EXTENDS Account, Members, Browser, RateLimit, TLC

VARIABLE part

Parts == {"signin", "self", "people", "invitations", "organization", "purge",
          "browser", "limits"}

mcVars == <<part, vars, membersVars, browserVars, rateVars>>

\* A sign-in needs a second factor to be set up, self-service begins without one.
MCInit ==
    /\ part \in Parts
    /\ Init /\ MembersInit /\ BrowserInit /\ RateInit
    /\ part # "signin" => ~acct.twoFactorEnabled
    /\ part = "signin" => acct.twoFactorEnabled
    /\ part # "browser" => isSetup

AccountNext ==
    \/ \E r \in Reqs :
          \/ Login(r)
          \/ \E s \in Sids : Issue(r, s)
          \/ part = "signin" /\ SignIn(r)
          \/ part = "self" /\ SelfService(r)
    \/ RestoreAccount
    \/ part = "signin" /\ (adminResetPassword \/ adminDisable2FA \/ DeleteAccount \/ LockoutEnds)
    \/ part = "self" /\ (Deactivate \/ cleanupSessions \/ \E s \in Sids : SessionExpires(s))

MembersPart ==
    \/ \E u \in Users : setupInitialAdmin(u)
    \/ \E r \in Calls :
          \/ \E a \in Users : authenticate(r, a)
          \/ CallAnswered(r)
          \/ createUser(r)
          \/ \E u \in Users, role \in Role : CreateUser(r, u, role)
          \/ part = "people" /\ Accounts(r)
          \/ part = "invitations" /\ Invitations(r)
          \/ part = "organization" /\ Organization(r)
          \/ part = "purge" /\ (createOrganization(r) \/ CountAdmins(r) \/ WriteUser(r)
                                 \/ \E u \in Users : deleteUser(r, u))
    \/ part = "purge" /\ \E gone \in SUBSET Users : PurgeUsers(gone)
    \/ part = "invitations" /\ \E i \in Invites : acceptInvite(i)

MCNext ==
    /\ UNCHANGED part
    /\ \/ part \in {"signin", "self"} /\ AccountNext /\ UNCHANGED <<membersVars, browserVars, rateVars>>
       \/ part \in {"people", "invitations", "organization", "purge"} /\ MembersPart
              /\ UNCHANGED <<vars, browserVars, rateVars>>
       \/ part = "browser" /\ BrowserNext /\ UNCHANGED <<vars, membersVars, rateVars>>
       \/ part = "limits" /\ RateNext /\ UNCHANGED <<vars, membersVars, browserVars>>

MCSpec == MCInit /\ [][MCNext]_mcVars

\* Slots for requests are alike, and so are the ids.
MCSymmetry == Permutations(Reqs) \cup Permutations(Sids)

\* Rows, requests, tabs and counters keep their types; the bound on
\* twoFactorFailedAttempts is that of the lockout in onVerifyFailure.
AccountsTypesOK == TypeOK /\ MembersTypeOK /\ BrowserTypeOK /\ RateTypeOK

=============================================================================
