------------------------------- MODULE Members -------------------------------
(***************************************************************************)
(* Who may use the gateway: accounts and their system roles, invitations,  *)
(* and one organization with its members, as the handlers of users.router, *)
(* organizations.router and the public part of auth.router change them.    *)
(*                                                                         *)
(* A request is admitted with the role its user had when authenticate read *)
(* it, and then takes one step per awaited statement: look, count, write.  *)
(* What a look found is kept, and other requests run between the steps.    *)
(* Two transactions are serializable and therefore one step each: the      *)
(* first account (setup) and the acceptance of an invitation.              *)
(*                                                                         *)
(* Data: an account is known by its e-mail address, which is unique.  Of a *)
(* row only its role and whether it is active are kept; passwords, tokens  *)
(* and sessions are in Account.  Names, descriptions and the list requests *)
(* are left out, and so are teams, whose rows no rule looks at.            *)
(***************************************************************************)
EXTENDS Integers, FiniteSets

CONSTANTS
    Users,    \* e-mail addresses
    Calls,    \* request slots: how many requests may overlap
    Invites,  \* ids for rows of invite_tokens
    Nobody

ASSUME NobodyAssumption == Nobody \notin Users \cup Invites
ASSUME UsersFinite      == IsFiniteSet(Users)

VARIABLES
    users,          \* the users rows
    invites,        \* the invite_tokens rows
    org,            \* the organizations row
    member,         \* its org_memberships rows: the role of each account
    call,           \* the requests
    userOverlap,    \* history: two requests that change accounts overlapped
    memberOverlap,  \* history: two requests that change members overlapped
    inviteOverlap,  \* history: two requests that invite overlapped
    demoted         \* history: an OWNER was given a lesser role, or its account purged

membersVars == <<users, invites, org, member, call,
                 userOverlap, memberOverlap, inviteOverlap, demoted>>

Role    == {"ADMIN", "OPERATOR", "VIEWER"}
OrgRole == {"OWNER", "ADMIN", "MEMBER"}

UserRow == [state : {"none", "active", "inactive"}, role : Role]
Patch   == [state : {"unsent", "active", "inactive"}, role : Role \cup {"unsent"}]
Invite  == [state : {"none", "pending", "used"}, email : Users \cup {Nobody}, role : Role]

CallPC == {"idle", "in",
           "create",                        \* createUser
           "count", "write",                \* updateUser, deleteUser
           "restore",                       \* restoreUser
           "retire", "invite", "revoke",    \* invitations
           "orgadmin", "owner", "look",     \* addOrgMember, updateOrgMemberRole
           "add", "change", "countowners", "remove"}

Call ==
    [pc    : CallPC,
     actor : Users \cup {Nobody},
     role  : Role,                        \* the actor's, as authenticate read it
     of    : Users \cup {Nobody},         \* the account the request is about
     what  : Invites \cup {Nobody},       \* the invitation the request is about
     new   : Patch,                       \* what it will write to the account
     org   : OrgRole \cup {"none"},       \* the organization role to write
     then  : {"none", "add", "change"}]   \* POST or PUT of a member

NoCall ==
    [pc |-> "idle", actor |-> Nobody, role |-> "VIEWER", of |-> Nobody, what |-> Nobody,
     new |-> [state |-> "unsent", role |-> "unsent"], org |-> "none", then |-> "none"]

MembersTypeOK ==
    /\ users \in [Users -> UserRow]
    /\ invites \in [Invites -> Invite]
    /\ org \in {"none", "there", "deleted"}
    /\ member \in [Users -> OrgRole \cup {"none"}]
    /\ call \in [Calls -> Call]
    /\ userOverlap \in BOOLEAN /\ memberOverlap \in BOOLEAN /\ inviteOverlap \in BOOLEAN
    /\ demoted \in BOOLEAN

\* An empty database: the first thing to happen is setupInitialAdmin.
MembersInit ==
    /\ users = [u \in Users |-> [state |-> "none", role |-> "VIEWER"]]
    /\ invites = [i \in Invites |-> [state |-> "none", email |-> Nobody, role |-> "VIEWER"]]
    /\ org = "none"
    /\ member = [u \in Users |-> "none"]
    /\ call = [r \in Calls |-> NoCall]
    /\ userOverlap = FALSE /\ memberOverlap = FALSE /\ inviteOverlap = FALSE
    /\ demoted = FALSE

Exists(u)    == users[u].state # "none"
ActiveAdmins == {u \in Users : users[u] = [state |-> "active", role |-> "ADMIN"]}
Owners       == {u \in Users : member[u] = "OWNER"}

-----------------------------------------------------------------------------
(* Steps of a request *)

Continue(r, q) == call' = [call EXCEPT ![r] = q]

Finished(r) == Continue(r, NoCall)

accounts == <<users, userOverlap>>
invited  == <<invites, inviteOverlap>>
orgs     == <<org, member, memberOverlap, demoted>>

\* authenticate and authorize: the role is the one read here, whatever becomes
\* of the account while the request runs
authenticate(r, a) ==
    /\ call[r].pc = "idle"
    /\ users[a].state = "active"
    /\ call' = [call EXCEPT ![r] = [NoCall EXCEPT !.pc = "in", !.actor = a, !.role = users[a].role]]
    /\ UNCHANGED <<accounts, invited, orgs>>

authorize(r, roles) == call[r].pc = "in" /\ call[r].role \in roles

\* A request that is refused or that only reads
CallAnswered(r) ==
    /\ call[r].pc = "in"
    /\ Finished(r)
    /\ UNCHANGED <<accounts, invited, orgs>>

-----------------------------------------------------------------------------
(* Accounts *)

\* setupInitialAdmin, serializable
setupInitialAdmin(u) ==
    /\ \A v \in Users : ~Exists(v)
    /\ users' = [users EXCEPT ![u] = [state |-> "active", role |-> "ADMIN"]]
    /\ UNCHANGED <<userOverlap, invited, orgs, call>>

\* createUser: looks for the address, then creates; the address is unique
CreateUser(r, u, role) ==
    /\ authorize(r, {"ADMIN"})
    /\ ~Exists(u)
    /\ Continue(r, [NoCall EXCEPT !.pc = "create", !.of = u, !.new = [state |-> "active", role |-> role]])
    /\ UNCHANGED <<accounts, invited, orgs>>

createUser(r) ==
    /\ call[r].pc = "create"
    /\ users' = IF Exists(call[r].of) THEN users
                ELSE [users EXCEPT ![call[r].of] = call[r].new]
    /\ Finished(r)
    /\ UNCHANGED <<userOverlap, invited, orgs>>

\* A request that changes account u to `new' has read it, and either must count
\* the administrators first or may go on.
UserRead(r, u, new, guarded) ==
    /\ authorize(r, {"ADMIN"})
    /\ Exists(u)
    /\ Continue(r, [NoCall EXCEPT !.pc = IF guarded THEN "count" ELSE "write", !.of = u, !.new = new])
    /\ userOverlap' = (userOverlap \/ \E o \in Calls : call[o].pc \in {"count", "write"})
    /\ UNCHANGED <<users, invited, orgs>>

\* PUT /users/:id with a role, an isActive or both: guarded when an ADMIN would
\* lose the role or be deactivated
updateUser(r, u, patch) ==
    UserRead(r, u, patch,
             users[u].role = "ADMIN" /\ (patch.role \notin {"unsent", "ADMIN"} \/ patch.state = "inactive"))

\* DELETE /users/:id: guarded when the account is an active ADMIN
deleteUser(r, u) ==
    /\ u # call[r].actor
    /\ UserRead(r, u, [state |-> "inactive", role |-> "unsent"], u \in ActiveAdmins)

\* Mutant of CountAdmins: counts administrators that are not active too.
CountAllAdmins(r) ==
    /\ call[r].pc = "count"
    /\ IF Cardinality({u \in Users : Exists(u) /\ users[u].role = "ADMIN"}) <= 1
       THEN Finished(r)
       ELSE call' = [call EXCEPT ![r].pc = "write"]
    /\ UNCHANGED <<accounts, invited, orgs>>

\* The count of active administrators that the guards of both functions make
CountAdmins(r) ==
    /\ call[r].pc = "count"
    /\ IF Cardinality(ActiveAdmins) <= 1
       THEN Finished(r)
       ELSE call' = [call EXCEPT ![r].pc = "write"]
    /\ UNCHANGED <<accounts, invited, orgs>>

\* A field that is not sent keeps its value.
Patched(user, patch) ==
    [state |-> IF patch.state = "unsent" THEN user.state ELSE patch.state,
     role  |-> IF patch.role = "unsent" THEN user.role ELSE patch.role]

WriteUser(r) ==
    /\ call[r].pc = "write"
    /\ users' = [users EXCEPT ![call[r].of] = Patched(@, call[r].new)]
    /\ Finished(r)
    /\ UNCHANGED <<userOverlap, invited, orgs>>

\* restoreUser
RestoreUser(r, u) ==
    /\ authorize(r, {"ADMIN"})
    /\ users[u].state = "inactive"
    /\ Continue(r, [NoCall EXCEPT !.pc = "restore", !.of = u])
    /\ UNCHANGED <<accounts, invited, orgs>>

restoreUser(r) ==
    /\ call[r].pc = "restore"
    /\ users' = [users EXCEPT ![call[r].of].state = "active"]
    /\ Finished(r)
    /\ UNCHANGED <<userOverlap, invited, orgs>>

\* The job that deletes accounts which were inactive for 30 days, and with them
\* their memberships.  No request lasts that long.
PurgeUsers(gone) ==
    /\ gone # {}
    /\ \A u \in gone : users[u].state = "inactive"
    /\ \A r \in Calls : call[r].of \notin gone /\ call[r].actor \notin gone
    /\ users' = [u \in Users |-> IF u \in gone THEN [users[u] EXCEPT !.state = "none"] ELSE users[u]]
    /\ member' = [u \in Users |-> IF u \in gone THEN "none" ELSE member[u]]
    /\ demoted' = (demoted \/ gone \cap Owners # {})
    /\ UNCHANGED <<userOverlap, invited, org, memberOverlap, call>>

-----------------------------------------------------------------------------
(* Invitations *)

\* createInvite: no account with this address; mark the pending invitations of
\* the address as used; create the new one
CreateInvite(r, u, role) ==
    /\ authorize(r, {"ADMIN"})
    /\ ~Exists(u)
    /\ Continue(r, [NoCall EXCEPT !.pc = "retire", !.of = u, !.new.role = role])
    /\ inviteOverlap' = (inviteOverlap \/ \E o \in Calls : call[o].pc \in {"retire", "invite"})
    /\ UNCHANGED <<accounts, invites, orgs>>

\* Mutant of RetireInvites: the older invitations stay.
KeepInvites(r) ==
    /\ call[r].pc = "retire"
    /\ call' = [call EXCEPT ![r].pc = "invite"]
    /\ UNCHANGED <<accounts, invited, orgs>>

RetireInvites(r) ==
    /\ call[r].pc = "retire"
    /\ invites' = [i \in Invites |->
           IF invites[i].email = call[r].of /\ invites[i].state = "pending"
           THEN [invites[i] EXCEPT !.state = "used"] ELSE invites[i]]
    /\ call' = [call EXCEPT ![r].pc = "invite"]
    /\ UNCHANGED <<accounts, inviteOverlap, orgs>>

createInvite(r, i) ==
    /\ call[r].pc = "invite"
    /\ invites[i].state = "none"
    /\ invites' = [invites EXCEPT ![i] =
           [state |-> "pending", email |-> call[r].of, role |-> call[r].new.role]]
    /\ Finished(r)
    /\ UNCHANGED <<accounts, inviteOverlap, orgs>>

\* acceptInvite, serializable; validateInvite, which the page asks first,
\* changes nothing
acceptInvite(i) ==
    /\ invites[i].state = "pending"
    /\ ~Exists(invites[i].email)
    /\ invites' = [invites EXCEPT ![i].state = "used"]
    /\ users' = [users EXCEPT ![invites[i].email] =
                     [state |-> "active", role |-> invites[i].role]]
    /\ UNCHANGED <<userOverlap, inviteOverlap, orgs, call>>

\* revokeInvite: looks, then marks
RevokeInvite(r, i) ==
    /\ authorize(r, {"ADMIN"})
    /\ invites[i].state = "pending"
    /\ Continue(r, [NoCall EXCEPT !.pc = "revoke", !.what = i])
    /\ UNCHANGED <<accounts, invited, orgs>>

revokeInvite(r) ==
    /\ call[r].pc = "revoke"
    /\ invites' = [invites EXCEPT ![call[r].what].state = "used"]
    /\ Finished(r)
    /\ UNCHANGED <<accounts, inviteOverlap, orgs>>

-----------------------------------------------------------------------------
(* The organization and its members *)

\* createOrganization: a transaction that makes the creator its OWNER
createOrganization(r) ==
    /\ authorize(r, {"ADMIN"})
    /\ org = "none"
    /\ org' = "there"
    /\ member' = [member EXCEPT ![call[r].actor] = "OWNER"]
    /\ Finished(r)
    /\ UNCHANGED <<accounts, invited, memberOverlap, demoted>>

\* deleteOrganization takes the memberships with it
deleteOrganization(r) ==
    /\ authorize(r, {"ADMIN"})
    /\ org = "there"
    /\ org' = "deleted"
    /\ member' = [u \in Users |-> "none"]
    /\ Finished(r)
    /\ UNCHANGED <<accounts, invited, memberOverlap, demoted>>

\* A request that changes members is under way from its first look on.
Changing(o) == call[o].pc \in {"orgadmin", "owner", "look", "add", "change", "countowners", "remove"}

NoteMembers(r) == memberOverlap' = (memberOverlap \/ \E o \in Calls \ {r} : Changing(o))

\* POST and PUT of a member: u is the account, role the role to give
MemberRequest(r, u, role, then) ==
    /\ authorize(r, {"ADMIN", "OPERATOR"})
    /\ Exists(u)
    /\ call' = [call EXCEPT ![r].pc = "orgadmin", ![r].of = u, ![r].org = role, ![r].then = then]
    /\ NoteMembers(r)
    /\ UNCHANGED <<accounts, invited, org, member, demoted>>

\* canManageOrgRoutes, then, for the role OWNER, the membership of the requester
assertOrgAdmin(r) ==
    /\ call[r].pc = "orgadmin"
    /\ IF call[r].role = "ADMIN" \/ member[call[r].actor] \in {"OWNER", "ADMIN"}
       THEN call' = [call EXCEPT ![r].pc = IF call[r].org = "OWNER" THEN "owner" ELSE "look"]
       ELSE Finished(r)
    /\ UNCHANGED <<accounts, invited, orgs>>

OnlyOwnersAssignOwner(r) ==
    /\ call[r].pc = "owner"
    /\ IF member[call[r].actor] = "OWNER"
       THEN call' = [call EXCEPT ![r].pc = "look"]
       ELSE Finished(r)
    /\ UNCHANGED <<accounts, invited, orgs>>

\* addOrgMember and updateOrgMemberRole look for the membership first
LookForMember(r) ==
    /\ call[r].pc = "look"
    /\ IF (call[r].then = "add") = (member[call[r].of] = "none")
       THEN call' = [call EXCEPT ![r].pc = call[r].then]
       ELSE Finished(r)
    /\ UNCHANGED <<accounts, invited, orgs>>

\* The membership is unique per account, and needs its organization
addOrgMember(r) ==
    /\ call[r].pc = "add"
    /\ member' = IF org = "there" /\ member[call[r].of] = "none"
                 THEN [member EXCEPT ![call[r].of] = call[r].org] ELSE member
    /\ Finished(r)
    /\ UNCHANGED <<accounts, invited, org, memberOverlap, demoted>>

\* updateOrgMemberRole: nothing keeps the last OWNER from being given another
\* role; the update fails when the membership is gone (one that was removed and
\* made again counts as the same row here)
updateOrgMemberRole(r) ==
    /\ call[r].pc = "change"
    /\ member' = IF member[call[r].of] # "none"
                 THEN [member EXCEPT ![call[r].of] = call[r].org] ELSE member
    /\ demoted' = (demoted \/ (member[call[r].of] = "OWNER" /\ call[r].org # "OWNER"))
    /\ Finished(r)
    /\ UNCHANGED <<accounts, invited, org, memberOverlap>>

\* removeOrgMember: "Don't allow removing the last OWNER"
RemoveMember(r, u) ==
    /\ authorize(r, {"ADMIN"})
    /\ member[u] # "none"
    /\ Continue(r, [NoCall EXCEPT !.pc = IF member[u] = "OWNER" THEN "countowners" ELSE "remove",
                                  !.of = u])
    /\ NoteMembers(r)
    /\ UNCHANGED <<accounts, invited, org, member, demoted>>

\* Mutant of CountOwners: an off-by-one.
CountOwnersBelowOne(r) ==
    /\ call[r].pc = "countowners"
    /\ IF Cardinality(Owners) < 1
       THEN Finished(r)
       ELSE call' = [call EXCEPT ![r].pc = "remove"]
    /\ UNCHANGED <<accounts, invited, orgs>>

CountOwners(r) ==
    /\ call[r].pc = "countowners"
    /\ IF Cardinality(Owners) <= 1
       THEN Finished(r)
       ELSE call' = [call EXCEPT ![r].pc = "remove"]
    /\ UNCHANGED <<accounts, invited, orgs>>

removeOrgMember(r) ==
    /\ call[r].pc = "remove"
    /\ member' = [member EXCEPT ![call[r].of] = "none"]
    /\ Finished(r)
    /\ UNCHANGED <<accounts, invited, org, memberOverlap, demoted>>

-----------------------------------------------------------------------------

Accounts(r) ==
    \/ \E u \in Users, role \in Role : CreateUser(r, u, role)
    \/ \E u \in Users, patch \in Patch : updateUser(r, u, patch)
    \/ \E u \in Users : deleteUser(r, u) \/ RestoreUser(r, u)
    \/ createUser(r) \/ CountAdmins(r) \/ WriteUser(r) \/ restoreUser(r)

Invitations(r) ==
    \/ \E u \in Users, role \in Role : CreateInvite(r, u, role)
    \/ RetireInvites(r)
    \/ \E i \in Invites : createInvite(r, i) \/ RevokeInvite(r, i)
    \/ revokeInvite(r)

Organization(r) ==
    \/ createOrganization(r) \/ deleteOrganization(r)
    \/ \E u \in Users, role \in OrgRole : MemberRequest(r, u, role, "add") \/ MemberRequest(r, u, role, "change")
    \/ assertOrgAdmin(r) \/ OnlyOwnersAssignOwner(r) \/ LookForMember(r)
    \/ addOrgMember(r) \/ updateOrgMemberRole(r)
    \/ \E u \in Users : RemoveMember(r, u)
    \/ CountOwners(r) \/ removeOrgMember(r)

MembersNext ==
    \/ \E u \in Users : setupInitialAdmin(u)
    \/ \E i \in Invites : acceptInvite(i)
    \/ \E gone \in SUBSET Users : PurgeUsers(gone)
    \/ \E r \in Calls :
          \/ \E a \in Users : authenticate(r, a)
          \/ CallAnswered(r)
          \/ Accounts(r) \/ Invitations(r) \/ Organization(r)

MembersSpec == MembersInit /\ [][MembersNext]_membersVars

-----------------------------------------------------------------------------
(* Properties *)

\* The guards of updateUser and deleteUser work: unless two requests that change
\* accounts overlap, there is always an active administrator once setup is done.
AdminRemains ==
    (\E u \in Users : Exists(u)) /\ ~userOverlap => ActiveAdmins # {}

\* The organization keeps an OWNER unless requests that change members overlap,
\* or somebody gave an OWNER another role or an OWNER's account was purged,
\* which no guard prevents.
OwnerRemains ==
    org = "there" /\ ~memberOverlap /\ ~demoted => Owners # {}

\* A new invitation replaces the pending ones of its address: there are two
\* only when two requests to invite overlapped.
OneInvite ==
    \A i, j \in Invites :
        /\ i # j
        /\ invites[i].state = "pending" /\ invites[j].state = "pending"
        /\ invites[i].email = invites[j].email
        => inviteOverlap

=============================================================================
