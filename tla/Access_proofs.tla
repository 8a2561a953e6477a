---------------------------- MODULE Access_proofs ----------------------------
(***************************************************************************)
(* Who has access, for any number of accounts, requests, invitations,      *)
(* browser tabs and replicas: what the guards of the account, invitation   *)
(* and organization requests achieve, when the browser loses its cookie,   *)
(* and the bound of the shared rate limiter.                               *)
(***************************************************************************)
EXTENDS MCAccounts, Account_proofs, FiniteSetTheorems, TLAPS

-----------------------------------------------------------------------------
(* Members: types of what the steps make *)

LEMMA NoCallTyped == NoCall \in Call
  BY DEF NoCall, Call, CallPC, Role, Patch

LEMMA NoCallFields ==
    NoCall.pc = "idle" /\ NoCall.of = Nobody /\ NoCall.actor = Nobody
  BY DEF NoCall

\* Of the requests only r may have changed.
Moved(r) == call' \in [Calls -> Call] /\ \A o \in Calls \ {r} : call'[o] = call[o]

LEMMA CallMoved ==
    ASSUME MembersTypeOK, NEW r \in Calls, NEW q \in Call, call' = [call EXCEPT ![r] = q]
    PROVE  Moved(r) /\ call'[r] = q
  BY DEF MembersTypeOK, Moved

LEMMA Ended ==
    ASSUME MembersTypeOK, NEW r \in Calls, Finished(r)
    PROVE  Moved(r) /\ call'[r] = NoCall
  BY NoCallTyped, CallMoved DEF Finished, Continue

LEMMA Advanced ==
    ASSUME MembersTypeOK, NEW r \in Calls, NEW p \in CallPC, call' = [call EXCEPT ![r].pc = p]
    PROVE  /\ Moved(r) /\ call'[r].pc = p /\ call'[r].of = call[r].of /\ call'[r].new = call[r].new
           /\ call'[r].then = call[r].then /\ call'[r].actor = call[r].actor
  <1> DEFINE q == [call[r] EXCEPT !.pc = p]
  <1>1. call[r] \in Call
    BY DEF MembersTypeOK
  <1>2. /\ q \in Call /\ q.pc = p /\ q.of = call[r].of /\ q.new = call[r].new
        /\ q.then = call[r].then /\ q.actor = call[r].actor
    BY <1>1 DEF Call
  <1>3. call' = [call EXCEPT ![r] = q]
    OBVIOUS
  <1> HIDE DEF q
  <1>4. Moved(r) /\ call'[r] = q
    BY <1>2, <1>3, CallMoved
  <1> QED BY <1>2, <1>4

LEMMA AuthenticateStep ==
    ASSUME MembersTypeOK, NEW r \in Calls, NEW a \in Users, authenticate(r, a)
    PROVE  /\ Moved(r) /\ call'[r].pc = "in" /\ call'[r].actor = a
           /\ users[a].state = "active" /\ UNCHANGED <<accounts, invited, orgs>>
  <1> DEFINE q == [NoCall EXCEPT !.pc = "in", !.actor = a, !.role = users[a].role]
  <1>1. users[a].role \in Role /\ "in" \in CallPC
    BY DEF MembersTypeOK, UserRow, CallPC
  <1>2. q \in Call /\ q.pc = "in" /\ q.actor = a
    BY <1>1, NoCallTyped DEF Call, NoCall
  <1>3. call' = [call EXCEPT ![r] = q] /\ users[a].state = "active" /\ UNCHANGED <<accounts, invited, orgs>>
    BY DEF authenticate
  <1> HIDE DEF q
  <1>4. Moved(r) /\ call'[r] = q
    BY <1>2, <1>3, CallMoved
  <1> QED BY <1>2, <1>3, <1>4

LEMMA CreateUserStep ==
    ASSUME MembersTypeOK, NEW r \in Calls, NEW u \in Users, NEW role \in Role, CreateUser(r, u, role)
    PROVE  /\ Moved(r) /\ call[r].pc = "in" /\ call'[r].pc = "create" /\ call'[r].new \in UserRow
           /\ UNCHANGED <<accounts, invited, orgs>>
  <1> DEFINE q == [NoCall EXCEPT !.pc = "create", !.of = u, !.new = [state |-> "active", role |-> role]]
  <1>1. [state |-> "active", role |-> role] \in Patch \cap UserRow /\ "create" \in CallPC
    BY DEF Patch, UserRow, CallPC
  <1>2. q \in Call /\ q.pc = "create" /\ q.new = [state |-> "active", role |-> role]
    BY <1>1, NoCallTyped DEF Call, NoCall
  <1>3. call' = [call EXCEPT ![r] = q] /\ call[r].pc = "in" /\ UNCHANGED <<accounts, invited, orgs>>
    BY DEF CreateUser, Continue, authorize
  <1> HIDE DEF q
  <1>4. Moved(r) /\ call'[r] = q
    BY <1>2, <1>3, CallMoved
  <1> QED BY <1>1, <1>2, <1>3, <1>4

LEMMA UserReadStep ==
    ASSUME MembersTypeOK, NEW r \in Calls, NEW u \in Users, NEW new \in Patch, NEW g \in BOOLEAN,
           UserRead(r, u, new, g)
    PROVE  /\ Moved(r) /\ call[r].pc = "in" /\ call'[r].pc = (IF g THEN "count" ELSE "write")
           /\ call'[r].of = u /\ call'[r].new = new
           /\ userOverlap' \in BOOLEAN
           /\ ~userOverlap' => ~userOverlap /\ \A o \in Calls : call[o].pc \notin {"count", "write"}
           /\ UNCHANGED <<users, invited, orgs>>
  <1> DEFINE p == IF g THEN "count" ELSE "write"
             q == [NoCall EXCEPT !.pc = p, !.of = u, !.new = new]
  <1>1. p \in CallPC
    BY DEF CallPC
  <1>2. q \in Call /\ q.pc = p /\ q.of = u /\ q.new = new
    BY <1>1, NoCallTyped DEF Call, NoCall
  <1>3. call' = [call EXCEPT ![r] = q] /\ call[r].pc = "in" /\ UNCHANGED <<users, invited, orgs>>
    BY DEF UserRead, Continue, authorize
  <1>5. userOverlap' = (userOverlap \/ \E o \in Calls : call[o].pc \in {"count", "write"})
    BY DEF UserRead
  <1>6. /\ userOverlap' \in BOOLEAN
        /\ ~userOverlap' => ~userOverlap /\ \A o \in Calls : call[o].pc \notin {"count", "write"}
    BY <1>5 DEF MembersTypeOK
  <1> HIDE DEF q
  <1>4. Moved(r) /\ call'[r] = q
    BY <1>2, <1>3, CallMoved
  <1> QED BY <1>2, <1>3, <1>4, <1>6

LEMMA RestoreUserStep ==
    ASSUME MembersTypeOK, NEW r \in Calls, NEW u \in Users, RestoreUser(r, u)
    PROVE  Moved(r) /\ call[r].pc = "in" /\ call'[r].pc = "restore" /\ UNCHANGED <<accounts, invited, orgs>>
  <1> DEFINE q == [NoCall EXCEPT !.pc = "restore", !.of = u]
  <1>2. q \in Call /\ q.pc = "restore"
    BY NoCallTyped DEF Call, NoCall, CallPC
  <1>3. call' = [call EXCEPT ![r] = q] /\ call[r].pc = "in" /\ UNCHANGED <<accounts, invited, orgs>>
    BY DEF RestoreUser, Continue, authorize
  <1> HIDE DEF q
  <1> QED BY <1>2, <1>3, CallMoved

LEMMA RevokeInviteStep ==
    ASSUME MembersTypeOK, NEW r \in Calls, NEW i \in Invites, RevokeInvite(r, i)
    PROVE  Moved(r) /\ call[r].pc = "in" /\ call'[r].pc = "revoke" /\ UNCHANGED <<accounts, invited, orgs>>
  <1> DEFINE q == [NoCall EXCEPT !.pc = "revoke", !.what = i]
  <1>2. q \in Call /\ q.pc = "revoke"
    BY NoCallTyped DEF Call, NoCall, CallPC
  <1>3. call' = [call EXCEPT ![r] = q] /\ call[r].pc = "in" /\ UNCHANGED <<accounts, invited, orgs>>
    BY DEF RevokeInvite, Continue, authorize
  <1> HIDE DEF q
  <1> QED BY <1>2, <1>3, CallMoved

LEMMA CreateInviteStep ==
    ASSUME MembersTypeOK, NEW r \in Calls, NEW u \in Users, NEW role \in Role, CreateInvite(r, u, role)
    PROVE  /\ Moved(r) /\ call[r].pc = "in" /\ call'[r].pc = "retire" /\ call'[r].new.role \in Role
           /\ inviteOverlap' \in BOOLEAN
           /\ ~inviteOverlap' => ~inviteOverlap /\ \A o \in Calls : call[o].pc \notin {"retire", "invite"}
           /\ UNCHANGED <<accounts, invites, orgs>>
  <1> DEFINE n == [state |-> "unsent", role |-> role]
             q == [NoCall EXCEPT !.pc = "retire", !.of = u, !.new = n]
  <1>1. n \in Patch /\ n.role \in Role /\ "retire" \in CallPC
    BY DEF Patch, CallPC
  <1>2. q \in Call /\ q.pc = "retire" /\ q.new = n
    BY <1>1, NoCallTyped DEF Call, NoCall
  <1>3. call' = [call EXCEPT ![r] = q] /\ call[r].pc = "in" /\ UNCHANGED <<accounts, invites, orgs>>
    <2>1. [NoCall.new EXCEPT !.role = role] = n
      BY DEF NoCall
    <2>2. [NoCall EXCEPT !.pc = "retire", !.of = u, !.new.role = role]
             = [NoCall EXCEPT !.pc = "retire", !.of = u, !.new = [NoCall.new EXCEPT !.role = role]]
      BY DEF NoCall
    <2> QED BY <2>1, <2>2 DEF CreateInvite, Continue, authorize
  <1>5. inviteOverlap' = (inviteOverlap \/ \E o \in Calls : call[o].pc \in {"retire", "invite"})
    BY DEF CreateInvite
  <1>6. /\ inviteOverlap' \in BOOLEAN
        /\ ~inviteOverlap' => ~inviteOverlap /\ \A o \in Calls : call[o].pc \notin {"retire", "invite"}
    BY <1>5 DEF MembersTypeOK
  <1> HIDE DEF n, q
  <1>4. Moved(r) /\ call'[r] = q
    BY <1>2, <1>3, CallMoved
  <1> QED BY <1>1, <1>2, <1>3, <1>4, <1>6

LEMMA MembersNoted ==
    ASSUME MembersTypeOK, NEW r \in Calls, NoteMembers(r)
    PROVE  /\ memberOverlap' \in BOOLEAN
           /\ ~memberOverlap' => ~memberOverlap /\ \A o \in Calls \ {r} : ~Changing(o)
  BY DEF MembersTypeOK, NoteMembers

LEMMA MemberRequestStep ==
    ASSUME MembersTypeOK, NEW r \in Calls, NEW u \in Users, NEW role \in OrgRole, NEW then \in {"add", "change"},
           MemberRequest(r, u, role, then)
    PROVE  /\ Moved(r) /\ call[r].pc = "in" /\ call'[r].pc = "orgadmin" /\ call'[r].then = then
           /\ NoteMembers(r) /\ UNCHANGED <<accounts, invited, org, member, demoted>>
  <1> DEFINE q == [call[r] EXCEPT !.pc = "orgadmin", !.of = u, !.org = role, !.then = then]
  <1>1. call[r] \in Call /\ "orgadmin" \in CallPC
    BY DEF MembersTypeOK, CallPC
  <1>2. q \in Call /\ q.pc = "orgadmin" /\ q.then = then
    BY <1>1 DEF Call
  <1>3. /\ call' = [call EXCEPT ![r] = q] /\ call[r].pc = "in"
        /\ NoteMembers(r) /\ UNCHANGED <<accounts, invited, org, member, demoted>>
    BY DEF MemberRequest, authorize
  <1> HIDE DEF q
  <1>4. Moved(r) /\ call'[r] = q
    BY <1>2, <1>3, CallMoved
  <1> QED BY <1>2, <1>3, <1>4

LEMMA RemoveMemberStep ==
    ASSUME MembersTypeOK, NEW r \in Calls, NEW u \in Users, RemoveMember(r, u)
    PROVE  /\ Moved(r) /\ call[r].pc = "in" /\ call'[r].of = u /\ member[u] # "none"
           /\ call'[r].pc = (IF member[u] = "OWNER" THEN "countowners" ELSE "remove")
           /\ NoteMembers(r) /\ UNCHANGED <<accounts, invited, org, member, demoted>>
  <1> DEFINE p == IF member[u] = "OWNER" THEN "countowners" ELSE "remove"
             q == [NoCall EXCEPT !.pc = p, !.of = u]
  <1>1. p \in CallPC
    BY DEF CallPC
  <1>2. q \in Call /\ q.pc = p /\ q.of = u
    BY <1>1, NoCallTyped DEF Call, NoCall
  <1>3. /\ call' = [call EXCEPT ![r] = q] /\ call[r].pc = "in" /\ member[u] # "none"
        /\ NoteMembers(r) /\ UNCHANGED <<accounts, invited, org, member, demoted>>
    BY DEF RemoveMember, Continue, authorize
  <1> HIDE DEF q
  <1>4. Moved(r) /\ call'[r] = q
    BY <1>2, <1>3, CallMoved
  <1> QED BY <1>2, <1>3, <1>4

\* What a request carries where its next step needs it.
Shaped(c) ==
    /\ c.pc = "in" => c.actor \in Users
    /\ c.pc = "create" => c.new \in UserRow
    /\ c.pc \in {"retire", "invite"} => c.new.role \in Role
    /\ c.pc \in {"orgadmin", "owner", "look"} => c.then \in {"add", "change"}

MembersTyped == MembersTypeOK /\ \A r \in Calls : Shaped(call[r])

LEMMA NoCallShaped == Shaped(NoCall)
  BY NoCallFields DEF Shaped

\* An active account is left as it is.
ActiveKept == \A u \in Users : users[u].state = "active" => users'[u] = users[u]

\* The steps that make, restore and purge accounts.
LEMMA UsersStep ==
    ASSUME MembersTyped,
           \/ \E r \in Calls : createUser(r) \/ restoreUser(r)
           \/ \E i \in Invites : acceptInvite(i)
           \/ \E gone \in SUBSET Users : PurgeUsers(gone)
    PROVE  users' \in [Users -> UserRow] /\ ActiveKept
  <1>0. /\ users \in [Users -> UserRow] /\ \A u \in Users : users[u] \in UserRow
        /\ \A i \in Invites : invites[i].role \in Role
    BY DEF MembersTyped, MembersTypeOK, Invite
  <1>2. ASSUME NEW v, NEW w \in UserRow, ~Exists(v), users' = [users EXCEPT ![v] = w]
        PROVE  users' \in [Users -> UserRow] /\ ActiveKept
    <2>1. users' \in [Users -> UserRow]
      BY <1>0, <1>2
    <2>2. ASSUME NEW u \in Users, users[u].state = "active"
          PROVE  users'[u] = users[u]
      <3>1. u # v
        BY <1>2, <2>2 DEF Exists
      <3> QED BY <1>0, <1>2, <3>1
    <2> QED BY <2>1, <2>2 DEF ActiveKept
  <1>3. ASSUME NEW r \in Calls, createUser(r)
        PROVE  users' \in [Users -> UserRow] /\ ActiveKept
    <2>1. call[r].new \in UserRow
      BY <1>3 DEF createUser, MembersTyped, Shaped
    <2>2. CASE users' = users
      BY <1>0, <2>2 DEF ActiveKept
    <2>3. CASE ~Exists(call[r].of) /\ users' = [users EXCEPT ![call[r].of] = call[r].new]
      BY <1>2, <2>1, <2>3
    <2> QED BY <1>3, <2>2, <2>3 DEF createUser
  <1>4. ASSUME NEW r \in Calls, restoreUser(r)
        PROVE  users' \in [Users -> UserRow] /\ ActiveKept
    <2>1. users' = [users EXCEPT ![call[r].of] = [users[call[r].of] EXCEPT !.state = "active"]]
      BY <1>4 DEF restoreUser
    <2> DEFINE v == call[r].of
               w == [users[v] EXCEPT !.state = "active"]
    <2>2. ASSUME v \in Users
          PROVE  w \in UserRow /\ (users[v].state = "active" => w = users[v])
      <3>1. users[v] \in UserRow
        BY <1>0, <2>2
      <3> QED BY <3>1 DEF UserRow
    <2>3. users' = [users EXCEPT ![v] = w]
      BY <2>1
    <2> HIDE DEF v, w
    <2> QED BY <1>0, <2>2, <2>3 DEF ActiveKept
  <1>5. ASSUME NEW i \in Invites, acceptInvite(i)
        PROVE  users' \in [Users -> UserRow] /\ ActiveKept
    <2>1. [state |-> "active", role |-> invites[i].role] \in UserRow
      BY <1>0 DEF UserRow
    <2> QED BY <1>2, <1>5, <2>1 DEF acceptInvite
  <1>6. ASSUME NEW gone \in SUBSET Users, PurgeUsers(gone)
        PROVE  users' \in [Users -> UserRow] /\ ActiveKept
    <2>1. /\ \A u \in gone : users[u].state = "inactive"
          /\ users' = [u \in Users |-> IF u \in gone THEN [users[u] EXCEPT !.state = "none"] ELSE users[u]]
      BY <1>6 DEF PurgeUsers
    <2> DEFINE F(u) == IF u \in gone THEN [users[u] EXCEPT !.state = "none"] ELSE users[u]
    <2>2. ASSUME NEW u \in Users
          PROVE  F(u) \in UserRow /\ (users[u].state = "active" => F(u) = users[u])
      <3>1. users[u] \in UserRow
        BY <1>0
      <3> QED BY <2>1, <3>1 DEF UserRow
    <2>3. users' = [u \in Users |-> F(u)]
      BY <2>1
    <2> HIDE DEF F
    <2> QED BY <2>2, <2>3 DEF ActiveKept
  <1> QED BY <1>3, <1>4, <1>5, <1>6

LEMMA PatchedTyped ==
    ASSUME NEW w \in UserRow, NEW p \in Patch
    PROVE  Patched(w, p) \in UserRow
  BY DEF Patched, UserRow, Patch

\* updateUser and deleteUser wrote the row they read.
LEMMA WriteUserStep ==
    ASSUME MembersTyped, NEW r \in Calls, WriteUser(r)
    PROVE  /\ users' \in [Users -> UserRow] /\ call[r].pc = "write"
           /\ \A u \in Users : users'[u] = IF u = call[r].of THEN Patched(users[u], call[r].new) ELSE users[u]
  <1>1. users \in [Users -> UserRow] /\ call[r].new \in Patch
    BY DEF MembersTyped, MembersTypeOK, Call
  <1>2. users' = [users EXCEPT ![call[r].of] = Patched(users[call[r].of], call[r].new)] /\ call[r].pc = "write"
    BY DEF WriteUser
  <1> QED BY <1>1, <1>2, PatchedTyped

\* Invitations are made, used up and retired.
LEMMA InvitesStep ==
    ASSUME MembersTyped,
           \/ \E r \in Calls : RetireInvites(r) \/ revokeInvite(r) \/ \E i \in Invites : createInvite(r, i)
           \/ \E i \in Invites : acceptInvite(i)
    PROVE  invites' \in [Invites -> Invite]
  <1>0. invites \in [Invites -> Invite] /\ call \in [Calls -> Call]
    BY DEF MembersTyped, MembersTypeOK
  <1>1. \A w \in Invite : [w EXCEPT !.state = "used"] \in Invite
    BY DEF Invite
  <1>2. ASSUME NEW r \in Calls, RetireInvites(r)
        PROVE  invites' \in [Invites -> Invite]
    BY <1>0, <1>1, <1>2 DEF RetireInvites
  <1>3. ASSUME NEW i, invites' = [invites EXCEPT ![i].state = "used"]
        PROVE  invites' \in [Invites -> Invite]
    BY <1>0, <1>1, <1>3
  <1>4. ASSUME NEW r \in Calls, NEW i \in Invites, createInvite(r, i)
        PROVE  invites' \in [Invites -> Invite]
    <2>1. call[r].new.role \in Role /\ call[r].of \in Users \cup {Nobody}
      BY <1>0, <1>4 DEF createInvite, MembersTyped, Shaped, Call
    <2>2. [state |-> "pending", email |-> call[r].of, role |-> call[r].new.role] \in Invite
      BY <2>1 DEF Invite
    <2> QED BY <1>0, <1>4, <2>2 DEF createInvite
  <1> QED BY <1>2, <1>3, <1>4 DEF revokeInvite, acceptInvite

LEMMA MembershipStep ==
    ASSUME MembersTyped,
           \/ \E r \in Calls : \/ createOrganization(r) \/ deleteOrganization(r)
                               \/ addOrgMember(r) \/ updateOrgMemberRole(r) \/ removeOrgMember(r)
           \/ \E gone \in SUBSET Users : PurgeUsers(gone)
    PROVE  member' \in [Users -> OrgRole \cup {"none"}] /\ org' \in {"none", "there", "deleted"} /\ demoted' \in BOOLEAN
  <1>0. /\ member \in [Users -> OrgRole \cup {"none"}] /\ call \in [Calls -> Call]
        /\ \A r \in Calls : call[r].org \in OrgRole \cup {"none"}
        /\ org \in {"none", "there", "deleted"} /\ demoted \in BOOLEAN
    BY DEF MembersTyped, MembersTypeOK, Call
  <1>1. "OWNER" \in OrgRole
    BY DEF OrgRole
  <1>2. org' \in {"none", "there", "deleted"} /\ demoted' \in BOOLEAN
    BY <1>0 DEF createOrganization, deleteOrganization, addOrgMember, updateOrgMemberRole, removeOrgMember,
                PurgeUsers, orgs
  <1>3. member' \in [Users -> OrgRole \cup {"none"}]
    BY <1>0, <1>1 DEF createOrganization, deleteOrganization, addOrgMember, updateOrgMemberRole, removeOrgMember,
                      PurgeUsers
  <1> QED BY <1>2, <1>3

-----------------------------------------------------------------------------
(* Members: every step keeps the types *)

LEMMA OneShaped ==
    ASSUME MembersTyped, NEW r \in Calls, Moved(r), Shaped(call'[r])
    PROVE  call' \in [Calls -> Call] /\ \A o \in Calls : Shaped(call'[o])
  BY DEF MembersTyped, Moved

\* What becomes of the requests in the steps that end or advance one.
LEMMA EndingStep ==
    ASSUME MembersTyped, NEW r \in Calls,
           \/ CallAnswered(r) \/ createUser(r) \/ WriteUser(r) \/ restoreUser(r)
           \/ (\E i \in Invites : createInvite(r, i)) \/ revokeInvite(r)
           \/ createOrganization(r) \/ deleteOrganization(r)
           \/ addOrgMember(r) \/ updateOrgMemberRole(r) \/ removeOrgMember(r)
    PROVE  Moved(r) /\ call'[r] = NoCall
  <1>1. Finished(r)
    BY DEF CallAnswered, createUser, WriteUser, restoreUser, createInvite, revokeInvite, createOrganization,
           deleteOrganization, addOrgMember, updateOrgMemberRole, removeOrgMember
  <1> QED BY <1>1, Ended DEF MembersTyped

LEMMA PassingStep ==
    ASSUME MembersTyped, NEW r \in Calls,
           \/ CountAdmins(r) \/ RetireInvites(r) \/ assertOrgAdmin(r) \/ OnlyOwnersAssignOwner(r)
           \/ LookForMember(r) \/ CountOwners(r)
    PROVE  /\ Moved(r)
           /\ \/ call'[r] = NoCall /\ ~RetireInvites(r)
              \/ /\ call'[r].of = call[r].of /\ call'[r].new = call[r].new /\ call'[r].then = call[r].then
                 /\ \/ call[r].pc = "count" /\ call'[r].pc = "write" /\ ~(Cardinality(ActiveAdmins) <= 1)
                    \/ call[r].pc = "retire" /\ call'[r].pc = "invite"
                    \/ call[r].pc \in {"orgadmin", "owner"} /\ call'[r].pc \in {"owner", "look"}
                    \/ call[r].pc = "look" /\ call'[r].pc \in {"add", "change"}
                    \/ call[r].pc = "countowners" /\ call'[r].pc = "remove" /\ ~(Cardinality(Owners) <= 1)
  <1>0. MembersTypeOK /\ Shaped(call[r])
    BY DEF MembersTyped
  <1>1. ASSUME Finished(r) PROVE Moved(r) /\ call'[r] = NoCall
    BY <1>0, <1>1, Ended
  <1>2. ASSUME NEW p \in {"write", "invite", "owner", "look", "add", "change", "remove"},
               call' = [call EXCEPT ![r].pc = p]
        PROVE  /\ Moved(r) /\ call'[r].pc = p /\ call'[r].of = call[r].of /\ call'[r].new = call[r].new
               /\ call'[r].then = call[r].then
    <2>1. p \in CallPC
      BY DEF CallPC
    <2> QED BY <1>0, <1>2, <2>1, Advanced
  <1>3. CASE CountAdmins(r)
    <2>1. CASE Cardinality(ActiveAdmins) <= 1
      BY <1>1, <1>3, <2>1 DEF CountAdmins, RetireInvites
    <2>2. CASE ~(Cardinality(ActiveAdmins) <= 1)
      BY <1>2, <1>3, <2>2 DEF CountAdmins
    <2> QED BY <2>1, <2>2
  <1>4. CASE RetireInvites(r)
    BY <1>2, <1>4 DEF RetireInvites
  <1>5. CASE assertOrgAdmin(r)
    <2>1. CASE Finished(r)
      BY <1>1, <1>5, <2>1 DEF assertOrgAdmin, RetireInvites
    <2>2. CASE ~Finished(r)
      BY <1>2, <1>5, <2>2 DEF assertOrgAdmin
    <2> QED BY <2>1, <2>2
  <1>6. CASE OnlyOwnersAssignOwner(r)
    <2>1. CASE Finished(r)
      BY <1>1, <1>6, <2>1 DEF OnlyOwnersAssignOwner, RetireInvites
    <2>2. CASE ~Finished(r)
      BY <1>2, <1>6, <2>2 DEF OnlyOwnersAssignOwner
    <2> QED BY <2>1, <2>2
  <1>7. CASE LookForMember(r)
    <2>1. CASE Finished(r)
      BY <1>1, <1>7, <2>1 DEF LookForMember, RetireInvites
    <2>2. CASE ~Finished(r)
      <3>1. call[r].then \in {"add", "change"} /\ call[r].pc = "look"
        BY <1>0, <1>7 DEF LookForMember, Shaped
      <3>2. call' = [call EXCEPT ![r].pc = call[r].then]
        BY <1>7, <2>2 DEF LookForMember
      <3> QED BY <1>2, <3>1, <3>2
    <2> QED BY <2>1, <2>2
  <1>8. CASE CountOwners(r)
    <2>1. CASE Cardinality(Owners) <= 1
      BY <1>1, <1>8, <2>1 DEF CountOwners, RetireInvites
    <2>2. CASE ~(Cardinality(Owners) <= 1)
      BY <1>2, <1>8, <2>2 DEF CountOwners
    <2> QED BY <2>1, <2>2
  <1> QED BY <1>3, <1>4, <1>5, <1>6, <1>7, <1>8

LEMMA MembersInitTyped == MembersInit => MembersTyped
  <1> SUFFICES ASSUME MembersInit PROVE MembersTyped
    OBVIOUS
  <1>1. /\ [state |-> "none", role |-> "VIEWER"] \in UserRow
        /\ [state |-> "none", email |-> Nobody, role |-> "VIEWER"] \in Invite
    BY DEF UserRow, Invite, Role
  <1>2. MembersTypeOK
    BY <1>1, NoCallTyped DEF MembersInit, MembersTypeOK
  <1>3. \A r \in Calls : Shaped(call[r])
    BY NoCallShaped DEF MembersInit
  <1> QED BY <1>2, <1>3 DEF MembersTyped

\* The requests a step leaves behind.
LEMMA CallsTyped ==
    ASSUME MembersTyped, NEW r \in Calls,
           (\E a \in Users : authenticate(r, a)) \/ CallAnswered(r) \/ Accounts(r) \/ Invitations(r) \/ Organization(r)
    PROVE  call' \in [Calls -> Call] /\ \A o \in Calls : Shaped(call'[o])
  <1>0. MembersTypeOK /\ Shaped(call[r])
    BY DEF MembersTyped
  <1> SUFFICES Moved(r) /\ Shaped(call'[r])
    BY OneShaped
  <1>1. CASE \E a \in Users : authenticate(r, a)
    BY <1>0, <1>1, AuthenticateStep DEF Shaped
  <1>2. CASE \/ CallAnswered(r) \/ createUser(r) \/ WriteUser(r) \/ restoreUser(r)
             \/ (\E i \in Invites : createInvite(r, i)) \/ revokeInvite(r)
             \/ createOrganization(r) \/ deleteOrganization(r)
             \/ addOrgMember(r) \/ updateOrgMemberRole(r) \/ removeOrgMember(r)
    BY <1>2, EndingStep, NoCallShaped
  <1>3. CASE \/ CountAdmins(r) \/ RetireInvites(r) \/ assertOrgAdmin(r) \/ OnlyOwnersAssignOwner(r)
             \/ LookForMember(r) \/ CountOwners(r)
    BY <1>0, <1>3, PassingStep, NoCallShaped DEF Shaped
  <1>4. CASE \E u \in Users, role \in Role : CreateUser(r, u, role)
    BY <1>0, <1>4, CreateUserStep DEF Shaped
  <1>5. ASSUME NEW u \in Users, NEW new \in Patch, NEW g \in BOOLEAN, UserRead(r, u, new, g)
        PROVE  Moved(r) /\ Shaped(call'[r])
    BY <1>0, <1>5, UserReadStep DEF Shaped
  <1>6. CASE \E u \in Users, patch \in Patch : updateUser(r, u, patch)
    BY <1>5, <1>6 DEF updateUser
  <1>7. CASE \E u \in Users : deleteUser(r, u)
    <2>1. [state |-> "inactive", role |-> "unsent"] \in Patch
      BY DEF Patch
    <2>2. PICK u \in Users : UserRead(r, u, [state |-> "inactive", role |-> "unsent"], u \in ActiveAdmins)
      BY <1>7 DEF deleteUser
    <2>3. (u \in ActiveAdmins) \in BOOLEAN
      OBVIOUS
    <2> QED BY <1>5, <2>1, <2>2, <2>3
  <1>8. CASE \E u \in Users : RestoreUser(r, u)
    BY <1>0, <1>8, RestoreUserStep DEF Shaped
  <1>9. CASE \E u \in Users, role \in Role : CreateInvite(r, u, role)
    BY <1>0, <1>9, CreateInviteStep DEF Shaped
  <1>10. CASE \E i \in Invites : RevokeInvite(r, i)
    BY <1>0, <1>10, RevokeInviteStep DEF Shaped
  <1>11. CASE \E u \in Users, role \in OrgRole : MemberRequest(r, u, role, "add") \/ MemberRequest(r, u, role, "change")
    BY <1>0, <1>11, MemberRequestStep DEF Shaped
  <1>12. CASE \E u \in Users : RemoveMember(r, u)
    BY <1>0, <1>12, RemoveMemberStep DEF Shaped
  <1> QED
    BY <1>1, <1>2, <1>3, <1>4, <1>6, <1>7, <1>8, <1>9, <1>10, <1>11, <1>12 DEF Accounts, Invitations, Organization

\* The first account.
LEMMA SetupAdminStep ==
    ASSUME MembersTyped, NEW u \in Users, setupInitialAdmin(u)
    PROVE  /\ users' \in [Users -> UserRow] /\ users'[u] = [state |-> "active", role |-> "ADMIN"]
           /\ \A v \in Users : ~Exists(v)
           /\ UNCHANGED <<userOverlap, invited, orgs, call>>
  <1>1. [state |-> "active", role |-> "ADMIN"] \in UserRow /\ users \in [Users -> UserRow]
    BY DEF UserRow, Role, MembersTyped, MembersTypeOK
  <1> QED BY <1>1 DEF setupInitialAdmin

\* updateUser and deleteUser have read the account, and decided whether to count.
LEMMA ReadToChange ==
    ASSUME MembersTyped, NEW r \in Calls,
           (\E u \in Users, patch \in Patch : updateUser(r, u, patch)) \/ (\E u \in Users : deleteUser(r, u))
    PROVE  \E u \in Users, new \in Patch, g \in BOOLEAN :
              /\ UserRead(r, u, new, g)
              /\ ~g /\ u \in ActiveAdmins => Patched(users[u], new) = [state |-> "active", role |-> "ADMIN"]
  <1>1. ASSUME NEW u \in Users, NEW patch \in Patch, updateUser(r, u, patch)
        PROVE  \E g \in BOOLEAN :
                  /\ UserRead(r, u, patch, g)
                  /\ ~g /\ u \in ActiveAdmins => Patched(users[u], patch) = [state |-> "active", role |-> "ADMIN"]
    <2> DEFINE g == users[u].role = "ADMIN" /\ (patch.role \notin {"unsent", "ADMIN"} \/ patch.state = "inactive")
    <2>1. UserRead(r, u, patch, g) /\ g \in BOOLEAN
      BY <1>1 DEF updateUser
    <2>2. ASSUME ~g, u \in ActiveAdmins
          PROVE  Patched(users[u], patch) = [state |-> "active", role |-> "ADMIN"]
      <3>1. users[u].role = "ADMIN" /\ users[u].state = "active"
        BY <2>2 DEF ActiveAdmins
      <3>2. patch.role \in {"unsent", "ADMIN"} /\ patch.state \in {"unsent", "active"}
        BY <2>2, <3>1 DEF Patch
      <3> QED BY <3>1, <3>2 DEF Patched
    <2> HIDE DEF g
    <2> QED BY <2>1, <2>2
  <1>2. ASSUME NEW u \in Users, deleteUser(r, u)
        PROVE  \E new \in Patch, g \in BOOLEAN :
                  /\ UserRead(r, u, new, g)
                  /\ ~g /\ u \in ActiveAdmins => Patched(users[u], new) = [state |-> "active", role |-> "ADMIN"]
    <2> DEFINE n == [state |-> "inactive", role |-> "unsent"]
               g == u \in ActiveAdmins
    <2>1. n \in Patch /\ g \in BOOLEAN
      BY DEF Patch
    <2>2. UserRead(r, u, n, g)
      BY <1>2 DEF deleteUser
    <2>3. ~g => u \notin ActiveAdmins
      OBVIOUS
    <2> HIDE DEF n, g
    <2> QED BY <2>1, <2>2, <2>3
  <1> QED BY <1>1, <1>2

\* The rows a step leaves behind.
LEMMA RowsTyped ==
    ASSUME MembersTyped, MembersNext
    PROVE  /\ users' \in [Users -> UserRow] /\ invites' \in [Invites -> Invite]
           /\ org' \in {"none", "there", "deleted"} /\ member' \in [Users -> OrgRole \cup {"none"}]
           /\ userOverlap' \in BOOLEAN /\ memberOverlap' \in BOOLEAN /\ inviteOverlap' \in BOOLEAN
           /\ demoted' \in BOOLEAN
  <1>0. /\ MembersTypeOK
        /\ users \in [Users -> UserRow] /\ invites \in [Invites -> Invite]
        /\ org \in {"none", "there", "deleted"} /\ member \in [Users -> OrgRole \cup {"none"}]
        /\ userOverlap \in BOOLEAN /\ memberOverlap \in BOOLEAN /\ inviteOverlap \in BOOLEAN
        /\ demoted \in BOOLEAN
    BY DEF MembersTyped, MembersTypeOK
  <1>1. CASE UNCHANGED <<accounts, invited, orgs>>
    BY <1>0, <1>1 DEF accounts, invited, orgs
  <1>2. CASE \E u \in Users : setupInitialAdmin(u)
    BY <1>0, <1>2, SetupAdminStep DEF invited, orgs
  <1>3. CASE \E i \in Invites : acceptInvite(i)
    BY <1>0, <1>3, UsersStep, InvitesStep DEF acceptInvite, orgs
  <1>4. CASE \E gone \in SUBSET Users : PurgeUsers(gone)
    <2>1. UNCHANGED <<userOverlap, invited, memberOverlap>>
      BY <1>4 DEF PurgeUsers
    <2> QED BY <1>0, <1>4, <2>1, UsersStep, MembershipStep DEF invited
  <1>5. ASSUME NEW r \in Calls, Accounts(r)
        PROVE  UNCHANGED <<invited, orgs>> /\ users' \in [Users -> UserRow] /\ userOverlap' \in BOOLEAN
    <2>1. CASE createUser(r) \/ restoreUser(r)
      BY <1>0, <2>1, UsersStep DEF createUser, restoreUser
    <2>2. CASE WriteUser(r)
      BY <1>0, <2>2, WriteUserStep DEF WriteUser
    <2>3. CASE (\E u \in Users, patch \in Patch : updateUser(r, u, patch)) \/ (\E u \in Users : deleteUser(r, u))
      BY <1>0, <2>3, ReadToChange, UserReadStep
    <2>4. CASE \/ (\E u \in Users, role \in Role : CreateUser(r, u, role))
               \/ (\E u \in Users : RestoreUser(r, u)) \/ CountAdmins(r)
      BY <1>0, <2>4 DEF CreateUser, RestoreUser, CountAdmins, accounts
    <2> QED BY <1>5, <2>1, <2>2, <2>3, <2>4 DEF Accounts
  <1>6. ASSUME NEW r \in Calls, Invitations(r)
        PROVE  UNCHANGED <<accounts, orgs>> /\ invites' \in [Invites -> Invite] /\ inviteOverlap' \in BOOLEAN
    <2>1. CASE RetireInvites(r) \/ revokeInvite(r) \/ \E i \in Invites : createInvite(r, i)
      BY <1>0, <2>1, InvitesStep DEF RetireInvites, revokeInvite, createInvite
    <2>2. CASE \E u \in Users, role \in Role : CreateInvite(r, u, role)
      BY <1>0, <2>2, CreateInviteStep
    <2>3. CASE \E i \in Invites : RevokeInvite(r, i)
      BY <1>0, <2>3 DEF RevokeInvite, invited
    <2> QED BY <1>6, <2>1, <2>2, <2>3 DEF Invitations
  <1>7. ASSUME NEW r \in Calls, Organization(r)
        PROVE  /\ UNCHANGED <<accounts, invited>>
               /\ org' \in {"none", "there", "deleted"} /\ member' \in [Users -> OrgRole \cup {"none"}]
               /\ memberOverlap' \in BOOLEAN /\ demoted' \in BOOLEAN
    <2>1. CASE \/ createOrganization(r) \/ deleteOrganization(r)
               \/ addOrgMember(r) \/ updateOrgMemberRole(r) \/ removeOrgMember(r)
      <3>1. UNCHANGED <<accounts, invited, memberOverlap>>
        BY <2>1 DEF createOrganization, deleteOrganization, addOrgMember, updateOrgMemberRole, removeOrgMember
      <3> QED BY <1>0, <2>1, <3>1, MembershipStep
    <2>2. CASE \/ \E u \in Users, role \in OrgRole : MemberRequest(r, u, role, "add") \/ MemberRequest(r, u, role, "change")
               \/ \E u \in Users : RemoveMember(r, u)
      BY <1>0, <2>2, MembersNoted DEF MemberRequest, RemoveMember
    <2>3. CASE assertOrgAdmin(r) \/ OnlyOwnersAssignOwner(r) \/ LookForMember(r) \/ CountOwners(r)
      BY <1>0, <2>3 DEF assertOrgAdmin, OnlyOwnersAssignOwner, LookForMember, CountOwners, orgs
    <2> QED BY <1>7, <2>1, <2>2, <2>3 DEF Organization
  <1>8. CASE \E r \in Calls : Accounts(r)
    BY <1>0, <1>5, <1>8 DEF invited, orgs
  <1>9. CASE \E r \in Calls : Invitations(r)
    BY <1>0, <1>6, <1>9 DEF accounts, orgs
  <1>10. CASE \E r \in Calls : Organization(r)
    BY <1>0, <1>7, <1>10 DEF accounts, invited
  <1>11. CASE \E r \in Calls : (\E a \in Users : authenticate(r, a)) \/ CallAnswered(r)
    BY <1>1, <1>11 DEF authenticate, CallAnswered
  <1> QED BY <1>2, <1>3, <1>4, <1>8, <1>9, <1>10, <1>11 DEF MembersNext

LEMMA MembersStepTyped ==
    ASSUME MembersTyped, [MembersNext]_membersVars
    PROVE  MembersTyped'
  <1>1. CASE UNCHANGED membersVars
    BY <1>1 DEF membersVars, MembersTyped, MembersTypeOK
  <1>2. CASE MembersNext
    <2>1. call' \in [Calls -> Call] /\ \A o \in Calls : Shaped(call'[o])
      <3>1. CASE call' = call
        BY <3>1 DEF MembersTyped, MembersTypeOK
      <3>2. CASE call' # call
        BY <1>2, <3>2, CallsTyped DEF MembersNext, setupInitialAdmin, acceptInvite, PurgeUsers
      <3> QED BY <3>1, <3>2
    <2> QED BY <1>2, <2>1, RowsTyped DEF MembersTyped, MembersTypeOK
  <1> QED BY <1>1, <1>2

-----------------------------------------------------------------------------
(* An active administrator remains *)

\* Something has happened: without an account there are no requests and no invitations.
Begun ==
    \/ \E u \in Users : Exists(u)
    \/ \E r \in Calls : call[r].pc # "idle"
    \/ \E i \in Invites : invites[i].state = "pending"

\* What request r is about to write leaves an active administrator.
Survivor(r) ==
    \E u \in ActiveAdmins :
        u = call[r].of => Patched(users[u], call[r].new) = [state |-> "active", role |-> "ADMIN"]

AdminInv ==
    ~userOverlap => /\ Begun => ActiveAdmins # {}
                    /\ \A r, q \in Calls : call[r].pc \in {"count", "write"} /\ call[q].pc \in {"count", "write"} => r = q
                    /\ \A r \in Calls : call[r].pc = "write" => Survivor(r)

\* Of two or more accounts one is not the account asked about.
LEMMA Another ==
    ASSUME NEW S, S \subseteq Users, ~(Cardinality(S) <= 1), NEW v
    PROVE  \E u \in S : u # v
  <1> SUFFICES ASSUME S \subseteq {v} PROVE FALSE
    OBVIOUS
  <1>1. IsFiniteSet({v}) /\ Cardinality({v}) = 1
    BY FS_Singleton
  <1>2. IsFiniteSet(S) /\ Cardinality(S) <= Cardinality({v})
    BY <1>1, FS_Subset
  <1> QED BY <1>1, <1>2

\* A step that leaves the administrators alone, and the requests that change accounts.
LEMMA AdminKept ==
    ASSUME AdminInv, MembersTyped, ActiveKept, userOverlap' = userOverlap, Begun' => Begun,
           \A r \in Calls : call'[r].pc \in {"count", "write"} => call'[r] = call[r]
    PROVE  AdminInv'
  <1> SUFFICES ASSUME ~userOverlap
               PROVE  /\ Begun' => ActiveAdmins' # {}
                      /\ \A r, q \in Calls : call'[r].pc \in {"count", "write"} /\ call'[q].pc \in {"count", "write"} => r = q
                      /\ \A r \in Calls : call'[r].pc = "write" => Survivor(r)'
    BY DEF AdminInv
  <1>1. \A u \in ActiveAdmins : u \in ActiveAdmins' /\ users'[u] = users[u]
    BY DEF ActiveKept, ActiveAdmins
  <1>2. Begun' => ActiveAdmins' # {}
    BY <1>1 DEF AdminInv
  <1>3. ASSUME NEW r \in Calls, call'[r].pc = "write" PROVE Survivor(r)'
    <2>1. call'[r] = call[r] /\ Survivor(r)
      BY <1>3 DEF AdminInv
    <2>2. PICK u \in ActiveAdmins : u = call[r].of => Patched(users[u], call[r].new) = [state |-> "active", role |-> "ADMIN"]
      BY <2>1 DEF Survivor
    <2>3. u \in ActiveAdmins' /\ users'[u] = users[u]
      BY <1>1
    <2> QED BY <2>1, <2>2, <2>3 DEF Survivor, Patched
  <1> QED BY <1>2, <1>3 DEF AdminInv

\* A request of an account is under way.
LEMMA InProgress ==
    ASSUME NEW r \in Calls, call[r].pc # "idle"
    PROVE  Begun
  BY DEF Begun

\* The steps that change accounts.
LEMMA AdminAccounts ==
    ASSUME AdminInv, MembersTyped, NEW r \in Calls, Accounts(r)
    PROVE  AdminInv'
  <1>0. MembersTypeOK /\ users \in [Users -> UserRow] /\ ActiveAdmins \subseteq Users
    BY DEF MembersTyped, MembersTypeOK, ActiveAdmins
  <1>1. CASE createUser(r) \/ restoreUser(r)
    <2>1. Moved(r) /\ call'[r] = NoCall /\ ActiveKept /\ userOverlap' = userOverlap /\ call[r].pc # "idle"
      BY <1>1, EndingStep, UsersStep DEF createUser, restoreUser
    <2> QED BY <2>1, AdminKept, InProgress, NoCallFields DEF Moved
  <1>2. CASE (\E u \in Users, role \in Role : CreateUser(r, u, role)) \/ (\E u \in Users : RestoreUser(r, u))
    <2>1. /\ Moved(r) /\ call'[r].pc \in {"create", "restore"} /\ call[r].pc = "in"
          /\ users' = users /\ userOverlap' = userOverlap
      BY <1>0, <1>2, CreateUserStep, RestoreUserStep DEF accounts
    <2>2. ActiveKept
      BY <2>1 DEF ActiveKept
    <2> QED BY <2>1, <2>2, AdminKept, InProgress DEF Moved
  <1>3. CASE (\E u \in Users, patch \in Patch : updateUser(r, u, patch)) \/ (\E u \in Users : deleteUser(r, u))
    <2>1. PICK u \in Users, new \in Patch, g \in BOOLEAN :
             /\ UserRead(r, u, new, g)
             /\ ~g /\ u \in ActiveAdmins => Patched(users[u], new) = [state |-> "active", role |-> "ADMIN"]
      BY <1>3, ReadToChange
    <2>2. /\ Moved(r) /\ call[r].pc = "in" /\ call'[r].pc = (IF g THEN "count" ELSE "write")
          /\ call'[r].of = u /\ call'[r].new = new
          /\ ~userOverlap' => ~userOverlap /\ \A o \in Calls : call[o].pc \notin {"count", "write"}
          /\ users' = users
      BY <1>0, <2>1, UserReadStep
    <2> SUFFICES ASSUME ~userOverlap'
                 PROVE  /\ ActiveAdmins' # {}
                        /\ \A p, q \in Calls : call'[p].pc \in {"count", "write"} /\ call'[q].pc \in {"count", "write"} => p = q
                        /\ \A q \in Calls : call'[q].pc = "write" => Survivor(q)'
      BY DEF AdminInv
    <2>3. ActiveAdmins' = ActiveAdmins /\ ActiveAdmins # {}
      BY <2>2, InProgress DEF AdminInv, ActiveAdmins
    <2>4. \A o \in Calls \ {r} : call'[o].pc \notin {"count", "write"}
      BY <2>2 DEF Moved
    <2>5. ASSUME ~g PROVE Survivor(r)'
      <3>1. PICK v \in ActiveAdmins : TRUE
        BY <2>3
      <3>2. v = u => Patched(users[v], new) = [state |-> "active", role |-> "ADMIN"]
        BY <2>1, <2>5
      <3> QED BY <2>2, <2>3, <3>2 DEF Survivor, Patched
    <2>6. ASSUME NEW q \in Calls, call'[q].pc = "write" PROVE Survivor(q)'
      <3>1. q = r /\ ~g
        BY <2>2, <2>4, <2>6
      <3> QED BY <2>5, <3>1
    <2> QED BY <2>3, <2>4, <2>6
  <1>4. CASE CountAdmins(r)
    <2>1. Moved(r) /\ call[r].pc = "count" /\ users' = users /\ userOverlap' = userOverlap
      BY <1>4, PassingStep DEF CountAdmins, accounts
    <2>2. CASE call'[r] = NoCall
      <3>1. ActiveKept
        BY <2>1 DEF ActiveKept
      <3> QED BY <2>1, <2>2, <3>1, AdminKept, InProgress, NoCallFields DEF Moved
    <2>3. CASE call'[r].of = call[r].of /\ call'[r].pc = "write" /\ ~(Cardinality(ActiveAdmins) <= 1)
      <3> SUFFICES ASSUME ~userOverlap'
                   PROVE  /\ ActiveAdmins' # {}
                          /\ \A p, q \in Calls : call'[p].pc \in {"count", "write"} /\ call'[q].pc \in {"count", "write"} => p = q
                          /\ \A q \in Calls : call'[q].pc = "write" => Survivor(q)'
        BY DEF AdminInv
      <3>1. ActiveAdmins' = ActiveAdmins
        BY <2>1 DEF ActiveAdmins
      <3>2. PICK v \in ActiveAdmins : v # call[r].of
        BY <1>0, <2>3, Another
      <3>3. \A o \in Calls \ {r} : call'[o] = call[o] /\ call[o].pc \notin {"count", "write"}
        BY <2>1 DEF AdminInv, Moved
      <3>4. Survivor(r)'
        BY <2>3, <3>1, <3>2 DEF Survivor
      <3>5. ASSUME NEW q \in Calls, call'[q].pc = "write" PROVE Survivor(q)'
        <4>1. q = r
          BY <3>3, <3>5
        <4> QED BY <3>4, <4>1
      <3> QED BY <3>1, <3>2, <3>3, <3>5
    <2> QED BY <1>4, <2>1, <2>2, <2>3, PassingStep
  <1>5. CASE WriteUser(r)
    <2>1. /\ Moved(r) /\ call'[r] = NoCall /\ call[r].pc = "write" /\ userOverlap' = userOverlap
          /\ \A u \in Users : users'[u] = IF u = call[r].of THEN Patched(users[u], call[r].new) ELSE users[u]
      BY <1>5, EndingStep, WriteUserStep DEF WriteUser
    <2> SUFFICES ASSUME ~userOverlap
                 PROVE  /\ ActiveAdmins' # {}
                        /\ \A q \in Calls : call'[q].pc \notin {"count", "write"}
      BY <2>1 DEF AdminInv
    <2>2. PICK u \in ActiveAdmins : u = call[r].of => Patched(users[u], call[r].new) = [state |-> "active", role |-> "ADMIN"]
      BY <2>1 DEF AdminInv, Survivor
    <2>3. u \in Users /\ users[u] = [state |-> "active", role |-> "ADMIN"]
      BY DEF ActiveAdmins
    <2>4. u \in ActiveAdmins'
      BY <2>1, <2>2, <2>3 DEF ActiveAdmins
    <2>5. \A q \in Calls : call'[q].pc \notin {"count", "write"}
      BY <2>1, NoCallFields DEF AdminInv, Moved
    <2> QED BY <2>4, <2>5
  <1> QED BY <1>1, <1>2, <1>3, <1>4, <1>5 DEF Accounts

LEMMA AdminStep ==
    ASSUME AdminInv, MembersTyped, [MembersNext]_membersVars
    PROVE  AdminInv'
  <1>0. MembersTypeOK
    BY DEF MembersTyped
  <1>1. CASE UNCHANGED membersVars
    BY <1>1 DEF membersVars, AdminInv, Begun, Exists, ActiveAdmins, Survivor
  <1>2. ASSUME NEW u \in Users, setupInitialAdmin(u)
        PROVE  AdminInv'
    <2>1. /\ users'[u] = [state |-> "active", role |-> "ADMIN"] /\ UNCHANGED <<userOverlap, call>>
          /\ \A v \in Users : users[v].state = "none"
      BY <1>2, SetupAdminStep DEF Exists
    <2>2. u \in ActiveAdmins' /\ ActiveAdmins = {}
      BY <2>1 DEF ActiveAdmins
    <2>3. ~userOverlap => \A r \in Calls : call[r].pc = "idle"
      BY <2>2 DEF AdminInv, Begun
    <2> QED BY <2>1, <2>2, <2>3 DEF AdminInv
  <1>3. ASSUME NEW i \in Invites, acceptInvite(i)
        PROVE  AdminInv'
    <2>1. ActiveKept /\ UNCHANGED <<userOverlap, call>> /\ Begun
      BY <1>3, UsersStep DEF acceptInvite, Begun
    <2> QED BY <2>1, AdminKept
  <1>4. ASSUME NEW gone \in SUBSET Users, PurgeUsers(gone)
        PROVE  AdminInv'
    <2>1. ActiveKept /\ UNCHANGED <<userOverlap, call>>
      BY <1>4, UsersStep DEF PurgeUsers
    <2>2. PICK u \in gone : users[u].state = "inactive"
      BY <1>4 DEF PurgeUsers
    <2>3. Begun
      BY <2>2 DEF Begun, Exists
    <2> QED BY <2>1, <2>3, AdminKept
  <1>5. ASSUME NEW r \in Calls, NEW a \in Users, authenticate(r, a)
        PROVE  AdminInv'
    <2>1. /\ Moved(r) /\ call'[r].pc = "in" /\ users[a].state = "active"
          /\ users' = users /\ userOverlap' = userOverlap
      BY <1>0, <1>5, AuthenticateStep DEF accounts
    <2>2. Begun /\ ActiveKept
      BY <2>1 DEF Begun, Exists, ActiveKept
    <2> QED BY <2>1, <2>2, AdminKept DEF Moved
  <1>6. ASSUME NEW r \in Calls, CallAnswered(r) \/ Invitations(r) \/ Organization(r)
        PROVE  AdminInv'
    <2>1. Moved(r) /\ call[r].pc # "idle" /\ call'[r].pc \notin {"count", "write"}
      <3>1. CASE \/ CallAnswered(r)
                 \/ (\E i \in Invites : createInvite(r, i)) \/ revokeInvite(r)
                 \/ createOrganization(r) \/ deleteOrganization(r)
                 \/ addOrgMember(r) \/ updateOrgMemberRole(r) \/ removeOrgMember(r)
        <4>1. call[r].pc # "idle"
          BY <3>1 DEF CallAnswered, createInvite, revokeInvite, createOrganization, deleteOrganization,
                      addOrgMember, updateOrgMemberRole, removeOrgMember, authorize
        <4> QED BY <3>1, <4>1, EndingStep, NoCallFields
      <3>2. CASE RetireInvites(r) \/ assertOrgAdmin(r) \/ OnlyOwnersAssignOwner(r) \/ LookForMember(r) \/ CountOwners(r)
        <4>1. call[r].pc \in {"retire", "orgadmin", "owner", "look", "countowners"}
          BY <3>2 DEF RetireInvites, assertOrgAdmin, OnlyOwnersAssignOwner, LookForMember, CountOwners
        <4> QED BY <3>2, <4>1, PassingStep, NoCallFields
      <3>3. CASE \/ (\E u \in Users, role \in Role : CreateInvite(r, u, role)) \/ (\E i \in Invites : RevokeInvite(r, i))
                 \/ (\E u \in Users : RemoveMember(r, u))
        BY <1>0, <3>3, CreateInviteStep, RevokeInviteStep, RemoveMemberStep
      <3>4. CASE \E u \in Users, role \in OrgRole : MemberRequest(r, u, role, "add") \/ MemberRequest(r, u, role, "change")
        BY <1>0, <3>4, MemberRequestStep
      <3> QED BY <1>6, <3>1, <3>2, <3>3, <3>4 DEF Invitations, Organization
    <2>2. users' = users /\ userOverlap' = userOverlap
      BY <1>6 DEF CallAnswered, Invitations, CreateInvite, RetireInvites, createInvite, RevokeInvite, revokeInvite,
                  Organization, createOrganization, deleteOrganization, MemberRequest, assertOrgAdmin,
                  OnlyOwnersAssignOwner, LookForMember, addOrgMember, updateOrgMemberRole, RemoveMember,
                  CountOwners, removeOrgMember, accounts
    <2>3. ActiveKept
      BY <2>2 DEF ActiveKept
    <2> QED BY <2>1, <2>2, <2>3, AdminKept, InProgress DEF Moved
  <1> QED BY <1>1, <1>2, <1>3, <1>4, <1>5, <1>6, AdminAccounts DEF MembersNext

LEMMA AdminInitially == MembersInit => AdminInv
  BY NoCallFields DEF MembersInit, AdminInv, Begun, Exists

-----------------------------------------------------------------------------
(* One invitation per address *)

InviteInv ==
    ~inviteOverlap => /\ \A r, q \in Calls : call[r].pc \in {"retire", "invite"} /\ call[q].pc \in {"retire", "invite"} => r = q
                      /\ \A r \in Calls, i \in Invites :
                            call[r].pc = "invite" /\ invites[i].state = "pending" => invites[i].email # call[r].of
                      /\ OneInvite

\* A step that makes no invitation, and leaves the requests that invite alone.
LEMMA InviteKept ==
    ASSUME InviteInv, inviteOverlap' = inviteOverlap,
           \A i \in Invites : invites'[i].state = "pending" =>
              invites[i].state = "pending" /\ invites'[i].email = invites[i].email,
           \A r \in Calls : call'[r].pc \in {"retire", "invite"} => call'[r] = call[r]
    PROVE  InviteInv'
  BY DEF InviteInv, OneInvite

\* An invitation that is marked used, and the others.
LEMMA MarkedUsed ==
    ASSUME MembersTyped, NEW i, invites' = [invites EXCEPT ![i].state = "used"], NEW j \in Invites,
           invites'[j].state = "pending"
    PROVE  invites[j].state = "pending" /\ invites'[j].email = invites[j].email
  <1>1. invites \in [Invites -> Invite] /\ invites[j] \in Invite
    BY DEF MembersTyped, MembersTypeOK
  <1>2. CASE j = i
    <2>1. invites'[j] = [invites[j] EXCEPT !.state = "used"]
      BY <1>1, <1>2
    <2> QED BY <1>1, <2>1 DEF Invite
  <1>3. CASE j # i
    BY <1>1, <1>3
  <1> QED BY <1>2, <1>3

LEMMA InviteInvitations ==
    ASSUME InviteInv, MembersTyped, NEW r \in Calls, Invitations(r)
    PROVE  InviteInv'
  <1>0. /\ MembersTypeOK /\ invites \in [Invites -> Invite] /\ inviteOverlap \in BOOLEAN
        /\ \A i \in Invites : invites[i] \in Invite
    BY DEF MembersTyped, MembersTypeOK
  <1>1. CASE \E u \in Users, role \in Role : CreateInvite(r, u, role)
    <2>1. /\ Moved(r) /\ call[r].pc = "in" /\ call'[r].pc = "retire" /\ invites' = invites
          /\ ~inviteOverlap' => ~inviteOverlap /\ \A o \in Calls : call[o].pc \notin {"retire", "invite"}
      BY <1>0, <1>1, CreateInviteStep
    <2> QED BY <2>1 DEF InviteInv, OneInvite, Moved
  <1>2. CASE RetireInvites(r)
    <2>1. /\ Moved(r) /\ call[r].pc = "retire" /\ inviteOverlap' = inviteOverlap
          /\ call'[r].pc = "invite" /\ call'[r].of = call[r].of
      BY <1>2, PassingStep DEF RetireInvites
    <2>2. ASSUME NEW i \in Invites, invites'[i].state = "pending"
          PROVE  /\ invites[i].state = "pending" /\ invites'[i].email = invites[i].email
                 /\ invites[i].email # call[r].of
      <3>1. invites'[i] = IF invites[i].email = call[r].of /\ invites[i].state = "pending"
                          THEN [invites[i] EXCEPT !.state = "used"] ELSE invites[i]
        BY <1>2 DEF RetireInvites
      <3> QED BY <1>0, <2>2, <3>1 DEF Invite
    <2>3. \A q \in Calls : ~inviteOverlap /\ call'[q].pc \in {"retire", "invite"} => q = r
      BY <2>1 DEF InviteInv, Moved
    <2>4. OneInvite \/ inviteOverlap => OneInvite' \/ inviteOverlap
      BY <2>1, <2>2 DEF OneInvite
    <2> QED BY <2>1, <2>2, <2>3, <2>4 DEF InviteInv
  <1>3. ASSUME NEW i \in Invites, createInvite(r, i)
        PROVE  InviteInv'
    <2>1. Moved(r) /\ call'[r] = NoCall /\ call[r].pc = "invite" /\ inviteOverlap' = inviteOverlap
      BY <1>3, EndingStep DEF createInvite
    <2>2. /\ invites'[i].email = call[r].of
          /\ \A j \in Invites \ {i} : invites'[j] = invites[j]
      BY <1>0, <1>3 DEF createInvite
    <2>3. ~inviteOverlap => \A q \in Calls : call'[q].pc \notin {"retire", "invite"}
      BY <2>1, NoCallFields DEF InviteInv, Moved
    <2>4. ~inviteOverlap => \A j \in Invites \ {i} : invites[j].state = "pending" => invites[j].email # call[r].of
      BY <2>1 DEF InviteInv
    <2>5. ~inviteOverlap => OneInvite'
      BY <2>2, <2>4 DEF InviteInv, OneInvite
    <2> QED BY <2>1, <2>3, <2>5 DEF InviteInv
  <1>4. CASE \E i \in Invites : RevokeInvite(r, i)
    <2>1. Moved(r) /\ call'[r].pc = "revoke" /\ invites' = invites /\ inviteOverlap' = inviteOverlap
      BY <1>0, <1>4, RevokeInviteStep DEF invited
    <2> QED BY <2>1, InviteKept DEF Moved
  <1>5. CASE revokeInvite(r)
    <2>1. Moved(r) /\ call'[r].pc = "idle" /\ inviteOverlap' = inviteOverlap
      BY <1>5, EndingStep, NoCallFields DEF revokeInvite
    <2>2. \A j \in Invites : invites'[j].state = "pending" =>
             invites[j].state = "pending" /\ invites'[j].email = invites[j].email
      BY <1>5, MarkedUsed DEF revokeInvite
    <2> QED BY <2>1, <2>2, InviteKept DEF Moved
  <1> QED BY <1>1, <1>2, <1>3, <1>4, <1>5 DEF Invitations

LEMMA InviteStep ==
    ASSUME InviteInv, MembersTyped, [MembersNext]_membersVars
    PROVE  InviteInv'
  <1>0. MembersTypeOK
    BY DEF MembersTyped
  <1>1. CASE UNCHANGED membersVars
    BY <1>1 DEF membersVars, InviteInv, OneInvite
  <1>2. CASE (\E u \in Users : setupInitialAdmin(u)) \/ (\E gone \in SUBSET Users : PurgeUsers(gone))
    <2>1. UNCHANGED <<invites, inviteOverlap, call>>
      BY <1>2 DEF setupInitialAdmin, PurgeUsers, invited
    <2> QED BY <2>1, InviteKept
  <1>3. ASSUME NEW i \in Invites, acceptInvite(i)
        PROVE  InviteInv'
    <2>1. UNCHANGED <<inviteOverlap, call>>
      BY <1>3 DEF acceptInvite
    <2>2. \A j \in Invites : invites'[j].state = "pending" =>
             invites[j].state = "pending" /\ invites'[j].email = invites[j].email
      BY <1>3, MarkedUsed DEF acceptInvite
    <2> QED BY <2>1, <2>2, InviteKept
  <1>4. ASSUME NEW r \in Calls,
               (\E a \in Users : authenticate(r, a)) \/ CallAnswered(r) \/ Accounts(r) \/ Organization(r)
        PROVE  InviteInv'
    <2>1. Moved(r) /\ call'[r].pc \notin {"retire", "invite"}
      <3>1. CASE \/ CallAnswered(r) \/ createUser(r) \/ WriteUser(r) \/ restoreUser(r)
                 \/ createOrganization(r) \/ deleteOrganization(r)
                 \/ addOrgMember(r) \/ updateOrgMemberRole(r) \/ removeOrgMember(r)
        BY <3>1, EndingStep, NoCallFields
      <3>2. CASE CountAdmins(r) \/ assertOrgAdmin(r) \/ OnlyOwnersAssignOwner(r) \/ LookForMember(r) \/ CountOwners(r)
        <4>1. call[r].pc \in {"count", "orgadmin", "owner", "look", "countowners"}
          BY <3>2 DEF CountAdmins, assertOrgAdmin, OnlyOwnersAssignOwner, LookForMember, CountOwners
        <4> QED BY <3>2, <4>1, PassingStep, NoCallFields
      <3>3. CASE \/ (\E u \in Users, role \in Role : CreateUser(r, u, role)) \/ (\E u \in Users : RestoreUser(r, u))
                 \/ (\E u \in Users : RemoveMember(r, u)) \/ (\E a \in Users : authenticate(r, a))
        BY <1>0, <3>3, CreateUserStep, RestoreUserStep, RemoveMemberStep, AuthenticateStep
      <3>4. CASE \E u \in Users, role \in OrgRole : MemberRequest(r, u, role, "add") \/ MemberRequest(r, u, role, "change")
        BY <1>0, <3>4, MemberRequestStep
      <3>5. CASE (\E u \in Users, patch \in Patch : updateUser(r, u, patch)) \/ (\E u \in Users : deleteUser(r, u))
        BY <1>0, <3>5, ReadToChange, UserReadStep
      <3> QED BY <1>4, <3>1, <3>2, <3>3, <3>4, <3>5 DEF Accounts, Organization
    <2>2. invites' = invites /\ inviteOverlap' = inviteOverlap
      BY <1>4 DEF authenticate, CallAnswered, Accounts, CreateUser, updateUser, deleteUser, UserRead, RestoreUser,
                  createUser, CountAdmins, WriteUser, restoreUser,
                  Organization, createOrganization, deleteOrganization, MemberRequest, assertOrgAdmin,
                  OnlyOwnersAssignOwner, LookForMember, addOrgMember, updateOrgMemberRole, RemoveMember,
                  CountOwners, removeOrgMember, invited
    <2> QED BY <2>1, <2>2, InviteKept DEF Moved
  <1> QED BY <1>1, <1>2, <1>3, <1>4, InviteInvitations DEF MembersNext

LEMMA InviteInitially == MembersInit => InviteInv
  BY NoCallFields DEF MembersInit, InviteInv, OneInvite

-----------------------------------------------------------------------------
(* An OWNER remains *)

OwnerInv ==
    /\ org = "none" => \A u \in Users : member[u] = "none"
    /\ \A r \in Calls : call[r].pc \in {"countowners", "remove"} => org # "none"
    /\ ~memberOverlap => \A r, q \in Calls : Changing(r) /\ Changing(q) => r = q
    /\ org = "there" /\ ~memberOverlap /\ ~demoted =>
          /\ Owners # {}
          /\ \A r \in Calls : call[r].pc = "remove" => \E u \in Owners : u # call[r].of

\* A step that brings no request to change members and takes no OWNER away, or notes it.
LEMMA OwnerKept ==
    ASSUME OwnerInv, memberOverlap' = memberOverlap, org' = org,
           org = "none" => member' = member,
           demoted => demoted',
           demoted' \/ Owners \subseteq Owners',
           \A r \in Calls : /\ Changing(r)' => Changing(r)
                            /\ call'[r].pc \in {"countowners", "remove"} => call'[r] = call[r]
    PROVE  OwnerInv'
  <1>1. org' = "none" => \A u \in Users : member'[u] = "none"
    BY DEF OwnerInv
  <1>2. \A r \in Calls : call'[r].pc \in {"countowners", "remove"} => org' # "none"
    BY DEF OwnerInv
  <1>3. ~memberOverlap' => \A r, q \in Calls : Changing(r)' /\ Changing(q)' => r = q
    BY DEF OwnerInv
  <1>4. org' = "there" /\ ~memberOverlap' /\ ~demoted' =>
          /\ Owners' # {}
          /\ \A r \in Calls : call'[r].pc = "remove" => \E u \in Owners' : u # call'[r].of
    BY DEF OwnerInv
  <1> QED BY <1>1, <1>2, <1>3, <1>4 DEF OwnerInv

LEMMA OwnerOrganization ==
    ASSUME OwnerInv, MembersTyped, NEW r \in Calls, Organization(r)
    PROVE  OwnerInv'
  <1>0. /\ MembersTypeOK /\ member \in [Users -> OrgRole \cup {"none"}] /\ Owners \subseteq Users
        /\ Shaped(call[r]) /\ memberOverlap \in BOOLEAN
    BY DEF MembersTyped, MembersTypeOK, Owners
  <1>1. CASE createOrganization(r)
    <2>1. /\ Moved(r) /\ call'[r].pc = "idle" /\ call[r].pc = "in" /\ org = "none" /\ org' = "there"
          /\ UNCHANGED <<memberOverlap, demoted>>
      BY <1>1, EndingStep, NoCallFields DEF createOrganization, authorize
    <2>2. call[r].actor \in Users /\ call[r].actor \in Owners'
      BY <1>0, <1>1, <2>1 DEF Shaped, createOrganization, Owners
    <2>3. \A q \in Calls : /\ call'[q].pc \notin {"countowners", "remove"}
                           /\ Changing(q)' => Changing(q)
      BY <2>1 DEF OwnerInv, Moved, Changing
    <2> QED BY <2>1, <2>2, <2>3 DEF OwnerInv
  <1>2. CASE deleteOrganization(r)
    <2>1. /\ Moved(r) /\ call'[r].pc = "idle" /\ org' = "deleted" /\ memberOverlap' = memberOverlap
      BY <1>2, EndingStep, NoCallFields DEF deleteOrganization
    <2>2. \A q \in Calls : Changing(q)' => Changing(q)
      BY <2>1 DEF Moved, Changing
    <2> QED BY <2>1, <2>2 DEF OwnerInv
  <1>3. ASSUME NEW u \in Users, NEW role \in OrgRole, NEW then \in {"add", "change"}, MemberRequest(r, u, role, then)
        PROVE  OwnerInv'
    <2>1. /\ Moved(r) /\ call'[r].pc = "orgadmin" /\ UNCHANGED <<org, member, demoted>>
          /\ ~memberOverlap' => ~memberOverlap /\ \A o \in Calls \ {r} : ~Changing(o)
      BY <1>0, <1>3, MemberRequestStep, MembersNoted
    <2>2. \A o \in Calls \ {r} : call'[o] = call[o] /\ (Changing(o)' => Changing(o))
      BY <2>1 DEF Moved, Changing
    <2>3. Owners' = Owners
      BY <2>1 DEF Owners
    <2> QED BY <2>1, <2>2, <2>3 DEF OwnerInv
  <1>4. CASE assertOrgAdmin(r) \/ OnlyOwnersAssignOwner(r) \/ LookForMember(r)
    <2>1. /\ Moved(r) /\ call[r].pc \in {"orgadmin", "owner", "look"} /\ UNCHANGED <<org, member, memberOverlap, demoted>>
          /\ call'[r].pc \in {"idle", "owner", "look", "add", "change"}
      <3>1. call[r].pc \in {"orgadmin", "owner", "look"} /\ UNCHANGED orgs
        BY <1>4 DEF assertOrgAdmin, OnlyOwnersAssignOwner, LookForMember
      <3> QED BY <1>4, <3>1, PassingStep, NoCallFields DEF orgs
    <2>2. Changing(r) /\ \A q \in Calls : Changing(q)' => Changing(q)
      BY <2>1 DEF Moved, Changing
    <2>3. Owners' = Owners
      BY <2>1 DEF Owners
    <2> QED BY <2>1, <2>2, <2>3, OwnerKept DEF Moved
  <1>5. CASE addOrgMember(r) \/ updateOrgMemberRole(r)
    <2>1. /\ Moved(r) /\ call'[r].pc = "idle" /\ UNCHANGED <<org, memberOverlap>>
      BY <1>5, EndingStep, NoCallFields DEF addOrgMember, updateOrgMemberRole
    <2>2. \A q \in Calls : /\ Changing(q)' => Changing(q)
                           /\ call'[q].pc \in {"countowners", "remove"} => call'[q] = call[q]
      BY <2>1 DEF Moved, Changing
    <2>3. org = "none" => member' = member
      <3>1. CASE addOrgMember(r)
        BY <3>1 DEF addOrgMember
      <3>2. CASE updateOrgMemberRole(r)
        <4>1. CASE call[r].of \in Users
          BY <3>2, <4>1 DEF OwnerInv, updateOrgMemberRole
        <4>2. CASE call[r].of \notin Users
          BY <1>0, <3>2, <4>2 DEF updateOrgMemberRole
        <4> QED BY <4>1, <4>2
      <3> QED BY <1>5, <3>1, <3>2
    <2>4. (demoted => demoted') /\ (demoted' \/ Owners \subseteq Owners')
      <3>1. CASE addOrgMember(r)
        BY <1>0, <3>1 DEF addOrgMember, Owners
      <3>2. CASE updateOrgMemberRole(r)
        <4>1. demoted' = (demoted \/ (member[call[r].of] = "OWNER" /\ call[r].org # "OWNER"))
          BY <3>2 DEF updateOrgMemberRole
        <4>2. CASE member[call[r].of] = "OWNER" /\ call[r].org # "OWNER"
          BY <4>1, <4>2
        <4>3. CASE ~(member[call[r].of] = "OWNER" /\ call[r].org # "OWNER")
          <5>1. Owners \subseteq Owners'
            BY <1>0, <3>2, <4>3 DEF updateOrgMemberRole, Owners
          <5> QED BY <4>1, <5>1
        <4> QED BY <4>2, <4>3
      <3> QED BY <1>5, <3>1, <3>2
    <2> QED BY <2>1, <2>2, <2>3, <2>4, OwnerKept
  <1>6. ASSUME NEW u \in Users, RemoveMember(r, u)
        PROVE  OwnerInv'
    <2>1. /\ Moved(r) /\ call'[r].of = u /\ member[u] # "none"
          /\ call'[r].pc = (IF member[u] = "OWNER" THEN "countowners" ELSE "remove")
          /\ UNCHANGED <<org, member, demoted>>
          /\ ~memberOverlap' => ~memberOverlap /\ \A o \in Calls \ {r} : ~Changing(o)
      BY <1>0, <1>6, RemoveMemberStep, MembersNoted
    <2>2. \A o \in Calls \ {r} : call'[o] = call[o] /\ (Changing(o)' => Changing(o))
      BY <2>1 DEF Moved, Changing
    <2>3. Owners' = Owners /\ org # "none"
      BY <2>1 DEF Owners, OwnerInv
    <2>4. call'[r].pc = "remove" => u \notin Owners
      BY <2>1 DEF Owners
    <2>5. org' = "there" /\ ~memberOverlap' /\ ~demoted' =>
             /\ Owners' # {}
             /\ \A q \in Calls : call'[q].pc = "remove" => \E v \in Owners' : v # call'[q].of
      BY <2>1, <2>2, <2>3, <2>4 DEF OwnerInv
    <2>6. ~memberOverlap' => \A p, q \in Calls : Changing(p)' /\ Changing(q)' => p = q
      BY <2>1, <2>2
    <2> QED BY <2>1, <2>2, <2>3, <2>5, <2>6 DEF OwnerInv
  <1>7. CASE CountOwners(r)
    <2>1. Moved(r) /\ call[r].pc = "countowners" /\ UNCHANGED <<org, member, memberOverlap, demoted>>
      BY <1>7, PassingStep DEF CountOwners, orgs
    <2>2. Owners' = Owners /\ org # "none" /\ Changing(r)
      BY <2>1 DEF Owners, OwnerInv, Changing
    <2>3. CASE call'[r] = NoCall
      <3>1. \A q \in Calls : /\ Changing(q)' => Changing(q)
                             /\ call'[q].pc \in {"countowners", "remove"} => call'[q] = call[q]
        BY <2>1, <2>3, NoCallFields DEF Moved, Changing
      <3> QED BY <2>1, <2>2, <3>1, OwnerKept
    <2>4. CASE call'[r].of = call[r].of /\ call'[r].pc = "remove" /\ ~(Cardinality(Owners) <= 1)
      <3>1. \A q \in Calls : Changing(q)' => Changing(q)
        BY <2>1, <2>2 DEF Moved, Changing
      <3>2. \E v \in Owners : v # call[r].of
        BY <1>0, <2>4, Another
      <3>3. org' = "there" /\ ~memberOverlap' /\ ~demoted' =>
               /\ Owners' # {}
               /\ \A q \in Calls : call'[q].pc = "remove" => \E v \in Owners' : v # call'[q].of
        BY <2>1, <2>2, <2>4, <3>2 DEF OwnerInv, Moved
      <3> QED BY <2>1, <2>2, <3>1, <3>3 DEF OwnerInv, Moved
    <2> QED BY <1>7, <2>1, <2>3, <2>4, PassingStep
  <1>8. CASE removeOrgMember(r)
    <2>1. /\ Moved(r) /\ call'[r].pc = "idle" /\ call[r].pc = "remove" /\ UNCHANGED <<org, memberOverlap, demoted>>
          /\ org # "none"
      BY <1>8, EndingStep, NoCallFields DEF removeOrgMember, OwnerInv
    <2>2. Changing(r) /\ \A q \in Calls : Changing(q)' => Changing(q) /\ q # r
      BY <2>1 DEF Moved, Changing
    <2>3. ~memberOverlap => \A q \in Calls : ~Changing(q)'
      BY <2>2 DEF OwnerInv
    <2>4. org = "there" /\ ~memberOverlap /\ ~demoted => Owners' # {}
      <3> SUFFICES ASSUME org = "there", ~memberOverlap, ~demoted PROVE Owners' # {}
        OBVIOUS
      <3>1. PICK u \in Owners : u # call[r].of
        BY <2>1 DEF OwnerInv
      <3>2. u \in Users /\ member'[u] = "OWNER"
        BY <1>0, <1>8, <3>1 DEF removeOrgMember, Owners
      <3> QED BY <3>2 DEF Owners
    <2>5. ~memberOverlap => \A q \in Calls : call'[q].pc # "remove"
      BY <2>3 DEF Changing
    <2> QED BY <2>1, <2>2, <2>3, <2>4, <2>5 DEF OwnerInv
  <1> QED BY <1>1, <1>2, <1>3, <1>4, <1>5, <1>6, <1>7, <1>8 DEF Organization

LEMMA OwnerStep ==
    ASSUME OwnerInv, MembersTyped, [MembersNext]_membersVars
    PROVE  OwnerInv'
  <1>0. MembersTypeOK
    BY DEF MembersTyped
  <1>1. CASE UNCHANGED membersVars
    BY <1>1 DEF membersVars, OwnerInv, Owners, Changing
  <1>2. CASE (\E u \in Users : setupInitialAdmin(u)) \/ (\E i \in Invites : acceptInvite(i))
    <2>1. UNCHANGED <<org, member, memberOverlap, demoted, call>>
      BY <1>2 DEF setupInitialAdmin, acceptInvite, orgs
    <2> QED BY <2>1, OwnerKept DEF Owners, Changing
  <1>3. ASSUME NEW gone \in SUBSET Users, PurgeUsers(gone)
        PROVE  OwnerInv'
    <2>1. /\ UNCHANGED <<org, memberOverlap, call>>
          /\ member' = [u \in Users |-> IF u \in gone THEN "none" ELSE member[u]]
          /\ demoted' = (demoted \/ gone \cap Owners # {})
      BY <1>3 DEF PurgeUsers
    <2>2. org = "none" => member' = member
      BY <1>0, <2>1 DEF OwnerInv, MembersTypeOK
    <2>3. (demoted => demoted') /\ (demoted' \/ Owners \subseteq Owners')
      <3>1. CASE gone \cap Owners # {}
        BY <2>1, <3>1
      <3>2. CASE gone \cap Owners = {}
        BY <2>1, <3>2 DEF Owners
      <3> QED BY <3>1, <3>2
    <2> QED BY <2>1, <2>2, <2>3, OwnerKept DEF Changing
  <1>4. ASSUME NEW r \in Calls,
               (\E a \in Users : authenticate(r, a)) \/ CallAnswered(r) \/ Accounts(r) \/ Invitations(r)
        PROVE  OwnerInv'
    <2>1. Moved(r) /\ call'[r].pc \in {"idle", "in", "create", "count", "write", "restore", "retire", "invite", "revoke"}
      <3>1. CASE \/ CallAnswered(r) \/ createUser(r) \/ WriteUser(r) \/ restoreUser(r)
                 \/ (\E i \in Invites : createInvite(r, i)) \/ revokeInvite(r)
        BY <3>1, EndingStep, NoCallFields
      <3>2. CASE CountAdmins(r) \/ RetireInvites(r)
        <4>1. call[r].pc \in {"count", "retire"}
          BY <3>2 DEF CountAdmins, RetireInvites
        <4> QED BY <3>2, <4>1, PassingStep, NoCallFields
      <3>3. CASE \/ (\E u \in Users, role \in Role : CreateUser(r, u, role)) \/ (\E u \in Users : RestoreUser(r, u))
                 \/ (\E a \in Users : authenticate(r, a))
        BY <1>0, <3>3, CreateUserStep, RestoreUserStep, AuthenticateStep
      <3>4. CASE (\E u \in Users, role \in Role : CreateInvite(r, u, role)) \/ (\E i \in Invites : RevokeInvite(r, i))
        BY <1>0, <3>4, CreateInviteStep, RevokeInviteStep
      <3>5. CASE (\E u \in Users, patch \in Patch : updateUser(r, u, patch)) \/ (\E u \in Users : deleteUser(r, u))
        BY <1>0, <3>5, ReadToChange, UserReadStep
      <3> QED BY <1>4, <3>1, <3>2, <3>3, <3>4, <3>5 DEF Accounts, Invitations
    <2>2. UNCHANGED <<org, member, memberOverlap, demoted>>
      BY <1>4 DEF authenticate, CallAnswered, Accounts, CreateUser, updateUser, deleteUser, UserRead, RestoreUser,
                  createUser, CountAdmins, WriteUser, restoreUser,
                  Invitations, CreateInvite, RetireInvites, createInvite, RevokeInvite, revokeInvite, orgs
    <2>3. /\ Owners' = Owners
          /\ \A q \in Calls : /\ Changing(q)' => Changing(q)
                              /\ call'[q].pc \in {"countowners", "remove"} => call'[q] = call[q]
      BY <2>1, <2>2 DEF Owners, Changing, Moved
    <2> QED BY <2>2, <2>3, OwnerKept
  <1> QED BY <1>1, <1>2, <1>3, <1>4, OwnerOrganization DEF MembersNext

LEMMA OwnerInitially == MembersInit => OwnerInv
  BY NoCallFields DEF MembersInit, OwnerInv, Changing

-----------------------------------------------------------------------------
(* Members: the theorems *)

LEMMA MembersInvariance == MembersSpec => [](MembersTyped /\ AdminInv /\ InviteInv /\ OwnerInv)
  BY MembersInitTyped, AdminInitially, InviteInitially, OwnerInitially,
     MembersStepTyped, AdminStep, InviteStep, OwnerStep, PTL DEF MembersSpec

\* Accounts, invitations, memberships and requests keep their types: no request
\* goes on without what its next statement needs.
THEOREM MembersTypes == MembersSpec => []MembersTypeOK
  BY MembersInvariance, PTL DEF MembersTyped

\* The guards of updateUser and deleteUser keep an active administrator, unless
\* two requests that change accounts overlapped.
THEOREM AnAdminRemains == MembersSpec => []AdminRemains
  <1>1. AdminInv => AdminRemains
    BY DEF AdminInv, AdminRemains, Begun
  <1> QED BY <1>1, MembersInvariance, PTL

\* The guard of removeOrgMember keeps an OWNER, unless requests that change
\* members overlapped, or an OWNER was given another role or purged.
THEOREM AnOwnerRemains == MembersSpec => []OwnerRemains
  <1>1. OwnerInv => OwnerRemains
    BY DEF OwnerInv, OwnerRemains
  <1> QED BY <1>1, MembersInvariance, PTL

\* createInvite leaves one pending invitation per address, unless two requests
\* to invite overlapped between the retiring and the creating.
THEOREM OneInvitePerAddress == MembersSpec => []OneInvite
  <1>1. InviteInv => OneInvite
    BY DEF InviteInv, OneInvite
  <1> QED BY <1>1, MembersInvariance, PTL

-----------------------------------------------------------------------------
(* The browser *)

\* What the browser sends was minted, and a refusal is about a session that is
\* over, which no later sign-in brings back.
TabGood(x) ==
    /\ x.shown \notin unused
    /\ x.answer = "unauthorized" => x.shown \notin liveTokens
    /\ x.call = "none" => x.answer = "none"
    /\ x.call = "resume" => x.answer # "tokenRequired"

BrowserInv == BrowserTypeOK /\ cookie \notin unused /\ \A t \in Tabs : TabGood(tab[t])

\* The call of the tab is as it was, or forgotten.
SameCall(x, y) == y.shown = x.shown /\ y.answer = x.answer /\ y.call = x.call
Forgotten(y)   == y.shown = NoToken /\ y.answer = "none" /\ y.call = "none"

LEMMA TabMoved ==
    ASSUME BrowserTypeOK, NEW t \in Tabs, NEW x \in TabState, tab' = [tab EXCEPT ![t] = x]
    PROVE  /\ tab' \in [Tabs -> TabState] /\ tab'[t] = x
           /\ \A o \in Tabs \ {t} : tab'[o] = tab[o]
  BY DEF BrowserTypeOK

LEMMA NewTabTyped == NewTab \in TabState /\ Forgotten(NewTab)
  BY DEF NewTab, TabState, Place, MaxRetries, Forgotten

LEMMA NavigatedTyped ==
    ASSUME BrowserTypeOK, NEW t \in Tabs, NEW p \in Place, NEW f \in Tokens \cup {NoToken}
    PROVE  Navigated(t, p, f) \in TabState /\ Forgotten(Navigated(t, p, f))
  <1>1. tab[t].recent \in BOOLEAN
    BY DEF BrowserTypeOK, TabState
  <1> QED BY <1>1, NewTabTyped DEF Navigated, TabState, Forgotten

LEMMA ResumeTyped ==
    ASSUME BrowserTypeOK, NEW t \in Tabs
    PROVE  resumeSession(t) \in TabState /\ Forgotten(resumeSession(t))
  <1> DEFINE n == Navigated(t, IF tab[t].recent THEN "fallback" ELSE "toResume", NoToken)
  <1>1. n \in TabState /\ Forgotten(n)
    BY NavigatedTyped DEF Place
  <1>2. resumeSession(t) = [n EXCEPT !.recent = TRUE]
    BY DEF resumeSession
  <1> HIDE DEF n
  <1> QED BY <1>1, <1>2 DEF TabState, Forgotten

LEMMA PushTyped ==
    ASSUME BrowserTypeOK, NEW t \in Tabs, NEW p \in Place, NEW s \in Tokens \cup {NoToken}
    PROVE  /\ RouterPush(t, p) \in TabState /\ Forgotten(RouterPush(t, p))
           /\ [RouterPush(t, p) EXCEPT !.token = s] \in TabState
           /\ Forgotten([RouterPush(t, p) EXCEPT !.token = s])
  <1>1. tab[t] \in TabState
    BY DEF BrowserTypeOK
  <1>2. RouterPush(t, p) \in TabState /\ Forgotten(RouterPush(t, p))
    BY <1>1 DEF RouterPush, TabState, Forgotten
  <1>3. ASSUME NEW x \in TabState, Forgotten(x)
        PROVE  [x EXCEPT !.token = s] \in TabState /\ Forgotten([x EXCEPT !.token = s])
    BY <1>3 DEF TabState, Forgotten
  <1> QED BY <1>2, <1>3

\* A page is loaded, or something is done on it, without a call.
LEMMA PageStep ==
    ASSUME BrowserTypeOK, NEW t \in Tabs,
           \/ LoadApp(t) \/ LoadLogin(t) \/ CheckSetup(t) \/ CheckSetupFails(t)
           \/ GuardAges(t) \/ AskForCode(t) \/ BackToLogin(t)
    PROVE  /\ \E x \in TabState : SameCall(tab[t], x) /\ tab' = [tab EXCEPT ![t] = x]
           /\ UNCHANGED <<cookie, liveTokens, unused, isSetup>>
  <1>0. tab[t] \in TabState
    BY DEF BrowserTypeOK
  <1>1. UNCHANGED <<cookie, liveTokens, unused, isSetup>>
    BY DEF LoadApp, LoadLogin, CheckSetup, CheckSetupFails, GuardAges, AskForCode, BackToLogin
  <1>2. ASSUME NEW x, x \in TabState /\ SameCall(tab[t], x), tab' = [tab EXCEPT ![t] = x]
        PROVE  \E y \in TabState : SameCall(tab[t], y) /\ tab' = [tab EXCEPT ![t] = y]
    BY <1>2
  <1>3. ASSUME NEW p \in Place, tab' = [tab EXCEPT ![t].at = p]
        PROVE  \E y \in TabState : SameCall(tab[t], y) /\ tab' = [tab EXCEPT ![t] = y]
    <2>1. [tab[t] EXCEPT !.at = p] \in TabState /\ SameCall(tab[t], [tab[t] EXCEPT !.at = p])
      BY <1>0 DEF TabState, SameCall
    <2>2. tab' = [tab EXCEPT ![t] = [tab[t] EXCEPT !.at = p]]
      BY <1>3
    <2> QED BY <1>2, <2>1, <2>2
  <1>3a. ASSUME NEW p \in Place
         PROVE  [tab[t] EXCEPT !.at = p, !.retries = 0] \in TabState
                  /\ SameCall(tab[t], [tab[t] EXCEPT !.at = p, !.retries = 0])
    <2> DEFINE x == [tab[t] EXCEPT !.at = p]
               y == [x EXCEPT !.retries = 0]
    <2>1. x \in TabState /\ SameCall(tab[t], x)
      BY <1>0, <1>3a DEF TabState, SameCall
    <2>2. y = [tab[t] EXCEPT !.at = p, !.retries = 0]
      OBVIOUS
    <2> HIDE DEF x
    <2>3. 0 \in 0 .. MaxRetries
      BY DEF MaxRetries
    <2>4. y \in TabState /\ SameCall(tab[t], y)
      BY <2>1, <2>3 DEF TabState, SameCall
    <2> QED BY <2>2, <2>4
  <1>4. CASE LoadLogin(t) \/ AskForCode(t) \/ BackToLogin(t)
    <2>1. \E p \in Place : tab' = [tab EXCEPT ![t].at = p]
      <3>1. {"toApp", "checking", "password", "setup", "code"} \subseteq Place
        BY DEF Place
      <3>2. CASE LoadLogin(t)
        BY <3>1, <3>2 DEF LoadLogin
      <3> QED BY <1>4, <3>1, <3>2 DEF AskForCode, BackToLogin
    <2> QED BY <1>1, <1>3, <2>1
  <1>5. CASE GuardAges(t)
    <2> DEFINE x == [tab[t] EXCEPT !.recent = FALSE]
    <2>1. x \in TabState /\ SameCall(tab[t], x)
      BY <1>0 DEF TabState, SameCall
    <2>2. tab' = [tab EXCEPT ![t] = x]
      BY <1>5 DEF GuardAges
    <2> HIDE DEF x
    <2> QED BY <1>1, <1>2, <2>1, <2>2
  <1>6. CASE LoadApp(t)
    <2> DEFINE k == IF tab[t].fragment # NoToken THEN tab[t].fragment ELSE tab[t].token
               x == [tab[t] EXCEPT !.at = "checking", !.fragment = NoToken]
               y == [tab[t] EXCEPT !.at = "app", !.fragment = NoToken, !.token = k]
    <2>1. x \in TabState /\ SameCall(tab[t], x)
      BY <1>0 DEF TabState, SameCall, Place
    <2>2. k \in Tokens \cup {NoToken}
      BY <1>0 DEF TabState
    <2>3. y \in TabState /\ SameCall(tab[t], y)
      <3> HIDE DEF k
      <3> QED BY <1>0, <2>2 DEF TabState, SameCall, Place
    <2>4. tab' = [tab EXCEPT ![t] = x] \/ tab' = [tab EXCEPT ![t] = y]
      <3>1. tab' = [tab EXCEPT ![t] = IF cookie = NoToken THEN x ELSE y]
        BY <1>6 DEF LoadApp
      <3>2. (IF cookie = NoToken THEN x ELSE y) = x \/ (IF cookie = NoToken THEN x ELSE y) = y
        OBVIOUS
      <3> HIDE DEF x, y
      <3> QED BY <3>1, <3>2
    <2> HIDE DEF x, y
    <2> QED BY <1>1, <1>2, <2>1, <2>3, <2>4
  <1>7. CASE CheckSetupFails(t)
    <2> DEFINE x == [tab[t] EXCEPT !.retries = tab[t].retries + 1]
               y == [tab[t] EXCEPT !.at = "password", !.retries = 0]
    <2>1. tab[t].retries < MaxRetries => tab[t].retries + 1 \in 0 .. MaxRetries
      BY <1>0 DEF TabState, MaxRetries
    <2>2. tab[t].retries < MaxRetries => x \in TabState /\ SameCall(tab[t], x)
      BY <1>0, <2>1 DEF TabState, SameCall
    <2>3. y \in TabState /\ SameCall(tab[t], y)
      BY <1>3a DEF Place
    <2>4. \/ tab[t].retries < MaxRetries /\ tab' = [tab EXCEPT ![t] = x]
          \/ tab' = [tab EXCEPT ![t] = y]
      <3>1. tab' = [tab EXCEPT ![t] = IF tab[t].retries < MaxRetries THEN x ELSE y]
        BY <1>7 DEF CheckSetupFails
      <3> HIDE DEF x, y
      <3>2. CASE tab[t].retries < MaxRetries
        BY <3>1, <3>2
      <3>3. CASE ~(tab[t].retries < MaxRetries)
        BY <3>1, <3>3
      <3> QED BY <3>2, <3>3
    <2> HIDE DEF x, y
    <2> QED BY <1>1, <1>2, <2>2, <2>3, <2>4
  <1>8. CASE CheckSetup(t)
    <2> DEFINE p == IF isSetup THEN "password" ELSE "setup"
               x == [tab[t] EXCEPT !.at = p, !.retries = 0]
    <2>1. p \in Place
      BY DEF Place
    <2>2. x \in TabState /\ SameCall(tab[t], x)
      BY <1>3a, <2>1
    <2>3. tab' = [tab EXCEPT ![t] = x]
      BY <1>8 DEF CheckSetup
    <2> HIDE DEF x
    <2> QED BY <1>1, <1>2, <2>2, <2>3
  <1> QED BY <1>4, <1>5, <1>6, <1>7, <1>8

\* A document replaces the page.
LEMMA DocumentStep ==
    ASSUME BrowserTypeOK, NEW t \in Tabs, Reload(t) \/ OpenInvitation(t)
    PROVE  /\ \E x \in TabState : Forgotten(x) /\ tab' = [tab EXCEPT ![t] = x]
           /\ UNCHANGED <<cookie, liveTokens, unused, isSetup>>
  <1>1. UNCHANGED <<cookie, liveTokens, unused, isSetup>>
    BY DEF Reload, OpenInvitation
  <1>2. \E p \in Place : tab' = [tab EXCEPT ![t] = Navigated(t, p, NoToken)]
    <2>1. {"toApp", "toLogin", "invite"} \subseteq Place
      BY DEF Place
    <2>2. CASE Reload(t)
      BY <2>1, <2>2 DEF Reload, Navigate
    <2>3. CASE OpenInvitation(t)
      BY <2>1, <2>3 DEF OpenInvitation, Navigate
    <2> QED BY <2>2, <2>3
  <1> QED BY <1>1, <1>2, NavigatedTyped

LEMMA SignedInStep ==
    ASSUME BrowserTypeOK, NEW t \in Tabs, NEW s \in Tokens,
           SubmitPassword(t, s) \/ SubmitCode(t, s) \/ SubmitSetup(t, s) \/ SubmitInvitation(t, s)
    PROVE  /\ \E x \in TabState : Forgotten(x) /\ tab' = [tab EXCEPT ![t] = x]
           /\ s \in unused /\ unused' = unused \ {s} /\ liveTokens' = liveTokens \cup {s}
           /\ cookie' = s /\ isSetup' \in BOOLEAN
  <1>1. SignedIn(t, s) /\ isSetup' \in BOOLEAN
    BY DEF SubmitPassword, SubmitCode, SubmitSetup, SubmitInvitation, BrowserTypeOK
  <1>2. "toApp" \in Place
    BY DEF Place
  <1> QED BY <1>1, <1>2, PushTyped DEF SignedIn

LEMMA SendStep ==
    ASSUME BrowserTypeOK, NEW t \in Tabs, NEW k \in {"call", "logout", "change", "resume"}, Send(t, k)
    PROVE  /\ \E x \in TabState :
                 /\ x.shown = cookie /\ x.answer = tab[t].answer /\ x.call # "none"
                 /\ tab' = [tab EXCEPT ![t] = x]
           /\ tab[t].call = "none" /\ UNCHANGED <<cookie, liveTokens, unused, isSetup>>
  <1> DEFINE x == [tab[t] EXCEPT !.call = k, !.shown = cookie, !.proof = tab[t].token]
  <1>1. tab[t] \in TabState /\ cookie \in Tokens \cup {NoToken}
    BY DEF BrowserTypeOK
  <1>2. x \in TabState /\ x.shown = cookie /\ x.answer = tab[t].answer /\ x.call # "none"
    BY <1>1 DEF TabState
  <1>3. tab' = [tab EXCEPT ![t] = x]
    BY DEF Send
  <1>4. tab[t].call = "none" /\ UNCHANGED <<cookie, liveTokens, unused, isSetup>>
    BY DEF Send
  <1> HIDE DEF x
  <1> QED BY <1>2, <1>3, <1>4

LEMMA ServeStep ==
    ASSUME BrowserTypeOK, NEW t \in Tabs, Serve(t) \/ ServeFails(t)
    PROVE  /\ \E x \in TabState :
                 /\ x.shown = tab[t].shown /\ x.call = tab[t].call
                 /\ x.answer = "unauthorized" => tab[t].shown \notin liveTokens
                 /\ x.call = "resume" => x.answer # "tokenRequired"
                 /\ tab' = [tab EXCEPT ![t] = x]
           /\ tab[t].call # "none" /\ liveTokens' \subseteq liveTokens /\ UNCHANGED <<cookie, unused, isSetup>>
  <1>0. CASE ServeFails(t)
    <2> DEFINE x == [tab[t] EXCEPT !.answer = "failed"]
    <2>1. x \in TabState /\ x.shown = tab[t].shown /\ x.call = tab[t].call /\ x.answer = "failed"
      BY DEF BrowserTypeOK, TabState
    <2>2. /\ tab' = [tab EXCEPT ![t] = x] /\ tab[t].call # "none"
          /\ UNCHANGED <<cookie, liveTokens, unused, isSetup>>
      BY <1>0 DEF ServeFails
    <2> HIDE DEF x
    <2> QED BY <2>1, <2>2
  <1> SUFFICES ASSUME Serve(t)
               PROVE  /\ \E x \in TabState :
                              /\ x.shown = tab[t].shown /\ x.call = tab[t].call
                              /\ x.answer = "unauthorized" => tab[t].shown \notin liveTokens
                              /\ x.call = "resume" => x.answer # "tokenRequired"
                              /\ tab' = [tab EXCEPT ![t] = x]
                        /\ tab[t].call # "none" /\ liveTokens' \subseteq liveTokens
                        /\ UNCHANGED <<cookie, unused, isSetup>>
    BY <1>0
  <1> DEFINE result == authenticateRequest(tab[t].call, tab[t].shown, tab[t].proof)
             x == [tab[t] EXCEPT !.answer = result]
  <1>1. tab[t] \in TabState
    BY DEF BrowserTypeOK
  <1>2. /\ result \in {"ok", "unauthorized", "tokenRequired"}
        /\ result = "unauthorized" => tab[t].shown \notin liveTokens
        /\ tab[t].call = "resume" => result # "tokenRequired"
    BY DEF authenticateRequest
  <1>3. tab[t].call # "none" /\ UNCHANGED <<cookie, unused, isSetup>> /\ tab' = [tab EXCEPT ![t] = x]
    BY DEF Serve
  <1>4. liveTokens' = CASE result = "ok" /\ tab[t].call = "logout" -> liveTokens \ {tab[t].shown}
                        [] result = "ok" /\ tab[t].call = "change" -> {}
                        [] OTHER -> liveTokens
    BY DEF Serve
  <1> HIDE DEF result
  <1>5. liveTokens' \subseteq liveTokens
    BY <1>4
  <1>6. /\ x \in TabState /\ x.shown = tab[t].shown /\ x.call = tab[t].call /\ x.answer = result
    BY <1>1, <1>2 DEF TabState
  <1> HIDE DEF x
  <1> QED BY <1>2, <1>3, <1>5, <1>6

LEMMA ReceiveStep ==
    ASSUME BrowserTypeOK, NEW t \in Tabs, Receive(t)
    PROVE  /\ \E x \in TabState : Forgotten(x) /\ tab' = [tab EXCEPT ![t] = x]
           /\ cookie' = cookie \/ (cookie' = NoToken /\ ClearsCookie(tab[t].call, tab[t].shown, tab[t].answer))
           /\ tab[t].answer # "none" /\ UNCHANGED <<liveTokens, unused, isSetup>>
  <1>1. AfterAnswer(t) \in TabState /\ Forgotten(AfterAnswer(t))
    <2>1. /\ "toLogin" \in Place /\ "app" \in Place /\ "toApp" \in Place
          /\ NoToken \in Tokens \cup {NoToken} /\ tab[t].shown \in Tokens \cup {NoToken}
      BY DEF Place, BrowserTypeOK, TabState
    <2> QED BY <2>1, ResumeTyped, NavigatedTyped, PushTyped DEF AfterAnswer, AfterResume
  <1>2. /\ cookie' = cookie \/ (cookie' = NoToken /\ ClearsCookie(tab[t].call, tab[t].shown, tab[t].answer))
        /\ tab[t].answer # "none" /\ UNCHANGED <<liveTokens, unused, isSetup>>
        /\ tab' = [tab EXCEPT ![t] = AfterAnswer(t)]
    BY DEF Receive
  <1> QED BY <1>1, <1>2

\* A step of one tab: it is enough to look at that tab, as tokens only leave `unused'.
LEMMA TabsGood ==
    ASSUME BrowserInv, NEW t \in Tabs, NEW x \in TabState, tab' = [tab EXCEPT ![t] = x],
           cookie' \in Tokens \cup {NoToken}, liveTokens' \subseteq Tokens, unused' \subseteq unused, isSetup' \in BOOLEAN,
           cookie' \notin unused', TabGood(x)', \A s \in liveTokens' : s \in liveTokens \/ s \in unused
    PROVE  BrowserInv'
  <1>1. /\ tab' \in [Tabs -> TabState] /\ tab'[t] = x
        /\ \A o \in Tabs \ {t} : tab'[o] = tab[o]
    BY TabMoved DEF BrowserInv
  <1>2. BrowserTypeOK'
    BY <1>1 DEF BrowserInv, BrowserTypeOK
  <1>3. ASSUME NEW o \in Tabs \ {t} PROVE TabGood(tab[o])'
    BY <1>1 DEF BrowserInv, TabGood
  <1> QED BY <1>1, <1>2, <1>3 DEF BrowserInv, TabGood

LEMMA BrowserStep ==
    ASSUME BrowserInv, [BrowserNext]_browserVars
    PROVE  BrowserInv'
  <1>0. /\ BrowserTypeOK /\ cookie \in Tokens \cup {NoToken} /\ liveTokens \subseteq Tokens
        /\ unused \subseteq Tokens /\ isSetup \in BOOLEAN /\ cookie \notin unused
        /\ NoToken \notin unused
    BY TokenAssumption DEF BrowserInv, BrowserTypeOK
  <1>1. CASE UNCHANGED browserVars
    BY <1>1 DEF browserVars, BrowserInv, BrowserTypeOK, TabGood
  <1>2. ASSUME NEW s \in Tokens, SessionEnds(s)
        PROVE  BrowserInv'
    BY <1>0, <1>2 DEF SessionEnds, BrowserInv, BrowserTypeOK, TabGood
  <1>3. ASSUME NEW t \in Tabs,
               \/ LoadApp(t) \/ LoadLogin(t) \/ CheckSetup(t) \/ CheckSetupFails(t)
               \/ GuardAges(t) \/ AskForCode(t) \/ BackToLogin(t)
        PROVE  BrowserInv'
    <2>1. PICK x \in TabState : SameCall(tab[t], x) /\ tab' = [tab EXCEPT ![t] = x]
      BY <1>0, <1>3, PageStep
    <2>2. UNCHANGED <<cookie, liveTokens, unused, isSetup>>
      BY <1>0, <1>3, PageStep
    <2>3. TabGood(x)'
      BY <2>1, <2>2 DEF BrowserInv, TabGood, SameCall
    <2> QED BY <1>0, <2>1, <2>2, <2>3, TabsGood
  <1>4. ASSUME NEW t \in Tabs, Reload(t) \/ OpenInvitation(t)
        PROVE  BrowserInv'
    <2>1. PICK x \in TabState : Forgotten(x) /\ tab' = [tab EXCEPT ![t] = x]
      BY <1>0, <1>4, DocumentStep
    <2>2. UNCHANGED <<cookie, liveTokens, unused, isSetup>>
      BY <1>0, <1>4, DocumentStep
    <2>3. TabGood(x)'
      BY <1>0, <2>1, <2>2 DEF TabGood, Forgotten
    <2> QED BY <1>0, <2>1, <2>2, <2>3, TabsGood
  <1>5. ASSUME NEW t \in Tabs, NEW s \in Tokens,
               SubmitPassword(t, s) \/ SubmitCode(t, s) \/ SubmitSetup(t, s) \/ SubmitInvitation(t, s)
        PROVE  BrowserInv'
    <2>1. PICK x \in TabState : Forgotten(x) /\ tab' = [tab EXCEPT ![t] = x]
      BY <1>0, <1>5, SignedInStep
    <2>2. /\ s \in unused /\ unused' = unused \ {s} /\ liveTokens' = liveTokens \cup {s}
          /\ cookie' = s /\ isSetup' \in BOOLEAN
      BY <1>0, <1>5, SignedInStep
    <2>3. TabGood(x)'
      BY <1>0, <2>1, <2>2 DEF TabGood, Forgotten
    <2> QED BY <1>0, <2>1, <2>2, <2>3, TabsGood
  <1>6. ASSUME NEW t \in Tabs, NEW k \in {"call", "logout", "change", "resume"}, Send(t, k)
        PROVE  BrowserInv'
    <2>1. PICK x \in TabState : /\ x.shown = cookie /\ x.answer = tab[t].answer /\ x.call # "none"
                                /\ tab' = [tab EXCEPT ![t] = x]
      BY <1>0, <1>6, SendStep
    <2>2. tab[t].call = "none" /\ UNCHANGED <<cookie, liveTokens, unused, isSetup>>
      BY <1>0, <1>6, SendStep
    <2>3. TabGood(x)'
      BY <1>0, <2>1, <2>2 DEF BrowserInv, TabGood
    <2> QED BY <1>0, <2>1, <2>2, <2>3, TabsGood
  <1>7. ASSUME NEW t \in Tabs, Serve(t) \/ ServeFails(t)
        PROVE  BrowserInv'
    <2>1. PICK x \in TabState : /\ x.shown = tab[t].shown /\ x.call = tab[t].call
                                /\ x.answer = "unauthorized" => tab[t].shown \notin liveTokens
                                /\ x.call = "resume" => x.answer # "tokenRequired"
                                /\ tab' = [tab EXCEPT ![t] = x]
      BY <1>0, <1>7, ServeStep
    <2>2. tab[t].call # "none" /\ liveTokens' \subseteq liveTokens /\ UNCHANGED <<cookie, unused, isSetup>>
      BY <1>0, <1>7, ServeStep
    <2>3. TabGood(x)'
      BY <2>1, <2>2 DEF BrowserInv, TabGood
    <2> QED BY <1>0, <2>1, <2>2, <2>3, TabsGood
  <1>8. ASSUME NEW t \in Tabs, Receive(t)
        PROVE  BrowserInv'
    <2>1. PICK x \in TabState : Forgotten(x) /\ tab' = [tab EXCEPT ![t] = x]
      BY <1>0, <1>8, ReceiveStep
    <2>2. cookie' \in {cookie, NoToken} /\ UNCHANGED <<liveTokens, unused, isSetup>>
      BY <1>0, <1>8, ReceiveStep
    <2>3. TabGood(x)'
      BY <1>0, <2>1, <2>2 DEF TabGood, Forgotten
    <2> QED BY <1>0, <2>1, <2>2, <2>3, TabsGood
  <1> QED
    BY <1>1, <1>2, <1>3, <1>4, <1>5, <1>6, <1>7, <1>8 DEF BrowserNext, Progress, UserActs

LEMMA BrowserInitially == BrowserInit => BrowserInv
  <1> SUFFICES ASSUME BrowserInit PROVE BrowserInv
    OBVIOUS
  <1>1. BrowserTypeOK
    BY NewTabTyped DEF BrowserInit, BrowserTypeOK
  <1>2. \A t \in Tabs : TabGood(tab[t])
    BY NewTabTyped, TokenAssumption DEF BrowserInit, TabGood, Forgotten
  <1> QED BY <1>1, <1>2, TokenAssumption DEF BrowserInit, BrowserInv

LEMMA BrowserInvariance == BrowserSpec => []BrowserInv
  BY BrowserInitially, BrowserStep, PTL DEF BrowserSpec

\* Cookie, tokens and tabs keep their types through every page and call of the browser.
THEOREM BrowserTypes == BrowserSpec => []BrowserTypeOK
  <1>1. BrowserInv => BrowserTypeOK
    BY DEF BrowserInv
  <1> QED BY <1>1, BrowserInvariance, PTL

\* A live session loses its cookie to nothing but a sign-out, a change of
\* password, an answer that crossed a new sign-in, or a resume that failed.
THEOREM CookieIsKept == BrowserSpec => CookieKept
  <1>1. ASSUME BrowserInv, [BrowserNext]_browserVars, cookie \in liveTokens, cookie' = NoToken
        PROVE  \E t \in Tabs : /\ Arrives(t)
                               /\ \/ tab[t].call \in {"logout", "change"}
                                  \/ tab[t].shown # cookie
                                  \/ tab[t].call = "resume" /\ tab[t].answer = "failed"
    <2>0. BrowserTypeOK /\ cookie # NoToken /\ cookie' # cookie
      BY <1>1, TokenAssumption DEF BrowserInv, BrowserTypeOK
    <2>1. \E t \in Tabs : Receive(t)
      <3>1. ~UNCHANGED browserVars /\ ~(\E s \in Tokens : SessionEnds(s))
        BY <2>0 DEF browserVars, SessionEnds
      <3>2. ASSUME NEW t \in Tabs, Progress(t) \/ UserActs(t) \/ ServeFails(t) PROVE Receive(t)
        <4>1. ~(\/ LoadApp(t) \/ LoadLogin(t) \/ CheckSetup(t) \/ CheckSetupFails(t)
                \/ GuardAges(t) \/ AskForCode(t) \/ BackToLogin(t))
          BY <2>0, PageStep
        <4>2. ~(Reload(t) \/ OpenInvitation(t))
          BY <1>1, <2>0, DocumentStep
        <4>3. ~(\E s \in Tokens : SubmitPassword(t, s) \/ SubmitCode(t, s) \/ SubmitSetup(t, s) \/ SubmitInvitation(t, s))
          BY <1>1, <2>0, SignedInStep, TokenAssumption
        <4>4. ~(\E k \in {"call", "logout", "change", "resume"} : Send(t, k))
          BY <2>0, SendStep
        <4>5. ~(Serve(t) \/ ServeFails(t))
          BY <2>0, ServeStep
        <4> QED BY <3>2, <4>1, <4>2, <4>3, <4>4, <4>5 DEF Progress, UserActs
      <3> QED BY <1>1, <3>1, <3>2 DEF BrowserNext
    <2>2. PICK t \in Tabs : Receive(t)
      BY <2>1
    <2>3. PICK x \in TabState : Forgotten(x) /\ tab' = [tab EXCEPT ![t] = x]
      BY <2>0, <2>2, ReceiveStep
    <2>4. ClearsCookie(tab[t].call, tab[t].shown, tab[t].answer) /\ tab[t].answer # "none"
      BY <2>0, <2>2, ReceiveStep
    <2>5. Arrives(t)
      BY <2>0, <2>3, <2>4, TabMoved DEF Arrives, Forgotten
    <2>6. tab[t].answer = "unauthorized" => tab[t].shown # cookie
      BY <1>1 DEF BrowserInv, TabGood
    <2>7. tab[t].call = "resume" => tab[t].answer # "tokenRequired"
      BY <1>1 DEF BrowserInv, TabGood
    <2>8. \/ tab[t].call \in {"logout", "change"}
          \/ tab[t].shown # cookie
          \/ tab[t].call = "resume" /\ tab[t].answer = "failed"
      <3>1. tab[t].answer \in {"none", "ok", "unauthorized", "tokenRequired", "failed"}
        BY <2>0 DEF BrowserTypeOK, TabState
      <3> QED BY <2>4, <2>6, <2>7, <3>1 DEF ClearsCookie
    <2> QED BY <2>5, <2>8
  <1>2. BrowserInv /\ [BrowserNext]_browserVars =>
          [(cookie \in liveTokens /\ cookie' = NoToken) =>
             \E t \in Tabs : /\ Arrives(t)
                             /\ \/ tab[t].call \in {"logout", "change"}
                                \/ tab[t].shown # cookie
                                \/ tab[t].call = "resume" /\ tab[t].answer = "failed"]_browserVars
    BY <1>1
  <1> QED BY <1>2, BrowserInvariance, PTL DEF BrowserSpec, CookieKept

\* A call is under way only in the app, or as the navigation to resume.
CallsInside == \A t \in Tabs : tab[t].call # "none" => tab[t].at \in {"app", "toResume"}

LEMMA CallsInsideStep ==
    ASSUME BrowserInv, CallsInside, [BrowserNext]_browserVars
    PROVE  CallsInside'
  <1>0. BrowserTypeOK
    BY DEF BrowserInv
  <1>1. ASSUME NEW t \in Tabs, NEW x \in TabState, tab' = [tab EXCEPT ![t] = x],
               x.call # "none" => x.at \in {"app", "toResume"}
        PROVE  CallsInside'
    <2>1. tab'[t] = x /\ \A o \in Tabs \ {t} : tab'[o] = tab[o]
      BY <1>0, <1>1, TabMoved
    <2> QED BY <1>1, <2>1 DEF CallsInside
  <1>2. CASE UNCHANGED browserVars \/ \E s \in Tokens : SessionEnds(s)
    BY <1>2 DEF browserVars, SessionEnds, CallsInside
  <1>3. ASSUME NEW t \in Tabs,
               \/ LoadApp(t) \/ LoadLogin(t) \/ CheckSetup(t) \/ CheckSetupFails(t)
               \/ AskForCode(t) \/ BackToLogin(t)
        PROVE  CallsInside'
    <2>1. PICK x \in TabState : SameCall(tab[t], x) /\ tab' = [tab EXCEPT ![t] = x]
      BY <1>0, <1>3, PageStep
    <2>2. tab[t].at \notin {"app", "toResume"}
      BY <1>3 DEF LoadApp, LoadLogin, CheckSetup, CheckSetupFails, AskForCode, BackToLogin
    <2>3. x.call = "none"
      BY <2>1, <2>2 DEF CallsInside, SameCall
    <2> QED BY <1>1, <2>1, <2>3
  <1>4. ASSUME NEW t \in Tabs, GuardAges(t)
        PROVE  CallsInside'
    <2> DEFINE x == [tab[t] EXCEPT !.recent = FALSE]
    <2>1. x \in TabState /\ x.call = tab[t].call /\ x.at = tab[t].at
      BY <1>0 DEF BrowserTypeOK, TabState
    <2>2. tab' = [tab EXCEPT ![t] = x]
      BY <1>4 DEF GuardAges
    <2> HIDE DEF x
    <2> QED BY <1>1, <2>1, <2>2 DEF CallsInside
  <1>5. ASSUME NEW t \in Tabs,
               \/ Reload(t) \/ OpenInvitation(t) \/ Receive(t)
               \/ \E s \in Tokens : SubmitPassword(t, s) \/ SubmitCode(t, s) \/ SubmitSetup(t, s) \/ SubmitInvitation(t, s)
        PROVE  CallsInside'
    <2>1. PICK x \in TabState : Forgotten(x) /\ tab' = [tab EXCEPT ![t] = x]
      BY <1>0, <1>5, DocumentStep, ReceiveStep, SignedInStep
    <2> QED BY <1>1, <2>1 DEF Forgotten
  <1>6. ASSUME NEW t \in Tabs, NEW k \in {"call", "logout", "change", "resume"}, Send(t, k)
        PROVE  CallsInside'
    <2>1. tab'[t].at = tab[t].at /\ \A o \in Tabs \ {t} : tab'[o] = tab[o]
      BY <1>0, <1>6 DEF Send, BrowserTypeOK, TabState
    <2>2. tab[t].at \in {"app", "toResume"}
      BY <1>6 DEF Send
    <2> QED BY <2>1, <2>2 DEF CallsInside
  <1>7. ASSUME NEW t \in Tabs, Serve(t) \/ ServeFails(t)
        PROVE  CallsInside'
    <2>1. tab'[t].at = tab[t].at /\ \A o \in Tabs \ {t} : tab'[o] = tab[o]
      BY <1>0, <1>7 DEF Serve, ServeFails, BrowserTypeOK, TabState
    <2>2. tab[t].call # "none"
      BY <1>7 DEF Serve, ServeFails
    <2> QED BY <2>1, <2>2 DEF CallsInside
  <1> QED
    BY <1>2, <1>3, <1>4, <1>5, <1>6, <1>7 DEF BrowserNext, Progress, UserActs

LEMMA CallsStayInside == BrowserSpec => []CallsInside
  <1>1. BrowserInit => CallsInside
    BY DEF BrowserInit, CallsInside, NewTab
  <1>2. BrowserInv /\ CallsInside /\ [BrowserNext]_browserVars => CallsInside'
    BY CallsInsideStep
  <1> QED BY <1>1, <1>2, BrowserInvariance, PTL DEF BrowserSpec

\* The backend accepts no session it did not accept before, other than that of a sign-in,
\* which makes the cookie a live one.
LEMMA SessionsOnlyEnd ==
    ASSUME BrowserInv, BrowserNext, cookie' \notin liveTokens'
    PROVE  liveTokens' \subseteq liveTokens
  <1>0. BrowserTypeOK
    BY DEF BrowserInv
  <1>1. ASSUME NEW s \in Tokens, SessionEnds(s)
        PROVE  liveTokens' \subseteq liveTokens
    BY <1>1 DEF SessionEnds
  <1>2. ASSUME NEW t \in Tabs, Progress(t) \/ UserActs(t) \/ ServeFails(t)
        PROVE  liveTokens' \subseteq liveTokens
    <2>1. CASE \/ LoadApp(t) \/ LoadLogin(t) \/ CheckSetup(t) \/ CheckSetupFails(t)
               \/ GuardAges(t) \/ AskForCode(t) \/ BackToLogin(t)
      BY <1>0, <2>1, PageStep
    <2>2. CASE Reload(t) \/ OpenInvitation(t)
      BY <1>0, <2>2, DocumentStep
    <2>3. ASSUME NEW s \in Tokens,
                 SubmitPassword(t, s) \/ SubmitCode(t, s) \/ SubmitSetup(t, s) \/ SubmitInvitation(t, s)
          PROVE  FALSE
      BY <1>0, <2>3, SignedInStep
    <2>4. ASSUME NEW k \in {"call", "logout", "change", "resume"}, Send(t, k)
          PROVE  liveTokens' \subseteq liveTokens
      BY <1>0, <2>4, SendStep
    <2>5. CASE Serve(t) \/ ServeFails(t)
      BY <1>0, <2>5, ServeStep
    <2>6. CASE Receive(t)
      BY <1>0, <2>6, ReceiveStep
    <2> QED BY <1>2, <2>1, <2>2, <2>3, <2>4, <2>5, <2>6 DEF Progress, UserActs
  <1> QED BY <1>1, <1>2 DEF BrowserNext

\* The steps of a tab one by one, while the cookie is dead and stays.
LEMMA TabComesNearer ==
    ASSUME BrowserInv, CallsInside, NEW t \in Tabs, Progress(t),
           cookie \in Tokens \ liveTokens, cookie' = cookie
    PROVE  StepsLeft(t)' < StepsLeft(t) \/ StepsLeft(t)' = 0
  <1>0. /\ BrowserTypeOK /\ tab \in [Tabs -> TabState] /\ tab[t] \in TabState
        /\ cookie # NoToken /\ NoToken \notin Tokens
    BY TokenAssumption DEF BrowserInv, BrowserTypeOK
  <1>1. ASSUME NEW x, tab' = [tab EXCEPT ![t] = x]
        PROVE  tab'[t] = x
    BY <1>0, <1>1
  <1>2. CASE LoadApp(t)
    <2>1. /\ tab[t].at = "toApp" /\ tab'[t].at = "app"
          /\ tab'[t].call = tab[t].call
      BY <1>0, <1>2 DEF LoadApp, TabState
    <2>2. tab'[t].call = "none"
      BY <2>1 DEF CallsInside
    <2> QED BY <2>1, <2>2 DEF StepsLeft, LoginScreens
  <1>3. CASE LoadLogin(t)
    <2>1. tab[t].at \in {"toLogin", "fallback"} /\ tab'[t].at = "toApp"
      BY <1>0, <1>3 DEF LoadLogin, TabState
    <2> QED BY <2>1 DEF StepsLeft, LoginScreens
  <1>4. CASE CheckSetup(t) \/ CheckSetupFails(t)
    <2>1. tab[t].at = "checking"
      BY <1>4 DEF CheckSetup, CheckSetupFails
    <2>2. CASE CheckSetup(t)
      <3> DEFINE p == IF isSetup THEN "password" ELSE "setup"
      <3>1. tab' = [tab EXCEPT ![t] = [tab[t] EXCEPT !.at = p, !.retries = 0]]
        BY <2>2 DEF CheckSetup
      <3>2. p \in LoginScreens
        BY DEF LoginScreens
      <3> HIDE DEF p
      <3>3. tab'[t].at = p
        BY <1>0, <3>1 DEF TabState
      <3> QED BY <3>2, <3>3 DEF StepsLeft, LoginScreens
    <2>3. CASE CheckSetupFails(t)
      <3> DEFINE x == [tab[t] EXCEPT !.retries = tab[t].retries + 1]
                 y == [tab[t] EXCEPT !.at = "password", !.retries = 0]
      <3>1. tab' = [tab EXCEPT ![t] = IF tab[t].retries < MaxRetries THEN x ELSE y]
        BY <2>3 DEF CheckSetupFails
      <3>2. x.at = "checking" /\ y.at = "password"
        BY <1>0, <2>1 DEF TabState
      <3> HIDE DEF x, y
      <3>3. tab'[t] = x \/ tab'[t] = y
        BY <1>0, <3>1
      <3> QED BY <3>2, <3>3 DEF StepsLeft, LoginScreens
    <2> QED BY <1>4, <2>2, <2>3
  <1>5. ASSUME NEW k \in {"call", "resume"}, Send(t, k)
        PROVE  StepsLeft(t)' < StepsLeft(t)
    <2>1. /\ tab[t].at \in {"app", "toResume"} /\ tab[t].call = "none" /\ liveTokens' = liveTokens
      BY <1>5 DEF Send
    <2>2. tab[t].answer = "none"
      BY <2>1 DEF BrowserInv, TabGood
    <2>3. /\ tab'[t].at = tab[t].at /\ tab'[t].call # "none" /\ tab'[t].shown = cookie
          /\ tab'[t].answer = "none"
      BY <1>0, <1>5, <2>2 DEF Send, TabState
    <2>4. StepsLeft(t) = 3
      BY <2>1 DEF StepsLeft, LoginScreens
    <2>5. StepsLeft(t)' = 2
      BY <2>1, <2>3 DEF StepsLeft, LoginScreens
    <2> QED BY <2>4, <2>5
  <1>6. CASE Serve(t)
    <2> DEFINE result == authenticateRequest(tab[t].call, tab[t].shown, tab[t].proof)
    <2>1. /\ tab[t].call # "none" /\ tab[t].answer = "none"
          /\ tab'[t].at = tab[t].at /\ tab'[t].call = tab[t].call
          /\ tab'[t].shown = tab[t].shown /\ tab'[t].answer = result
      BY <1>0, <1>6 DEF Serve, TabState
    <2>2. /\ result \in {"ok", "unauthorized", "tokenRequired"}
          /\ tab[t].shown \notin liveTokens => result = "unauthorized"
      BY DEF authenticateRequest
    <2>3. tab[t].at \in {"app", "toResume"}
      BY <2>1 DEF CallsInside
    <2> HIDE DEF result
    <2>4. CASE tab[t].shown \in Tokens \ liveTokens
      <3>1. StepsLeft(t) = 2
        BY <2>1, <2>3, <2>4 DEF StepsLeft, LoginScreens
      <3>2. StepsLeft(t)' = 1
        BY <1>0, <2>1, <2>2, <2>3, <2>4 DEF StepsLeft, LoginScreens
      <3> QED BY <3>1, <3>2
    <2>5. CASE tab[t].shown \notin Tokens \ liveTokens
      <3>1. StepsLeft(t) = 7
        BY <2>1, <2>3, <2>5 DEF StepsLeft, LoginScreens
      <3>2. StepsLeft(t)' \in {1, 6}
        BY <2>1, <2>2, <2>3 DEF StepsLeft, LoginScreens
      <3> QED BY <3>1, <3>2
    <2> QED BY <2>4, <2>5
  <1>7. CASE Receive(t)
    <2>1. /\ tab[t].answer # "none" /\ ~ClearsCookie(tab[t].call, tab[t].shown, tab[t].answer)
          /\ tab'[t] = AfterAnswer(t)
      BY <1>0, <1>7 DEF Receive
    <2>2. tab[t].call # "none" /\ (tab[t].call = "resume" => tab[t].answer # "tokenRequired")
      BY <2>1 DEF BrowserInv, TabGood
    <2>3. tab[t].at \in {"app", "toResume"}
      BY <2>2 DEF CallsInside
    <2>4. StepsLeft(t) = 6
      BY <2>1, <2>2, <2>3 DEF StepsLeft, LoginScreens, ClearsCookie
    <2>5. ASSUME NEW p \in {"toApp", "toLogin", "fallback", "toResume"}, NEW f, tab'[t] = Navigated(t, p, f)
          PROVE  StepsLeft(t)' \in {3, 4, 5}
      <3>1. tab'[t].at = p /\ tab'[t].call = "none"
        BY <2>5 DEF Navigated, NewTab
      <3> QED BY <3>1 DEF StepsLeft, LoginScreens
    <2>6. CASE tab[t].call = "resume"
      <3>1. \/ tab'[t] = Navigated(t, "toApp", tab[t].shown)
            \/ tab'[t] = Navigated(t, "toLogin", NoToken)
        BY <2>1, <2>6 DEF AfterAnswer, AfterResume
      <3>2. StepsLeft(t)' \in {3, 4, 5}
        BY <2>5, <3>1
      <3> QED BY <2>4, <3>2
    <2>7. CASE tab[t].call # "resume" /\ tab[t].answer = "tokenRequired"
      <3>1. tab'[t] = resumeSession(t)
        BY <2>1, <2>7 DEF AfterAnswer
      <3>2. tab'[t].at \in {"fallback", "toResume"} /\ tab'[t].call = "none"
        BY <3>1 DEF resumeSession, Navigated, NewTab
      <3>3. StepsLeft(t)' \in {3, 4, 5}
        BY <3>2 DEF StepsLeft, LoginScreens
      <3> QED BY <2>4, <3>3
    <2>8. CASE tab[t].call # "resume" /\ tab[t].answer = "unauthorized"
      <3>1. tab'[t] = Navigated(t, "toLogin", NoToken)
        BY <2>1, <2>8 DEF AfterAnswer
      <3>2. StepsLeft(t)' \in {3, 4, 5}
        BY <2>5, <3>1
      <3> QED BY <2>4, <3>2
    <2>9. CASE tab[t].call # "resume" /\ tab[t].answer \notin {"tokenRequired", "unauthorized"}
      <3>1. \/ tab'[t] = [RouterPush(t, "toLogin") EXCEPT !.token = NoToken]
            \/ tab'[t] = RouterPush(t, "toLogin")
            \/ tab'[t] = RouterPush(t, "app")
        BY <2>1, <2>9 DEF AfterAnswer
      <3>2. tab'[t].at \in {"toLogin", "app"} /\ tab'[t].call = "none"
        <4>1. ASSUME NEW p
              PROVE  /\ RouterPush(t, p).at = p /\ RouterPush(t, p).call = "none"
                     /\ [RouterPush(t, p) EXCEPT !.token = NoToken].at = p
                     /\ [RouterPush(t, p) EXCEPT !.token = NoToken].call = "none"
          BY <1>0 DEF RouterPush, TabState
        <4> QED BY <3>1, <4>1
      <3>3. StepsLeft(t)' \in {3, 4, 5}
        BY <3>2 DEF StepsLeft, LoginScreens
      <3> QED BY <2>4, <3>3
    <2> QED BY <2>4, <2>5, <2>6, <2>7, <2>8, <2>9
  <1> QED BY <1>2, <1>3, <1>4, <1>5, <1>6, <1>7 DEF Progress

\* However many tabs there are and whatever they do: with a dead cookie a tab is at most seven of
\* its own steps from the login page, or from the answer that takes the cookie away, and each
\* step it makes, unless a user or a failure intervenes, is one of them.
THEOREM LoginIsNearer == BrowserSpec => DeadCookieNearsLogin
  <1>1. ASSUME BrowserInv, CallsInside, BrowserNext,
               cookie \in Tokens \ liveTokens, cookie' = cookie, cookie' \notin liveTokens',
               NEW t \in Tabs
        PROVE  /\ Progress(t) => StepsLeft(t)' < StepsLeft(t) \/ StepsLeft(t)' = 0
               /\ tab'[t] = tab[t] => StepsLeft(t)' <= StepsLeft(t)
    <2>1. Progress(t) => StepsLeft(t)' < StepsLeft(t) \/ StepsLeft(t)' = 0
      BY <1>1, TabComesNearer
    <2>2. liveTokens' \subseteq liveTokens
      BY <1>1, SessionsOnlyEnd
    <2>3. ASSUME tab'[t] = tab[t] PROVE StepsLeft(t)' <= StepsLeft(t)
      <3>1. tab[t].at \in Place
        BY <1>1 DEF BrowserInv, BrowserTypeOK, TabState
      <3>2. CASE tab[t].at \in {"app", "toResume"}
        BY <2>2, <2>3, <3>2 DEF StepsLeft, LoginScreens
      <3>3. CASE tab[t].at \in Place \ {"app", "toResume"}
        BY <2>3, <3>3 DEF StepsLeft, LoginScreens, Place
      <3> QED BY <3>1, <3>2, <3>3
    <2> QED BY <2>1, <2>3
  <1>2. BrowserInv /\ CallsInside /\ [BrowserNext]_browserVars =>
          [(cookie \in Tokens \ liveTokens /\ cookie' = cookie /\ cookie' \notin liveTokens') =>
             \A t \in Tabs :
                 /\ Progress(t) => StepsLeft(t)' < StepsLeft(t) \/ StepsLeft(t)' = 0
                 /\ tab'[t] = tab[t] => StepsLeft(t)' <= StepsLeft(t)]_browserVars
    BY <1>1
  <1> QED BY <1>2, BrowserInvariance, CallsStayInside, PTL DEF BrowserSpec, DeadCookieNearsLogin

-----------------------------------------------------------------------------
(***************************************************************************)
(* The bound of the shared limiter, for any limit, window, number of       *)
(* replicas and requests.                                                  *)
(*                                                                         *)
(* A window is counted from 1 again only when its row was taken by a       *)
(* statement of another window, which then was late, or deleted by the     *)
(* cleanup, which an hour after the window is too late to matter.  Hence   *)
(* the invariant bounds how often a window started (Starts) and what it    *)
(* admitted by how often it started (Admissions).                          *)
(***************************************************************************)

Current == WindowOf(clock)

NotAhead == row.window <= Current /\ \A a \in Attempts : attempt[a] <= Current

Starts ==
    \A w \in Windows :
        /\ w > Current => starts[w] = 0
        /\ w = Current => starts[w] <= late + (IF row.window = w THEN 1 ELSE 0)
        /\ w < Current => starts[w] <= late + 1

Admissions ==
    \A w \in Windows :
        /\ admitted[w] <= Limit * starts[w]
        /\ row.window = w => admitted[w] <= Limit * starts[w] - Limit + row.count

RateInv == RateTypeOK /\ NotAhead /\ Starts /\ Admissions

-----------------------------------------------------------------------------
LEMMA TimesMonotone ==
    ASSUME NEW n \in Nat, NEW a \in Int, NEW b \in Int, a <= b
    PROVE  n * a <= n * b
OBVIOUS

LEMMA Transitive ==
    ASSUME NEW a \in Int, NEW b \in Int, NEW c \in Int, a <= b, b <= c
    PROVE  a <= c
OBVIOUS

\* What floor(now / windowMs) is.
LEMMA WindowBounds ==
    ASSUME NEW time \in Nat
    PROVE  /\ WindowOf(time) \in Nat
           /\ Window * WindowOf(time) <= time
           /\ time < Window * WindowOf(time) + Window
BY RateAssumption DEF WindowOf

LEMMA WindowMonotone ==
    ASSUME NEW s \in Nat, NEW t \in Nat, s <= t
    PROVE  WindowOf(s) <= WindowOf(t)
<1>1. SUFFICES ASSUME WindowOf(t) + 1 <= WindowOf(s) PROVE FALSE
    BY WindowBounds
<1>2. Window * (WindowOf(t) + 1) <= Window * WindowOf(s)
    BY <1>1, WindowBounds, TimesMonotone, RateAssumption
<1>3. Window * (WindowOf(t) + 1) = Window * WindowOf(t) + Window
    BY WindowBounds, RateAssumption
<1> QED
    BY <1>2, <1>3, WindowBounds, RateAssumption

LEMMA TimeHasWindow ==
    ASSUME NEW time \in 0 .. MaxTime
    PROVE  WindowOf(time) \in Windows
<1>1. time \in Nat /\ time <= MaxTime /\ MaxTime \in Nat
    BY RateAssumption
<1>2. WindowOf(time) <= WindowOf(MaxTime)
    BY <1>1, WindowMonotone
<1>3. WindowOf(time) \in Nat /\ WindowOf(MaxTime) \in Nat
    BY <1>1, WindowBounds
<1>4. Windows = 0 .. WindowOf(MaxTime)
    BY DEF Windows, WindowOf
<1> QED
    BY <1>2, <1>3, <1>4

LEMMA CurrentIsWindow == RateTypeOK => Current \in Windows
BY TimeHasWindow DEF RateTypeOK, Current

LEMMA WindowsAreNumbers == Windows \subseteq Nat
<1>1. WindowOf(MaxTime) \in Nat
    BY WindowBounds, RateAssumption
<1> QED
    BY <1>1 DEF Windows, WindowOf

LEMMA EntriesAreNumbers ==
    ASSUME NEW x, x \in Windows \cup {-1}
    PROVE  x \in Int
<1>1. CASE x \in Windows
    <2>1. x \in Nat
        BY <1>1, WindowsAreNumbers
    <2> QED
        BY <2>1
<1>2. CASE x = -1
    BY <1>2
<1> QED
    BY <1>1, <1>2

-----------------------------------------------------------------------------
LEMMA RateInitGood == RateInit => RateInv
<1> SUFFICES ASSUME RateInit PROVE RateInv
    OBVIOUS
<1>1. RateTypeOK
    BY RateAssumption DEF RateInit, RateTypeOK
<1>2. Current \in Nat
    BY <1>1, CurrentIsWindow, WindowsAreNumbers
<1>3. NotAhead
    BY <1>2 DEF RateInit, NotAhead
<1>4. Starts
    BY <1>2, WindowsAreNumbers DEF RateInit, Starts
<1>5. Admissions
    <2>1. Limit * 0 = 0
        BY RateAssumption
    <2> QED
        BY <2>1, WindowsAreNumbers DEF RateInit, Admissions
<1> QED
    BY <1>1, <1>3, <1>4, <1>5 DEF RateInv

LEMMA TickGood == RateInv /\ Tick => RateInv'
<1> SUFFICES ASSUME RateInv, Tick PROVE RateInv'
    OBVIOUS
<1> USE DEF RateInv
<1>1. RateTypeOK'
    BY RateAssumption DEF Tick, RateTypeOK
<1>2. Current \in Windows /\ Current' \in Windows /\ Current <= Current'
    <2>1. clock \in Nat /\ clock' \in Nat /\ clock <= clock'
        BY RateAssumption DEF Tick, RateTypeOK
    <2>2. WindowOf(clock) <= WindowOf(clock')
        BY <2>1, WindowMonotone
    <2>3. Current' = WindowOf(clock') /\ Current = WindowOf(clock)
        BY DEF Current
    <2>4. WindowOf(clock) \in Windows /\ WindowOf(clock') \in Windows
        BY <1>1, TimeHasWindow DEF RateTypeOK
    <2> QED
        BY <2>2, <2>3, <2>4
<1>3. Current \in Nat /\ Current' \in Nat
    BY <1>2, WindowsAreNumbers
<1>4. NotAhead'
    <2>1. row.window \in Int /\ row.window <= Current'
        <3>1. row.window \in Windows \cup {-1} /\ row.window <= Current
            BY DEF RateTypeOK, NotAhead
        <3>2. row.window \in Int
            BY <3>1, EntriesAreNumbers
        <3> QED
            BY <3>1, <3>2, <1>2, <1>3, Transitive
    <2>2. \A a \in Attempts : attempt[a] <= Current'
        <3> SUFFICES ASSUME NEW a \in Attempts PROVE attempt[a] <= Current'
            OBVIOUS
        <3>1. attempt[a] \in Windows \cup {-1} /\ attempt[a] <= Current
            BY DEF RateTypeOK, NotAhead
        <3>2. attempt[a] \in Int
            BY <3>1, EntriesAreNumbers
        <3> QED
            BY <3>1, <3>2, <1>2, <1>3, Transitive
    <2>3. row' = row /\ attempt' = attempt
        BY DEF Tick
    <2> QED
        BY <2>1, <2>2, <2>3 DEF NotAhead
<1>5. Starts'
    <2> SUFFICES ASSUME NEW w \in Windows
                 PROVE  /\ w > Current' => starts[w] = 0
                        /\ w = Current' => starts[w] <= late + (IF row.window = w THEN 1 ELSE 0)
                        /\ w < Current' => starts[w] <= late + 1
        BY DEF Starts, Tick
    <2>1. w \in Nat /\ starts[w] \in Nat /\ late \in Nat
        BY WindowsAreNumbers DEF RateTypeOK
    <2> QED
        BY <1>2, <1>3, <2>1 DEF Starts
<1>6. Admissions'
    BY DEF Admissions, Tick
<1> QED
    BY <1>1, <1>4, <1>5, <1>6

\* The stage in memory fixes the window of a request; nothing shared changes.
LEMMA MemoryGood ==
    ASSUME NEW a \in Attempts, NEW p \in Replicas, RateInv,
           MemoryAllows(a, p) \/ MemoryRefuses(a, p)
    PROVE  RateInv'
<1> USE DEF RateInv
<1>1. UNCHANGED <<clock, row, starts, admitted, late>>
    BY DEF MemoryAllows, MemoryRefuses
<1>2. Current \in Windows /\ Current \in Nat
    BY CurrentIsWindow, WindowsAreNumbers
<1>3. attempt' \in [Attempts -> Windows \cup {-1}] /\ \A b \in Attempts : attempt'[b] \in {attempt[b], Current}
    BY <1>2 DEF MemoryAllows, MemoryRefuses, RateTypeOK, Current
<1>4. memory' \in [Replicas -> [count : Nat, reset : Nat]]
    <2>1. memory[p] \in [count : Nat, reset : Nat] /\ clock \in Nat /\ Window \in Nat /\ Limit \in Nat
        BY RateAssumption DEF RateTypeOK
    <2>2. Hit(memory[p]) \in [count : Nat, reset : Nat]
        BY <2>1 DEF Hit
    <2>3. [Hit(memory[p]) EXCEPT !.count = Limit] \in [count : Nat, reset : Nat]
        BY <2>1, <2>2
    <2> QED
        BY <2>2, <2>3 DEF MemoryAllows, MemoryRefuses, RateTypeOK
<1>5. RateTypeOK'
    BY <1>1, <1>3, <1>4 DEF RateTypeOK
<1>6. NotAhead'
    BY <1>1, <1>2, <1>3 DEF NotAhead, Current
<1>7. Starts' /\ Admissions'
    BY <1>1 DEF Starts, Admissions, Current
<1> QED
    BY <1>5, <1>6, <1>7

\* The statement of a request: the only step that starts a window or admits.
LEMMA CheckGood ==
    ASSUME NEW a \in Attempts, RateInv, checkRateLimit(a)
    PROVE  RateInv'
<1> USE DEF RateInv
<1> DEFINE w == attempt[a]
<1>1. /\ w \in Windows /\ w \in Nat /\ w <= Current
      /\ Current \in Windows /\ Current \in Nat
      /\ Current' = Current
    BY CurrentIsWindow, WindowsAreNumbers DEF checkRateLimit, RateTypeOK, NotAhead, Current
<1>2. /\ starts[w] \in Nat /\ admitted[w] \in Nat /\ late \in Nat
      /\ row.count \in Nat /\ row.window \in Windows \cup {-1} /\ Limit \in Nat
    BY <1>1, RateAssumption DEF RateTypeOK
<1>3. /\ row'.window = w
      /\ row'.count = IF row.window = w THEN row.count + 1 ELSE 1
      /\ row' \in [window : Windows \cup {-1}, count : Nat]
    BY <1>1, <1>2 DEF checkRateLimit, Upsert
<1>4. /\ starts' \in [Windows -> Nat]
      /\ starts'[w] = IF row.window = w THEN starts[w] ELSE starts[w] + 1
      /\ \A v \in Windows \ {w} : starts'[v] = starts[v]
    BY <1>1, <1>2 DEF checkRateLimit, RateTypeOK
<1>5. /\ admitted' \in [Windows -> Nat]
      /\ admitted'[w] = IF row'.count <= Limit THEN admitted[w] + 1 ELSE admitted[w]
      /\ \A v \in Windows \ {w} : admitted'[v] = admitted[v]
    BY <1>1, <1>2 DEF checkRateLimit, RateTypeOK, Allowed
<1>6. late' = (IF w # Current THEN late + 1 ELSE late) /\ late' \in Nat
    BY <1>2 DEF checkRateLimit, Current
<1>7. /\ attempt' \in [Attempts -> Windows \cup {-1}]
      /\ \A b \in Attempts : attempt'[b] \in {attempt[b], -1}
      /\ UNCHANGED <<clock, memory>>
    BY DEF checkRateLimit, RateTypeOK
<1>8. RateTypeOK'
    BY <1>3, <1>4, <1>5, <1>6, <1>7 DEF RateTypeOK
<1>9. NotAhead'
    BY <1>1, <1>3, <1>7 DEF NotAhead
<1>10. Starts'
    <2> SUFFICES ASSUME NEW v \in Windows
                 PROVE  /\ v > Current => starts'[v] = 0
                        /\ v = Current => starts'[v] <= late' + (IF row'.window = v THEN 1 ELSE 0)
                        /\ v < Current => starts'[v] <= late' + 1
        BY <1>1 DEF Starts
    <2>1. v \in Nat /\ starts[v] \in Nat
        BY WindowsAreNumbers DEF RateTypeOK
    <2>2. /\ v > Current => starts[v] = 0
          /\ v = Current => starts[v] <= late + (IF row.window = v THEN 1 ELSE 0)
          /\ v < Current => starts[v] <= late + 1
        BY DEF Starts
    <2>3. CASE v = w
        BY <1>1, <1>2, <1>3, <1>4, <1>6, <2>1, <2>2, <2>3
    <2>4. CASE v # w
        BY <1>1, <1>2, <1>3, <1>4, <1>6, <2>1, <2>2, <2>4
    <2> QED
        BY <2>3, <2>4
<1>11. Admissions'
    <2> SUFFICES ASSUME NEW v \in Windows
                 PROVE  /\ admitted'[v] <= Limit * starts'[v]
                        /\ row'.window = v => admitted'[v] <= Limit * starts'[v] - Limit + row'.count
        BY DEF Admissions
    <2>1. /\ admitted[v] <= Limit * starts[v]
          /\ row.window = v => admitted[v] <= Limit * starts[v] - Limit + row.count
        BY DEF Admissions
    <2>2. CASE v # w
        BY <1>3, <1>4, <1>5, <2>1, <2>2
    <2>3. CASE v = w
        <3>1. Limit * (starts[w] + 1) = Limit * starts[w] + Limit /\ Limit * starts[w] \in Nat
            BY <1>2
        <3>2. CASE row.window = w
            BY <1>2, <1>3, <1>4, <1>5, <2>1, <2>3, <3>1, <3>2
        <3>3. CASE row.window # w
            BY <1>2, <1>3, <1>4, <1>5, <2>1, <2>3, <3>1, <3>3, RateAssumption
        <3> QED
            BY <3>2, <3>3
    <2> QED
        BY <2>2, <2>3
<1> QED
    BY <1>8, <1>9, <1>10, <1>11

LEMMA StoreFailsGood ==
    ASSUME NEW a \in Attempts, RateInv, StoreFails(a)
    PROVE  RateInv'
<1> USE DEF RateInv
<1>1. UNCHANGED <<clock, memory, row, starts, admitted, late>>
    BY DEF StoreFails
<1>2. /\ attempt' \in [Attempts -> Windows \cup {-1}]
      /\ \A b \in Attempts : attempt'[b] \in {attempt[b], -1}
    BY DEF StoreFails, RateTypeOK
<1>3. Current \in Nat
    BY CurrentIsWindow, WindowsAreNumbers
<1>4. RateTypeOK'
    BY <1>1, <1>2 DEF RateTypeOK
<1>5. NotAhead'
    BY <1>1, <1>2, <1>3 DEF NotAhead, Current
<1>6. Starts' /\ Admissions'
    BY <1>1 DEF Starts, Admissions, Current
<1> QED
    BY <1>4, <1>5, <1>6

\* The cleanup deletes no row of the current window: an hour is no less than a window.
LEMMA CleanupGood == RateInv /\ cleanupRateLimitCounters => RateInv'
<1> SUFFICES ASSUME RateInv, cleanupRateLimitCounters PROVE RateInv'
    OBVIOUS
<1> USE DEF RateInv
<1>1. /\ row'.window = -1 /\ row' \in [window : Windows \cup {-1}, count : Nat]
      /\ UNCHANGED <<clock, memory, attempt, starts, admitted, late>>
    BY DEF cleanupRateLimitCounters
<1>2. Current \in Nat /\ Current' = Current
    BY <1>1, CurrentIsWindow, WindowsAreNumbers DEF Current
<1>3. row.window # Current
    <2>1. clock \in Nat
        BY RateAssumption DEF RateTypeOK
    <2>2. clock < Window * Current + Window
        BY <2>1, WindowBounds DEF Current
    <2>3. row.window = Current => Current * Window < clock - Hour
        BY DEF cleanupRateLimitCounters, Stale
    <2>4. Current * Window = Window * Current /\ Window * Current \in Int
        BY <1>2, RateAssumption
    <2> QED
        BY <2>1, <2>2, <2>3, <2>4, RateAssumption
<1>4. RateTypeOK'
    BY <1>1 DEF RateTypeOK
<1>5. NotAhead'
    BY <1>1, <1>2 DEF NotAhead
<1>6. Starts'
    BY <1>1, <1>2, <1>3, WindowsAreNumbers DEF Starts
<1>7. Admissions'
    BY <1>1, WindowsAreNumbers DEF Admissions
<1> QED
    BY <1>4, <1>5, <1>6, <1>7

LEMMA RateStepGood == RateInv /\ [RateNext]_rateVars => RateInv'
<1> SUFFICES ASSUME RateInv, [RateNext]_rateVars PROVE RateInv'
    OBVIOUS
<1>1. CASE UNCHANGED rateVars
    BY <1>1 DEF rateVars, RateInv, RateTypeOK, NotAhead, Starts, Admissions, Current
<1>2. CASE RateNext
    BY <1>2, TickGood, MemoryGood, CheckGood, StoreFailsGood, CleanupGood DEF RateNext
<1> QED
    BY <1>1, <1>2

-----------------------------------------------------------------------------
\* The limiter's counters, row and windows keep their types.
THEOREM RateTypes == RateSpec => []RateTypeOK
<1>1. RateInv => RateTypeOK
    BY DEF RateInv
<1> QED
    BY <1>1, RateInitGood, RateStepGood, PTL DEF RateSpec

\* checkRateLimit, together with the cleanup, admits at most Limit requests in a window
\* for each time the window can start; with no late statement that is the limit itself.
THEOREM LimitHolds == RateSpec => []RateHolds
<1>1. RateInv => RateHolds
    <2> SUFFICES ASSUME RateInv, NEW w \in Windows
                 PROVE  admitted[w] <= Limit * (1 + late)
        BY DEF RateHolds
    <2>1. starts[w] \in Nat /\ late \in Nat /\ Limit \in Nat /\ admitted[w] \in Nat
        BY RateAssumption DEF RateInv, RateTypeOK
    <2>2. w \in Nat /\ Current \in Nat
        BY CurrentIsWindow, WindowsAreNumbers DEF RateInv
    <2>3. starts[w] <= 1 + late
        BY <2>1, <2>2 DEF RateInv, Starts
    <2>4. Limit * starts[w] <= Limit * (1 + late)
        BY <2>1, <2>3, TimesMonotone
    <2>5. admitted[w] <= Limit * starts[w]
        BY DEF RateInv, Admissions
    <2> QED
        BY <2>1, <2>4, <2>5
<1> QED
    BY <1>1, RateInitGood, RateStepGood, PTL DEF RateSpec

-----------------------------------------------------------------------------
(***************************************************************************)
(* The parts side by side. MCAccounts splits the operations of Account and *)
(* Members into groups, but every step it takes is one of theirs: what TLC *)
(* explores is a behaviour of each part, and each theorem about a part is  *)
(* one about the composition too.                                          *)
(***************************************************************************)

LEMMA AccountSteps == AccountNext => Next
  BY DEF AccountNext, Next, SignIn, SelfService, Admin

LEMMA MembersSteps == MembersPart => MembersNext
  BY DEF MembersPart, MembersNext, Accounts, Invitations, Organization

LEMMA PartSteps ==
  ASSUME [MCNext]_mcVars
  PROVE  /\ [Next]_vars /\ [MembersNext]_membersVars
         /\ [BrowserNext]_browserVars /\ [RateNext]_rateVars
  BY AccountSteps, MembersSteps DEF MCNext, mcVars

\* Every behaviour that a run of MCAccounts explores is a behaviour of accounts, members, the
\* browser and the rate limiter.
THEOREM PartsAreRespected == MCSpec => Spec /\ MembersSpec /\ BrowserSpec /\ RateSpec
  <1>1. MCInit => Init /\ MembersInit /\ BrowserInit /\ RateInit
    BY DEF MCInit
  <1> QED BY <1>1, PartSteps, PTL DEF MCSpec, Spec, MembersSpec, BrowserSpec, RateSpec

\* Rows, requests, tabs and counters keep their types side by side; the bound on
\* twoFactorFailedAttempts is that of the lockout in onVerifyFailure.
THEOREM AccountsTypes == MCSpec => []AccountsTypesOK
  BY PartsAreRespected, AccountTypes, MembersTypes, BrowserTypes, RateTypes, PTL DEF AccountsTypesOK
=============================================================================
