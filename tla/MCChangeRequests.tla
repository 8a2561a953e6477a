---- MODULE MCChangeRequests ----
(* Small instances of ChangeRequests for TLC. *)
EXTENDS ChangeRequests, TLC

(* The defaults of the schema, with the workflow switched on. *)
DefaultOrg == {[changeRequestsEnabled |-> TRUE, crBypassRoles |-> {"OWNER"},
                crApproverRoles |-> {"OWNER", "ADMIN"}]}
NoGroup == {Null}

(* An organization with or without the workflow, and a group that inherits *)
(* or decides for itself, with lists of its own or none.                   *)
SomeOrgs == [changeRequestsEnabled : BOOLEAN, crBypassRoles : {{"OWNER"}},
             crApproverRoles : {{"OWNER"}}]
SomeGroups == {[changeRequestsEnabled |-> TRUE, crBypassRoles |-> own, crApproverRoles |-> own] :
                  own \in {{}, {"ADMIN"}}}
              \cup {Null}
====
