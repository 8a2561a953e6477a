CONSTANTS
    Users = {root, ann}
    SystemAdmins = {root}
    Requests = {i1}
    Targets = {t1}
    OrgPolicies <- SomeOrgs
    GroupPolicies <- SomeGroups
    Crashes = TRUE
    Null = Null
SPECIFICATION Spec
INVARIANTS TypeOK AppliedWasAllowed 
PROPERTY PendingNotDropped
