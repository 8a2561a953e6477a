CONSTANTS
    Users = {ann}
    SystemAdmins = {}
    Requests = {i1}
    Targets = {t1}
    OrgPolicies <- DefaultOrg
    GroupPolicies <- NoGroup
    Crashes = FALSE
    Null = Null
SPECIFICATION Spec
PROPERTY FollowsWorkflow
