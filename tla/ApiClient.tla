------------------------------ MODULE ApiClient ------------------------------
(***************************************************************************)
(* What the requests of the console read and change on the server           *)
(* (frontend/src/lib/api.ts and the read operations behind it).             *)
(*                                                                          *)
(* Data of the server is named by kind.  A kind in the plural ("Orgs") is   *)
(* the set of rows, the singular the contents of a row; where no screen     *)
(* tells the two apart the singular stands for both.  The answer of a query *)
(* has the kinds whose rows it lists; counts and the names of rows shown    *)
(* beside them are left out, and so are the audit, notification and         *)
(* achievement rows that requests leave behind.                             *)
(*                                                                          *)
(* Of two routes, groups or organizations one stands for all; keys, which   *)
(* several routes share, and routes, which move from one group to another,  *)
(* are also read for another route and another group (see Hooks).           *)
(***************************************************************************)

(***************************************************************************)
(* What the server's read operations answer with.                           *)
(***************************************************************************)
getRoutes == {"Route", "Health"}
getRouteById == {"Route", "Health", "ApiKey"}
getArchivedRoutes == {"Route"}
getRouteVersions == {"Version"}
getRouteUptime == {"Health"}
getRouteLogs == {"Log"}
getRouteStats == {"Log"}
getRecentErrors == {"Log"}
getDailyRequestCounts == {"Log"}
getOverview == {"Log"}
getLatencyTrend == {"Log"}
getErrorRateTrend == {"Log"}
getTrafficHeatmap == {"Log"}
getSlowestRoutes == {"Log"}
getStatusDistribution == {"Log"}
getDashboardSummary == {"Log"}
trafficMap == {"Log"}
getAuditLogs == {"Audit"}
getRouteGroups == {"Groups", "Group"}
getRouteGroupById == {"Group", "Route"}
getOrganizations == {"Orgs", "Org"}
getOrganizationById == {"Org", "Member", "Team"}
getTeams == {"Team"}
listIncidents == {"Incidents", "Incident"}
getIncident == {"Incident"}
listChanges == {"Changes", "Change"}
getChange == {"Change"}
getPolicy == {"Org", "Group"}
getNotifications == {"Notice"}
getUnreadCount == {"Notice"}
getUsers == {"User"}
listInvites == {"Invite"}
listSessions == {"Session"}
getUserAchievements == {"Achievement"}
getCurrentUser == {"Self"}
listApiKeys == {"ApiKey"}
listFolders == {"Folder"}
listPathTemplates == {"Template"}
listTargets == {"Target"}
listTransforms == {"Transform"}
listStoredBackups == {"Backup"}
getSanitizerConfig == {"Sanitizer"}
getPublicBaseUrl == {"BaseUrl"}

\* Restoring a backup replaces the rows of every kind but the backups themselves:
\* the tables it lists, and by cascade the rows that refer to them.
RestoredKinds == {"Route", "Version", "Health", "ApiKey", "Folder", "Target", "Transform",
                  "Log", "Audit", "Groups", "Group", "Orgs", "Org", "Member", "Team",
                  "User", "Self", "Invite", "Session", "Incidents", "Incident", "Changes",
                  "Change", "Notice", "Template", "Achievement", "Sanitizer", "BaseUrl"}

(***************************************************************************)
(* The methods of the client, lib/api.ts: what each request reads or        *)
(* changes on the server.                                                   *)
(***************************************************************************)
authApi == [getMe |-> getCurrentUser, listSessions |-> listSessions,
            revokeSession |-> {"Session"}, revokeOtherSessions |-> {"Session"},
            changePassword |-> {"Self", "Session"}, logout |-> {"Session"},
            twoFactorEnable |-> {"Self"}, twoFactorDisable |-> {"Self"}]

routesApi == [list |-> getRoutes, getById |-> getRouteById, listArchived |-> getArchivedRoutes,
              getVersions |-> getRouteVersions, getUptime |-> getRouteUptime,
              getStats |-> getRouteStats, getPublicBaseUrl |-> getPublicBaseUrl,
              create |-> {"Route", "Version"}, update |-> {"Route", "Version"},
              updateRequested |-> {"Changes"}, delete |-> {"Route"}, publish |-> {"Route"},
              deactivate |-> {"Route"}, duplicate |-> {"Route"}, test |-> {"Log"},
              health |-> {"Health"}, restoreVersion |-> {"Route", "Version"},
              import |-> {"Route", "Version"}, bulkUpdate |-> {"Route"},
              bulkPublish |-> {"Route"}, bulkDeactivate |-> {"Route"},
              bulkDelete |-> {"Route"}, restore |-> {"Route"},
              permanentDelete |-> {"Route"}, setPublicBaseUrl |-> {"BaseUrl"}]

logsApi == [getAll |-> getRouteLogs, getErrors |-> getRecentErrors,
            getDaily |-> getDailyRequestCounts]

\* The row may be the administrator's own, which `auth/me' shows; nobody deletes himself.
usersApi == [list |-> getUsers, update |-> {"User", "Self"}, delete |-> {"User"},
             restore |-> {"User"}, disable2FA |-> {"User", "Self"}, getInvites |-> listInvites,
             invite |-> {"Invite"}, revokeInvite |-> {"Invite"}]

auditApi == [list |-> getAuditLogs]

apiKeysApi == [list |-> listApiKeys, create |-> {"ApiKey"}, detachFromRoute |-> {"ApiKey"},
               revoke |-> {"ApiKey"}, delete |-> {"ApiKey"}, setRoutes |-> {"ApiKey"}]

\* A folder's keys cover the routes that are in it.
foldersApi == [list |-> listFolders, create |-> {"Folder"}, update |-> {"Folder"},
               delete |-> {"Folder", "Route", "ApiKey"}, assignRoutes |-> {"Route", "ApiKey"},
               removeRoute |-> {"Route", "ApiKey"}]

pathTemplatesApi == [list |-> listPathTemplates, create |-> {"Template"}, delete |-> {"Template"}]

systemApi == [triggerHealthChecks |-> {"Health"}, cleanupLogs |-> {"Log"},
              cleanupHealthChecks |-> {"Health"}, cleanupAuditLogs |-> {"Audit"}]

analyticsApi == [overview |-> getOverview, latencyTrend |-> getLatencyTrend,
                 errorTrend |-> getErrorRateTrend, heatmap |-> getTrafficHeatmap,
                 slowest |-> getSlowestRoutes, statusDistribution |-> getStatusDistribution,
                 dashboardSummary |-> getDashboardSummary]

notificationsApi == [list |-> getNotifications, unreadCount |-> getUnreadCount,
                     markAsRead |-> {"Notice"}, markAllAsRead |-> {"Notice"},
                     delete |-> {"Notice"}]

backupsApi == [list |-> listStoredBackups, create |-> {"Backup"}, update |-> {"Backup"},
               restore |-> RestoredKinds, delete |-> {"Backup"}]

targetsApi == [list |-> listTargets, create |-> {"Target"}, update |-> {"Target"},
               delete |-> {"Target"}]

transformsApi == [list |-> listTransforms, create |-> {"Transform"}, update |-> {"Transform"},
                  delete |-> {"Transform"}]

routeGroupsApi == [list |-> getRouteGroups, getById |-> getRouteGroupById,
                   create |-> {"Groups"}, update |-> {"Group"}, delete |-> {"Groups", "Route"},
                   assignRoute |-> {"Route"}, removeRoute |-> {"Route"}]

organizationsApi == [list |-> getOrganizations, getById |-> getOrganizationById,
                     create |-> {"Orgs"}, update |-> {"Org"}, delete |-> {"Orgs"},
                     addMember |-> {"Member"}, updateMemberRole |-> {"Member"},
                     removeMember |-> {"Member"}, getTeams |-> getTeams,
                     createTeam |-> {"Team"}, updateTeam |-> {"Team"}, deleteTeam |-> {"Team"},
                     addTeamMember |-> {"Team"}, removeTeamMember |-> {"Team"}]

incidentsApi == [list |-> listIncidents, getById |-> getIncident, create |-> {"Incidents"},
                 updateStatus |-> {"Incident"}, addEvent |-> {"Incident"},
                 dismiss |-> {"Incident"}, delete |-> {"Incidents"}]

changeRequestsApi == [list |-> listChanges, getById |-> getChange, getPolicy |-> getPolicy,
                      approve |-> {"Change", "Route"}, reject |-> {"Change"},
                      delete |-> {"Changes"}]

achievementsApi == [list |-> getUserAchievements]

trafficApi == [map |-> trafficMap]

sanitizerApi == [getConfig |-> getSanitizerConfig, updateConfig |-> {"Sanitizer"}]
=============================================================================
