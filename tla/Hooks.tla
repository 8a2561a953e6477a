-------------------------------- MODULE Hooks --------------------------------
(***************************************************************************)
(* The queries and mutations of the console (frontend/src/hooks, and those  *)
(* the pages declare in place): under which key an answer is cached, and    *)
(* which cached answers the code declares out of date when a request that   *)
(* changes something succeeds.                                              *)
(***************************************************************************)
EXTENDS Sequences, ApiClient

(***************************************************************************)
(* Queries: the key of the answer in the cache and the kinds of data it has. *)
(* A route's page may be opened under the route's slug: its row is then     *)
(* cached under the slug and everything below it under the id.  "id" is one *)
(* row and "other" another of the same kind: answers about the other are    *)
(* followed where a request about the one changes them, the keys a second   *)
(* route shares and the routes of a second group.                           *)
(***************************************************************************)
Query(key, reads) == [key |-> key, reads |-> reads]

useAuth == Query(<<"auth", "me">>, authApi.getMe)
useProxyOrigin == Query(<<"public-base-url">>, routesApi.getPublicBaseUrl)
useRoutes == Query(<<"routes", "filters">>, routesApi.list)
useRoute == Query(<<"routes", "id">>, routesApi.getById)
useRouteBySlug == Query(<<"routes", "slug">>, routesApi.getById)
useRouteVersions == Query(<<"routes", "id", "versions">>, routesApi.getVersions)
useRouteUptime == Query(<<"routes", "id", "uptime">>, routesApi.getUptime)
useRouteStats == Query(<<"routes", "id", "stats">>, routesApi.getStats)
archivedQuery == Query(<<"routes", "archived">>, routesApi.listArchived)
allRoutesQuery == Query(<<"routes", "all">>, routesApi.list)
pinnedQuery == Query(<<"routes", "pageSize">>, routesApi.list)
useApiKeys == Query(<<"apiKeys", "id">>, apiKeysApi.list)
otherApiKeys == Query(<<"apiKeys", "other">>, apiKeysApi.list)
useFolders == Query(<<"folders">>, foldersApi.list)
usePathTemplates == Query(<<"pathTemplates">>, pathTemplatesApi.list)
useNotifications == Query(<<"notifications", "unreadOnly">>, notificationsApi.list)
useUnreadCount == Query(<<"notifications", "count">>, notificationsApi.unreadCount)
useBackups == Query(<<"backups">>, backupsApi.list)
useLogs == Query(<<"logs", "filters">>, logsApi.getAll)
useRecentErrors == Query(<<"logs", "errors">>, logsApi.getErrors)
useDailyStats == Query(<<"logs", "daily">>, logsApi.getDaily)
useAuditLogs == Query(<<"audit", "filters">>, auditApi.list)
useAnalyticsOverview == Query(<<"analytics", "overview">>, analyticsApi.overview)
useLatencyTrend == Query(<<"analytics", "latency-trend">>, analyticsApi.latencyTrend)
useErrorTrend == Query(<<"analytics", "error-trend">>, analyticsApi.errorTrend)
useTrafficHeatmap == Query(<<"analytics", "heatmap">>, analyticsApi.heatmap)
useSlowestRoutes == Query(<<"analytics", "slowest">>, analyticsApi.slowest)
useStatusDistribution == Query(<<"analytics", "status-distribution">>, analyticsApi.statusDistribution)
summaryQuery == Query(<<"dashboard-summary">>, analyticsApi.dashboardSummary)
dailyQuery == Query(<<"logs-daily-dashboard">>, logsApi.getDaily)
trafficQuery == Query(<<"traffic-map", "hours">>, trafficApi.map)
targetsQuery == Query(<<"targets", "id">>, targetsApi.list)
transformsQuery == Query(<<"transforms", "id">>, transformsApi.list)
groupsQuery == Query(<<"route-groups", "search">>, routeGroupsApi.list)
groupChoicesQuery == Query(<<"route-groups">>, routeGroupsApi.list)
groupQuery == Query(<<"route-group", "id">>, routeGroupsApi.getById)
otherGroupQuery == Query(<<"route-group", "other">>, routeGroupsApi.getById)
organizationsQuery == Query(<<"organizations">>, organizationsApi.list)
organizationQuery == Query(<<"organization", "id">>, organizationsApi.getById)
teamsQuery == Query(<<"organization-teams", "id">>, organizationsApi.getTeams)
memberChoicesQuery == Query(<<"users">>, usersApi.list)
usersQuery == Query(<<"users", "search">>, usersApi.list)
invitesQuery == Query(<<"invites">>, usersApi.getInvites)
incidentsQuery == Query(<<"incidents", "filters">>, incidentsApi.list)
incidentQuery == Query(<<"incident", "id">>, incidentsApi.getById)
changesQuery == Query(<<"change-requests", "filters">>, changeRequestsApi.list)
changeQuery == Query(<<"change-request", "id">>, changeRequestsApi.getById)
policyQuery == Query(<<"cr-policy", "id">>, changeRequestsApi.getPolicy)
sessionsQuery == Query(<<"sessions">>, authApi.listSessions)
achievementsQuery == Query(<<"achievements">>, achievementsApi.list)
sanitizerQuery == Query(<<"sanitizer-config">>, sanitizerApi.getConfig)
\* Only the name of the route is shown.
breadcrumbQuery == Query(<<"breadcrumb", "type", "id">>, {"Route"})
pageTitleQuery == Query(<<"page-title", "type", "id">>, {"Route"})

(***************************************************************************)
(* Mutations: what the request changes on the server, the key prefixes      *)
(* invalidated when it succeeds, the keys its answer is put under, and      *)
(* whether the whole cache is thrown away.                                  *)
(***************************************************************************)
Mutation(writes, invalidates) ==
    [writes |-> writes, invalidates |-> invalidates, puts |-> {}, clears |-> FALSE]
Putting(writes, invalidates, key) ==
    [Mutation(writes, invalidates) EXCEPT !.puts = {key}]
Clearing(writes) == [Mutation(writes, {}) EXCEPT !.clears = TRUE]

RouteKeys == {<<"routes">>}

useCreateRoute == Mutation(routesApi.create, RouteKeys)
useUpdateRoute == Putting(routesApi.update, RouteKeys, <<"routes", "id">>)
\* The same hook when the server answers that a change request was made instead.
useRequestUpdate == Mutation(routesApi.updateRequested, {<<"change-requests">>})
useDeleteRoute == Mutation(routesApi.delete, RouteKeys)
\* Mutant: the row of the route is fetched again, the lists that show it are not.
PublishForgets == Mutation(routesApi.publish, {<<"routes", "id">>})
usePublishRoute == Mutation(routesApi.publish, RouteKeys)
useDeactivateRoute == Mutation(routesApi.deactivate, RouteKeys)
useDuplicateRoute == Mutation(routesApi.duplicate, RouteKeys)
useTestRoute == Mutation(routesApi.test, {})
useRouteHealth == Mutation(routesApi.health, {<<"routes", "id">>})
useRestoreRouteVersion == Mutation(routesApi.restoreVersion, {<<"routes", "id">>})
useBulkPublish == Mutation(routesApi.bulkPublish, RouteKeys)
useBulkDeactivate == Mutation(routesApi.bulkDeactivate, RouteKeys)
useBulkUpdate == Mutation(routesApi.bulkUpdate, RouteKeys)
useBulkDelete == Mutation(routesApi.bulkDelete, RouteKeys)
pasteConfigs == Mutation(routesApi.import, RouteKeys)
handleImportFile == Mutation(routesApi.import, RouteKeys)
importSettings == Mutation(routesApi.import, {})
restoreArchived == Mutation(routesApi.restore, RouteKeys)
purgeArchived == Mutation(routesApi.permanentDelete, RouteKeys)

useCreateApiKey == Mutation(apiKeysApi.create, {<<"apiKeys", "id">>})
useRevokeApiKey == Mutation(apiKeysApi.revoke, {<<"apiKeys", "id">>})
useSetApiKeyRoutes == Mutation(apiKeysApi.setRoutes, {<<"apiKeys", "id">>})
useDetachApiKey == Mutation(apiKeysApi.detachFromRoute, {<<"apiKeys", "id">>})
useDeleteApiKey == Mutation(apiKeysApi.delete, {<<"apiKeys", "id">>})
generateGroupKey == Mutation(apiKeysApi.create, {<<"apiKeys">>})
handleGenerateTestKey == Mutation(apiKeysApi.create, {})

useFolderMutation(writes) == Mutation(writes, {<<"folders">>, <<"routes">>, <<"apiKeys">>})
useCreateFolder == useFolderMutation(foldersApi.create)
useUpdateFolder == useFolderMutation(foldersApi.update)
useDeleteFolder == useFolderMutation(foldersApi.delete)
useAssignRoutesToFolder == useFolderMutation(foldersApi.assignRoutes)
useRemoveRouteFromFolder == useFolderMutation(foldersApi.removeRoute)

useCreatePathTemplate == Mutation(pathTemplatesApi.create, {<<"pathTemplates">>})
useDeletePathTemplate == Mutation(pathTemplatesApi.delete, {<<"pathTemplates">>})
useMarkAsRead == Mutation(notificationsApi.markAsRead, {<<"notifications">>})
useMarkAllAsRead == Mutation(notificationsApi.markAllAsRead, {<<"notifications">>})
useDeleteNotification == Mutation(notificationsApi.delete, {<<"notifications">>})
useCreateBackup == Mutation(backupsApi.create, {<<"backups">>})
useRestoreBackup == Mutation(backupsApi.restore, {})
useDeleteBackup == Mutation(backupsApi.delete, {<<"backups">>})
updateBackup == Mutation(backupsApi.update, {<<"backups">>})

createTarget == Mutation(targetsApi.create, {<<"targets", "id">>})
deleteTarget == Mutation(targetsApi.delete, {<<"targets", "id">>})
toggleHealth == Mutation(targetsApi.update, {<<"targets", "id">>})
createTransform == Mutation(transformsApi.create, {<<"transforms", "id">>})
deleteTransform == Mutation(transformsApi.delete, {<<"transforms", "id">>})
toggleActive == Mutation(transformsApi.update, {<<"transforms", "id">>})

createGroup == Mutation(routeGroupsApi.create, {<<"route-groups">>})
updateGroup == Mutation(routeGroupsApi.update, {<<"route-groups">>})
deleteGroup == Mutation(routeGroupsApi.delete, {<<"route-groups">>})
updateGroupDetail == Mutation(routeGroupsApi.update, {<<"route-group", "id">>})
assignToGroup == Mutation(routeGroupsApi.assignRoute, {<<"route-group", "id">>})
removeFromGroup == Mutation(routeGroupsApi.removeRoute, {<<"route-group", "id">>})

createOrg == Mutation(organizationsApi.create, {<<"organizations">>})
updateOrg == Mutation(organizationsApi.update, {<<"organizations">>})
deleteOrg == Mutation(organizationsApi.delete, {<<"organizations">>})
updateOrgDetail == Mutation(organizationsApi.update, {<<"organization", "id">>})
addMember == Mutation(organizationsApi.addMember, {<<"organization", "id">>})
updateRole == Mutation(organizationsApi.updateMemberRole, {<<"organization", "id">>})
removeMember == Mutation(organizationsApi.removeMember, {<<"organization", "id">>})
createTeam == Mutation(organizationsApi.createTeam, {<<"organization-teams", "id">>})
updateTeam == Mutation(organizationsApi.updateTeam, {<<"organization-teams", "id">>})
deleteTeam == Mutation(organizationsApi.deleteTeam, {<<"organization-teams", "id">>})
addTeamMember == Mutation(organizationsApi.addTeamMember, {<<"organization-teams", "id">>})
removeTeamMember == Mutation(organizationsApi.removeTeamMember, {<<"organization-teams", "id">>})

inviteUser == Mutation(usersApi.invite, {<<"invites">>})
revokeUserInvite == Mutation(usersApi.revokeInvite, {<<"invites">>})
editUser == Mutation(usersApi.update, {<<"users">>})
removeUser == Mutation(usersApi.delete, {<<"users">>})
bringBackUser == Mutation(usersApi.restore, {<<"users">>})
clearTwoFactor == Mutation(usersApi.disable2FA, {<<"users">>})

createIncident == Mutation(incidentsApi.create, {<<"incidents">>})
updateIncidentStatus == Mutation(incidentsApi.updateStatus, {<<"incidents">>, <<"incident">>})
addIncidentEvent == Mutation(incidentsApi.addEvent, {<<"incident">>})
dismissIncident == Mutation(incidentsApi.dismiss, {<<"incidents">>, <<"incident">>})
removeIncident == Mutation(incidentsApi.delete, {<<"incidents">>})

approveChange == Mutation(changeRequestsApi.approve, {<<"change-requests">>, <<"change-request">>})
rejectChange == Mutation(changeRequestsApi.reject, {<<"change-requests">>, <<"change-request">>})
deleteChange == Mutation(changeRequestsApi.delete, {<<"change-requests">>})

revokeOwnSession == Mutation(authApi.revokeSession, {<<"sessions">>})
revokeOthers == Mutation(authApi.revokeOtherSessions, {<<"sessions">>})
enable2FA == Mutation(authApi.twoFactorEnable, {})
disable2FA == Clearing(authApi.twoFactorDisable)
useChangePassword == Clearing(authApi.changePassword)
useLogout == Clearing(authApi.logout)
updateSanitizer == Putting(sanitizerApi.updateConfig, {}, <<"sanitizer-config">>)
savePublicBaseUrl == Mutation(routesApi.setPublicBaseUrl, {<<"public-base-url">>})
runHealthChecks == Mutation(systemApi.triggerHealthChecks, {})
cleanupLogs == Mutation(systemApi.cleanupLogs, {})
cleanupHealthChecks == Mutation(systemApi.cleanupHealthChecks, {})
cleanupAuditLogs == Mutation(systemApi.cleanupAuditLogs, {})
=============================================================================
