------------------------------- MODULE Screens -------------------------------
(***************************************************************************)
(* What the console's screens show and offer (frontend/src/app and          *)
(* components).  Rendering, wording, filters and form fields are left out;  *)
(* what is kept is which queries a screen has in use and which mutations    *)
(* its controls send.                                                       *)
(***************************************************************************)
EXTENDS Hooks

(***************************************************************************)
(* Parts of the screens: the queries a part shows while it is on the screen *)
(* and the mutations its controls send.  A control may be hidden from some  *)
(* users or in some states; here it may be used or not.                     *)
(***************************************************************************)
Part(shows, offers) == [shows |-> shows, offers |-> offers]

\* The frame around every screen.
Sidebar == Part({useAuth}, {useLogout})
PinnedSection == Part({pinnedQuery}, {})
Header == Part({useAuth}, {useLogout})
NotificationBell == Part({useUnreadCount, useNotifications},
                         {useMarkAsRead, useMarkAllAsRead, useDeleteNotification})
Breadcrumbs == Part({breadcrumbQuery}, {})
PageTitle == Part({pageTitleQuery}, {})
Frame == {Sidebar, PinnedSection, Header, NotificationBell, Breadcrumbs, PageTitle}

\* routes/page.tsx
RoutesPage == Part({organizationsQuery, groupChoicesQuery, useFolders, useRoutes}, {})
RouteShortcuts == Part({}, {pasteConfigs, useBulkDelete})
FolderMoves == Part({useRoutes, useFolders}, {useAssignRoutesToFolder, useRemoveRouteFromFolder})
RoutesHeader == Part({useRoutes}, {handleImportFile})
BulkToolbar == Part({groupChoicesQuery, useFolders},
                    {useBulkPublish, useBulkDeactivate, useBulkUpdate, useBulkDelete,
                     useAssignRoutesToFolder, useRemoveRouteFromFolder})
GroupKeyDialog == Part({useRoutes}, {generateGroupKey})
FolderDialog == Part({organizationsQuery}, {useCreateFolder, useUpdateFolder})
RouteTable == Part({useRoutes, useFolders}, {useDeleteFolder})
RouteRow == Part({useRoutes, useProxyOrigin},
                 {usePublishRoute, useDeactivateRoute, useDuplicateRoute, useDeleteRoute})

\* routes/archived, routes/new, routes/[id]/edit
ArchivedRoutesPage == Part({archivedQuery}, {restoreArchived, purgeArchived})
NewRoutePage == Part({}, {useCreateRoute})
EditRoutePage == Part({useRoute, useRouteBySlug}, {useUpdateRoute, useRequestUpdate})
PathTemplatePicker == Part({usePathTemplates}, {useCreatePathTemplate, useDeletePathTemplate})

\* routes/[id]/page.tsx
RouteDetailPage == Part({useRoute, useRouteBySlug, useRouteStats, useRouteUptime, useLogs,
                         useRouteVersions, useProxyOrigin}, {useDeleteRoute})
RouteHeader == Part({useRoute, useRouteBySlug},
                    {useRouteHealth, usePublishRoute, useDeactivateRoute, useDuplicateRoute})
OverviewTab == Part({useRoute, useRouteBySlug}, {})
LogsTab == Part({useLogs}, {})
HistoryTab == Part({useRouteVersions}, {useRestoreRouteVersion})
TargetsPanel == Part({targetsQuery}, {createTarget, deleteTarget, toggleHealth})
TransformsPanel == Part({transformsQuery}, {createTransform, deleteTransform, toggleActive})
RouteTestPanel == Part({}, {useTestRoute, handleGenerateTestKey})
RoutePicker == Part({useRoutes, useFolders}, {})
ApiKeysPanel == Part({useApiKeys, useRoutes, useFolders}, {useCreateApiKey, useRevokeApiKey})
ApiKeysList == Part({useApiKeys}, {useDetachApiKey, useRevokeApiKey, useDeleteApiKey})
OtherRouteKeys == Part({otherApiKeys}, {})
KeyRoutes == Part({useApiKeys}, {useSetApiKeyRoutes})
CreateKeyDialog == Part({useRoutes, useFolders}, {useCreateApiKey})

\* groups, organizations
RouteGroupsPage == Part({groupsQuery}, {})
GroupForm == Part({}, {createGroup, updateGroup})
GroupsTable == Part({groupsQuery}, {deleteGroup})
RouteGroupDetailPage == Part({groupQuery}, {})
GroupDefaults == Part({groupQuery}, {updateGroupDetail})
OtherGroupPage == Part({otherGroupQuery}, {})
GroupPolicy == Part({groupQuery}, {updateGroupDetail})
GroupRoutes == Part({groupQuery, allRoutesQuery}, {assignToGroup, removeFromGroup})
OrganizationsPage == Part({organizationsQuery}, {})
OrganizationForm == Part({}, {createOrg, updateOrg})
OrganizationsGrid == Part({organizationsQuery}, {deleteOrg})
OrganizationDetailPage == Part({organizationQuery, teamsQuery, memberChoicesQuery}, {})
OrganizationPolicy == Part({organizationQuery}, {updateOrgDetail})
TargetAllowlistCard == Part({organizationQuery}, {updateOrgDetail})
MembersTab == Part({organizationQuery, memberChoicesQuery}, {addMember, updateRole, removeMember})
TeamsTab == Part({teamsQuery}, {createTeam, updateTeam, deleteTeam, addTeamMember, removeTeamMember})

\* users, account
UsersPage == Part({usersQuery, invitesQuery}, {})
PendingInvites == Part({invitesQuery}, {revokeUserInvite})
UsersTable == Part({usersQuery}, {removeUser, bringBackUser, clearTwoFactor})
InviteDialog == Part({}, {inviteUser})
EditUserDialog == Part({usersQuery}, {editUser})
AccountPage == Part({useAuth}, {})
PasswordCard == Part({}, {useChangePassword})
TwoFactorCard == Part({useAuth}, {enable2FA, disable2FA})
SessionsCard == Part({sessionsQuery}, {revokeOwnSession, revokeOthers})
AchievementsCard == Part({achievementsQuery}, {})

\* incidents, change-requests
IncidentsPage == Part({incidentsQuery}, {})
IncidentDetailDialog == Part({incidentQuery}, {updateIncidentStatus, addIncidentEvent,
                                               dismissIncident, removeIncident})
CreateIncidentDialog == Part({}, {createIncident})
ChangeRequestsPage == Part({changesQuery}, {})
ChangeRequestDialog == Part({changeQuery, policyQuery}, {approveChange, rejectChange, deleteChange})

\* backups, sanitizer, settings
BackupsPage == Part({useBackups}, {useDeleteBackup})
CreateBackupDialog == Part({}, {useCreateBackup})
EditBackupDialog == Part({useBackups}, {updateBackup})
RestoreBackupDialog == Part({}, {useRestoreBackup})
SanitizerPage == Part({sanitizerQuery}, {updateSanitizer})
BuiltInPatterns == Part({sanitizerQuery}, {updateSanitizer})
CustomPatterns == Part({sanitizerQuery}, {updateSanitizer})
SettingsPage == Part({useRoutes}, {})
MaintenanceActions == Part({}, {savePublicBaseUrl, runHealthChecks, cleanupLogs,
                                cleanupHealthChecks, cleanupAuditLogs})
DataManagement == Part({useRoutes}, {importSettings})

\* dashboard, analytics, activity, audit, traffic map
DashboardPage == Part({useRoutes, useLogs, summaryQuery, dailyQuery}, {})
RequestsChart == Part({useDailyStats}, {})
RecentErrors == Part({useRecentErrors}, {})
AnalyticsPage == Part({useRoutes, useAnalyticsOverview}, {})
LatencyChart == Part({useLatencyTrend}, {})
ErrorRateChart == Part({useErrorTrend}, {})
HeatmapChart == Part({useTrafficHeatmap}, {})
SlowestTable == Part({useSlowestRoutes}, {})
StatusChart == Part({useStatusDistribution}, {})
LogsPage == Part({useRoutes, useLogs}, {})
AuditPage == Part({useAuditLogs}, {})
TrafficMapPage == Part({trafficQuery}, {})

\* The screens of the console, by address; the parts of a screen behind a tab or
\* in a dialog are screens of their own.  The pages of the other route and of the other
\* group only show what the first ones' controls change of them.
Screen ==
    [routes |-> {RoutesPage, RouteShortcuts, FolderMoves, RoutesHeader, BulkToolbar,
                 GroupKeyDialog, FolderDialog, RouteTable, RouteRow},
     archived |-> {ArchivedRoutesPage},
     newRoute |-> {NewRoutePage, PathTemplatePicker},
     editRoute |-> {EditRoutePage, PathTemplatePicker},
     routeOverview |-> {RouteDetailPage, RouteHeader, OverviewTab},
     routeTest |-> {RouteDetailPage, RouteHeader, RouteTestPanel},
     routeLogs |-> {RouteDetailPage, RouteHeader, LogsTab},
     routeKeys |-> {RouteDetailPage, RouteHeader, ApiKeysPanel, ApiKeysList, KeyRoutes,
                    CreateKeyDialog, RoutePicker},
     otherRouteKeys |-> {OtherRouteKeys},
     routeTargets |-> {RouteDetailPage, RouteHeader, TargetsPanel},
     routeTransforms |-> {RouteDetailPage, RouteHeader, TransformsPanel},
     routeHistory |-> {RouteDetailPage, RouteHeader, HistoryTab},
     groups |-> {RouteGroupsPage, GroupForm, GroupsTable},
     group |-> {RouteGroupDetailPage, GroupDefaults, GroupPolicy, GroupRoutes},
     otherGroup |-> {OtherGroupPage},
     organizations |-> {OrganizationsPage, OrganizationForm, OrganizationsGrid},
     orgMembers |-> {OrganizationDetailPage, OrganizationPolicy, TargetAllowlistCard, MembersTab},
     orgTeams |-> {OrganizationDetailPage, OrganizationPolicy, TargetAllowlistCard, TeamsTab},
     users |-> {UsersPage, PendingInvites, UsersTable, InviteDialog, EditUserDialog},
     account |-> {AccountPage, PasswordCard, TwoFactorCard, SessionsCard, AchievementsCard},
     incidents |-> {IncidentsPage, CreateIncidentDialog},
     incident |-> {IncidentsPage, IncidentDetailDialog},
     changes |-> {ChangeRequestsPage},
     change |-> {ChangeRequestsPage, ChangeRequestDialog},
     backups |-> {BackupsPage, CreateBackupDialog, EditBackupDialog, RestoreBackupDialog},
     sanitizer |-> {SanitizerPage, BuiltInPatterns, CustomPatterns},
     settings |-> {SettingsPage, MaintenanceActions, DataManagement},
     dashboard |-> {DashboardPage, RequestsChart, RecentErrors},
     analytics |-> {AnalyticsPage, LatencyChart, ErrorRateChart, HeatmapChart, SlowestTable,
                    StatusChart},
     activity |-> {LogsPage},
     audit |-> {AuditPage},
     trafficMap |-> {TrafficMapPage}]

ShowsIn(parts) == UNION {p.shows : p \in parts}
OffersIn(parts) == UNION {p.offers : p \in parts}

Shows(s) == ShowsIn(Screen[s] \union Frame)
Offers(s) == OffersIn(Screen[s] \union Frame)

\* Where a page goes on to once its mutation succeeded.  A new route leads to its own page,
\* of which the cache has nothing yet.
Tabs == {"routeOverview", "routeTest", "routeLogs", "routeKeys", "routeTargets",
         "routeTransforms", "routeHistory"}
Moves == {<<"editRoute", useUpdateRoute, "routeOverview">>,
          <<"editRoute", useRequestUpdate, "changes">>}
         \union {<<s, useDeleteRoute, "routes">> : s \in Tabs}

\* What the user has before his eyes when mutation m, sent from screen s, succeeds: the page
\* with the control (or the frame, when the control is there) and the page it leads to.
AroundControl(m, s) ==
    UNION {ShowsIn(parts) : parts \in {p \in {Screen[s], Frame} : m \in OffersIn(p)}}
OnNextPage(m, s) ==
    UNION {ShowsIn(Screen[t]) : t \in {u \in DOMAIN Screen : <<s, m, u>> \in Moves}}
Beside(m, s) == AroundControl(m, s) \union OnNextPage(m, s)

Queries == UNION {Shows(s) : s \in DOMAIN Screen}
=============================================================================
