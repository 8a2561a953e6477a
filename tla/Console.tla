------------------------------- MODULE Console -------------------------------
(***************************************************************************)
(* The query cache of one tab of the console, app/layout.tsx with the       *)
(* queries and mutations of Hooks and the screens of Screens.               *)
(*                                                                          *)
(* The entries of the cache do not depend on each other, so a behaviour     *)
(* follows one of them, for any of the queries.  The user moves from screen *)
(* to screen and sends the mutations a screen offers; other users change    *)
(* the same data; answers take their time or do not arrive.  The data a     *)
(* query reads is abstracted to the number of writes made to it.            *)
(*                                                                          *)
(* Of react-query, which is external, this models: an entry is fetched when *)
(* a screen that shows it appears and it has no data, is invalidated or     *)
(* stale; invalidateQueries marks it and fetches it at once if it is shown, *)
(* starting again when a fetch runs, but it does not start a first load     *)
(* again; an answer ends the mark, whatever happened meanwhile; setQueryData *)
(* ends the mark and lets a running fetch go on.                            *)
(***************************************************************************)
EXTENDS Naturals, SequencesExt, Screens

CONSTANT MaxWrites   \* bound: writes to the data of the query

VARIABLES
    subject,   \* the query whose entry is followed, with its views
    view,      \* what the screen that is shown means for it, see View
    writes,    \* on the server: writes so far to the data the query reads
    entry,     \* the entry: its data, whether it is marked, and its fetch
    sent,      \* the mutation the tab waits for
    known      \* the newest own write the tab was told of, see MutationSucceeds

consoleVars == <<subject, view, writes, entry, sent, known>>

ASSUME MaxWritesAssumption == MaxWrites \in Nat \ {0}

(***************************************************************************)
(* The user expects the page on which he changed something to show it, and  *)
(* the page he is taken to.  The console lets him down in these places:     *)
(* test requests and keys for them, the import and the actions of the       *)
(* settings and the second factor refresh nothing; the row of a route       *)
(* lists its keys but is not fetched again when one is made or given up;   *)
(* a check of the health and the restoring of a version invalidate what is  *)
(* kept under the id, also on a page opened under the slug, and the check   *)
(* not the list the keys' picker shows; the picker of a group's page, the   *)
(* number of teams and the list behind an incident stay as they were.       *)
(***************************************************************************)
Careless == {useTestRoute, handleGenerateTestKey, importSettings, enable2FA, runHealthChecks}
KeyMutations == {useCreateApiKey, useRevokeApiKey, useSetApiKeyRoutes, useDetachApiKey,
                 useDeleteApiKey}
TeamMutations == {createTeam, updateTeam, deleteTeam, addTeamMember, removeTeamMember}

Overlooked(m, q) ==
    \/ m \in Careless
    \/ m \in KeyMutations /\ q \in {useRoute, useRouteBySlug}
    \/ m \in {useRouteHealth, useRestoreRouteVersion} /\ q = useRouteBySlug
    \/ m = useRouteHealth /\ q = useRoutes
    \/ m \in {assignToGroup, removeFromGroup} /\ q = allRoutesQuery
    \/ m \in TeamMutations /\ q = organizationQuery
    \/ m = addIncidentEvent /\ q = incidentsQuery

(***************************************************************************)
(* A mutation as it concerns one query: whether its success invalidates the *)
(* query's key, puts its answer there, clears the cache, and whether the    *)
(* query is expected to show it.                                            *)
(***************************************************************************)
Effect(m, q, s) ==
    [invalidates |-> \E k \in m.invalidates : IsPrefix(k, q.key),
     puts |-> q.key \in m.puts,
     clears |-> m.clears,
     expected |-> q \in Beside(m, s) /\ ~Overlooked(m, q)]

\* A screen as it concerns one query: whether it shows the query, and the effects of
\* those mutations it offers that change what the query reads.
View(q, s) ==
    [shown |-> q \in Shows(s),
     effects |-> {Effect(m, q, s) : m \in {n \in Offers(s) : n.writes \intersect q.reads # {}}}]

SignedOut == [shown |-> FALSE, effects |-> {}]
Subjects ==
    {[key |-> q.key, views |-> {View(q, s) : s \in DOMAIN Screen}] : q \in Queries}

NoEffect == [invalidates |-> FALSE, puts |-> FALSE, clears |-> FALSE, expected |-> FALSE]
Nothing == [stage |-> "none", effect |-> NoEffect, at |-> 0]

\* data = 0: none.  got: what the server answered the running fetch with.
EmptyEntry == [data |-> 0, marked |-> FALSE, fetch |-> "idle", got |-> 0]

Entry == [data : 0..MaxWrites, marked : BOOLEAN, fetch : {"idle", "asked", "answered"},
          got : 0..MaxWrites]

ConsoleTypeOK ==
    /\ view \in subject.views \union {SignedOut}
    /\ writes \in 1..MaxWrites
    /\ entry \in Entry
    /\ sent \in [stage : {"none", "sent", "done"},
                 effect : [invalidates : BOOLEAN, puts : BOOLEAN, clears : BOOLEAN,
                           expected : BOOLEAN],
                 at : 0..MaxWrites]
    /\ known \in 0..MaxWrites

ConsoleInit ==
    /\ subject \in Subjects
    /\ view = SignedOut
    /\ writes = 1
    /\ entry = EmptyEntry
    /\ sent = Nothing
    /\ known = 0

-----------------------------------------------------------------------------
Asked(e) == [e EXCEPT !.fetch = "asked", !.got = 0]

\* Mounting a screen that shows the query: a stale entry is fetched, and one with
\* data that is not marked may have become stale.
Mounted(e) ==
    CASE e.fetch # "idle" -> {e}
      [] e.fetch = "idle" /\ (e.data = 0 \/ e.marked) -> {Asked(e)}
      [] OTHER -> {e, Asked(e)}

Navigate ==
    \E v \in subject.views \ {view} :
        /\ view' = v
        /\ IF v.shown /\ ~view.shown THEN entry' \in Mounted(entry) ELSE UNCHANGED entry
        /\ UNCHANGED <<subject, writes, sent, known>>

\* The server answers a fetch with what is there.
Serve ==
    /\ entry.fetch = "asked"
    /\ entry' = [entry EXCEPT !.fetch = "answered", !.got = writes]
    /\ UNCHANGED <<subject, view, writes, sent, known>>

Receive ==
    /\ entry.fetch = "answered"
    /\ entry' = [EmptyEntry EXCEPT !.data = entry.got]
    /\ UNCHANGED <<subject, view, writes, sent, known>>

\* The retries are used up, or the answer is 401 or 403: the data stays as it was.
FetchFails ==
    /\ entry.fetch # "idle"
    /\ entry' = [entry EXCEPT !.fetch = "idle", !.got = 0]
    /\ UNCHANGED <<subject, view, writes, sent, known>>

\* The interval of a polling query, the window's focus, or a refresh button.
Refetch ==
    /\ view.shown
    /\ entry.fetch = "idle"
    /\ entry' = Asked(entry)
    /\ UNCHANGED <<subject, view, writes, sent, known>>

\* An entry that no screen has shown for gcTime is dropped.
Collect ==
    /\ ~view.shown
    /\ entry.fetch = "idle"
    /\ entry.data # 0
    /\ entry' = EmptyEntry
    /\ UNCHANGED <<subject, view, writes, sent, known>>

Submit ==
    /\ sent = Nothing
    /\ \E f \in view.effects : sent' = [Nothing EXCEPT !.stage = "sent", !.effect = f]
    /\ UNCHANGED <<subject, view, writes, entry, known>>

Commit ==
    /\ sent.stage = "sent"
    /\ writes < MaxWrites
    /\ writes' = writes + 1
    /\ sent' = [sent EXCEPT !.stage = "done", !.at = writes + 1]
    /\ UNCHANGED <<subject, view, entry, known>>

\* Refused, or done and its answer lost: onError shows a message and no more.
MutationFails ==
    /\ sent # Nothing
    /\ sent' = Nothing
    /\ UNCHANGED <<subject, view, writes, entry, known>>

\* invalidateQueries: the fetch of a shown entry starts again, but not a first load.
Restarts(e) == view.shown /\ (e.fetch = "idle" \/ e.data # 0)
invalidateQueries(e) ==
    LET marked == [e EXCEPT !.marked = TRUE]
    IN IF e.data = 0 /\ e.fetch = "idle" /\ ~view.shown THEN e
       ELSE IF Restarts(e) THEN Asked(marked) ELSE marked

setQueryData(e, at) == [e EXCEPT !.data = at, !.marked = FALSE]

\* onSuccess, in the order of the code: invalidate, then put the answer, or clear.
onSuccess(f, at) ==
    LET stale == IF f.invalidates THEN invalidateQueries(entry) ELSE entry
    IN IF f.clears THEN EmptyEntry
       ELSE IF f.puts THEN setQueryData(stale, at) ELSE stale

\* A fetch that onSuccess leaves running may bring data read before the write, and
\* its answer ends the mark.
LeftRunning(f) == entry.fetch # "idle" /\ ~(f.invalidates /\ Restarts(entry)) /\ ~f.clears

MutationSucceeds ==
    /\ sent.stage = "done"
    /\ entry' = onSuccess(sent.effect, sent.at)
    /\ known' = IF sent.effect.expected /\ ~LeftRunning(sent.effect) THEN sent.at ELSE known
    /\ view' = IF sent.effect.clears THEN SignedOut ELSE view
    /\ sent' = Nothing
    /\ UNCHANGED <<subject, writes>>

\* Somebody else, another tab or the system itself.
OtherWrite ==
    /\ writes < MaxWrites
    /\ writes' = writes + 1
    /\ UNCHANGED <<subject, view, entry, sent, known>>

\* A page load: the cache is empty and the callbacks of a running mutation are gone.
ReloadTab ==
    /\ view # SignedOut
    /\ entry' = IF view.shown THEN Asked(EmptyEntry) ELSE EmptyEntry
    /\ sent' = Nothing
    /\ UNCHANGED <<subject, view, writes, known>>

ConsoleNext ==
    \/ Navigate \/ Serve \/ Receive \/ FetchFails \/ Refetch \/ Collect
    \/ Submit \/ Commit \/ MutationFails \/ MutationSucceeds
    \/ OtherWrite \/ ReloadTab

ConsoleSpec == ConsoleInit /\ [][ConsoleNext]_consoleVars

-----------------------------------------------------------------------------
(***************************************************************************)
(* Once the answer of a mutation has arrived, data of the pages before the  *)
(* user's eyes that the cache holds without a mark and without fetching it  *)
(* is at least as new as that mutation: the user never looks at data from   *)
(* before his own change and takes it for current, except where a page      *)
(* overlooks the change or a fetch was left running (Overlooked,            *)
(* LeftRunning).  Of pages further away nothing is said: the list of a key  *)
(* that routes share is invalidated for one of them (useApiKeys.ts:35, 51   *)
(* and 82), and the other routes' lists (otherApiKeys) stay as they were.   *)
(***************************************************************************)
ReadYourWrites ==
    entry.data # 0 /\ ~entry.marked /\ entry.fetch = "idle" => entry.data >= known

=============================================================================
