------------------------------- MODULE Browser -------------------------------
(***************************************************************************)
(* The signed-in state of the console in one browser: tabs that share the  *)
(* session cookie, each with a client token that it holds in memory only   *)
(* and loses with every page load.  The backend accepts a call when the    *)
(* cookie names a live session and the client token was derived from that  *)
(* cookie; a tab without its token fetches it by a navigation to           *)
(* /api/auth/resume, at most once in RESUME_GUARD_MS.                      *)
(*                                                                         *)
(* A page load, an answer of the backend and the arrival of that answer    *)
(* are steps of their own, so calls of one tab cross sign-ins and          *)
(* sign-outs of another; the navigation to resume is a call as well.  A    *)
(* tab has one call under way at a time; a navigation drops it.  Which     *)
(* page of the console a tab shows does not matter here: the protected     *)
(* pages are all "app".                                                    *)
(***************************************************************************)
EXTENDS Integers

CONSTANTS
    Tabs,      \* the browser's tabs
    Tokens,    \* session tokens; a client token is known by its session token
    NoToken

ASSUME TokenAssumption == NoToken \notin Tokens

VARIABLES
    cookie,     \* cg_session of this browser
    liveTokens, \* the session tokens the backend still accepts
    unused,     \* session tokens not minted yet
    isSetup,    \* an account exists
    tab         \* the tabs

browserVars == <<cookie, liveTokens, unused, isSetup, tab>>

MaxRetries == 3   \* "Retry up to 3 times (backend might still be starting)"

\* Where a tab is.  The first row is documents on their way, the second the
\* app, the third the screens of the login page, the last the invitation page.
Place == {"toApp", "toLogin", "fallback", "toResume",
          "app",
          "checking", "password", "code", "setup",
          "invite"}

LoginScreens == {"checking", "password", "code", "setup"}

TabState ==
    [at       : Place,
     token    : Tokens \cup {NoToken},   \* ApiClient.clientToken
     fragment : Tokens \cup {NoToken},   \* the token in the URL of a document on its way
     recent   : BOOLEAN,                 \* cg_resume_at is younger than RESUME_GUARD_MS
     retries  : 0 .. MaxRetries,         \* of the setup check under way
     call     : {"none", "call", "logout", "change", "resume"},   \* the call under way
     shown    : Tokens \cup {NoToken},   \* the cookie it was sent with
     proof    : Tokens \cup {NoToken},   \* the client token it was sent with
     answer   : {"none", "ok", "unauthorized", "tokenRequired", "failed"}]

NewTab ==
    [at |-> "toApp", token |-> NoToken, fragment |-> NoToken, recent |-> FALSE, retries |-> 0,
     call |-> "none", shown |-> NoToken, proof |-> NoToken, answer |-> "none"]

BrowserTypeOK ==
    /\ cookie \in Tokens \cup {NoToken}
    /\ liveTokens \subseteq Tokens
    /\ unused \subseteq Tokens
    /\ isSetup \in BOOLEAN
    /\ tab \in [Tabs -> TabState]

BrowserInit ==
    /\ cookie = NoToken
    /\ liveTokens = {}
    /\ unused = Tokens
    /\ isSetup \in BOOLEAN
    /\ tab = [t \in Tabs |-> NewTab]

-----------------------------------------------------------------------------
(* Page loads *)

\* A document replaces the page: memory and calls are gone, and sessionStorage,
\* which holds the guard, stays.
Navigated(t, place, fragment) ==
    [NewTab EXCEPT !.at = place, !.fragment = fragment, !.recent = tab[t].recent]

Navigate(t, place, fragment) == tab' = [tab EXCEPT ![t] = Navigated(t, place, fragment)]

\* A change of page inside the app keeps the memory of the tab.
RouterPush(t, place) == [tab[t] EXCEPT !.at = place, !.call = "none", !.answer = "none",
                                       !.shown = NoToken, !.proof = NoToken]

\* middleware, for a page of the console; the inline script of the root layout
\* takes the token out of the fragment
LoadApp(t) ==
    /\ tab[t].at = "toApp"
    /\ tab' = [tab EXCEPT ![t] =
           IF cookie = NoToken
           THEN [@ EXCEPT !.at = "checking", !.fragment = NoToken]
           ELSE [@ EXCEPT !.at = "app", !.fragment = NoToken,
                          !.token = IF tab[t].fragment # NoToken THEN tab[t].fragment ELSE tab[t].token]]
    /\ UNCHANGED <<cookie, liveTokens, unused, isSetup>>

\* middleware: "Redirect authenticated users away from login"
LoadLogin(t) ==
    /\ tab[t].at \in {"toLogin", "fallback"}
    /\ tab' = [tab EXCEPT ![t].at = IF cookie # NoToken THEN "toApp" ELSE "checking"]
    /\ UNCHANGED <<cookie, liveTokens, unused, isSetup>>

\* The user reloads the page or opens an address
Reload(t) ==
    /\ tab[t].at \in {"app"} \cup LoginScreens
    /\ Navigate(t, IF tab[t].at = "app" THEN "toApp" ELSE "toLogin", NoToken)
    /\ UNCHANGED <<cookie, liveTokens, unused, isSetup>>

OpenInvitation(t) ==
    /\ tab[t].at \in {"app"} \cup LoginScreens
    /\ Navigate(t, "invite", NoToken)
    /\ UNCHANGED <<cookie, liveTokens, unused, isSetup>>

\* RESUME_GUARD_MS passes without another resumeSession of this tab
GuardAges(t) ==
    /\ tab[t].recent
    /\ tab' = [tab EXCEPT ![t].recent = FALSE]
    /\ UNCHANGED <<cookie, liveTokens, unused, isSetup>>

-----------------------------------------------------------------------------
(* The login, setup and invitation pages *)

\* LoginContent asks whether setup is complete, and tries again when it cannot tell
CheckSetup(t) ==
    /\ tab[t].at = "checking"
    /\ tab' = [tab EXCEPT ![t].at = IF isSetup THEN "password" ELSE "setup", ![t].retries = 0]
    /\ UNCHANGED <<cookie, liveTokens, unused, isSetup>>

CheckSetupFails(t) ==
    /\ tab[t].at = "checking"
    /\ tab' = [tab EXCEPT ![t] = IF @.retries < MaxRetries
                                 THEN [@ EXCEPT !.retries = tab[t].retries + 1]
                                 ELSE [@ EXCEPT !.at = "password", !.retries = 0]]
    /\ UNCHANGED <<cookie, liveTokens, unused, isSetup>>

\* An answer that signs in: the cookie of this browser, and the client token in
\* the body; the page then goes to the console without a page load
SignedIn(t, s) ==
    /\ s \in unused
    /\ unused' = unused \ {s}
    /\ liveTokens' = liveTokens \cup {s}
    /\ cookie' = s
    /\ tab' = [tab EXCEPT ![t] = [RouterPush(t, "toApp") EXCEPT !.token = s]]

\* onSubmit of the login page
SubmitPassword(t, s) == tab[t].at = "password" /\ isSetup /\ SignedIn(t, s) /\ UNCHANGED isSetup

AskForCode(t) ==
    /\ tab[t].at = "password"
    /\ isSetup
    /\ tab' = [tab EXCEPT ![t].at = "code"]
    /\ UNCHANGED <<cookie, liveTokens, unused, isSetup>>

\* onVerify2FA and handleBackToLogin
SubmitCode(t, s) == tab[t].at = "code" /\ SignedIn(t, s) /\ UNCHANGED isSetup

BackToLogin(t) ==
    /\ tab[t].at = "code"
    /\ tab' = [tab EXCEPT ![t].at = "password"]
    /\ UNCHANGED <<cookie, liveTokens, unused, isSetup>>

\* onSubmit of the setup dialog: refused when somebody else was faster
SubmitSetup(t, s) ==
    /\ tab[t].at = "setup"
    /\ ~isSetup
    /\ SignedIn(t, s)
    /\ isSetup' = TRUE

\* onSubmit of the invitation page
SubmitInvitation(t, s) == tab[t].at = "invite" /\ isSetup /\ SignedIn(t, s) /\ UNCHANGED isSetup

-----------------------------------------------------------------------------
(* Calls of the app *)

\* request, or the navigation to resume: the cookie and the client token as
\* they are now
Send(t, kind) ==
    /\ tab[t].at = IF kind = "resume" THEN "toResume" ELSE "app"
    /\ tab[t].call = "none"
    /\ tab' = [tab EXCEPT ![t].call = kind, ![t].shown = cookie, ![t].proof = tab[t].token]
    /\ UNCHANGED <<cookie, liveTokens, unused, isSetup>>

\* authenticate: the session first, the client token last; resume skips that
authenticateRequest(kind, shown, proof) ==
    IF shown \notin liveTokens THEN "unauthorized"
    ELSE IF kind # "resume" /\ proof # shown THEN "tokenRequired" ELSE "ok"

\* The backend answers.  A sign-out ends the session shown; a new password
\* ends every session there is.
Serve(t) ==
    /\ tab[t].call # "none"
    /\ tab[t].answer = "none"
    /\ LET result == authenticateRequest(tab[t].call, tab[t].shown, tab[t].proof)
       IN  /\ tab' = [tab EXCEPT ![t].answer = result]
           /\ liveTokens' = CASE result = "ok" /\ tab[t].call = "logout" -> liveTokens \ {tab[t].shown}
                              [] result = "ok" /\ tab[t].call = "change" -> {}
                              [] OTHER -> liveTokens
    /\ UNCHANGED <<cookie, unused, isSetup>>

\* A query of authenticate fails, whether the session is good or not
ServeFails(t) ==
    /\ tab[t].call # "none"
    /\ tab[t].answer = "none"
    /\ tab[t].shown # NoToken
    /\ tab' = [tab EXCEPT ![t].answer = "failed"]
    /\ UNCHANGED <<cookie, liveTokens, unused, isSetup>>

\* Mutant of ClearsCookie: a refusal leaves the cookie in place.
LeavesDeadCookie(kind, shown, answer) ==
    \/ answer = "ok" /\ kind \in {"logout", "change"}
    \/ answer # "ok" /\ kind = "resume"

\* Whether the answer takes the cookie away: authenticate does when the session
\* it was shown is dead, the handlers of logout and change-password do at the
\* end, and resumeHandler does on any error
ClearsCookie(kind, shown, answer) ==
    \/ answer = "unauthorized" /\ shown # NoToken
    \/ answer = "ok" /\ kind \in {"logout", "change"}
    \/ answer # "ok" /\ kind = "resume"

\* resumeSession: remembers when it ran, whatever it does
resumeSession(t) ==
    [Navigated(t, IF tab[t].recent THEN "fallback" ELSE "toResume", NoToken) EXCEPT !.recent = TRUE]

\* resumeHandler redirects, with the token in the fragment when it worked
AfterResume(t) ==
    IF tab[t].answer = "ok" THEN Navigated(t, "toApp", tab[t].shown)
                            ELSE Navigated(t, "toLogin", NoToken)

\* useLogout clears the memory and leaves whether the call worked or not;
\* useChangePassword leaves when it worked
AfterAnswer(t) ==
    IF tab[t].call = "resume"               THEN AfterResume(t)
    ELSE IF tab[t].answer = "tokenRequired" THEN resumeSession(t)
    ELSE IF tab[t].answer = "unauthorized"  THEN Navigated(t, "toLogin", NoToken)
    ELSE CASE tab[t].call = "logout" -> [RouterPush(t, "toLogin") EXCEPT !.token = NoToken]
           [] tab[t].call = "change" /\ tab[t].answer = "ok" -> RouterPush(t, "toLogin")
           [] OTHER -> RouterPush(t, "app")

\* The answer arrives, at whatever cookie the browser has by then
Receive(t) ==
    /\ tab[t].answer # "none"
    /\ cookie' = IF ClearsCookie(tab[t].call, tab[t].shown, tab[t].answer) THEN NoToken ELSE cookie
    /\ tab' = [tab EXCEPT ![t] = AfterAnswer(t)]
    /\ UNCHANGED <<liveTokens, unused, isSetup>>

\* A session ends elsewhere: it expires or is revoked
SessionEnds(s) ==
    /\ s \in liveTokens
    /\ liveTokens' = liveTokens \ {s}
    /\ UNCHANGED <<cookie, unused, isSetup, tab>>

-----------------------------------------------------------------------------

\* What happens without the user
Progress(t) ==
    \/ LoadApp(t) \/ LoadLogin(t)
    \/ CheckSetup(t) \/ CheckSetupFails(t)
    \/ Send(t, "call") \/ Send(t, "resume") \/ Serve(t) \/ Receive(t)

UserActs(t) ==
    \/ Reload(t) \/ OpenInvitation(t) \/ GuardAges(t)
    \/ \E s \in Tokens : SubmitPassword(t, s) \/ SubmitCode(t, s) \/ SubmitSetup(t, s) \/ SubmitInvitation(t, s)
    \/ AskForCode(t) \/ BackToLogin(t)
    \/ Send(t, "logout") \/ Send(t, "change")

BrowserNext ==
    \/ \E t \in Tabs : Progress(t) \/ UserActs(t) \/ ServeFails(t)
    \/ \E s \in Tokens : SessionEnds(s)

BrowserSpec == BrowserInit /\ [][BrowserNext]_browserVars

\* The browser loads documents and delivers answers, the backend serves, and a
\* page of the console calls the backend when it is shown (useAuth, polling).
BrowserFairness == \A t \in Tabs : WF_browserVars(Progress(t))

BrowserFairSpec == BrowserSpec /\ BrowserFairness

-----------------------------------------------------------------------------
(* Properties *)

\* This step delivers an answer to tab t.
Arrives(t) == tab[t].answer # "none" /\ tab'[t].answer = "none"

\* A live session loses its cookie only to a sign-out or a change of password,
\* to an answer to a call that was sent with another cookie and arrives after
\* a new sign-in, or to a resume whose check failed.
CookieKept ==
    [][(cookie \in liveTokens /\ cookie' = NoToken) =>
          \E t \in Tabs : /\ Arrives(t)
                          /\ \/ tab[t].call \in {"logout", "change"}
                             \/ tab[t].shown # cookie
                             \/ tab[t].call = "resume" /\ tab[t].answer = "failed"]_browserVars

\* While the cookie is dead: at most as many steps of tab t until the cookie is gone
\* or the tab is on the login page.
StepsLeft(t) ==
    LET c == tab[t] IN
    CASE c.at \in LoginScreens \cup {"invite"} -> 0
      [] c.at = "toApp" -> 4
      [] c.at \in {"toLogin", "fallback"} -> 5
      [] c.at \in {"app", "toResume"} ->
           IF c.call = "none" THEN 3
           ELSE IF c.answer = "none" THEN IF c.shown \in Tokens \ liveTokens THEN 2 ELSE 7
           ELSE IF c.answer = "unauthorized" /\ c.shown # NoToken THEN 1 ELSE 6

\* "Clear stale/invalid cookie to prevent redirect loops", "so the UI's login
\* page doesn't bounce back": the middleware takes a dead cookie for a session,
\* however it died (elsewhere, in another tab, by an answer that never arrived),
\* and yet each step of a tab that does not take the cookie away brings the tab
\* nearer to the login page, and what other tabs do takes it no further off.
DeadCookieNearsLogin ==
    [][(cookie \in Tokens \ liveTokens /\ cookie' = cookie /\ cookie' \notin liveTokens') =>
          \A t \in Tabs :
              /\ Progress(t) => StepsLeft(t)' < StepsLeft(t) \/ StepsLeft(t)' = 0
              /\ tab'[t] = tab[t] => StepsLeft(t)' <= StepsLeft(t)]_browserVars

\* "Falls back to the login page if a resume just happened and still did not
\* help": a tab that falls back reaches the login page, or has its token again,
\* once the user leaves the browser alone.
FallbackReachesLogin ==
    <>[][\E t \in Tabs : Progress(t)]_browserVars
        => \A t \in Tabs : tab[t].at = "fallback"
                              ~> (tab[t].at \in LoginScreens \/ tab[t].token # NoToken)

=============================================================================
