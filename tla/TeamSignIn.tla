------------------------------ MODULE TeamSignIn ------------------------------
(***************************************************************************)
(* Signing in to team mode: authClient.ts with WorkspacePage.tsx and       *)
(* AdminPage.tsx. Each attempt to sign in has a verifier and a state of    *)
(* its own, kept in the session storage while the browser is at the        *)
(* identity provider, which may come back with the answer to any attempt.  *)
(* The storage outlives the page; the calls in progress outlive a move to  *)
(* another page of the application, but not a load of the document.        *)
(***************************************************************************)
EXTENDS Integers, FiniteSets

CONSTANTS
  MaxAttempts,  \* bound: attempts to sign in
  MaxCalls      \* bound: calls in progress at once

ASSUME SignInAssumption == MaxAttempts \in Nat /\ MaxCalls \in Nat

VARIABLES
  place,      \* "team", "admin", "elsewhere", or "provider", away from them all
  token,      \* the ID token, in memory and in the storage
  verifier,   \* the attempt whose PKCE verifier is stored; 0 for none
  state,      \* the attempt whose state is stored; 0 for none
  attempts,   \* attempts so far
  leaving,    \* the attempt whose authorization URL was assigned; 0 for none
  calls,      \* calls in progress
  status, workspaces, errorMsg, busy,   \* WorkspacePage; "signedOff" without the issuer
  packs, confirming, activating,        \* AdminPage
  redeemed    \* history: code and verifier, of each token request

storage == <<token, verifier, state>>
teamPage == <<status, workspaces, errorMsg, busy>>
adminPage == <<packs, confirming, activating>>
team == <<place, storage, attempts, leaving, calls, teamPage, adminPage, redeemed>>

\* An operation with an answer to come: what it works with, the token it sent,
\* and whether the page that waits for it is still mounted.
Call(op, code, with) == [op |-> op, code |-> code, verifier |-> with, token |-> token, here |-> TRUE]

SignInInit ==
  /\ place = "elsewhere"
  /\ token = FALSE /\ verifier = 0 /\ state = 0
  /\ attempts = 0 /\ leaving = 0
  /\ calls = {}
  /\ status = "checking" /\ workspaces = FALSE /\ errorMsg = FALSE /\ busy = FALSE
  /\ packs = "loading" /\ confirming = FALSE /\ activating = FALSE
  /\ redeemed = {}

SignOut == token' = FALSE /\ verifier' = 0 /\ state' = 0

Begin(call) == Cardinality(calls) < MaxCalls /\ calls' = calls \cup {call}
Continue(call, next) == calls' = (calls \ {call}) \cup next

\* teamFetch: a 401 to a call that sent a token signs out.
Refused(call) == IF call.token THEN SignOut ELSE UNCHANGED storage

-------------------------------------------------------------------------------
(* The page, and what its mounting effect does *)

\* handleRedirectCallback, up to its first await: code and its state come from
\* the address bar. loadStatus follows it.
HandleRedirectCallback(kind, code) ==
  \/ /\ kind = "none"
     /\ calls' = calls \cup {Call("me", 0, 0)}
     /\ errorMsg' = FALSE
     /\ UNCHANGED storage
  \/ /\ \/ kind = "error"
        \/ kind = "code" /\ (state # code \/ verifier = 0)
     /\ SignOut
     /\ errorMsg' = TRUE
     /\ calls' = {[Call("me", 0, 0) EXCEPT !.token = FALSE]}
  \/ /\ kind = "code" /\ state = code /\ verifier # 0
     /\ calls' = {Call("discover", code, verifier)}
     /\ errorMsg' = FALSE
     /\ UNCHANGED storage

\* Moving to the team page within the application: its address has no query.
OpenTeam ==
  /\ place = "elsewhere"
  /\ Cardinality(calls) < MaxCalls
  /\ place' = "team"
  /\ HandleRedirectCallback("none", 0)
  /\ status' = "checking" /\ workspaces' = FALSE /\ busy' = FALSE
  /\ UNCHANGED <<attempts, leaving, adminPage, redeemed>>

\* The provider sends the browser back, for the present attempt or, through the
\* browser's history, for an earlier one; or the user goes back. The document
\* is loaded anew.
ProviderReturns(kind, code) ==
  /\ place = "provider"
  /\ place' = "team"
  /\ HandleRedirectCallback(kind, code)
  /\ status' = "checking" /\ workspaces' = FALSE /\ busy' = FALSE
  /\ UNCHANGED <<attempts, leaving, adminPage, redeemed>>

LeavePage ==
  /\ place \in {"team", "admin"}
  /\ place' = "elsewhere"
  /\ calls' = {[c EXCEPT !.here = FALSE] : c \in calls}
  /\ status' = "checking" /\ workspaces' = FALSE /\ errorMsg' = FALSE /\ busy' = FALSE
  /\ packs' = "loading" /\ confirming' = FALSE /\ activating' = FALSE
  /\ UNCHANGED <<storage, attempts, leaving, redeemed>>

\* A reload of the document, from whose address the query is removed by then.
Reload ==
  /\ place # "provider"
  /\ place' = "elsewhere"
  /\ leaving' = 0
  /\ calls' = {}
  /\ status' = "checking" /\ workspaces' = FALSE /\ errorMsg' = FALSE /\ busy' = FALSE
  /\ packs' = "loading" /\ confirming' = FALSE /\ activating' = FALSE
  /\ UNCHANGED <<storage, attempts, redeemed>>

-------------------------------------------------------------------------------
(* The exchange of the code *)

Discovered(c) ==
  /\ c.op = "discover"
  /\ redeemed' = redeemed \cup {<<c.code, c.verifier>>}
  /\ Continue(c, {[c EXCEPT !.op = "exchange"]})
  /\ UNCHANGED <<place, storage, attempts, leaving, teamPage, adminPage>>

\* loadStatus follows, unless the page was left.
AfterExchange(c, withToken) ==
  Continue(c, IF c.here THEN {[Call("me", 0, 0) EXCEPT !.token = withToken]} ELSE {})

Exchanged(c) ==
  /\ c.op = "exchange"
  /\ token' = TRUE
  /\ verifier' = 0 /\ state' = 0
  /\ AfterExchange(c, TRUE)
  /\ UNCHANGED <<place, attempts, leaving, teamPage, adminPage, redeemed>>

ExchangeFails(c) ==
  /\ c.op \in {"discover", "exchange"}
  /\ SignOut
  /\ errorMsg' = (errorMsg \/ c.here)
  /\ AfterExchange(c, FALSE)
  /\ UNCHANGED <<place, attempts, leaving, status, workspaces, busy, adminPage, redeemed>>

-------------------------------------------------------------------------------
(* The identity and the workspaces *)

\* A server that fails looks like one without team mode.
MeAnswers(c, answer) ==
  /\ c.op \in {"me", "me again"}
  /\ answer = "signedIn" => c.token
  /\ IF answer = "signedOut" THEN Refused(c) ELSE UNCHANGED storage
  /\ status' = IF c.here THEN answer ELSE status
  /\ Continue(c, IF c.op = "me" /\ c.here /\ answer = "signedIn" THEN {Call("workspaces", 0, 0)} ELSE {})
  /\ UNCHANGED <<place, attempts, leaving, workspaces, errorMsg, busy, adminPage, redeemed>>

\* loadStatus falls back on fetchIdentity, which takes a failure for a server
\* without team mode.
MeFails(c) ==
  /\ c.op \in {"me", "me again"}
  /\ status' = IF c.op = "me again" /\ c.here THEN "disabled" ELSE status
  /\ Continue(c, IF c.op = "me" THEN {[c EXCEPT !.op = "me again", !.token = token]} ELSE {})
  /\ UNCHANGED <<place, storage, attempts, leaving, workspaces, errorMsg, busy, adminPage, redeemed>>

\* The list comes; or the server fails, and the page says nothing; or it cannot
\* be reached.
WorkspacesAnswer(c) ==
  /\ c.op \in {"workspaces", "reload"}
  /\ Continue(c, {})
  /\ \/ workspaces' = (workspaces \/ c.here) /\ UNCHANGED errorMsg
     \/ UNCHANGED <<workspaces, errorMsg>>
     \/ errorMsg' = (errorMsg \/ c.here) /\ UNCHANGED workspaces
  /\ busy' = (busy /\ ~(c.here /\ c.op = "reload"))
  /\ UNCHANGED <<place, storage, attempts, leaving, status, adminPage, redeemed>>

WorkspacesRefused(c) ==
  /\ c.op \in {"workspaces", "reload"}
  /\ Continue(c, {})
  /\ Refused(c)
  /\ status' = IF c.here THEN "signedOff" ELSE status
  /\ busy' = (busy /\ ~(c.here /\ c.op = "reload"))
  /\ UNCHANGED <<place, attempts, leaving, workspaces, errorMsg, adminPage, redeemed>>

\* The button is there without a token as well as without authentication.
SignedOutView ==
  place = "team" /\ (status \in {"signedOut", "signedOff"} \/ (status = "signedIn" /\ ~token))

\* Mutant: the verifier is made and stored before the discovery.
HandleSignInEarly ==
  /\ SignedOutView /\ ~busy /\ status = "signedOut"
  /\ busy' = TRUE
  /\ verifier' = attempts + 1
  /\ Begin(Call("signIn", 0, 0))
  /\ UNCHANGED <<place, token, state, attempts, leaving, status, workspaces, errorMsg, adminPage,
                 redeemed>>

\* The issuer is only known from the answer to somebody who is not signed in:
\* after signing off, the button leads to an error until the page is left.
HandleSignIn ==
  /\ SignedOutView /\ ~busy
  /\ IF status = "signedOut"
       THEN busy' = TRUE /\ Begin(Call("signIn", 0, 0)) /\ UNCHANGED errorMsg
       ELSE errorMsg' = TRUE /\ UNCHANGED <<busy, calls>>
  /\ UNCHANGED <<place, storage, attempts, leaving, status, workspaces, adminPage, redeemed>>

\* signIn after its discovery: the new verifier and state are stored together,
\* whatever page one is on by now.
SignInGoesOn(c) ==
  /\ c.op = "signIn"
  /\ attempts < MaxAttempts
  /\ attempts' = attempts + 1
  /\ verifier' = attempts' /\ state' = attempts'
  /\ leaving' = attempts'
  /\ Continue(c, {})
  /\ UNCHANGED <<place, token, teamPage, adminPage, redeemed>>

SignInFails(c) ==
  /\ c.op = "signIn"
  /\ Continue(c, {})
  /\ busy' = (busy /\ ~c.here)
  /\ errorMsg' = (errorMsg \/ c.here)
  /\ UNCHANGED <<place, storage, attempts, leaving, status, workspaces, adminPage, redeemed>>

\* The browser gets round to the address it was given; or the user goes to the
\* provider through the browser's history.
Unload ==
  /\ leaving # 0 \/ (place # "provider" /\ attempts > 0)
  /\ leaving' = 0
  /\ place' = "provider"
  /\ calls' = {}
  /\ status' = "checking" /\ workspaces' = FALSE /\ errorMsg' = FALSE /\ busy' = FALSE
  /\ packs' = "loading" /\ confirming' = FALSE /\ activating' = FALSE
  /\ UNCHANGED <<storage, attempts, redeemed>>

HandleSignOut ==
  /\ place = "team" /\ status = "signedIn" /\ token
  /\ SignOut
  /\ workspaces' = FALSE /\ status' = "signedOff"
  /\ UNCHANGED <<place, attempts, leaving, calls, errorMsg, busy, adminPage, redeemed>>

HandleCreateWorkspace ==
  /\ place = "team" /\ status = "signedIn" /\ token /\ ~busy
  /\ busy' = TRUE /\ errorMsg' = FALSE
  /\ Begin(Call("create", 0, 0))
  /\ UNCHANGED <<place, storage, attempts, leaving, status, workspaces, adminPage, redeemed>>

\* Then the list is loaded again.
Created(c) ==
  /\ c.op = "create"
  /\ Continue(c, {[c EXCEPT !.op = "reload", !.token = token]})
  /\ UNCHANGED <<place, storage, attempts, leaving, teamPage, adminPage, redeemed>>

CreateFails(c, refused) ==
  /\ c.op = "create"
  /\ Continue(c, {})
  /\ IF refused THEN Refused(c) ELSE UNCHANGED storage
  /\ busy' = (busy /\ ~c.here)
  /\ errorMsg' = (errorMsg \/ c.here)
  /\ UNCHANGED <<place, attempts, leaving, status, workspaces, adminPage, redeemed>>

-------------------------------------------------------------------------------
(* The administration page *)

OpenAdmin ==
  /\ place = "elsewhere"
  /\ place' = "admin"
  /\ IF token THEN Begin(Call("packs", 0, 0)) /\ UNCHANGED packs
              ELSE packs' = "unauthenticated" /\ UNCHANGED calls
  /\ UNCHANGED <<storage, attempts, leaving, teamPage, confirming, activating, redeemed>>

PacksAnswer(c, answer) ==
  /\ c.op \in {"packs", "repacks"}
  /\ Continue(c, {})
  /\ packs' = IF c.here THEN answer ELSE packs
  /\ activating' = (activating /\ ~(c.here /\ c.op = "repacks"))
  /\ IF answer = "unauthenticated" THEN Refused(c) ELSE UNCHANGED storage
  /\ UNCHANGED <<place, attempts, leaving, teamPage, confirming, redeemed>>

ConfirmActivation(choice) ==
  /\ place = "admin" /\ packs = "ready" /\ ~activating
  /\ confirming # choice /\ confirming' = choice
  /\ UNCHANGED <<place, storage, attempts, leaving, calls, teamPage, packs, activating, redeemed>>

HandleActivate ==
  /\ place = "admin" /\ packs = "ready" /\ confirming /\ ~activating
  /\ activating' = TRUE
  /\ Begin(Call("activate", 0, 0))
  /\ UNCHANGED <<place, storage, attempts, leaving, teamPage, packs, confirming, redeemed>>

\* The packs are loaded again, if there still is a token.
Activated(c) ==
  /\ c.op = "activate"
  /\ confirming' = (confirming /\ ~c.here)
  /\ IF token
       THEN /\ Continue(c, {[c EXCEPT !.op = "repacks", !.token = TRUE]})
            /\ UNCHANGED <<packs, activating>>
       ELSE /\ Continue(c, {})
            /\ packs' = IF c.here THEN "unauthenticated" ELSE packs
            /\ activating' = (activating /\ ~c.here)
  /\ UNCHANGED <<place, storage, attempts, leaving, teamPage, redeemed>>

ActivateFails(c, refused) ==
  /\ c.op = "activate"
  /\ Continue(c, {})
  /\ IF refused THEN Refused(c) ELSE UNCHANGED storage
  /\ activating' = (activating /\ ~c.here)
  /\ UNCHANGED <<place, attempts, leaving, teamPage, packs, confirming, redeemed>>

SignInNext ==
  \/ OpenTeam \/ OpenAdmin \/ LeavePage \/ Reload \/ Unload
  \/ ProviderReturns("none", 0)
  \/ \E a \in 1 .. attempts : ProviderReturns("code", a) \/ ProviderReturns("error", a)
  \/ HandleSignIn \/ HandleSignOut \/ HandleCreateWorkspace \/ HandleActivate
  \/ \E choice \in BOOLEAN : ConfirmActivation(choice)
  \/ \E c \in calls :
       \/ Discovered(c) \/ Exchanged(c) \/ ExchangeFails(c)
       \/ MeFails(c) \/ WorkspacesAnswer(c) \/ WorkspacesRefused(c)
       \/ SignInGoesOn(c) \/ SignInFails(c) \/ Created(c) \/ Activated(c)
       \/ \E answer \in {"signedIn", "signedOut", "disabled"} : MeAnswers(c, answer)
       \/ \E refused \in BOOLEAN : CreateFails(c, refused) \/ ActivateFails(c, refused)
       \/ \E answer \in {"ready", "forbidden", "unauthenticated", "error"} : PacksAnswer(c, answer)

SignInSpec == SignInInit /\ [][SignInNext]_team

-------------------------------------------------------------------------------
(* Properties *)

\* A code is only ever redeemed with the verifier of the attempt it answers,
\* although attempts overlap with each other, with exchanges in progress and
\* with pages that were left, and the provider may answer an attempt that was
\* given up (authClient.ts: the state is "compared against the stored value
\* before the code is exchanged").
VerifierOfTheSameAttempt == \A r \in redeemed : r[1] = r[2]

===============================================================================
