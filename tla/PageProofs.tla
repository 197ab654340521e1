------------------------------- MODULE PageProofs ------------------------------
(***************************************************************************)
(* The pages that keep something in the browser, for any texts, documents  *)
(* and drawings and any number of fetches, requests and visits; a session  *)
(* in the application, which is one on each page; and the query page, for  *)
(* any documents and queries.                                              *)
(***************************************************************************)
EXTENDS Workbench, JsonPath, SequenceTheorems, FiniteSetTheorems, WellFoundedInduction, TLAPS

(***************************************************************************)
(* For every set of hosts, policy, specification and number of requests:   *)
(* the API workbench sends requests only to hosts that are allowed and     *)
(* that the user has confirmed. The property is inductive, because a       *)
(* request sent on from the dialog is resolved and checked once more: the  *)
(* host on the wire is one that RunRequest has just found confirmed.       *)
(***************************************************************************)

\* Allowed depends on the constants only, so what may be on the wire grows with
\* what is confirmed.
Sendable(confirmed) == {h \in confirmed : Allowed(h)}

\* A request reaches the wire only through the confirmed hosts it was given.
LEMMA RunRequestSendsToConfirmed ==
  ASSUME NEW config, NEW confirmed, NEW seenOp, RunRequest(config, confirmed, seenOp)
  PROVE  wire' \subseteq wire \cup Sendable(confirmed)
<1>1. CASE UNCHANGED wire
  BY <1>1
<1>2. CASE \E host : /\ wire' = wire \cup {host}
                     /\ Allowed(host) /\ host \in confirmed
  BY <1>2 DEF Sendable
<1>3. QED
  BY <1>1, <1>2 DEF RunRequest

\* Whatever is neither Send, nor the dialog, nor a refresh sends nothing and
\* forgets no confirmation.
LEMMA OthersSendNothing ==
  ASSUME \/ HandleParseSpec \/ ChangeSpec
         \/ \E op \in Operations : SelectOperation(op)
         \/ \E url \in Hosts \cup {Server} : SelectServer(url)
         \/ \E value \in Hosts \cup {None} : SetVariable(value)
         \/ CancelConfirmation
         \/ \E r \in inFlight, outcome \in {"json", "other", "error"} : FinishRequest(r, outcome)
         \/ LeaveWorkbench
  PROVE  UNCHANGED <<confirmedHosts, wire>>
BY DEF HandleParseSpec, ChangeSpec, SelectOperation, SelectServer, SetVariable,
       CancelConfirmation, FinishRequest, LeaveWorkbench

\* OnlyConfirmedHosts: no interleaving of composing, editing variables,
\* answering the dialog and late responses sends a request to a host that the
\* policy forbids or that the user has not confirmed.
THEOREM ApiOnlyConfirmedHosts == WorkbenchSpec => []OnlyConfirmedHosts
<1>1. WorkbenchInit => OnlyConfirmedHosts
  BY DEF WorkbenchInit, OnlyConfirmedHosts
<1>2. OnlyConfirmedHosts /\ [WorkbenchNext]_workbench => OnlyConfirmedHosts'
  <2> SUFFICES ASSUME OnlyConfirmedHosts, [WorkbenchNext]_workbench
               PROVE  OnlyConfirmedHosts'
    OBVIOUS
  <2>1. CASE HandleSend
    <3>1. wire' \subseteq wire \cup Sendable(confirmedHosts) /\ UNCHANGED confirmedHosts
      BY <2>1, RunRequestSendsToConfirmed DEF HandleSend
    <3>2. QED
      BY <3>1 DEF OnlyConfirmedHosts, Sendable, Allowed
  <2>2. CASE HandleConfirmHost
    <3>1. confirmedHosts \subseteq confirmedHosts'
      BY <2>2 DEF HandleConfirmHost
    <3>2. wire' \subseteq wire \cup Sendable(confirmedHosts')
      <4>1. RunRequest(pendingConfirmation.config, confirmedHosts', selectedOp)
        BY <2>2 DEF HandleConfirmHost
      <4>2. CASE UNCHANGED wire
        BY <4>2
      <4>3. CASE \E host : /\ wire' = wire \cup {host}
                           /\ Allowed(host) /\ host \in confirmedHosts'
        BY <4>3 DEF Sendable
      <4>4. QED
        BY <4>1, <4>2, <4>3 DEF RunRequest
    <3>3. QED
      BY <3>1, <3>2 DEF OnlyConfirmedHosts, Sendable, Allowed
  <2>3. CASE Refresh
    BY <2>3 DEF Refresh, OnlyConfirmedHosts
  <2>4. CASE UNCHANGED <<confirmedHosts, wire>>
    BY <2>4 DEF OnlyConfirmedHosts, Allowed
  <2>5. CASE UNCHANGED workbench
    BY <2>4, <2>5 DEF workbench
  <2>6. QED
    BY <2>1, <2>2, <2>3, <2>4, <2>5, OthersSendNothing DEF WorkbenchNext
<1>3. QED
  BY <1>1, <1>2, PTL DEF WorkbenchSpec

-------------------------------------------------------------------------------
(***************************************************************************)
(* For any number of attempts and of calls in progress: an authorization   *)
(* code is only ever redeemed with the verifier of the attempt that the    *)
(* provider answers. The strengthening says where the verifier can be: in  *)
(* the storage beside the state of its own attempt, or with an exchange    *)
(* whose code has been found to answer that attempt.                       *)
(***************************************************************************)

\* The operations that redeem nothing.
OtherOps == {"exchange", "me", "me again", "workspaces", "reload", "signIn", "create",
             "packs", "repacks", "activate"}

CallRecord == [op : OtherOps \cup {"discover"}, code : Nat, verifier : Nat, token : BOOLEAN, here : BOOLEAN]

SignInTypes ==
  /\ token \in BOOLEAN /\ verifier \in Nat /\ state \in Nat /\ attempts \in Nat
  /\ calls \subseteq CallRecord

\* The stored verifier and state are of one attempt, and so are the code and the
\* verifier of every exchange that waits for the discovery.
OneAttempt ==
  /\ verifier = state
  /\ \A c \in calls : c.op = "discover" => c.code = c.verifier

SignInInv == SignInTypes /\ OneAttempt /\ VerifierOfTheSameAttempt
-------------------------------------------------------------------------------
(* What a step may do to the storage, and to the calls. *)

\* The storage stays, is cleared, gets a token and is cleared otherwise, or
\* takes up the next attempt.
GoodStorage ==
  /\ token' \in BOOLEAN
  /\ attempts' \in Nat
  /\ \/ UNCHANGED <<verifier, state>>
     \/ verifier' = 0 /\ state' = 0
     \/ verifier' = attempts' /\ state' = attempts'

\* A new call, or one that goes on, is not about to be redeemed unless its code
\* belongs to its verifier.
GoodCall(c) == c \in CallRecord /\ (c.op = "discover" => c.code = c.verifier)
GoodCalls == \A c \in calls' : GoodCall(c)

LEMMA GoodStepKeepsInv ==
  ASSUME SignInInv, GoodStorage, GoodCalls, UNCHANGED redeemed
  PROVE  SignInInv'
<1>1. SignInTypes' /\ OneAttempt'
  BY DEF SignInInv, SignInTypes, OneAttempt, GoodStorage, GoodCalls, GoodCall
<1>2. QED
  BY <1>1 DEF SignInInv, VerifierOfTheSameAttempt

LEMMA CallsAreGood ==
  ASSUME SignInInv
  PROVE  /\ \A c \in calls : GoodCall(c)
         /\ token \in BOOLEAN /\ attempts \in Nat
BY DEF SignInInv, SignInTypes, OneAttempt, GoodCall

\* Leaving a page, or going on to another operation, keeps a call good.
LEMMA ChangedCallIsGood ==
  ASSUME NEW c, GoodCall(c), NEW op \in OtherOps, NEW t \in BOOLEAN
  PROVE  /\ GoodCall([c EXCEPT !.here = FALSE])
         /\ GoodCall([c EXCEPT !.op = op])
         /\ GoodCall([c EXCEPT !.op = op, !.token = t])
<1>1. op \in OtherOps /\ op # "discover"
  BY DEF OtherOps
<1>2. GoodCall([c EXCEPT !.here = FALSE])
  BY DEF GoodCall, CallRecord
<1>3. GoodCall([c EXCEPT !.op = op])
  BY <1>1 DEF GoodCall, CallRecord
<1>4. GoodCall([c EXCEPT !.op = op, !.token = t])
  BY <1>1 DEF GoodCall, CallRecord
<1>5. QED
  BY <1>2, <1>3, <1>4

LEMMA NewCallIsGood ==
  ASSUME SignInInv, NEW op \in OtherOps, NEW t \in BOOLEAN
  PROVE  /\ GoodCall(Call(op, 0, 0))
         /\ GoodCall([Call(op, 0, 0) EXCEPT !.token = t])
<1>1. op \in OtherOps /\ op # "discover"
  BY DEF OtherOps
<1>2. GoodCall(Call(op, 0, 0))
  BY <1>1 DEF SignInInv, SignInTypes, Call, GoodCall, CallRecord
<1>3. GoodCall([Call(op, 0, 0) EXCEPT !.token = t])
  BY <1>1 DEF SignInInv, SignInTypes, Call, GoodCall, CallRecord
<1>4. QED
  BY <1>2, <1>3

LEMMA NewExchangeIsGood ==
  ASSUME SignInInv, NEW code \in Nat
  PROVE  GoodCall(Call("discover", code, code))
BY DEF SignInInv, SignInTypes, Call, GoodCall, CallRecord

\* A call that ends, and what may follow it.
LEMMA ContinueIsGood ==
  ASSUME SignInInv, NEW c, NEW d, GoodCall(d), Continue(c, {d}) \/ Continue(c, {})
  PROVE  GoodCalls
BY CallsAreGood DEF Continue, GoodCalls

LEMMA EndIsGood ==
  ASSUME SignInInv, NEW c, Continue(c, {})
  PROVE  GoodCalls
BY CallsAreGood DEF Continue, GoodCalls

LEMMA BeginIsGood ==
  ASSUME SignInInv, NEW op \in OtherOps, Begin(Call(op, 0, 0))
  PROVE  GoodCalls
<1>1. GoodCall(Call(op, 0, 0))
  BY NewCallIsGood
<1>2. QED
  BY <1>1, CallsAreGood DEF Begin, GoodCalls

LEMMA StorageIsGood ==
  ASSUME SignInInv, UNCHANGED attempts,
         SignOut \/ UNCHANGED storage \/ (\E c : Refused(c))
  PROVE  GoodStorage
BY CallsAreGood DEF SignOut, Refused, storage, GoodStorage
-------------------------------------------------------------------------------
(* The page is loaded: only here does a discovery begin, with a code whose   *)
(* state is the stored one.                                                  *)

LEMMA HandleRedirectCallbackIsGood ==
  ASSUME SignInInv, NEW kind, NEW code \in Nat, HandleRedirectCallback(kind, code),
         UNCHANGED <<attempts, redeemed>>
  PROVE  SignInInv'
<1>1. CASE calls' = calls \cup {Call("me", 0, 0)} /\ UNCHANGED storage
  <2>1. GoodCall(Call("me", 0, 0))
    BY NewCallIsGood DEF OtherOps
  <2> GoodCalls
    BY <1>1, <2>1, CallsAreGood DEF GoodCalls
  <2>2. QED
    BY <1>1, <2>1, StorageIsGood, GoodStepKeepsInv
<1>2. CASE SignOut /\ calls' = {[Call("me", 0, 0) EXCEPT !.token = FALSE]}
  <2>1. GoodCall([Call("me", 0, 0) EXCEPT !.token = FALSE])
    BY NewCallIsGood DEF OtherOps
  <2> GoodCalls
    BY <1>2, <2>1 DEF GoodCalls
  <2>2. QED
    BY <1>2, <2>1, StorageIsGood, GoodStepKeepsInv
<1>3. CASE state = code /\ calls' = {Call("discover", code, verifier)} /\ UNCHANGED storage
  <2>1. verifier = code
    BY <1>3 DEF SignInInv, OneAttempt
  <2>2. GoodCall(Call("discover", code, verifier))
    BY <2>1, NewExchangeIsGood
  <2> GoodCalls
    BY <1>3, <2>2 DEF GoodCalls
  <2>3. QED
    BY <1>3, <2>2, StorageIsGood, GoodStepKeepsInv
<1>4. QED
  BY <1>1, <1>2, <1>3 DEF HandleRedirectCallback

LEMMA NavigationKeepsInv ==
  ASSUME SignInInv,
         \/ OpenTeam \/ OpenAdmin \/ LeavePage \/ Reload \/ Unload
         \/ \E kind : \E code \in Nat : ProviderReturns(kind, code)
  PROVE  SignInInv'
<1>1. CASE OpenTeam
  BY <1>1, HandleRedirectCallbackIsGood DEF OpenTeam
<1>2. ASSUME NEW kind, NEW code \in Nat, ProviderReturns(kind, code)
      PROVE  SignInInv'
  BY <1>2, HandleRedirectCallbackIsGood DEF ProviderReturns
<1>3. CASE OpenAdmin
  <2>1. GoodCalls
    BY <1>3, CallsAreGood, BeginIsGood DEF OpenAdmin, OtherOps, GoodCalls
  <2>2. QED
    BY <1>3, <2>1, StorageIsGood, GoodStepKeepsInv DEF OpenAdmin
<1>4. CASE LeavePage
  <2>1. GoodCalls
    <3>1. \A c \in calls : GoodCall([c EXCEPT !.here = FALSE])
      BY CallsAreGood, ChangedCallIsGood DEF OtherOps
    <3>2. QED
      BY <1>4, <3>1 DEF LeavePage, GoodCalls
  <2>2. QED
    BY <1>4, <2>1, StorageIsGood, GoodStepKeepsInv DEF LeavePage
<1>5. CASE Reload \/ Unload
  <2>1. GoodCalls
    BY <1>5 DEF Reload, Unload, GoodCalls
  <2>2. QED
    BY <1>5, <2>1, StorageIsGood, GoodStepKeepsInv DEF Reload, Unload
<1>6. QED
  BY <1>1, <1>2, <1>3, <1>4, <1>5
-------------------------------------------------------------------------------
(* The exchange *)

\* The token request redeems the pair that the call holds.
LEMMA DiscoveredKeepsInv ==
  ASSUME SignInInv, NEW c \in calls, Discovered(c)
  PROVE  SignInInv'
<1>1. GoodCalls
  <2>1. GoodCall([c EXCEPT !.op = "exchange"])
    BY CallsAreGood, ChangedCallIsGood DEF OtherOps
  <2>2. QED
    BY <2>1, ContinueIsGood DEF Discovered
<1>2. GoodStorage
  BY StorageIsGood DEF Discovered
<1>3. c.code = c.verifier
  BY CallsAreGood DEF Discovered, GoodCall
<1>4. VerifierOfTheSameAttempt'
  BY <1>3 DEF Discovered, SignInInv, VerifierOfTheSameAttempt
<1>5. QED
  BY <1>1, <1>2, <1>4
     DEF SignInInv, SignInTypes, OneAttempt, GoodStorage, GoodCalls, GoodCall

LEMMA ExchangeKeepsInv ==
  ASSUME SignInInv, NEW c \in calls, Exchanged(c) \/ ExchangeFails(c)
  PROVE  SignInInv'
<1>1. GoodCalls
  <2>1. PICK t \in BOOLEAN : AfterExchange(c, t)
    BY DEF Exchanged, ExchangeFails
  <2>2. GoodCall([Call("me", 0, 0) EXCEPT !.token = t])
    BY NewCallIsGood DEF OtherOps
  <2>3. QED
    BY <2>1, <2>2, ContinueIsGood DEF AfterExchange
<1>2. CASE Exchanged(c)
  BY <1>1, <1>2, CallsAreGood, GoodStepKeepsInv DEF Exchanged, GoodStorage
<1>3. CASE ExchangeFails(c)
  BY <1>1, <1>3, StorageIsGood, GoodStepKeepsInv DEF ExchangeFails
<1>4. QED
  BY <1>2, <1>3
-------------------------------------------------------------------------------
(* Every other operation *)

LEMMA SignInStepsKeepInv ==
  ASSUME SignInInv, NEW c \in calls, SignInGoesOn(c) \/ SignInFails(c)
  PROVE  SignInInv'
<1>1. GoodCalls
  BY EndIsGood DEF SignInGoesOn, SignInFails
<1>2. CASE SignInGoesOn(c)
  <2>1. GoodStorage
    BY <1>2, CallsAreGood DEF SignInGoesOn, GoodStorage
  <2>2. QED
    BY <1>1, <1>2, <2>1, GoodStepKeepsInv DEF SignInGoesOn
<1>3. CASE SignInFails(c)
  BY <1>1, <1>3, StorageIsGood, GoodStepKeepsInv DEF SignInFails
<1>4. QED
  BY <1>2, <1>3

\* The buttons begin a call, or only sign out.
LEMMA ButtonsKeepInv ==
  ASSUME SignInInv,
         \/ HandleSignIn \/ HandleSignOut \/ HandleCreateWorkspace \/ HandleActivate
         \/ \E choice \in BOOLEAN : ConfirmActivation(choice)
  PROVE  SignInInv'
<1>1. GoodCalls
  <2>1. CASE \E op \in {"signIn", "create", "activate"} : Begin(Call(op, 0, 0))
    BY <2>1, BeginIsGood DEF OtherOps
  <2>2. CASE UNCHANGED calls
    BY <2>2, CallsAreGood DEF GoodCalls
  <2>3. QED
    BY <2>1, <2>2
       DEF HandleSignIn, HandleSignOut, HandleCreateWorkspace, HandleActivate, ConfirmActivation
<1>2. /\ UNCHANGED <<attempts, redeemed>>
      /\ SignOut \/ UNCHANGED storage
  BY DEF HandleSignIn, HandleSignOut, HandleCreateWorkspace, HandleActivate, ConfirmActivation
<1>3. QED
  BY <1>1, <1>2, StorageIsGood, GoodStepKeepsInv

LEMMA TeamAnswersKeepInv ==
  ASSUME SignInInv, NEW c \in calls,
         \/ \E answer : MeAnswers(c, answer)
         \/ MeFails(c) \/ WorkspacesAnswer(c) \/ WorkspacesRefused(c)
         \/ Created(c) \/ \E refused : CreateFails(c, refused)
  PROVE  SignInInv'
<1>1. /\ UNCHANGED <<attempts, redeemed>>
      /\ UNCHANGED storage \/ \E d : Refused(d)
  BY DEF MeAnswers, MeFails, WorkspacesAnswer, WorkspacesRefused, Created, CreateFails
<1>2. GoodCalls
  <2>1. GoodCall(c) /\ token \in BOOLEAN
    BY CallsAreGood
  <2>2. CASE MeFails(c)
    <3> DEFINE d == [c EXCEPT !.op = "me again", !.token = token]
    <3>1. GoodCall(d)
      BY <2>1, ChangedCallIsGood DEF OtherOps
    <3>2. Continue(c, {d}) \/ Continue(c, {})
      BY <2>2 DEF MeFails
    <3>3. QED
      BY <3>1, <3>2, ContinueIsGood
  <2>3. CASE Created(c)
    <3> DEFINE d == [c EXCEPT !.op = "reload", !.token = token]
    <3>1. GoodCall(d)
      BY <2>1, ChangedCallIsGood DEF OtherOps
    <3>2. Continue(c, {d})
      BY <2>3 DEF Created
    <3>3. QED
      BY <3>1, <3>2, ContinueIsGood
  <2>4. CASE \E answer : MeAnswers(c, answer)
    <3>1. GoodCall(Call("workspaces", 0, 0))
      BY <2>1, NewCallIsGood DEF OtherOps
    <3>2. Continue(c, {Call("workspaces", 0, 0)}) \/ Continue(c, {})
      BY <2>4 DEF MeAnswers
    <3>3. QED
      BY <3>1, <3>2, ContinueIsGood
  <2>5. CASE \/ WorkspacesAnswer(c) \/ WorkspacesRefused(c)
             \/ \E refused : CreateFails(c, refused)
    BY <2>5, EndIsGood DEF WorkspacesAnswer, WorkspacesRefused, CreateFails
  <2>6. QED
    BY <2>2, <2>3, <2>4, <2>5
<1>3. QED
  BY <1>1, <1>2, StorageIsGood, GoodStepKeepsInv

LEMMA AdminAnswersKeepInv ==
  ASSUME SignInInv, NEW c \in calls,
         \/ \E answer : PacksAnswer(c, answer)
         \/ Activated(c) \/ \E refused : ActivateFails(c, refused)
  PROVE  SignInInv'
<1>1. /\ UNCHANGED <<attempts, redeemed>>
      /\ UNCHANGED storage \/ \E d : Refused(d)
  BY DEF PacksAnswer, Activated, ActivateFails
<1>2. GoodCalls
  <2>1. GoodCall(c)
    BY CallsAreGood
  <2>2. CASE Activated(c)
    <3> DEFINE d == [c EXCEPT !.op = "repacks", !.token = TRUE]
    <3>1. GoodCall(d)
      BY <2>1, ChangedCallIsGood DEF OtherOps
    <3>2. Continue(c, {d}) \/ Continue(c, {})
      BY <2>2 DEF Activated
    <3>3. QED
      BY <3>1, <3>2, ContinueIsGood
  <2>3. CASE (\E answer : PacksAnswer(c, answer)) \/ (\E refused : ActivateFails(c, refused))
    BY <2>3, EndIsGood DEF PacksAnswer, ActivateFails
  <2>4. QED
    BY <2>2, <2>3
<1>3. QED
  BY <1>1, <1>2, StorageIsGood, GoodStepKeepsInv
-------------------------------------------------------------------------------
(* The theorems *)

THEOREM SignInInvariant == SignInSpec => []SignInInv
<1>1. SignInInit => SignInInv
  <2> SUFFICES ASSUME SignInInit
               PROVE  SignInInv
    OBVIOUS
  <2>1. token = FALSE /\ verifier = 0 /\ state = 0 /\ attempts = 0 /\ calls = {} /\ redeemed = {}
    BY DEF SignInInit
  <2>2. SignInTypes
    BY <2>1 DEF SignInTypes
  <2>3. OneAttempt /\ VerifierOfTheSameAttempt
    BY <2>1 DEF OneAttempt, VerifierOfTheSameAttempt
  <2>4. QED
    BY <2>2, <2>3 DEF SignInInv
<1>2. SignInInv /\ [SignInNext]_team => SignInInv'
  <2> SUFFICES ASSUME SignInInv, [SignInNext]_team
               PROVE  SignInInv'
    OBVIOUS
  <2>1. CASE OpenTeam \/ OpenAdmin \/ LeavePage \/ Reload \/ Unload
    BY <2>1, NavigationKeepsInv
  <2>2. ASSUME NEW kind \in {"none", "code", "error"}, NEW a \in {0} \cup 1 .. attempts,
               ProviderReturns(kind, a)
        PROVE  SignInInv'
    <3>1. a \in Nat
      BY CallsAreGood
    <3>2. QED
      BY <2>2, <3>1, NavigationKeepsInv
  <2>3. CASE \/ HandleSignIn \/ HandleSignOut \/ HandleCreateWorkspace \/ HandleActivate
             \/ \E choice \in BOOLEAN : ConfirmActivation(choice)
    BY <2>3, ButtonsKeepInv
  <2>4. ASSUME NEW c \in calls,
               \/ Discovered(c) \/ Exchanged(c) \/ ExchangeFails(c)
               \/ SignInGoesOn(c) \/ SignInFails(c)
        PROVE  SignInInv'
    BY <2>4, DiscoveredKeepsInv, ExchangeKeepsInv, SignInStepsKeepInv
  <2>5. ASSUME NEW c \in calls,
               \/ \E answer : MeAnswers(c, answer)
               \/ MeFails(c) \/ WorkspacesAnswer(c) \/ WorkspacesRefused(c)
               \/ Created(c) \/ \E refused : CreateFails(c, refused)
        PROVE  SignInInv'
    BY <2>5, TeamAnswersKeepInv
  <2>6. ASSUME NEW c \in calls,
               \/ \E answer : PacksAnswer(c, answer)
               \/ Activated(c) \/ \E refused : ActivateFails(c, refused)
        PROVE  SignInInv'
    BY <2>6, AdminAnswersKeepInv
  <2>7. CASE UNCHANGED team
    BY <2>7 DEF team, storage, SignInInv, SignInTypes, OneAttempt, VerifierOfTheSameAttempt
  <2>8. QED
    BY <2>1, <2>2, <2>3, <2>4, <2>5, <2>6, <2>7 DEF SignInNext
<1>3. QED
  BY <1>1, <1>2, PTL DEF SignInSpec

\* VerifierOfTheSameAttempt: handleRedirectCallback's check of the state pairs
\* each redeemed code with its own verifier, whatever attempts, exchanges and
\* moves between pages overlap.
THEOREM SignInVerifierOfTheSameAttempt == SignInSpec => []VerifierOfTheSameAttempt
<1>1. SignInInv => VerifierOfTheSameAttempt
  BY DEF SignInInv
<1>2. QED
  BY <1>1, SignInInvariant, PTL

(* The documentation page. *)

\* What a fetch is made of, whoever changed it.
IsFetch(f) ==
  f = [op |-> f.op, n |-> f.n, id |-> f.id, query |-> f.query, source |-> f.source,
       here |-> f.here]

\* The fetches that end with a document's answer.
Opening == {"document", "upload", "relist"}

\* A page that is not there shows nothing. A fetch of the page one is on knows it
\* is; one that will open a document in spite of its page having been left is why
\* strayed is set.
DocsInv ==
  /\ onDocs \in BOOLEAN /\ strayed \in BOOLEAN
  /\ ~onDocs => selectedDoc = Nowhere /\ ~isModalOpen
  /\ \A f \in fetches :
       /\ IsFetch(f)
       /\ f.here => onDocs
       /\ f.op \in Opening /\ ~f.here => strayed
  /\ PermalinkNamesTheDocument

\* A fetch as the invariant has it, after a step.
FetchKept(f) ==
  /\ IsFetch(f)
  /\ f.here => onDocs'
  /\ f.op \in Opening /\ ~f.here => strayed'

LEMMA HereSet ==
  ASSUME NEW f, IsFetch(f), NEW b
  PROVE  [f EXCEPT !.here = b] = [op |-> f.op, n |-> f.n, id |-> f.id, query |-> f.query,
                                  source |-> f.source, here |-> b]
BY DEF IsFetch

LEMMA FetchIsFetch ==
  ASSUME NEW op, NEW n, NEW id, NEW q, NEW s
  PROVE  /\ IsFetch(Fetch(op, n, id, q, s))
         /\ [Fetch(op, n, id, q, s) EXCEPT !.here = TRUE] =
              [op |-> op, n |-> n, id |-> id, query |-> q, source |-> s, here |-> TRUE]
<1>1. IsFetch(Fetch(op, n, id, q, s))
  BY DEF IsFetch, Fetch
<1>2. /\ Fetch(op, n, id, q, s).op = op /\ Fetch(op, n, id, q, s).n = n
      /\ Fetch(op, n, id, q, s).id = id /\ Fetch(op, n, id, q, s).query = q
      /\ Fetch(op, n, id, q, s).source = s
  BY DEF Fetch
<1>3. QED
  BY <1>1, <1>2, HereSet

LEMMA NewFetchKept ==
  ASSUME NEW op, NEW n, NEW id, NEW q, NEW s, onDocs \in BOOLEAN,
         UNCHANGED <<onDocs, strayed>>, op \in Opening => onDocs
  PROVE  FetchKept(Fetch(op, n, id, q, s))
BY DEF FetchKept, IsFetch, Fetch

\* Searching, and answers to searches, open no document.
LEMMA SearchKeepsFetches ==
  ASSUME DocsInv, NEW q, NEW s, NEW times, PerformSearch(q, s, times),
         UNCHANGED <<onDocs, strayed>>
  PROVE  \A f \in fetches' : FetchKept(f)
<1>1. \A f \in fetches : FetchKept(f)
  BY DEF DocsInv, FetchKept
<1>2. \A n : FetchKept(Fetch("search", n, Nowhere, q, s))
  BY NewFetchKept DEF DocsInv, Opening
<1>3. QED
  BY <1>1, <1>2 DEF PerformSearch

\* What is left to show of a step: the page, the address and the fetches.
LEMMA DocsStep ==
  ASSUME DocsInv, onDocs' \in BOOLEAN, strayed' \in BOOLEAN,
         ~onDocs' => selectedDoc' = Nowhere /\ ~isModalOpen',
         \A f \in fetches' : FetchKept(f),
         onDocs' /\ selectedDoc' # Nowhere /\ ~strayed' => urlId' = selectedDoc'
  PROVE  DocsInv'
<1>1. \A f \in fetches' : IsFetch(f)' <=> IsFetch(f)
  BY DEF IsFetch
<1>2. QED
  BY <1>1 DEF DocsInv, FetchKept, PermalinkNamesTheDocument

LEMMA DocsInvInit == DocsInit => DocsInv
BY DEF DocsInit, DocsInv, PermalinkNamesTheDocument

LEMMA DocsInvNext == DocsInv /\ [DocsNext]_docs => DocsInv'
<1> SUFFICES ASSUME DocsInv, [DocsNext]_docs PROVE DocsInv'
  OBVIOUS
<1>0. /\ onDocs \in BOOLEAN /\ strayed \in BOOLEAN
      /\ ~onDocs => selectedDoc = Nowhere /\ ~isModalOpen
      /\ \A f \in fetches : UNCHANGED <<onDocs, strayed>> => FetchKept(f)
      /\ onDocs /\ selectedDoc # Nowhere /\ ~strayed => urlId = selectedDoc
  BY DEF DocsInv, FetchKept, PermalinkNamesTheDocument
<1>a. ASSUME UNCHANGED <<onDocs, strayed, doc, modal, urlId>>,
             \A f \in fetches' : FetchKept(f)
      PROVE  DocsInv'
  BY <1>a, <1>0, DocsStep DEF doc, modal
<1>f. ASSUME UNCHANGED <<onDocs, strayed>>, fetches' \subseteq fetches
      PROVE  \A f \in fetches' : FetchKept(f)
  BY <1>f, <1>0
<1>1. ASSUME NEW text, HandleInput(text) PROVE DocsInv'
  BY <1>1, <1>a, <1>f DEF HandleInput, beyond
<1>2. ASSUME NEW s, HandleSourceChange(s) PROVE DocsInv'
  <2>1. UNCHANGED <<onDocs, strayed, doc, modal, urlId>>
    BY <1>2 DEF HandleSourceChange, beyond
  <2>2. \A f \in fetches' : FetchKept(f)
    BY <1>2, <2>1, <1>f, SearchKeepsFetches DEF HandleSourceChange
  <2>3. QED
    BY <2>1, <2>2, <1>a
<1>3. CASE BoxTimerFires
  <2>1. UNCHANGED <<onDocs, strayed, doc, modal, urlId>>
    BY <1>3 DEF BoxTimerFires, beyond
  <2>2. \A f \in fetches' : FetchKept(f)
    BY <1>3, <2>1, SearchKeepsFetches DEF BoxTimerFires
  <2>3. QED
    BY <2>1, <2>2, <1>a
<1>4. CASE PressEnter
  <2>1. UNCHANGED <<onDocs, strayed, doc, modal, urlId>>
    BY <1>4 DEF PressEnter, beyond
  <2>2. \A f \in fetches' : FetchKept(f)
    BY <1>4, <2>1, SearchKeepsFetches DEF PressEnter
  <2>3. QED
    BY <2>1, <2>2, <1>a
<1>5. CASE ClearSearch
  BY <1>5, <1>a, <1>f DEF ClearSearch, beyond
<1>6. ASSUME NEW f \in fetches, SearchAnswers(f) PROVE DocsInv'
  BY <1>6, <1>a, <1>f DEF SearchAnswers, Finish
<1>7. ASSUME NEW f \in fetches, SearchFails(f) PROVE DocsInv'
  BY <1>7, <1>a, <1>f DEF SearchFails, Finish, beyond
<1>8. ASSUME NEW f \in fetches, DocumentAnswers(f) PROVE DocsInv'
  <2>1. UNCHANGED <<onDocs, strayed, isModalOpen>>
    BY <1>8 DEF DocumentAnswers, beyond, modal
  <2>2. \A g \in fetches' : FetchKept(g)
    BY <1>8, <2>1, <1>f DEF DocumentAnswers, Finish
  <2>3. urlId' = f.id
    BY <1>8 DEF DocumentAnswers
  <2>4. CASE f.here
    <3>1. onDocs /\ selectedDoc' = f.id
      BY <1>8, <2>4 DEF DocumentAnswers, DocsInv
    <3>2. QED
      BY <3>1, <2>1, <2>2, <2>3, <1>0, DocsStep
  <2>5. CASE ~f.here
    <3>1. strayed /\ UNCHANGED selectedDoc
      BY <1>8, <2>5 DEF DocumentAnswers, DocsInv, Opening, doc
    <3>2. QED
      BY <3>1, <2>1, <2>2, <1>0, DocsStep
  <2>6. QED
    BY <2>4, <2>5
<1>9. ASSUME NEW f \in fetches, DocumentFails(f) PROVE DocsInv'
  <2>1. UNCHANGED <<onDocs, strayed, isModalOpen, urlId>>
    BY <1>9 DEF DocumentFails, beyond, modal
  <2>2. \A g \in fetches' : FetchKept(g)
    BY <1>9, <2>1, <1>f DEF DocumentFails, Finish
  <2>3. selectedDoc' \in {Nowhere, selectedDoc}
    BY <1>9 DEF DocumentFails, doc
  <2>4. QED
    BY <2>1, <2>2, <2>3, <1>0, DocsStep
<1>10. ASSUME NEW f \in fetches, ListAnswers(f) PROVE DocsInv'
  <2>1. UNCHANGED <<onDocs, strayed, doc, isModalOpen, urlId>>
    BY <1>10 DEF ListAnswers, beyond
  <2>2. QED
    BY <1>10, <2>1, <1>0, <1>f, DocsStep DEF ListAnswers, Finish, doc
<1>11. ASSUME NEW f \in fetches, DeleteAnswers(f) PROVE DocsInv'
  <2>1. UNCHANGED <<onDocs, strayed, doc, isModalOpen, urlId>>
    BY <1>11 DEF DeleteAnswers
  <2>2. FetchKept([f EXCEPT !.op = "search"])
    BY <1>0, <2>1 DEF FetchKept, IsFetch, Opening
  <2>3. fetches' \subseteq fetches \cup {[f EXCEPT !.op = "search"]}
    BY <1>11 DEF DeleteAnswers, Finish
  <2>4. QED
    BY <2>1, <2>2, <2>3, <1>0, DocsStep DEF doc
<1>12. ASSUME NEW f \in fetches, UploadAnswers(f) PROVE DocsInv'
  <2>1. UNCHANGED <<onDocs, strayed, doc, modal, urlId>>
    BY <1>12 DEF UploadAnswers
  <2>2. FetchKept([f EXCEPT !.op = "relist"])
    BY <1>0, <1>12, <2>1 DEF FetchKept, IsFetch, Opening, UploadAnswers
  <2>3. fetches' \subseteq fetches \cup {[f EXCEPT !.op = "relist"]}
    BY <1>12 DEF UploadAnswers
  <2>4. QED
    BY <2>1, <2>2, <2>3, <1>0, <1>a
<1>13. ASSUME NEW f \in fetches, RelistAnswers(f) PROVE DocsInv'
  <2>1. UNCHANGED <<onDocs, strayed, selectedDoc, urlId>>
    BY <1>13 DEF RelistAnswers, beyond
  <2>2. FetchKept([f EXCEPT !.op = "document"])
    BY <1>0, <1>13, <2>1 DEF FetchKept, IsFetch, Opening, RelistAnswers
  <2>3. fetches' \subseteq fetches \cup {[f EXCEPT !.op = "document"]}
    BY <1>13 DEF RelistAnswers
  <2>4. isModalOpen' => isModalOpen
    BY <1>13 DEF RelistAnswers, modal
  <2>5. QED
    BY <2>1, <2>2, <2>3, <2>4, <1>0, DocsStep
<1>14. ASSUME NEW f \in fetches, UploadFails(f) PROVE DocsInv'
  <2>1. UNCHANGED <<onDocs, strayed, doc, isModalOpen, urlId>>
    BY <1>14 DEF UploadFails, beyond
  <2>2. QED
    BY <1>14, <2>1, <1>0, <1>f, DocsStep DEF UploadFails, Finish, doc
<1>15. ASSUME NEW ok, WriteRecent(ok) PROVE DocsInv'
  BY <1>15, <1>a, <1>f DEF WriteRecent
<1>16. ASSUME NEW ok, RestoreRecent(ok) PROVE DocsInv'
  <2>1. UNCHANGED <<onDocs, strayed, doc, modal, urlId>>
    BY <1>16 DEF RestoreRecent
  <2>2. \A f \in fetches' : FetchKept(f)
    BY <1>16, <2>1, <1>f, SearchKeepsFetches DEF RestoreRecent
  <2>3. QED
    BY <2>1, <2>2, <1>a
<1>17. ASSUME NEW id, SelectResult(id) PROVE DocsInv'
  <2>1. onDocs /\ UNCHANGED <<onDocs, strayed, modal, urlId, selectedDoc>>
    BY <1>17 DEF SelectResult, LoadDocument, Searching, beyond
  <2>2. FetchKept(Fetch("document", fetched', id, Nowhere, Nowhere))
    BY <2>1, <1>0, NewFetchKept
  <2>3. fetches' = fetches \cup {Fetch("document", fetched', id, Nowhere, Nowhere)}
    BY <1>17 DEF SelectResult, LoadDocument
  <2>4. QED
    BY <2>1, <2>2, <2>3, <1>0, DocsStep DEF modal
<1>18. CASE HandleBackToSearch
  <2>1. /\ UNCHANGED <<onDocs, strayed, isModalOpen, fetches>>
        /\ selectedDoc' = Nowhere
    BY <1>18 DEF HandleBackToSearch, beyond, modal
  <2>2. QED
    BY <2>1, <1>0, DocsStep
<1>19. ASSUME NEW op, NEW id, Fetching(op, id), onDocs,
              UNCHANGED <<onDocs, urlId, strayed, doc>>
       PROVE  DocsInv'
  <2>1. FetchKept(Fetch(op, fetched', id, query, source))
    BY <1>19, <1>0, NewFetchKept
  <2>2. fetches' = fetches \cup {Fetch(op, fetched', id, query, source)}
    BY <1>19 DEF Fetching
  <2>3. QED
    BY <1>19, <2>1, <2>2, <1>0, DocsStep DEF doc
<1>20. CASE OpenModal
  BY <1>20, <1>19 DEF OpenModal, beyond
<1>21. CASE CloseModal
  <2>1. UNCHANGED <<onDocs, urlId, strayed, doc, fetches>> /\ isModalOpen' = FALSE
    BY <1>21 DEF CloseModal, beyond
  <2>2. QED
    BY <2>1, <1>0, DocsStep DEF doc
<1>22. ASSUME NEW id, HandleUpload(id) PROVE DocsInv'
  BY <1>22, <1>0, <1>19 DEF HandleUpload, beyond
<1>23. ASSUME NEW id, HandleDelete(id) PROVE DocsInv'
  BY <1>23, <1>0, <1>19 DEF HandleDelete, beyond
<1>24. ASSUME NEW id, OpenDocs(id) PROVE DocsInv'
  <2>1. onDocs' /\ onDocs' \in BOOLEAN /\ UNCHANGED <<selectedDoc, strayed>> /\ selectedDoc = Nowhere
    BY <1>24, <1>0 DEF OpenDocs
  <2>2. \A f \in fetches : FetchKept(f)
    BY <2>1 DEF DocsInv, FetchKept
  <2>3. FetchKept([Fetch("document", fetched', id, Nowhere, Nowhere) EXCEPT !.here = TRUE])
    <3> DEFINE g == [op |-> "document", n |-> fetched', id |-> id, query |-> Nowhere,
                     source |-> Nowhere, here |-> TRUE]
    <3>1. [Fetch("document", fetched', id, Nowhere, Nowhere) EXCEPT !.here = TRUE] = g
      BY FetchIsFetch
    <3>2. FetchKept(g)
      BY <2>1 DEF FetchKept, IsFetch
    <3>3. QED
      BY <3>1, <3>2
  <2>4. fetches' \subseteq fetches \cup
          {[Fetch("document", fetched', id, Nowhere, Nowhere) EXCEPT !.here = TRUE]}
    BY <1>24 DEF OpenDocs
  <2>5. QED
    BY <2>1, <2>2, <2>3, <2>4, <1>0, DocsStep
<1>25. CASE LeaveDocs
  <2>1. /\ onDocs' = FALSE /\ selectedDoc' = Nowhere /\ isModalOpen' = FALSE
        /\ strayed' = (strayed \/ \E f \in fetches : f.op \in Opening)
        /\ fetches' = {[f EXCEPT !.here = FALSE] : f \in fetches}
    BY <1>25 DEF LeaveDocs, Opening
  <2>2. strayed' \in BOOLEAN
    BY <2>1, <1>0
  <2>3. ASSUME NEW f \in fetches PROVE FetchKept([f EXCEPT !.here = FALSE])
    <3> DEFINE g == [op |-> f.op, n |-> f.n, id |-> f.id, query |-> f.query,
                     source |-> f.source, here |-> FALSE]
    <3>1. [f EXCEPT !.here = FALSE] = g
      BY HereSet DEF DocsInv
    <3>2. g.op = f.op /\ ~g.here /\ IsFetch(g)
      BY DEF IsFetch
    <3>3. g.op \in Opening => strayed'
      BY <2>1, <3>2
    <3>4. QED
      BY <3>1, <3>2, <3>3 DEF FetchKept
  <2>4. QED
    BY <2>1, <2>2, <2>3, <1>0, DocsStep
<1>26. CASE BrowserBack
  <2>1. UNCHANGED <<onDocs, doc, modal, fetches>> /\ strayed' = TRUE
    BY <1>26 DEF BrowserBack
  <2>2. QED
    BY <2>1, <1>0, DocsStep DEF DocsInv, FetchKept, doc, modal
<1>27. CASE UNCHANGED docs
  BY <1>27, <1>a, <1>f DEF docs, beyond
<1>28. QED
  BY <1>1, <1>2, <1>3, <1>4, <1>5, <1>6, <1>7, <1>8, <1>9, <1>10, <1>11, <1>12, <1>13, <1>14,
     <1>15, <1>16, <1>17, <1>18, <1>20, <1>21, <1>22, <1>23, <1>24, <1>25, <1>26, <1>27
     DEF DocsNext

\* The document that is shown is the one the address bar names, whatever is fetched
\* and answered when, unless Back was used or the page was left while a document
\* was on its way (DocsPage.tsx loadDocument).
THEOREM PermalinkNamesTheDocumentAlways == DocsSpec => []PermalinkNamesTheDocument
<1>1. DocsInv => PermalinkNamesTheDocument
  BY DEF DocsInv
<1>2. QED
  BY <1>1, DocsInvInit, DocsInvNext, PTL DEF DocsSpec
-------------------------------------------------------------------------------
(* The structured data page. *)

Drafts == [input : Texts, format : Formats]
Requests == [op : {"get", "set"}, draft : Drafts, opened : Nat]

DataTypes ==
  /\ input \in Texts /\ format \in Formats
  /\ draft \in Drafts /\ stored \in Drafts /\ typed \in Drafts
  /\ saves \in Seq(Requests)
  /\ \A i \in DOMAIN saves : saves[i].op = "set"
  /\ requests \in Seq(Requests)
  /\ opened \in Nat /\ lost \in BOOLEAN

\* Carrying out the queue q of requests leaves d as the record, now r: it is the
\* draft of the last set, or there is none and the record is d already.
Leaves(q, r, d) ==
  \/ r = d /\ \A i \in DOMAIN q : q[i].op # "set"
  \/ \E i \in DOMAIN q :
       /\ q[i].op = "set" /\ q[i].draft = d
       /\ \A j \in DOMAIN q : j > i => q[j].op # "set"

\* What was typed last is in the last timer that runs, or else it is what the
\* requests will leave.
TypedIsPending ==
  IF saves # <<>> THEN saves[Len(saves)].draft = typed ELSE Leaves(requests, stored, typed)

DataInv == DataTypes /\ (~lost => TypedIsPending)

LEMMA LeavesNothing ==
  ASSUME NEW r, NEW d, Leaves(<<>>, r, d)
  PROVE  r = d
BY DEF Leaves

LEMMA LeavesAppended ==
  ASSUME NEW q \in Seq(Requests), NEW x \in Requests, NEW r, NEW d
  PROVE  /\ x.op = "set" => Leaves(Append(q, x), r, x.draft)
         /\ x.op # "set" /\ Leaves(q, r, d) => Leaves(Append(q, x), r, d)
<1> DEFINE n == Len(q)
           a == Append(q, x)
<1>1. /\ n \in Nat /\ DOMAIN q = 1 .. n /\ DOMAIN a = 1 .. (n + 1)
      /\ a[n + 1] = x
      /\ \A i \in 1 .. n : a[i] = q[i]
  OBVIOUS
<1> HIDE DEF n, a
<1>2. ASSUME x.op = "set" PROVE Leaves(a, r, x.draft)
  <2>1. \A j \in DOMAIN a : ~(j > n + 1)
    BY <1>1
  <2>2. n + 1 \in DOMAIN a
    BY <1>1
  <2>3. QED
    BY <1>1, <1>2, <2>1, <2>2 DEF Leaves
<1>3. ASSUME x.op # "set", Leaves(q, r, d) PROVE Leaves(a, r, d)
  <2>1. CASE r = d /\ \A i \in DOMAIN q : q[i].op # "set"
    <3>1. \A i \in 1 .. (n + 1) : i \in 1 .. n \/ i = n + 1
      BY <1>1
    <3>2. \A i \in DOMAIN a : a[i].op # "set"
      BY <1>1, <1>3, <2>1, <3>1
    <3>3. QED
      BY <2>1, <3>2 DEF Leaves
  <2>2. ASSUME NEW i \in DOMAIN q, q[i].op = "set", q[i].draft = d,
               \A j \in DOMAIN q : j > i => q[j].op # "set"
        PROVE  Leaves(a, r, d)
    <3>1. i \in DOMAIN a /\ a[i].op = "set" /\ a[i].draft = d
      BY <1>1, <2>2
    <3>2. ASSUME NEW j \in DOMAIN a, j > i PROVE a[j].op # "set"
      <4>1. j \in 1 .. n \/ j = n + 1
        BY <1>1
      <4>2. QED
        BY <1>1, <1>3, <2>2, <3>2, <4>1
    <3>3. QED
      BY <3>1, <3>2 DEF Leaves
  <2>3. QED
    BY <1>3, <2>1, <2>2 DEF Leaves
<1>4. QED
  BY <1>2, <1>3 DEF a

LEMMA LeavesTail ==
  ASSUME NEW q \in Seq(Requests), q # <<>>, NEW r, NEW d, Leaves(q, r, d)
  PROVE  /\ Head(q).op = "set" => Leaves(Tail(q), Head(q).draft, d)
         /\ Head(q).op # "set" => Leaves(Tail(q), r, d)
<1> DEFINE n == Len(q)
           t == Tail(q)
           h == Head(q)
<1>1. /\ n \in Nat \ {0} /\ DOMAIN q = 1 .. n /\ DOMAIN t = 1 .. (n - 1)
      /\ h = q[1]
      /\ \A i \in 1 .. (n - 1) : t[i] = q[i + 1]
  OBVIOUS
<1> HIDE DEF n, t, h
<1>2. \A i \in DOMAIN t : i + 1 \in DOMAIN q /\ t[i] = q[i + 1]
  BY <1>1
<1>3. CASE r = d /\ \A i \in DOMAIN q : q[i].op # "set"
  <2>1. \A i \in DOMAIN t : t[i].op # "set"
    BY <1>2, <1>3
  <2>2. h.op # "set"
    BY <1>1, <1>3
  <2>3. QED
    BY <1>3, <2>1, <2>2 DEF Leaves, t, h
<1>4. ASSUME NEW i \in DOMAIN q, q[i].op = "set", q[i].draft = d,
             \A j \in DOMAIN q : j > i => q[j].op # "set"
      PROVE  /\ h.op = "set" => Leaves(t, h.draft, d)
             /\ h.op # "set" => Leaves(t, r, d)
  <2>1. CASE i = 1
    <3>1. \A j \in DOMAIN t : j + 1 > i
      BY <1>1, <2>1
    <3>2. \A j \in DOMAIN t : t[j].op # "set"
      BY <1>2, <1>4, <3>1
    <3>3. h.op = "set" /\ h.draft = d
      BY <1>1, <1>4, <2>1
    <3>4. QED
      BY <3>2, <3>3 DEF Leaves
  <2>2. CASE i # 1
    <3>1. i - 1 \in DOMAIN t /\ t[i - 1] = q[i]
      BY <1>1, <2>2
    <3>2. \A j \in DOMAIN t : j > i - 1 => t[j].op # "set"
      BY <1>1, <1>2, <1>4
    <3>3. QED
      BY <1>4, <3>1, <3>2 DEF Leaves
  <2>3. QED
    BY <2>1, <2>2
<1>5. QED
  BY <1>3, <1>4 DEF Leaves, t, h

LEMMA DataRequests ==
  ASSUME DataTypes
  PROVE  /\ NoDraft \in Drafts
         /\ GetDraft \in Requests /\ GetDraft.op = "get"
         /\ \A d \in Drafts :
              SetDraft(d) \in Requests /\ SetDraft(d).op = "set" /\ SetDraft(d).draft = d
BY DataAssumption
   DEF DataTypes, NoDraft, Draft, GetDraft, SetDraft, Drafts, Requests, JSON

LEMMA DataInvInit == DataInit => DataInv
<1> SUFFICES ASSUME DataInit PROVE DataInv
  OBVIOUS
<1>1. NoDraft \in Drafts /\ opened = 1
  BY DataAssumption DEF DataInit, NoDraft, Draft, Drafts, JSON
<1>2. GetDraft \in Requests /\ GetDraft.op = "get"
  BY <1>1 DEF GetDraft, Requests
<1>3. DataTypes
  <2>1. input \in Texts /\ format \in Formats /\ draft \in Drafts /\ stored \in Drafts
        /\ typed \in Drafts /\ opened \in Nat /\ lost \in BOOLEAN
    <3>1. input = Sample /\ format = JSON /\ draft = NoDraft /\ stored = NoDraft
          /\ typed = NoDraft /\ lost = FALSE
      BY DEF DataInit
    <3>2. Sample \in Texts /\ JSON \in Formats
      BY DataAssumption
    <3>3. QED
      BY <1>1, <3>1, <3>2
  <2>2. saves \in Seq(Requests) /\ DOMAIN saves = {}
    BY DEF DataInit
  <2>3. requests \in Seq(Requests)
    BY <1>2 DEF DataInit
  <2>4. QED
    BY <2>1, <2>2, <2>3 DEF DataTypes
<1>4. Leaves(requests, stored, typed)
  BY <1>2 DEF DataInit, Leaves
<1>5. QED
  BY <1>3, <1>4 DEF DataInit, DataInv, TypedIsPending

LEMMA TypingKeepsDraft ==
  ASSUME DataInv, NEW text \in Texts, HandleInputChange(text)
  PROVE  DataInv'
<1> DEFINE own == OwnTimerCleared
           s == SetDraft(typed')
<1>1. /\ input' = text /\ typed' = Draft(text, format) /\ saves' = Append(own, s)
      /\ UNCHANGED <<format, draft, requests, stored, opened, lost>>
  BY DEF HandleInputChange
<1>2. own \in Seq(Requests) /\ \A i \in DOMAIN own : own[i].op = "set"
  <2>1. saves \in Seq(Requests) /\ \A i \in DOMAIN saves : saves[i].op = "set"
    BY DEF DataInv, DataTypes
  <2>2. CASE saves = <<>>
    BY <2>1, <2>2 DEF OwnTimerCleared
  <2>3. CASE saves # <<>>
    <3> DEFINE c == SubSeq(saves, 1, Len(saves) - 1)
    <3>1. c \in Seq(Requests) /\ \A i \in DOMAIN c : i \in DOMAIN saves /\ c[i] = saves[i]
      BY <2>1, <2>3
    <3>2. own = saves \/ own = c
      BY DEF OwnTimerCleared
    <3>3. QED
      BY <2>1, <3>1, <3>2
  <2>4. QED
    BY <2>2, <2>3
<1>3. typed' \in Drafts
  BY <1>1 DEF DataInv, DataTypes, Drafts, Draft
<1>4. s \in Requests /\ s.op = "set" /\ s.draft = typed'
  BY <1>3, DataRequests DEF DataInv
<1> HIDE DEF own, s
<1>5. /\ saves' \in Seq(Requests) /\ \A i \in DOMAIN saves' : saves'[i].op = "set"
      /\ saves' # <<>> /\ saves'[Len(saves')] = s
  <2>1. /\ Append(own, s) \in Seq(Requests) /\ Append(own, s) # <<>>
        /\ Append(own, s)[Len(Append(own, s))] = s
        /\ \A i \in DOMAIN Append(own, s) : Append(own, s)[i] = s
             \/ (i \in DOMAIN own /\ Append(own, s)[i] = own[i])
    BY <1>2, <1>4
  <2>2. QED
    BY <1>1, <1>2, <1>4, <2>1
<1>6. DataTypes'
  BY <1>1, <1>3, <1>5 DEF DataInv, DataTypes
<1>7. QED
  BY <1>4, <1>5, <1>6 DEF DataInv, TypedIsPending

LEMMA FiringKeepsDraft ==
  ASSUME DataInv, TimerFires
  PROVE  DataInv'
<1> DEFINE x == Head(saves)
           n == Len(saves)
<1>1. /\ saves # <<>> /\ requests' = Append(requests, x) /\ saves' = Tail(saves)
      /\ UNCHANGED <<input, format, draft, stored, opened, typed, lost>>
  BY DEF TimerFires, SaveDraft
<1>2. /\ saves \in Seq(Requests) /\ requests \in Seq(Requests)
      /\ \A i \in DOMAIN saves : saves[i].op = "set"
  BY DEF DataInv, DataTypes
<1>3. /\ x \in Requests /\ x.op = "set" /\ x = saves[1] /\ n \in Nat \ {0}
      /\ saves' \in Seq(Requests) /\ Len(saves') = n - 1
      /\ \A i \in 1 .. (n - 1) : saves'[i] = saves[i + 1]
  BY <1>1, <1>2
<1> HIDE DEF x, n
<1>4. \A i \in DOMAIN saves' : saves'[i].op = "set"
  <2>1. DOMAIN saves' = 1 .. (n - 1) /\ DOMAIN saves = 1 .. n
    BY <1>2, <1>3 DEF n
  <2>2. \A i \in 1 .. (n - 1) : i + 1 \in 1 .. n
    BY <1>3
  <2>3. QED
    BY <1>2, <1>3, <2>1, <2>2
<1>5. DataTypes'
  BY <1>1, <1>2, <1>3, <1>4 DEF DataInv, DataTypes
<1>6. ASSUME ~lost' PROVE TypedIsPending'
  <2>1. saves[n].draft = typed
    BY <1>1, <1>6 DEF DataInv, TypedIsPending, n
  <2>2. CASE n = 1
    <3>1. Leaves(requests', stored, x.draft)
      BY <1>1, <1>2, <1>3, LeavesAppended
    <3>2. saves' = <<>> /\ x.draft = typed
      BY <1>3, <2>1, <2>2
    <3>3. QED
      BY <1>1, <3>1, <3>2 DEF TypedIsPending
  <2>3. CASE n # 1
    <3>1. saves' # <<>> /\ saves'[Len(saves')] = saves[n]
      BY <1>3, <2>3
    <3>2. QED
      BY <1>1, <2>1, <3>1 DEF TypedIsPending
  <2>4. QED
    BY <2>2, <2>3
<1>7. QED
  BY <1>5, <1>6 DEF DataInv

\* The oldest request is gone, carried out or failed.
LEMMA OldestKeepsDraft ==
  ASSUME DataInv, CarryOutOldest \/ FailOldest
  PROVE  DataInv'
<1> DEFINE r == Head(requests)
<1>1. /\ requests # <<>> /\ requests' = Tail(requests)
      /\ UNCHANGED <<input, format, saves, opened, typed>>
  BY DEF CarryOutOldest, FailOldest
<1>2. requests \in Seq(Requests) /\ stored \in Drafts /\ draft \in Drafts /\ lost \in BOOLEAN
  BY DEF DataInv, DataTypes
<1>3. requests' \in Seq(Requests) /\ r \in Requests
  BY <1>1, <1>2
<1>4. /\ r.op = "set" /\ Leaves(requests, stored, typed) => Leaves(requests', r.draft, typed)
      /\ r.op # "set" /\ Leaves(requests, stored, typed) => Leaves(requests', stored, typed)
  BY <1>1, <1>2, LeavesTail
<1> HIDE DEF r
<1>5. r.draft \in Drafts
  BY <1>3 DEF Requests
<1>6. CASE CarryOutOldest
  <2>1. /\ stored' = (IF r.op = "set" THEN r.draft ELSE stored)
        /\ draft' \in {stored, draft}
        /\ lost' = lost
    BY <1>6 DEF CarryOutOldest, r
  <2>2. DataTypes'
    BY <1>1, <1>2, <1>3, <1>5, <2>1 DEF DataInv, DataTypes
  <2>3. ~lost' => TypedIsPending'
    BY <1>1, <1>4, <2>1 DEF DataInv, TypedIsPending
  <2>4. QED
    BY <2>2, <2>3 DEF DataInv
<1>7. CASE FailOldest
  <2>1. /\ UNCHANGED <<stored, draft>>
        /\ lost' = (lost \/ r.op = "set")
    BY <1>7 DEF FailOldest, r
  <2>2. lost' \in BOOLEAN
    BY <1>2, <2>1
  <2>3. DataTypes'
    BY <1>1, <1>2, <1>3, <2>1, <2>2 DEF DataInv, DataTypes
  <2>4. ~lost' => TypedIsPending'
    BY <1>1, <1>4, <2>1 DEF DataInv, TypedIsPending
  <2>5. QED
    BY <2>3, <2>4 DEF DataInv
<1>8. QED
  BY <1>6, <1>7

LEMMA ReopeningKeepsDraft ==
  ASSUME DataInv, ReopenData
  PROVE  DataInv'
<1>1. /\ opened' = opened + 1 /\ input' = Sample /\ format' = JSON /\ draft' = NoDraft
      /\ UNCHANGED <<stored, typed>>
  BY DEF ReopenData
<1>2. opened' \in Nat /\ input' \in Texts /\ format' \in Formats /\ draft' \in Drafts
  BY <1>1, DataAssumption, DataRequests DEF DataInv, DataTypes
<1>3. GetDraft' \in Requests /\ GetDraft'.op = "get"
  BY <1>1, <1>2, DataRequests DEF GetDraft, Requests, DataInv
<1>4. CASE requests' = Append(requests, GetDraft') /\ UNCHANGED <<saves, lost>>
  <2>1. requests \in Seq(Requests) /\ requests' \in Seq(Requests)
    BY <1>3, <1>4 DEF DataInv, DataTypes
  <2>2. Leaves(requests, stored, typed) => Leaves(requests', stored, typed)
    BY <1>3, <1>4, <2>1, LeavesAppended
  <2>3. DataTypes'
    BY <1>1, <1>2, <1>4, <2>1 DEF DataInv, DataTypes
  <2>4. ~lost' => TypedIsPending'
    BY <1>1, <1>4, <2>2 DEF DataInv, TypedIsPending
  <2>5. QED
    BY <2>3, <2>4 DEF DataInv
<1>5. CASE /\ requests' = <<GetDraft'>> /\ saves' = <<>>
           /\ lost' = (lost \/ saves # <<>> \/ \E i \in DOMAIN requests : requests[i].op = "set")
  <2>1. requests' \in Seq(Requests) /\ lost' \in BOOLEAN
    BY <1>3, <1>5 DEF DataInv, DataTypes
  <2>2. DataTypes'
    BY <1>1, <1>2, <1>5, <2>1 DEF DataInv, DataTypes
  <2>3. ASSUME ~lost' PROVE TypedIsPending'
    <3>1. stored = typed
      BY <1>5, <2>3 DEF DataInv, TypedIsPending, Leaves
    <3>2. \A i \in DOMAIN requests' : requests'[i].op # "set"
      BY <1>3, <1>5
    <3>3. QED
      BY <1>1, <1>5, <3>1, <3>2 DEF TypedIsPending, Leaves
  <2>4. QED
    BY <2>2, <2>3 DEF DataInv
<1>6. QED
  BY <1>4, <1>5 DEF ReopenData

LEMMA DataInvNext == DataInv /\ [DataNext]_data => DataInv'
<1> SUFFICES ASSUME DataInv, [DataNext]_data PROVE DataInv'
  OBVIOUS
<1>a. ASSUME UNCHANGED <<draft, stored, typed, saves, requests, opened, lost>>,
             input' \in Texts, format' \in Formats
      PROVE  DataInv'
  BY <1>a DEF DataInv, DataTypes, TypedIsPending
<1>0. input \in Texts /\ format \in Formats
  BY DEF DataInv, DataTypes
<1>1. ASSUME NEW text \in Texts, HandleInputChange(text) PROVE DataInv'
  BY <1>1, TypingKeepsDraft
<1>2. ASSUME NEW f \in Formats, SelectFormat(f) \/ SelectTargetFormat(f) PROVE DataInv'
  BY <1>2, <1>0, <1>a DEF SelectFormat, SelectTargetFormat
<1>3. CASE TimerFires
  BY <1>3, FiringKeepsDraft
<1>4. CASE CarryOutOldest \/ FailOldest
  BY <1>4, OldestKeepsDraft
<1>5. CASE RestoreDraft
  <2>1. draft.input \in Texts /\ draft.format \in Formats /\ draft' = NoDraft /\ NoDraft \in Drafts
    BY <1>5, DataRequests DEF DataInv, DataTypes, Drafts, RestoreDraft
  <2>2. /\ UNCHANGED <<stored, typed, saves, requests, opened, lost>>
        /\ input' \in Texts /\ format' \in Formats
    BY <1>5, <1>0, <2>1 DEF RestoreDraft
  <2>3. QED
    BY <2>1, <2>2 DEF DataInv, DataTypes, TypedIsPending
<1>6. ASSUME NEW parsed, NEW result, NEW shown, Press(parsed, result, shown) PROVE DataInv'
  BY <1>6, <1>0, <1>a DEF Press
<1>7. CASE HandleFormat \/ HandleMinify \/ HandleConvert \/ HandleInferSchema \/ HandleInspectTree
  BY <1>6, <1>7
     DEF HandleFormat, HandleMinify, HandleConvert, HandleInferSchema, HandleInspectTree
<1>8. CASE ReopenData
  BY <1>8, ReopeningKeepsDraft
<1>9. CASE UNCHANGED data
  BY <1>9, <1>0, <1>a DEF data
<1>10. QED
  BY <1>1, <1>2, <1>3, <1>4, <1>5, <1>7, <1>8, <1>9 DEF DataNext

\* Once every timer has fired and every request been carried out, the stored draft is
\* what was typed last, in the format it was typed in, unless a request failed or the
\* browser was reloaded before: however often the page is left and opened again
\* meanwhile (DataPage.tsx handleInputChange).
THEOREM DraftIsLastTypedAlways == DataSpec => []DraftIsLastTyped
<1>1. DataInv => DraftIsLastTyped
  BY LeavesNothing DEF DataInv, TypedIsPending, DraftIsLastTyped
<1>2. QED
  BY <1>1, DataInvInit, DataInvNext, PTL DEF DataSpec
(* The diagram page. *)

\* The types: pictures, saved diagrams and operations.
Pictures == [kind : Tabs \cup {"none"}, of : Drawings \cup {Blank}]
Rows == [id : Nat, kind : Tabs, source : Pictures]
Ops == [op : {"list", "save", "delete"}, at : {"index", "item", "record", "store"}, id : Nat,
        source : Pictures, kind : Tabs \cup {""}, open : BOOLEAN, ids : Seq(Nat),
        seen : Seq(Rows), mount : Nat]

StoreTypes ==
  /\ DOMAIN records \subseteq Nat /\ \A i \in DOMAIN records : records[i] \in Rows
  /\ index \in Seq(Nat)
  /\ pending \in Seq(Ops)
  /\ \A i \in DOMAIN pending :
       pending[i].op = "save" /\ pending[i].at = "record" => pending[i].kind \in Tabs

DiagramTypes ==
  /\ StoreTypes
  /\ activeTab \in Tabs /\ current \in Nat
  /\ active \in Pictures /\ editor \in Pictures
  /\ savedList \in Seq(Rows)
  /\ clicks \in Nat /\ mounts \in Nat /\ spoilt \in BOOLEAN

LEMMA ListIsOp ==
  ASSUME NEW m \in Nat
  PROVE  /\ List(m) \in Ops /\ List(m).op = "list" /\ List(m).at = "index"
         /\ List(m).mount = m
<1>1. NoSource \in Pictures
  BY DEF NoSource, Source, Pictures
<1>2. <<>> \in Seq(Nat) /\ <<>> \in Seq(Rows)
  BY EmptySeq
<1>3. QED
  BY <1>1, <1>2 DEF List, Ops

LEMMA ClickedIsOp ==
  ASSUME NEW m \in Nat, NEW id \in Nat, NEW k \in Tabs, NEW s \in Pictures, NEW o \in BOOLEAN
  PROVE  /\ [List(m) EXCEPT !.op = "save", !.at = "record", !.kind = k, !.id = id,
                            !.source = s] \in Ops
         /\ [List(m) EXCEPT !.op = "delete", !.at = "record", !.id = id, !.open = o] \in Ops
<1>1. List(m) \in Ops
  BY ListIsOp
<1>2. QED
  BY <1>1 DEF Ops

LEMMA ServedIsOp ==
  ASSUME NEW op \in Ops, NEW ids \in Seq(Nat), NEW seen \in Seq(Rows)
  PROVE  /\ [op EXCEPT !.at = "index", !.source = NoSource, !.kind = ""] \in Ops
         /\ [op EXCEPT !.at = "store", !.ids = ids] \in Ops
         /\ [op EXCEPT !.at = "item", !.ids = ids, !.seen = seen] \in Ops
<1>1. NoSource \in Pictures
  BY DEF NoSource, Source, Pictures
<1>2. QED
  BY <1>1 DEF Ops

LEMMA InitialSourceTyped ==
  ASSUME NEW kind \in Tabs, NEW s \in Pictures
  PROVE  InitialSource(kind, s) \in Pictures
BY DEF InitialSource, NoSource, Source, Pictures

\* The queue of requests: what is served leaves its head, and may come back at its end.
LEMMA QueueServed ==
  ASSUME NEW S, NEW q \in Seq(S), q # <<>>, NEW x \in S
  PROVE  /\ Head(q) = q[1] /\ Head(q) \in S /\ 1 \in DOMAIN q /\ Len(q) \in Nat \ {0}
         /\ Tail(q) \in Seq(S) /\ Append(Tail(q), x) \in Seq(S)
         /\ DOMAIN q = 1 .. Len(q)
         /\ DOMAIN Tail(q) = 1 .. Len(q) - 1 /\ Len(Tail(q)) = Len(q) - 1
         /\ DOMAIN Append(Tail(q), x) = 1 .. Len(q) /\ Len(Append(Tail(q), x)) = Len(q)
         /\ \A i \in 1 .. Len(q) - 1 : Tail(q)[i] = q[i + 1] /\ Append(Tail(q), x)[i] = q[i + 1]
         /\ Append(Tail(q), x)[Len(q)] = x
<1>1. Len(q) \in Nat \ {0} /\ Tail(q) \in Seq(S) /\ Len(Tail(q)) = Len(q) - 1
      /\ \A i \in 1 .. Len(q) - 1 : Tail(q)[i] = q[i + 1]
  BY HeadTailProperties, EmptySeq, LenProperties
<1>2. Append(Tail(q), x) \in Seq(S) /\ Len(Append(Tail(q), x)) = Len(q)
      /\ \A i \in 1 .. Len(q) - 1 : Append(Tail(q), x)[i] = Tail(q)[i]
      /\ Append(Tail(q), x)[Len(q)] = x
  BY <1>1, AppendProperties
<1>3. DOMAIN q = 1 .. Len(q) /\ DOMAIN Tail(q) = 1 .. Len(q) - 1
      /\ DOMAIN Append(Tail(q), x) = 1 .. Len(q)
  BY <1>1, <1>2, LenProperties
<1>4. Head(q) = q[1] /\ 1 \in DOMAIN q /\ q[1] \in S
  BY <1>1, <1>3, ElementOfSeq
<1>5. QED
  BY <1>1, <1>2, <1>3, <1>4

LEMMA QueueJoined ==
  ASSUME NEW S, NEW q \in Seq(S), NEW x \in S
  PROVE  /\ Append(q, x) \in Seq(S) /\ DOMAIN Append(q, x) = 1 .. Len(q) + 1
         /\ DOMAIN q = 1 .. Len(q) /\ Len(q) \in Nat /\ Len(Append(q, x)) = Len(q) + 1
         /\ \A i \in 1 .. Len(q) : Append(q, x)[i] = q[i]
         /\ Append(q, x)[Len(q) + 1] = x
BY AppendProperties, LenProperties

\* Without removes one id, if it is there.
LEMMA WithoutShortens ==
  ASSUME NEW ids \in Seq(Nat), NEW id \in Nat
  PROVE  /\ Without(ids, id) \in Seq(Nat)
         /\ Len(Without(ids, id)) \in {Len(ids), Len(ids) - 1}
         /\ (\A i, j \in DOMAIN ids : ids[i] = ids[j] => i = j) =>
              \A i, j \in DOMAIN Without(ids, id) : Without(ids, id)[i] = Without(ids, id)[j] => i = j
<1>1. CASE ~ \E j \in DOMAIN ids : ids[j] = id
  BY <1>1, LenProperties DEF Without
<1>2. CASE \E j \in DOMAIN ids : ids[j] = id
  <2> DEFINE j == CHOOSE j \in DOMAIN ids : ids[j] = id
             w == [k \in 1 .. Len(ids) - 1 |-> IF k < j THEN ids[k] ELSE ids[k + 1]]
  <2>1. Without(ids, id) = w
    BY <1>2 DEF Without
  <2>2. Len(ids) \in Nat /\ DOMAIN ids = 1 .. Len(ids) /\ j \in 1 .. Len(ids)
        /\ \A i \in 1 .. Len(ids) : ids[i] \in Nat
    BY <1>2, LenProperties, ElementOfSeq
  <2> HIDE DEF j
  <2>3. Len(ids) - 1 \in Nat /\ \A k \in 1 .. Len(ids) - 1 : w[k] \in Nat
    BY <2>2
  <2>4. w \in Seq(Nat) /\ Len(w) = Len(ids) - 1 /\ DOMAIN w = 1 .. Len(ids) - 1
    BY <2>3, IsASeq, LenProperties
  <2>5. ASSUME \A a, b \in DOMAIN ids : ids[a] = ids[b] => a = b
        PROVE  \A a, b \in 1 .. Len(ids) - 1 : w[a] = w[b] => a = b
    <3> SUFFICES ASSUME NEW a \in 1 .. Len(ids) - 1, NEW b \in 1 .. Len(ids) - 1, w[a] = w[b]
                 PROVE  a = b
      OBVIOUS
    <3> DEFINE up(k) == IF k < j THEN k ELSE k + 1
    <3>1. up(a) \in 1 .. Len(ids) /\ up(b) \in 1 .. Len(ids)
      BY <2>2
    <3>2. w[a] = ids[up(a)] /\ w[b] = ids[up(b)]
      BY <2>2
    <3>3. up(a) = up(b)
      BY <2>2, <2>5, <3>1, <3>2
    <3>4. QED
      BY <2>2, <3>3
  <2> HIDE DEF w
  <2>6. QED
    BY <2>1, <2>2, <2>4, <2>5
<1>3. QED
  BY <1>1, <1>2

\* What serving leaves of the types: a queue of operations, and rows to list.
LEMMA PendingTyped ==
  ASSUME StoreTypes, pending # <<>>, NEW x \in Ops,
         x.op = "save" /\ x.at = "record" => x.kind \in Tabs
  PROVE  \A q \in {Tail(pending), Append(Tail(pending), x)} :
           /\ q \in Seq(Ops)
           /\ \A i \in DOMAIN q : q[i].op = "save" /\ q[i].at = "record" => q[i].kind \in Tabs
<1>1. pending \in Seq(Ops) /\ \A i \in DOMAIN pending :
        pending[i].op = "save" /\ pending[i].at = "record" => pending[i].kind \in Tabs
  BY DEF StoreTypes
<1> DEFINE r == Append(Tail(pending), x)
<1>2. /\ Tail(pending) \in Seq(Ops) /\ r \in Seq(Ops) /\ Len(pending) \in Nat \ {0}
      /\ DOMAIN pending = 1 .. Len(pending) /\ DOMAIN Tail(pending) = 1 .. Len(pending) - 1
      /\ DOMAIN r = 1 .. Len(pending)
      /\ \A i \in 1 .. Len(pending) - 1 : Tail(pending)[i] = pending[i + 1] /\ r[i] = pending[i + 1]
      /\ r[Len(pending)] = x
  BY <1>1, QueueServed
<1>3. \A i \in 1 .. Len(pending) - 1 : i + 1 \in DOMAIN pending
  BY <1>2
<1> HIDE DEF r
<1>4. \A i \in DOMAIN Tail(pending) : Tail(pending)[i].op = "save" /\ Tail(pending)[i].at = "record"
        => Tail(pending)[i].kind \in Tabs
  BY <1>1, <1>2, <1>3
<1>5. \A i \in DOMAIN r : r[i].op = "save" /\ r[i].at = "record" => r[i].kind \in Tabs
  <2> SUFFICES ASSUME NEW i \in DOMAIN r, r[i].op = "save", r[i].at = "record"
               PROVE  r[i].kind \in Tabs
    OBVIOUS
  <2>1. CASE i = Len(pending)
    BY <1>2, <2>1
  <2>2. CASE i # Len(pending)
    <3>1. i \in 1 .. Len(pending) - 1
      BY <1>2, <2>2
    <3>2. QED
      BY <1>1, <1>2, <1>3, <3>1
  <2>3. QED
    BY <2>1, <2>2
<1>6. QED
  BY <1>2, <1>4, <1>5 DEF r

LEMMA JoinedTyped ==
  ASSUME StoreTypes, NEW x \in Ops, x.op = "save" /\ x.at = "record" => x.kind \in Tabs
  PROVE  /\ Append(pending, x) \in Seq(Ops)
         /\ \A i \in DOMAIN Append(pending, x) :
              Append(pending, x)[i].op = "save" /\ Append(pending, x)[i].at = "record"
                => Append(pending, x)[i].kind \in Tabs
<1>1. pending \in Seq(Ops) /\ \A i \in DOMAIN pending :
        pending[i].op = "save" /\ pending[i].at = "record" => pending[i].kind \in Tabs
  BY DEF StoreTypes
<1> DEFINE r == Append(pending, x)
<1>2. /\ r \in Seq(Ops) /\ Len(pending) \in Nat
      /\ DOMAIN pending = 1 .. Len(pending) /\ DOMAIN r = 1 .. Len(pending) + 1
      /\ \A i \in 1 .. Len(pending) : r[i] = pending[i]
      /\ r[Len(pending) + 1] = x
  BY <1>1, QueueJoined
<1> HIDE DEF r
<1>3. \A i \in DOMAIN r : r[i].op = "save" /\ r[i].at = "record" => r[i].kind \in Tabs
  <2> SUFFICES ASSUME NEW i \in DOMAIN r, r[i].op = "save", r[i].at = "record"
               PROVE  r[i].kind \in Tabs
    OBVIOUS
  <2>1. CASE i = Len(pending) + 1
    BY <1>2, <2>1
  <2>2. CASE i # Len(pending) + 1
    BY <1>1, <1>2, <2>2
  <2>3. QED
    BY <2>1, <2>2
<1>4. QED
  BY <1>2, <1>3 DEF r

LEMMA DiagramTypesInit == DiagramsInit => DiagramTypes
<1> SUFFICES ASSUME DiagramsInit PROVE DiagramTypes
  OBVIOUS
<1>1. List(1) \in Ops /\ List(1).op = "list"
  BY ListIsOp
<1>2. records = <<>> /\ index = <<>> /\ pending = <<List(1)>> /\ savedList = <<>>
  BY DEF DiagramsInit
<1>3. pending \in Seq(Ops) /\ DOMAIN pending = {1} /\ pending[1] = List(1)
  BY <1>1, <1>2
<1>4. index \in Seq(Nat) /\ savedList \in Seq(Rows) /\ DOMAIN records = {}
  BY <1>2, EmptySeq
<1>5. StoreTypes
  BY <1>1, <1>3, <1>4 DEF StoreTypes
<1>6. NoSource \in Pictures
  BY DEF NoSource, Source, Pictures
<1>7. QED
  BY <1>4, <1>5, <1>6 DEF DiagramTypes, DiagramsInit, Tabs

LEMMA OpenTyped ==
  ASSUME DiagramTypes, NEW op, NEW id \in Nat, NEW s \in Pictures, Open(op, id, s)
  PROVE  current' \in Nat /\ active' \in Pictures /\ editor' \in Pictures
<1>1. current \in Nat /\ active \in Pictures /\ editor \in Pictures /\ activeTab \in Tabs
  BY DEF DiagramTypes
<1>2. InitialSource(activeTab, s) \in Pictures
  BY <1>1, InitialSourceTyped
<1>3. QED
  BY <1>1, <1>2 DEF Open

LEMMA DiagramTypesServe ==
  ASSUME DiagramTypes, Serve
  PROVE  DiagramTypes'
<1> DEFINE op == Head(pending)
<1>1. /\ StoreTypes /\ pending \in Seq(Ops) /\ index \in Seq(Nat) /\ savedList \in Seq(Rows)
      /\ current \in Nat /\ active \in Pictures /\ editor \in Pictures
      /\ activeTab \in Tabs /\ clicks \in Nat /\ mounts \in Nat /\ spoilt \in BOOLEAN
      /\ DOMAIN records \subseteq Nat /\ \A i \in DOMAIN records : records[i] \in Rows
      /\ \A i \in DOMAIN pending :
           pending[i].op = "save" /\ pending[i].at = "record" => pending[i].kind \in Tabs
  BY DEF DiagramTypes, StoreTypes
<1>2. /\ pending # <<>> /\ UNCHANGED <<activeTab, clicks, mounts, spoilt>>
      /\ ServeRecord(op) \/ ServeIndex(op) \/ ServeStore(op) \/ ServeList(op)
  BY DEF Serve
<1>3. op \in Ops /\ (op.op = "save" /\ op.at = "record" => op.kind \in Tabs)
  <2>1. List(0) \in Ops
    BY ListIsOp
  <2>2. op = pending[1] /\ op \in Ops /\ 1 \in DOMAIN pending
    BY <1>1, <1>2, <2>1, QueueServed
  <2>3. QED
    BY <1>1, <2>2
<1> HIDE DEF op
<1>4. op.id \in Nat /\ op.ids \in Seq(Nat) /\ op.seen \in Seq(Rows) /\ op.mount \in Nat
      /\ op.source \in Pictures
  BY <1>3 DEF Ops
<1>5. List(op.mount) \in Ops /\ List(op.mount).op = "list"
  BY <1>4, ListIsOp
<1>6. NoSource \in Pictures
  BY DEF NoSource, Source, Pictures
<1>7. SUFFICES /\ DOMAIN records' \subseteq Nat /\ \A i \in DOMAIN records' : records'[i] \in Rows
               /\ index' \in Seq(Nat) /\ savedList' \in Seq(Rows)
               /\ current' \in Nat /\ active' \in Pictures /\ editor' \in Pictures
               /\ \E x \in Ops : /\ x.op = "save" /\ x.at = "record" => x.kind \in Tabs
                                 /\ pending' \in {Tail(pending), Append(Tail(pending), x)}
  <2> SUFFICES ASSUME NEW x \in Ops, x.op = "save" /\ x.at = "record" => x.kind \in Tabs,
                      pending' \in {Tail(pending), Append(Tail(pending), x)},
                      DOMAIN records' \subseteq Nat, \A i \in DOMAIN records' : records'[i] \in Rows,
                      index' \in Seq(Nat), savedList' \in Seq(Rows),
                      current' \in Nat, active' \in Pictures, editor' \in Pictures
               PROVE  DiagramTypes'
    OBVIOUS
  <2>1. /\ pending' \in Seq(Ops)
        /\ \A i \in DOMAIN pending' :
             pending'[i].op = "save" /\ pending'[i].at = "record" => pending'[i].kind \in Tabs
    BY <1>1, <1>2, PendingTyped
  <2>2. StoreTypes'
    BY <2>1 DEF StoreTypes
  <2>3. QED
    BY <1>1, <1>2, <2>2 DEF DiagramTypes
<1>8. CASE ServeRecord(op)
  <2> DEFINE x == [op EXCEPT !.at = "index", !.source = NoSource, !.kind = ""]
  <2>1. x \in Ops /\ x.at = "index"
    <3>1. x \in Ops
      BY <1>3, ServedIsOp, EmptySeq
    <3>2. x.at = "index"
      BY <1>3 DEF Ops
    <3>3. QED
      BY <3>1, <3>2
  <2>2. pending' = Append(Tail(pending), x) /\ UNCHANGED <<index, current, active, editor, savedList>>
    BY <1>8 DEF ServeRecord, Requeue, Page
  <2>3. DOMAIN records' \subseteq Nat /\ \A i \in DOMAIN records' : records'[i] \in Rows
    <3>1. CASE op.op = "save"
      <4>1. records' = [i \in DOMAIN records \cup {op.id} |->
                          IF i = op.id THEN [id |-> i, kind |-> op.kind, source |-> op.source]
                                       ELSE records[i]]
        BY <1>8, <3>1 DEF ServeRecord
      <4>2. [id |-> op.id, kind |-> op.kind, source |-> op.source] \in Rows
        BY <1>3, <1>4, <1>8, <3>1 DEF Rows, ServeRecord
      <4>3. QED
        BY <1>1, <1>4, <4>1, <4>2
    <3>2. CASE op.op # "save"
      <4>1. records' = [i \in DOMAIN records \ {op.id} |-> records[i]]
        BY <1>8, <3>2 DEF ServeRecord
      <4>2. QED
        BY <1>1, <4>1
    <3>3. QED
      BY <3>1, <3>2
  <2> HIDE DEF x
  <2>4. QED
    BY <1>1, <2>1, <2>2, <2>3
<1>9. CASE ServeIndex(op)
  <2>1. UNCHANGED <<records, index, savedList>>
    BY <1>9 DEF ServeIndex
  <2>2. CASE op.op = "save" /\ op.id \in ToSet(index)
    <3>1. pending' = Append(Tail(pending), List(op.mount)) /\ Open(op, op.id, active)
      BY <1>9, <2>2 DEF ServeIndex, Requeue
    <3>2. current' \in Nat /\ active' \in Pictures /\ editor' \in Pictures
      BY <1>1, <1>4, <3>1, OpenTyped
    <3>3. QED
      BY <1>1, <1>5, <2>1, <3>1, <3>2
  <2>3. CASE ~(op.op = "save" /\ op.id \in ToSet(index))
    <3> DEFINE ids == IF op.op = "save" THEN Append(index, op.id) ELSE Without(index, op.id)
               x == [op EXCEPT !.at = "store", !.ids = ids]
    <3>1. pending' = Append(Tail(pending), x) /\ UNCHANGED <<current, active, editor>>
      BY <1>9, <2>3 DEF ServeIndex, Requeue
    <3>2. ids \in Seq(Nat)
      BY <1>1, <1>4, WithoutShortens, AppendProperties
    <3> HIDE DEF ids
    <3>3. x \in Ops /\ x.at = "store"
      <4>1. x \in Ops
        BY <1>3, <3>2, ServedIsOp, EmptySeq
      <4>2. x.at = "store"
        BY <1>3 DEF Ops
      <4>3. QED
        BY <4>1, <4>2
    <3> HIDE DEF x
    <3>4. QED
      BY <1>1, <2>1, <3>1, <3>3
  <2>4. QED
    BY <2>2, <2>3
<1>10. CASE ServeStore(op)
  <2>1. /\ index' = op.ids /\ pending' = Append(Tail(pending), List(op.mount))
        /\ UNCHANGED <<records, savedList>>
        /\ Open(op, op.id, active) \/ Open(op, 0, NoSource) \/ UNCHANGED <<current, active, editor>>
    BY <1>10 DEF ServeStore, Requeue
  <2>2. current' \in Nat /\ active' \in Pictures /\ editor' \in Pictures
    BY <1>1, <1>4, <1>6, <2>1, OpenTyped
  <2>3. QED
    BY <1>1, <1>4, <1>5, <2>1, <2>2
<1>11. CASE ServeList(op)
  <2> DEFINE ids == IF op.at = "index" THEN index ELSE Tail(op.ids)
             seen == IF op.at = "item" /\ Head(op.ids) \in DOMAIN records
                       THEN Append(op.seen, records[Head(op.ids)]) ELSE op.seen
             x == [op EXCEPT !.at = "item", !.ids = ids, !.seen = seen]
  <2>1. /\ UNCHANGED <<records, index, current, active, editor>> /\ op.op = "list"
        /\ \/ pending' = Tail(pending) /\ savedList' \in {seen, savedList}
           \/ pending' = Append(Tail(pending), x) /\ savedList' = savedList /\ ids # <<>>
    BY <1>11 DEF ServeList, Requeue
  <2>2. seen \in Seq(Rows)
    <3>1. CASE op.at = "item" /\ Head(op.ids) \in DOMAIN records
      BY <1>1, <1>4, <3>1, AppendProperties
    <3>2. CASE ~(op.at = "item" /\ Head(op.ids) \in DOMAIN records)
      BY <1>4, <3>2
    <3>3. QED
      BY <3>1, <3>2
  <2> HIDE DEF seen
  <2>3. CASE pending' = Tail(pending) /\ savedList' \in {seen, savedList}
    BY <1>1, <1>5, <2>1, <2>2, <2>3
  <2>4. CASE pending' = Append(Tail(pending), x) /\ savedList' = savedList /\ ids # <<>>
    <3>1. ids \in Seq(Nat)
      <4>1. CASE op.at = "index"
        BY <1>1, <4>1
      <4>2. CASE op.at # "index" /\ op.ids # <<>>
        BY <1>4, <4>2, HeadTailProperties
      <4>3. CASE op.at # "index" /\ op.ids = <<>>
        BY <4>3, EmptySeq
      <4>4. QED
        BY <4>1, <4>2, <4>3
    <3> HIDE DEF ids
    <3>2. x \in Ops /\ x.at = "item"
      <4>1. x \in Ops
        BY <1>3, <2>2, <3>1, ServedIsOp
      <4>2. x.at = "item"
        BY <1>3 DEF Ops
      <4>3. QED
        BY <4>1, <4>2
    <3> HIDE DEF x
    <3>3. QED
      BY <1>1, <2>1, <2>4, <3>2
  <2>5. QED
    BY <2>1, <2>3, <2>4
<1>12. QED
  BY <1>2, <1>8, <1>9, <1>10, <1>11

LEMMA DiagramTypesStep ==
  ASSUME DiagramTypes, [DiagramsNext]_diagrams
  PROVE  DiagramTypes'
<1>1. /\ StoreTypes /\ pending \in Seq(Ops) /\ index \in Seq(Nat) /\ savedList \in Seq(Rows)
      /\ current \in Nat /\ active \in Pictures /\ editor \in Pictures
      /\ activeTab \in Tabs /\ clicks \in Nat /\ mounts \in Nat /\ spoilt \in BOOLEAN
  BY DEF DiagramTypes, StoreTypes
<1>2. ASSUME UNCHANGED <<records, index, pending>>
      PROVE  StoreTypes'
  BY <1>1, <1>2 DEF StoreTypes
<1>3. CASE Draw
  <2>1. editor' \in Pictures
    BY <1>1, <1>3 DEF Draw, Source, Pictures
  <2>2. QED
    BY <1>1, <1>2, <1>3, <2>1 DEF Draw, DiagramTypes
<1>4. CASE \E kind \in Tabs : SelectTab(kind)
  <2>1. PICK kind \in Tabs : SelectTab(kind)
    BY <1>4
  <2>2. InitialSource(kind, active) \in Pictures
    BY <1>1, InitialSourceTyped
  <2>3. QED
    BY <1>1, <1>2, <2>1, <2>2 DEF SelectTab, DiagramTypes
<1>5. CASE HandleSaveDiagram
  <2> DEFINE id == IF current # 0 THEN current ELSE clicks + 1
             x == [List(mounts) EXCEPT !.op = "save", !.at = "record", !.kind = activeTab,
                                       !.id = id, !.source = editor]
  <2>1. id \in Nat
    BY <1>1
  <2>2. /\ pending' = Append(pending, x) /\ clicks' = clicks + 1
        /\ UNCHANGED <<records, index, activeTab, current, active, editor, savedList, mounts>>
    BY <1>5 DEF HandleSaveDiagram
  <2>3. spoilt' \in BOOLEAN
    BY <1>1, <1>5 DEF HandleSaveDiagram
  <2> HIDE DEF id
  <2>4. x \in Ops /\ x.kind = activeTab
    <3>1. x \in Ops
      BY <1>1, <2>1, ClickedIsOp
    <3>2. List(mounts) \in Ops
      BY <1>1, ListIsOp
    <3>3. x.kind = activeTab
      BY <3>2 DEF Ops
    <3>4. QED
      BY <3>1, <3>3
  <2> HIDE DEF x
  <2>5. StoreTypes'
    <3>1. pending' \in Seq(Ops) /\ \A i \in DOMAIN pending' :
            pending'[i].op = "save" /\ pending'[i].at = "record" => pending'[i].kind \in Tabs
      BY <1>1, <2>2, <2>4, JoinedTyped
    <3>2. QED
      BY <1>1, <2>2, <3>1 DEF StoreTypes
  <2>6. clicks' \in Nat
    BY <1>1, <2>2
  <2>7. QED
    BY <1>1, <2>2, <2>3, <2>5, <2>6 DEF DiagramTypes
<1>6. CASE \E i \in DOMAIN savedList : HandleLoadDiagram(i)
  <2>1. PICK i \in DOMAIN savedList : HandleLoadDiagram(i)
    BY <1>6
  <2>2. savedList[i] \in Rows
    BY <1>1, ElementOfSeq, LenProperties
  <2> DEFINE d == savedList[i]
  <2>3. d.id \in Nat /\ d.kind \in Tabs /\ d.source \in Pictures
    BY <2>2 DEF Rows
  <2>4. /\ current' = d.id /\ active' = d.source /\ activeTab' = d.kind
        /\ editor' \in {InitialSource(d.kind, d.source), d.source, editor}
        /\ UNCHANGED <<records, index, pending, savedList, clicks, mounts, spoilt>>
    BY <2>1 DEF HandleLoadDiagram
  <2> HIDE DEF d
  <2>5. editor' \in Pictures
    BY <1>1, <2>3, <2>4, InitialSourceTyped
  <2>6. QED
    BY <1>1, <1>2, <2>3, <2>4, <2>5 DEF DiagramTypes
<1>7. CASE \E i \in DOMAIN savedList : HandleDeleteDiagram(i)
  <2>1. PICK i \in DOMAIN savedList : HandleDeleteDiagram(i)
    BY <1>7
  <2>2. savedList[i] \in Rows
    BY <1>1, ElementOfSeq, LenProperties
  <2> DEFINE id == savedList[i].id
             open == (current = id)
             x == [List(mounts) EXCEPT !.op = "delete", !.at = "record", !.id = id, !.open = open]
  <2>3. id \in Nat /\ open \in BOOLEAN
    BY <2>2 DEF Rows
  <2>4. /\ pending' = Append(pending, x) /\ clicks' = clicks + 1
        /\ UNCHANGED <<records, index, activeTab, current, active, editor, savedList, mounts>>
    BY <2>1 DEF HandleDeleteDiagram
  <2>5. spoilt' \in BOOLEAN
    BY <1>1, <2>1 DEF HandleDeleteDiagram
  <2> HIDE DEF id, open
  <2>6. x \in Ops /\ x.op = "delete"
    <3>1. List(mounts) \in Ops
      BY <1>1, ListIsOp
    <3>2. x.op = "delete"
      BY <3>1 DEF Ops
    <3>3. \E k \in Tabs : TRUE
      BY DEF Tabs
    <3>4. x \in Ops
      BY <1>1, <2>3, <3>3, ClickedIsOp
    <3>5. QED
      BY <3>2, <3>4
  <2> HIDE DEF x
  <2>7. StoreTypes'
    <3>1. pending' \in Seq(Ops) /\ \A j \in DOMAIN pending' :
            pending'[j].op = "save" /\ pending'[j].at = "record" => pending'[j].kind \in Tabs
      BY <1>1, <2>4, <2>6, JoinedTyped
    <3>2. QED
      BY <1>1, <2>4, <3>1 DEF StoreTypes
  <2>8. clicks' \in Nat
    BY <1>1, <2>4
  <2>9. QED
    BY <1>1, <2>4, <2>5, <2>7, <2>8 DEF DiagramTypes
<1>8. CASE Serve
  BY <1>8, DiagramTypesServe
<1>9. CASE FailServe
  <2>1. /\ pending # <<>> /\ pending' = Tail(pending) /\ spoilt' = TRUE
        /\ UNCHANGED <<records, index, activeTab, current, active, editor, savedList, clicks, mounts>>
    BY <1>9 DEF FailServe, Page
  <2>2. List(0) \in Ops /\ List(0).op = "list"
    BY ListIsOp
  <2>3. pending' \in Seq(Ops) /\ \A i \in DOMAIN pending' :
          pending'[i].op = "save" /\ pending'[i].at = "record" => pending'[i].kind \in Tabs
    BY <1>1, <2>1, <2>2, PendingTyped
  <2>4. StoreTypes'
    BY <1>1, <2>1, <2>3 DEF StoreTypes
  <2>5. QED
    BY <1>1, <2>1, <2>4 DEF DiagramTypes
<1>10. CASE ReopenDiagrams
  <2>1. /\ pending' = Append(pending, List(mounts + 1)) /\ mounts' = mounts + 1
        /\ activeTab' = "mermaid" /\ current' = 0 /\ active' = NoSource /\ editor' = NoSource
        /\ savedList' = <<>>
        /\ UNCHANGED <<records, index, clicks>>
    BY <1>10 DEF ReopenDiagrams
  <2>2. spoilt' \in BOOLEAN
    BY <1>1, <1>10 DEF ReopenDiagrams
  <2>3. mounts' \in Nat /\ List(mounts + 1) \in Ops /\ List(mounts + 1).op = "list"
    BY <1>1, <2>1, ListIsOp
  <2>4. pending' \in Seq(Ops) /\ \A i \in DOMAIN pending' :
          pending'[i].op = "save" /\ pending'[i].at = "record" => pending'[i].kind \in Tabs
    BY <1>1, <2>1, <2>3, JoinedTyped
  <2>5. StoreTypes'
    BY <1>1, <2>1, <2>4 DEF StoreTypes
  <2>6. NoSource \in Pictures /\ "mermaid" \in Tabs /\ savedList' \in Seq(Rows)
    BY <2>1, EmptySeq DEF NoSource, Source, Pictures, Tabs
  <2>7. QED
    BY <1>1, <2>1, <2>2, <2>3, <2>5, <2>6 DEF DiagramTypes
<1>11. CASE UNCHANGED diagrams
  BY <1>1, <1>2, <1>11 DEF DiagramTypes, diagrams
<1>12. QED
  BY <1>3, <1>4, <1>5, <1>6, <1>7, <1>8, <1>9, <1>10, <1>11 DEF DiagramsNext

\* The argument is about the queue of operations: which of them ends last, and
\* what it has read by then. It is stated of any index, records and queue.

Distinct(ids) == \A i, j \in DOMAIN ids : ids[i] = ids[j] => i = j

\* Shows, of any index and records.
Lists(list, n, ids, recs) ==
  \E spot \in [DOMAIN list -> 1 .. n] :
    /\ \A i, j \in DOMAIN list : i < j => spot[i] < spot[j]
    /\ \A i \in DOMAIN list : /\ ids[spot[i]] \in DOMAIN recs
                              /\ list[i] = recs[ids[spot[i]]]
    /\ \A p \in 1 .. n : ids[p] \in DOMAIN recs => \E i \in DOMAIN list : spot[i] = p

\* How an operation looks; one that changes something belongs to the open page.
Sound(op, m) ==
  /\ op.mount <= m
  /\ op.op = "list" => /\ op.at \in {"index", "item"}
                       /\ op.at = "index" => op.seen = <<>>
                       /\ op.at = "item" => op.ids # <<>>
  /\ op.op # "list" => /\ op.at \in {"record", "index", "store"}
                       /\ op.mount = m
                       /\ op.at = "store" => Distinct(op.ids)

\* A listing that has read nothing that is not so any more.
Fresh(op, ids, recs) ==
  /\ op.op = "list"
  /\ op.at = "item" =>
       /\ Len(op.ids) <= Len(ids)
       /\ \A k \in 1 .. Len(op.ids) : op.ids[k] = ids[Len(ids) - Len(op.ids) + k]
       /\ Lists(op.seen, Len(ids) - Len(op.ids), ids, recs)

\* The requests an operation has still to make, at least, with n ids in the index.
Turns(op, n) ==
  CASE op.at = "item" -> Len(op.ids)
    [] op.at = "index" -> n + (IF op.op = "list" THEN 1 ELSE 2)
    [] op.at = "store" -> Len(op.ids) + 2
    [] OTHER -> n + 3

\* Of two operations of the open page the one that ends last will have read the
\* store last. a's next request is served first.
Ordered(a, b, ids, recs) ==
  /\ a.at = "item" /\ b.at = "item" =>
       /\ Len(a.ids) <= Len(b.ids) => Fresh(b, ids, recs)
       /\ Len(b.ids) < Len(a.ids) => Fresh(a, ids, recs)
  /\ a.at = "item" /\ b.at # "item" => Len(a.ids) <= Turns(b, Len(ids))
  /\ a.at # "item" /\ b.at = "item" => Len(b.ids) < Turns(a, Len(ids))
  /\ a.op = "list" /\ a.at = "index" /\ b.at = "store" => Len(ids) <= Len(b.ids) + 1

Crowded(q, m) == Len(q) = 2 /\ q[1].mount = m /\ q[2].mount = m

QueueInOrder(q, ids, recs, list, m) ==
  /\ Distinct(ids)
  /\ \A i \in DOMAIN q : Sound(q[i], m)
  /\ \A i \in DOMAIN q : q[i].op # "list" => Len(q) <= 2
  /\ \A i, j \in DOMAIN q : q[i].mount = m /\ q[j].mount = m /\ i # j => Len(q) = 2
  /\ (\A i \in DOMAIN q : q[i].mount # m) => Lists(list, Len(ids), ids, recs)
  /\ \A i \in DOMAIN q :
       q[i].mount = m /\ q[i].op = "list" /\ ~Crowded(q, m) => Fresh(q[i], ids, recs)
  /\ Crowded(q, m) => Ordered(q[1], q[2], ids, recs)

DiagramsInv ==
  /\ DiagramTypes
  /\ ~spoilt => QueueInOrder(pending, index, records, savedList, mounts)

LEMMA ShowsLists ==
  ASSUME NEW list, NEW n
  PROVE  Shows(list, n) <=> Lists(list, n, index, records)
BY DEF Shows, Lists

LEMMA NothingListed ==
  ASSUME NEW ids, NEW recs
  PROVE  Lists(<<>>, 0, ids, recs)
<1>1. DOMAIN <<>> = {} /\ 1 .. 0 = {}
  OBVIOUS
<1>2. \E spot \in [{} -> {}] : TRUE
  <2>1. [i \in {} |-> i] \in [{} -> {}]
    OBVIOUS
  <2>2. QED
    BY <2>1
<1>3. QED
  BY <1>1, <1>2 DEF Lists

LEMMA ListsBy ==
  ASSUME NEW list, NEW n, NEW ids, NEW recs, NEW spot \in [DOMAIN list -> 1 .. n],
         \A i, j \in DOMAIN list : i < j => spot[i] < spot[j],
         \A i \in DOMAIN list : ids[spot[i]] \in DOMAIN recs /\ list[i] = recs[ids[spot[i]]],
         \A p \in 1 .. n : ids[p] \in DOMAIN recs => \E i \in DOMAIN list : spot[i] = p
  PROVE  Lists(list, n, ids, recs)
BY Zenon DEF Lists

\* Reading one record more: it is appended, or there is none.
LEMMA OneMoreListed ==
  ASSUME NEW list \in Seq(Rows), NEW n \in Nat, NEW ids, NEW recs, NEW out \in Seq(Rows),
         Lists(list, n, ids, recs),
         IF ids[n + 1] \in DOMAIN recs THEN out = Append(list, recs[ids[n + 1]])
                                       ELSE out = list,
         ids[n + 1] \in DOMAIN recs => recs[ids[n + 1]] \in Rows
  PROVE  Lists(out, n + 1, ids, recs)
<1>1. PICK spot \in [DOMAIN list -> 1 .. n] :
        /\ \A i, j \in DOMAIN list : i < j => spot[i] < spot[j]
        /\ \A i \in DOMAIN list : /\ ids[spot[i]] \in DOMAIN recs
                                  /\ list[i] = recs[ids[spot[i]]]
        /\ \A p \in 1 .. n : ids[p] \in DOMAIN recs => \E i \in DOMAIN list : spot[i] = p
  BY DEF Lists
<1>2. \A i \in DOMAIN list : spot[i] \in 1 .. n
  BY <1>1
<1>3. CASE ids[n + 1] \notin DOMAIN recs
  <2>1. out = list
    BY <1>3
  <2>2. spot \in [DOMAIN list -> 1 .. n + 1]
    <3>1. 1 .. n \subseteq 1 .. n + 1
      OBVIOUS
    <3>2. QED
      BY <1>1, <3>1
  <2>3. \A p \in 1 .. n + 1 : ids[p] \in DOMAIN recs => p \in 1 .. n
    BY <1>3
  <2>4. \A p \in 1 .. n + 1 : ids[p] \in DOMAIN recs => \E i \in DOMAIN list : spot[i] = p
    BY <1>1, <2>3
  <2>5. QED
    BY <1>1, <2>1, <2>2, <2>4, ListsBy
<1>4. CASE ids[n + 1] \in DOMAIN recs
  <2> DEFINE len == Len(list)
             row == recs[ids[n + 1]]
             q == [i \in 1 .. len + 1 |-> IF i = len + 1 THEN n + 1 ELSE spot[i]]
  <2>1. /\ out = Append(list, row) /\ row \in Rows /\ len \in Nat /\ DOMAIN list = 1 .. len
        /\ DOMAIN out = 1 .. len + 1 /\ out[len + 1] = row
        /\ \A i \in 1 .. len : out[i] = list[i]
    BY <1>4, QueueJoined
  <2> HIDE DEF len, row
  <2>2. \A i \in 1 .. len : q[i] = spot[i] /\ q[i] \in 1 .. n
    BY <1>2, <2>1
  <2>3. q[len + 1] = n + 1
    BY <2>1
  <2>4. q \in [1 .. len + 1 -> 1 .. n + 1]
    <3>1. \A i \in 1 .. len + 1 : i \in 1 .. len \/ i = len + 1
      BY <2>1
    <3>2. q = [i \in 1 .. len + 1 |-> q[i]]
      OBVIOUS
    <3> HIDE DEF q
    <3>3. \A i \in 1 .. len + 1 : q[i] \in 1 .. n + 1
      BY <2>2, <2>3, <3>1
    <3>4. QED
      BY <3>2, <3>3
  <2> HIDE DEF q
  <2>5. \A i \in 1 .. len + 1 : i \in 1 .. len \/ i = len + 1
    BY <2>1
  <2>6. \A i, j \in 1 .. len + 1 : i < j => q[i] < q[j]
    <3> SUFFICES ASSUME NEW i \in 1 .. len + 1, NEW j \in 1 .. len + 1, i < j
                 PROVE  q[i] < q[j]
      OBVIOUS
    <3>1. i \in 1 .. len
      BY <2>1
    <3>2. CASE j = len + 1
      BY <2>2, <2>3, <3>1, <3>2
    <3>3. CASE j \in 1 .. len
      BY <1>1, <2>1, <2>2, <3>1, <3>3
    <3>4. QED
      BY <2>5, <3>2, <3>3
  <2>7. \A i \in 1 .. len + 1 : ids[q[i]] \in DOMAIN recs /\ out[i] = recs[ids[q[i]]]
    <3>1. \A i \in 1 .. len : ids[q[i]] \in DOMAIN recs /\ out[i] = recs[ids[q[i]]]
      BY <1>1, <2>1, <2>2
    <3>2. ids[q[len + 1]] \in DOMAIN recs /\ out[len + 1] = recs[ids[q[len + 1]]]
      BY <1>4, <2>1, <2>3 DEF row
    <3>3. QED
      BY <2>5, <3>1, <3>2
  <2>8. \A p \in 1 .. n + 1 : ids[p] \in DOMAIN recs => \E i \in 1 .. len + 1 : q[i] = p
    <3> SUFFICES ASSUME NEW p \in 1 .. n + 1, ids[p] \in DOMAIN recs
                 PROVE  \E i \in 1 .. len + 1 : q[i] = p
      OBVIOUS
    <3>1. CASE p = n + 1
      <4>1. len + 1 \in 1 .. len + 1
        BY <2>1
      <4>2. QED
        BY <2>3, <3>1, <4>1
    <3>2. CASE p # n + 1
      <4>1. PICK i \in 1 .. len : spot[i] = p
        BY <1>1, <2>1, <3>2
      <4>2. i \in 1 .. len + 1 /\ q[i] = p
        BY <2>1, <2>2, <4>1
      <4>3. QED
        BY <4>2
    <3>3. QED
      BY <3>1, <3>2
  <2>9. DOMAIN out = 1 .. len + 1
    BY <2>1
  <2>10. q \in [DOMAIN out -> 1 .. n + 1] /\ \A i, j \in DOMAIN out : i < j => q[i] < q[j]
    BY <2>4, <2>6, <2>9
  <2>11. /\ \A i \in DOMAIN out : ids[q[i]] \in DOMAIN recs /\ out[i] = recs[ids[q[i]]]
         /\ \A p \in 1 .. n + 1 : ids[p] \in DOMAIN recs => \E i \in DOMAIN out : q[i] = p
    BY <2>7, <2>8, <2>9
  <2>12. QED
    BY Zenon, <2>10, <2>11, ListsBy
<1>5. QED
  BY <1>3, <1>4

\* The head of the queue makes a request and waits for its answer at the end.
LEMMA QueueRequeued ==
  ASSUME NEW q \in Seq(Ops), q # <<>>, NEW x \in Ops, NEW m \in Nat, NEW list,
         NEW ids, NEW recs, NEW ids2, NEW recs2,
         QueueInOrder(q, ids, recs, list, m),
         (ids2 = ids /\ recs2 = recs) \/ q[1].op # "list",
         Distinct(ids2), Sound(x, m), x.mount = q[1].mount,
         x.op # "list" => q[1].op # "list",
         x.mount = m /\ x.op = "list" /\ ~Crowded(q, m) => Fresh(x, ids2, recs2),
         Crowded(q, m) => Ordered(q[2], x, ids2, recs2)
  PROVE  QueueInOrder(Append(Tail(q), x), ids2, recs2, list, m)
<1> DEFINE r == Append(Tail(q), x)
           n == Len(q)
<1>1. /\ n \in Nat \ {0} /\ DOMAIN q = 1 .. n /\ DOMAIN r = 1 .. n /\ Len(r) = n
      /\ \A i \in 1 .. n - 1 : r[i] = q[i + 1]
      /\ r[n] = x
  BY QueueServed
<1>2. /\ \A i \in DOMAIN q : Sound(q[i], m)
      /\ \A i \in DOMAIN q : q[i].op # "list" => n <= 2
      /\ \A i, j \in DOMAIN q : q[i].mount = m /\ q[j].mount = m /\ i # j => n = 2
      /\ (\A i \in DOMAIN q : q[i].mount # m) => Lists(list, Len(ids), ids, recs)
      /\ \A i \in DOMAIN q :
           q[i].mount = m /\ q[i].op = "list" /\ ~Crowded(q, m) => Fresh(q[i], ids, recs)
  BY DEF QueueInOrder
<1> HIDE DEF r, n
\* Where each stands after the step.
<1> DEFINE was(i) == IF i = n THEN 1 ELSE i + 1
<1>3. \A i \in 1 .. n : /\ was(i) \in 1 .. n
                        /\ i # n => r[i] = q[was(i)]
                        /\ r[i].mount = q[was(i)].mount
                        /\ r[i].op # "list" => q[was(i)].op # "list"
  <2> SUFFICES ASSUME NEW i \in 1 .. n
               PROVE  /\ was(i) \in 1 .. n
                      /\ i # n => r[i] = q[was(i)]
                      /\ r[i].mount = q[was(i)].mount
                      /\ r[i].op # "list" => q[was(i)].op # "list"
    OBVIOUS
  <2>1. CASE i = n
    BY <1>1, <2>1
  <2>2. CASE i # n
    BY <1>1, <2>2
  <2>3. QED
    BY <2>1, <2>2
<1>4. \A i, j \in 1 .. n : i # j => was(i) # was(j)
  BY <1>1
<1>5. \A i \in 1 .. n : \E j \in 1 .. n : was(j) = i
  <2> SUFFICES ASSUME NEW i \in 1 .. n PROVE \E j \in 1 .. n : was(j) = i
    OBVIOUS
  <2>1. CASE i = 1
    <3>1. n \in 1 .. n /\ was(n) = i
      BY <1>1, <2>1
    <3>2. QED
      BY <3>1
  <2>2. CASE i # 1
    <3>1. i - 1 \in 1 .. n /\ was(i - 1) = i
      BY <1>1, <2>2
    <3>2. QED
      BY <3>1
  <2>3. QED
    BY <2>1, <2>2
<1> HIDE DEF was
<1>6. \A i \in DOMAIN r : Sound(r[i], m)
  BY <1>1, <1>2, <1>3
<1>7. \A i \in DOMAIN r : r[i].op # "list" => Len(r) <= 2
  BY <1>1, <1>2, <1>3
<1>8. \A i, j \in DOMAIN r : r[i].mount = m /\ r[j].mount = m /\ i # j => Len(r) = 2
  <2> SUFFICES ASSUME NEW i \in 1 .. n, NEW j \in 1 .. n, i # j, r[i].mount = m, r[j].mount = m
               PROVE  n = 2
    BY <1>1
  <2>1. /\ was(i) \in DOMAIN q /\ was(j) \in DOMAIN q /\ was(i) # was(j)
        /\ q[was(i)].mount = m /\ q[was(j)].mount = m
    BY <1>1, <1>3, <1>4
  <2>2. QED
    BY <1>2, <2>1
<1>9. q[1].op # "list" => q[1].mount = m /\ n <= 2
  BY <1>1, <1>2 DEF Sound
<1>10. (\A i \in DOMAIN r : r[i].mount # m) => Lists(list, Len(ids2), ids2, recs2)
  <2> SUFFICES ASSUME \A i \in DOMAIN r : r[i].mount # m
               PROVE  Lists(list, Len(ids2), ids2, recs2)
    OBVIOUS
  <2>1. \A i \in 1 .. n : q[i].mount # m
    <3> SUFFICES ASSUME NEW i \in 1 .. n PROVE q[i].mount # m
      OBVIOUS
    <3>1. PICK j \in 1 .. n : was(j) = i
      BY <1>5
    <3>2. r[j].mount = q[i].mount
      BY <1>3, <3>1
    <3>3. QED
      BY <1>1, <3>2
  <2>2. q[1].op = "list"
    BY <1>1, <1>9, <2>1
  <2>3. QED
    BY <1>1, <1>2, <2>1, <2>2
<1>11. Crowded(r, m) <=> Crowded(q, m)
  <2>1. CASE n = 2
    <3>1. r[1] = q[2] /\ r[2] = x
      BY <1>1, <2>1
    <3>2. QED
      BY <1>1, <2>1, <3>1 DEF Crowded, n
  <2>2. CASE n # 2
    BY <1>1, <2>2 DEF Crowded, n
  <2>3. QED
    BY <2>1, <2>2
<1>12. \A i \in DOMAIN r :
         r[i].mount = m /\ r[i].op = "list" /\ ~Crowded(r, m) => Fresh(r[i], ids2, recs2)
  <2> SUFFICES ASSUME NEW i \in 1 .. n, r[i].mount = m, r[i].op = "list", ~Crowded(q, m)
               PROVE  Fresh(r[i], ids2, recs2)
    BY <1>1, <1>11
  <2>1. CASE i = n
    BY <1>1, <2>1
  <2>2. CASE i # n
    <3>1. r[i] = q[i + 1] /\ i + 1 \in DOMAIN q
      BY <1>1, <2>2
    <3>2. q[1].op = "list"
      <4> SUFFICES ASSUME q[1].op # "list" PROVE FALSE
        OBVIOUS
      <4>1. q[1].mount = m /\ n = 2 /\ i = 1
        BY <1>1, <1>9, <2>2
      <4>2. QED
        BY <3>1, <4>1 DEF Crowded, n
    <3>3. QED
      BY <1>2, <3>1, <3>2
  <2>3. QED
    BY <2>1, <2>2
<1>13. Crowded(r, m) => Ordered(r[1], r[2], ids2, recs2)
  <2> SUFFICES ASSUME Crowded(q, m) PROVE Ordered(r[1], r[2], ids2, recs2)
    BY <1>11
  <2>1. n = 2
    BY DEF Crowded, n
  <2>2. r[1] = q[2] /\ r[2] = x
    BY <1>1, <2>1
  <2>3. QED
    BY <2>2
<1>14. QED
  BY <1>6, <1>7, <1>8, <1>10, <1>12, <1>13 DEF QueueInOrder, r

\* A listing ends, and shows what it has read if its page is there.
LEMMA QueueListed ==
  ASSUME NEW q \in Seq(Ops), q # <<>>, NEW m \in Nat, NEW list, NEW seen, NEW list2,
         NEW ids, NEW recs, QueueInOrder(q, ids, recs, list, m), q[1].op = "list",
         list2 = IF q[1].mount = m THEN seen ELSE list,
         q[1].mount = m /\ ~Crowded(q, m) => Lists(seen, Len(ids), ids, recs),
         Crowded(q, m) /\ q[2].op = "list" => Fresh(q[2], ids, recs)
  PROVE  QueueInOrder(Tail(q), ids, recs, list2, m)
<1> DEFINE r == Tail(q)
           n == Len(q)
<1>1. /\ n \in Nat \ {0} /\ DOMAIN q = 1 .. n /\ DOMAIN r = 1 .. n - 1 /\ Len(r) = n - 1
      /\ \A i \in 1 .. n - 1 : r[i] = q[i + 1] /\ i + 1 \in DOMAIN q /\ i + 1 # 1
      /\ 1 \in DOMAIN q
  <2>1. Head(q) \in Ops
    BY HeadTailProperties
  <2>2. /\ n \in Nat \ {0} /\ DOMAIN q = 1 .. n /\ DOMAIN r = 1 .. n - 1 /\ Len(r) = n - 1
        /\ \A i \in 1 .. n - 1 : r[i] = q[i + 1]
    BY <2>1, QueueServed
  <2>3. QED
    BY <2>2
<1>2. /\ Distinct(ids)
      /\ \A i \in DOMAIN q : Sound(q[i], m)
      /\ \A i \in DOMAIN q : q[i].op # "list" => n <= 2
      /\ \A i, j \in DOMAIN q : q[i].mount = m /\ q[j].mount = m /\ i # j => n = 2
      /\ (\A i \in DOMAIN q : q[i].mount # m) => Lists(list, Len(ids), ids, recs)
      /\ \A i \in DOMAIN q :
           q[i].mount = m /\ q[i].op = "list" /\ ~Crowded(q, m) => Fresh(q[i], ids, recs)
  BY DEF QueueInOrder
<1> HIDE DEF r, n
\* At most one of the operations that are left is the open page's.
<1>3. \A i, j \in DOMAIN r : r[i].mount = m /\ r[j].mount = m => i = j
  <2> SUFFICES ASSUME NEW i \in 1 .. n - 1, NEW j \in 1 .. n - 1,
                      r[i].mount = m, r[j].mount = m, i # j
               PROVE  FALSE
    BY <1>1
  <2>1. /\ i + 1 \in DOMAIN q /\ j + 1 \in DOMAIN q /\ i + 1 # j + 1 /\ i + 1 # 1 /\ j + 1 # 1
        /\ q[i + 1].mount = m /\ q[j + 1].mount = m
    BY <1>1
  <2>2. n = 2
    BY <1>2, <2>1
  <2>3. QED
    BY <2>1, <2>2
<1>4. ~Crowded(r, m)
  <2> SUFFICES ASSUME Crowded(r, m) PROVE FALSE
    OBVIOUS
  <2>1. n - 1 = 2 /\ r[1].mount = m /\ r[2].mount = m
    BY <1>1 DEF Crowded
  <2>2. 1 \in DOMAIN r /\ 2 \in DOMAIN r
    BY <1>1, <2>1
  <2>3. QED
    BY <1>3, <2>1, <2>2
<1>5. \A i \in DOMAIN r : Sound(r[i], m)
  BY <1>1, <1>2
<1>6. \A i \in DOMAIN r : r[i].op # "list" => Len(r) <= 2
  <2> SUFFICES ASSUME NEW i \in 1 .. n - 1, r[i].op # "list" PROVE n - 1 <= 2
    BY <1>1
  <2>1. n <= 2
    BY <1>1, <1>2
  <2>2. QED
    BY <1>1, <2>1
<1>7. (\A i \in DOMAIN r : r[i].mount # m) => Lists(list2, Len(ids), ids, recs)
  <2> SUFFICES ASSUME \A i \in DOMAIN r : r[i].mount # m
               PROVE  Lists(list2, Len(ids), ids, recs)
    OBVIOUS
  <2>1. CASE q[1].mount = m
    <3>1. ~Crowded(q, m)
      <4> SUFFICES ASSUME n = 2, q[2].mount = m PROVE FALSE
        BY DEF Crowded, n
      <4>1. 1 \in DOMAIN r /\ r[1] = q[2]
        BY <1>1
      <4>2. QED
        BY <4>1
    <3>2. QED
      BY <2>1, <3>1
  <2>2. CASE q[1].mount # m
    <3>1. \A i \in DOMAIN q : q[i].mount # m
      <4> SUFFICES ASSUME NEW i \in 1 .. n, i # 1 PROVE q[i].mount # m
        BY <1>1, <2>2
      <4>1. i - 1 \in 1 .. n - 1 /\ r[i - 1] = q[i]
        BY <1>1
      <4>2. QED
        BY <1>1, <4>1
    <3>2. QED
      BY <1>2, <2>2, <3>1
  <2>3. QED
    BY <2>1, <2>2
<1>8. \A i \in DOMAIN r : r[i].mount = m /\ r[i].op = "list" => Fresh(r[i], ids, recs)
  <2> SUFFICES ASSUME NEW i \in 1 .. n - 1, r[i].mount = m, r[i].op = "list"
               PROVE  Fresh(r[i], ids, recs)
    BY <1>1
  <2>1. r[i] = q[i + 1] /\ i + 1 \in DOMAIN q /\ i + 1 # 1
    BY <1>1
  <2>2. CASE Crowded(q, m)
    <3>1. i = 1 /\ r[i] = q[2]
      BY <1>1, <2>1, <2>2 DEF Crowded, n
    <3>2. QED
      BY <2>2, <3>1
  <2>3. CASE ~Crowded(q, m)
    BY <1>2, <2>1, <2>3
  <2>4. QED
    BY <2>2, <2>3
<1>9. \A i, j \in DOMAIN r : r[i].mount = m /\ r[j].mount = m /\ i # j => Len(r) = 2
  BY <1>3
<1>10. QED
  BY <1>2, <1>4, <1>5, <1>6, <1>7, <1>8, <1>9 DEF QueueInOrder, r

\* The page saves or deletes, with at most one operation in progress.
LEMMA QueueClicked ==
  ASSUME NEW q \in Seq(Ops), Len(q) <= 1, NEW x \in Ops, NEW m \in Nat, NEW list,
         NEW ids \in Seq(Nat), NEW recs, QueueInOrder(q, ids, recs, list, m),
         x.op # "list", x.at = "record", x.mount = m
  PROVE  QueueInOrder(Append(q, x), ids, recs, list, m)
<1> DEFINE r == Append(q, x)
           n == Len(q)
<1>1. /\ n \in Nat /\ DOMAIN q = 1 .. n /\ DOMAIN r = 1 .. n + 1 /\ Len(r) = n + 1
      /\ \A i \in 1 .. n : r[i] = q[i]
      /\ r[n + 1] = x
      /\ \A i \in DOMAIN q : q[i] \in Ops
  BY QueueJoined, ElementOfSeq
<1>2. /\ Distinct(ids)
      /\ \A i \in DOMAIN q : Sound(q[i], m)
      /\ \A i \in DOMAIN q :
           q[i].mount = m /\ q[i].op = "list" /\ ~Crowded(q, m) => Fresh(q[i], ids, recs)
  BY DEF QueueInOrder
<1> HIDE DEF r, n
<1>3. n = 0 \/ n = 1
  BY <1>1 DEF n
<1>4. Sound(x, m)
  BY <1>1 DEF Sound
<1>5. \A i \in DOMAIN r : Sound(r[i], m)
  BY <1>1, <1>2, <1>3, <1>4
<1>6. Len(r) <= 2 /\ n + 1 \in DOMAIN r /\ r[n + 1].mount = m
  BY <1>1, <1>3
<1>7. \A i, j \in DOMAIN r : r[i].mount = m /\ r[j].mount = m /\ i # j => Len(r) = 2
  BY <1>1, <1>3
<1>8. ASSUME NEW i \in DOMAIN r, r[i].mount = m, r[i].op = "list"
      PROVE  Crowded(r, m)
  <2>1. n = 1 /\ i = 1
    BY <1>1, <1>3, <1>8
  <2>2. QED
    BY <1>1, <1>8, <2>1 DEF Crowded
<1>9. Crowded(r, m) => Ordered(r[1], r[2], ids, recs)
  <2> SUFFICES ASSUME Crowded(r, m) PROVE Ordered(r[1], r[2], ids, recs)
    OBVIOUS
  <2>1. n = 1 /\ r[1] = q[1] /\ r[2] = x /\ q[1].mount = m /\ 1 \in DOMAIN q
    BY <1>1, <1>3 DEF Crowded
  <2>2. ~Crowded(q, m)
    BY <2>1 DEF Crowded, n
  <2>3. q[1].at = "item" => q[1].op = "list"
    BY <1>2, <2>1 DEF Sound
  <2>4. Turns(x, Len(ids)) = Len(ids) + 3
    BY DEF Turns
  <2>5. q[1].at = "item" => Len(q[1].ids) <= Len(ids) + 3
    <3>1. q[1].at = "item" => Len(q[1].ids) <= Len(ids)
      BY <1>2, <2>1, <2>2, <2>3 DEF Fresh
    <3>2. Len(ids) \in Nat /\ q[1].ids \in Seq(Nat) /\ Len(q[1].ids) \in Nat
      <4>1. q[1] \in Ops
        BY <1>1, <2>1
      <4>2. QED
        BY <4>1, LenProperties DEF Ops
    <3>3. QED
      BY <3>1, <3>2
  <2>6. QED
    BY <2>1, <2>4, <2>5 DEF Ordered
<1>10. QED
  BY <1>2, <1>5, <1>6, <1>7, <1>8, <1>9 DEF QueueInOrder, r

\* The page is opened again, with nothing but listings in progress.
LEMMA QueueReopened ==
  ASSUME NEW q \in Seq(Ops), NEW m \in Nat, NEW list, NEW ids, NEW recs,
         QueueInOrder(q, ids, recs, list, m), \A i \in DOMAIN q : q[i].op = "list"
  PROVE  QueueInOrder(Append(q, List(m + 1)), ids, recs, <<>>, m + 1)
<1> DEFINE x == List(m + 1)
           r == Append(q, x)
           n == Len(q)
<1>1. x \in Ops /\ x.op = "list" /\ x.at = "index" /\ x.mount = m + 1 /\ x.seen = <<>>
  <2>1. m + 1 \in Nat /\ List(m + 1).seen = <<>>
    BY DEF List
  <2>2. QED
    BY <2>1, ListIsOp
<1> HIDE DEF x
<1>2. /\ n \in Nat /\ DOMAIN q = 1 .. n /\ DOMAIN r = 1 .. n + 1 /\ Len(r) = n + 1
      /\ \A i \in 1 .. n : r[i] = q[i]
      /\ r[n + 1] = x
  BY <1>1, QueueJoined
<1>3. Distinct(ids) /\ \A i \in DOMAIN q : Sound(q[i], m) /\ q[i] \in Ops
  BY ElementOfSeq, LenProperties DEF QueueInOrder
<1> HIDE DEF r, n
<1>4. \A i \in 1 .. n : r[i] = q[i] /\ r[i].op = "list" /\ r[i].mount <= m /\ r[i].mount \in Nat
  <2>1. \A i \in 1 .. n : q[i].mount <= m /\ q[i].mount \in Nat
    BY <1>2, <1>3 DEF Sound, Ops
  <2>2. QED
    BY <1>2, <2>1
<1>5. \A i \in DOMAIN r : i \in 1 .. n \/ i = n + 1
  BY <1>2
<1>6. \A i \in DOMAIN r : r[i].op = "list" /\ (r[i].mount = m + 1 => i = n + 1)
  <2> SUFFICES ASSUME NEW i \in DOMAIN r
               PROVE  r[i].op = "list" /\ (r[i].mount = m + 1 => i = n + 1)
    OBVIOUS
  <2>1. CASE i \in 1 .. n
    BY <1>4, <2>1
  <2>2. CASE i = n + 1
    BY <1>1, <1>2, <2>2
  <2>3. QED
    BY <1>5, <2>1, <2>2
<1>7. \A i \in DOMAIN r : Sound(r[i], m + 1)
  <2> SUFFICES ASSUME NEW i \in DOMAIN r
               PROVE  Sound(r[i], m + 1)
    OBVIOUS
  <2>1. CASE i \in 1 .. n
    <3>1. Sound(r[i], m) /\ r[i].mount <= m + 1 /\ r[i].op = "list"
      BY <1>2, <1>3, <1>4, <2>1
    <3>2. QED
      BY <3>1 DEF Sound
  <2>2. CASE i = n + 1
    BY <1>1, <1>2, <2>2 DEF Sound
  <2>3. QED
    BY <1>5, <2>1, <2>2
<1>8. Fresh(x, ids, recs)
  BY <1>1 DEF Fresh
<1>9. n + 1 \in DOMAIN r /\ r[n + 1].mount = m + 1
  BY <1>1, <1>2
<1>10. ~Crowded(r, m + 1)
  <2> SUFFICES ASSUME Crowded(r, m + 1) PROVE FALSE
    OBVIOUS
  <2>1. Len(r) = 2 /\ r[1].mount = m + 1
    BY DEF Crowded
  <2>2. n = 1 /\ 1 \in DOMAIN r
    <3>1. n \in Nat /\ n + 1 = 2 /\ DOMAIN r = 1 .. n + 1
      BY <1>2, <2>1
    <3>2. 1 \in 1 .. n + 1
      BY <3>1
    <3>3. QED
      BY <3>1, <3>2
  <2>3. QED
    BY <1>6, <2>1, <2>2
<1>11. \A i, j \in DOMAIN r : r[i].mount = m + 1 /\ r[j].mount = m + 1 /\ i # j => Len(r) = 2
  BY <1>6
<1>12. \A i \in DOMAIN r : r[i].mount = m + 1 => Fresh(r[i], ids, recs)
  BY <1>2, <1>6, <1>8
<1>13. QED
  BY <1>3, <1>6, <1>7, <1>9, <1>10, <1>11, <1>12 DEF QueueInOrder, r, x

LEMMA TurnsOf ==
  ASSUME NEW op \in Ops, NEW n \in Nat
  PROVE  /\ op.at = "item" => Turns(op, n) = Len(op.ids)
         /\ op.at = "index" /\ op.op = "list" => Turns(op, n) = n + 1
         /\ op.at = "index" /\ op.op # "list" => Turns(op, n) = n + 2
         /\ op.at = "store" => Turns(op, n) = Len(op.ids) + 2
         /\ op.at = "record" => Turns(op, n) = n + 3
         /\ op.at \in {"index", "item", "record", "store"}
         /\ Len(op.ids) \in Nat /\ Turns(op, n) \in Nat
<1>1. op.at \in {"index", "item", "record", "store"} /\ op.ids \in Seq(Nat) /\ Len(op.ids) \in Nat
  BY LenProperties DEF Ops
<1>2. Turns(op, n) \in {Len(op.ids), n + 1, n + 2, Len(op.ids) + 2, n + 3}
  BY <1>1 DEF Turns
<1>3. Turns(op, n) \in Nat
  BY <1>1, <1>2
<1>4. QED
  BY <1>1, <1>3 DEF Turns

\* a changes the store or reads the index, and x is what a then waits for.
LEMMA OrderedAfterChange ==
  ASSUME NEW a \in Ops, NEW b \in Ops, NEW x \in Ops, NEW ids \in Seq(Nat), NEW ids2 \in Seq(Nat),
         NEW recs, NEW recs2, Ordered(a, b, ids, recs),
         \/ /\ a.at = "record" /\ x.at = "index" /\ x.op # "list" /\ ids2 = ids
         \/ /\ a.at = "index" /\ a.op # "list" /\ ids2 = ids
            /\ \/ x.at = "index" /\ x.op = "list"
               \/ x.at = "store" /\ Len(ids) <= Len(x.ids) + 1
         \/ /\ a.at = "store" /\ x.at = "index" /\ x.op = "list" /\ ids2 = a.ids
  PROVE  Ordered(b, x, ids2, recs2)
<1>1. Len(ids) \in Nat /\ Len(ids2) \in Nat /\ Len(x.ids) \in Nat /\ Len(a.ids) \in Nat
      /\ Len(b.ids) \in Nat
  BY TurnsOf, LenProperties
<1>2. a.at # "item" /\ x.at # "item"
  OBVIOUS
<1>3. x.at = "store" => Len(ids2) <= Len(x.ids) + 1
  OBVIOUS
<1>4. b.at = "item" => Len(b.ids) <= Turns(x, Len(ids2))
  <2> SUFFICES ASSUME b.at = "item" PROVE Len(b.ids) <= Turns(x, Len(ids2))
    OBVIOUS
  <2>1. Len(b.ids) < Turns(a, Len(ids))
    BY <1>2 DEF Ordered
  <2>2. CASE a.at = "record" /\ x.at = "index" /\ x.op # "list" /\ ids2 = ids
    <3>1. Turns(a, Len(ids)) = Len(ids) + 3 /\ Turns(x, Len(ids2)) = Len(ids) + 2
      BY <1>1, <2>2, TurnsOf
    <3>2. QED
      BY <1>1, <2>1, <3>1
  <2>3. CASE a.at = "index" /\ a.op # "list" /\ ids2 = ids /\ x.at = "index" /\ x.op = "list"
    <3>1. Turns(a, Len(ids)) = Len(ids) + 2 /\ Turns(x, Len(ids2)) = Len(ids) + 1
      BY <1>1, <2>3, TurnsOf
    <3>2. QED
      BY <1>1, <2>1, <3>1
  <2>4. CASE /\ a.at = "index" /\ a.op # "list" /\ ids2 = ids
             /\ x.at = "store" /\ Len(ids) <= Len(x.ids) + 1
    <3>1. Turns(a, Len(ids)) = Len(ids) + 2 /\ Turns(x, Len(ids2)) = Len(x.ids) + 2
      BY <1>1, <2>4, TurnsOf
    <3>2. QED
      BY <1>1, <2>1, <2>4, <3>1
  <2>5. CASE a.at = "store" /\ x.at = "index" /\ x.op = "list" /\ ids2 = a.ids
    <3>1. Turns(a, Len(ids)) = Len(a.ids) + 2 /\ Turns(x, Len(ids2)) = Len(a.ids) + 1
      BY <1>1, <2>5, TurnsOf
    <3>2. QED
      BY <1>1, <2>1, <3>1
  <2>6. QED
    BY <2>2, <2>3, <2>4, <2>5
<1>5. QED
  BY <1>2, <1>3, <1>4 DEF Ordered

\* a is a listing: it starts, from the whole index, or goes on to the next id.
LEMMA OrderedAfterRead ==
  ASSUME NEW a \in Ops, NEW b \in Ops, NEW x \in Ops, NEW ids \in Seq(Nat), NEW recs,
         Ordered(a, b, ids, recs), a.op = "list", x.op = "list", x.at = "item",
         Fresh(a, ids, recs) => Fresh(x, ids, recs),
         \/ a.at = "index" /\ Len(x.ids) = Len(ids)
         \/ a.at = "item" /\ Len(x.ids) = Len(a.ids) - 1
  PROVE  Ordered(b, x, ids, recs)
<1>1. Len(ids) \in Nat /\ Len(x.ids) \in Nat /\ Len(a.ids) \in Nat /\ Len(b.ids) \in Nat
  BY TurnsOf, LenProperties
<1>2. a.at = "index" => Fresh(x, ids, recs) /\ Turns(a, Len(ids)) = Len(ids) + 1
  BY <1>1, TurnsOf DEF Fresh
<1>3. b.at = "item" => /\ Len(b.ids) <= Len(x.ids) => Fresh(x, ids, recs)
                       /\ Len(x.ids) < Len(b.ids) => Fresh(b, ids, recs)
  <2> SUFFICES ASSUME b.at = "item"
               PROVE  /\ Len(b.ids) <= Len(x.ids) => Fresh(x, ids, recs)
                      /\ Len(x.ids) < Len(b.ids) => Fresh(b, ids, recs)
    OBVIOUS
  <2>1. CASE a.at = "index"
    <3>1. Len(b.ids) < Len(ids) + 1
      BY <1>2, <2>1 DEF Ordered
    <3>2. Len(x.ids) = Len(ids)
      BY <2>1
    <3>3. QED
      BY <1>1, <1>2, <2>1, <3>1, <3>2
  <2>2. CASE a.at = "item"
    <3>1. /\ Len(a.ids) <= Len(b.ids) => Fresh(b, ids, recs)
          /\ Len(b.ids) < Len(a.ids) => Fresh(a, ids, recs)
      BY <2>2 DEF Ordered
    <3>2. Len(x.ids) = Len(a.ids) - 1
      BY <2>2
    <3>3. QED
      BY <1>1, <3>1, <3>2
  <2>3. QED
    BY <2>1, <2>2
<1>4. b.at # "item" => Len(x.ids) < Turns(b, Len(ids))
  <2> SUFFICES ASSUME b.at # "item" PROVE Len(x.ids) < Turns(b, Len(ids))
    OBVIOUS
  <2>1. CASE a.at = "index"
    <3>1. Len(x.ids) = Len(ids)
      BY <2>1
    <3>2. CASE b.at = "store"
      <4>1. Len(ids) <= Len(b.ids) + 1
        BY <2>1, <3>2 DEF Ordered
      <4>2. Turns(b, Len(ids)) = Len(b.ids) + 2
        BY <1>1, <3>2, TurnsOf
      <4>3. QED
        BY <1>1, <3>1, <4>1, <4>2
    <3>3. CASE b.at # "store"
      <4>1. Turns(b, Len(ids)) \in {Len(ids) + 1, Len(ids) + 2, Len(ids) + 3}
        BY <1>1, <3>3, TurnsOf
      <4>2. QED
        BY <1>1, <3>1, <4>1
    <3>4. QED
      BY <3>2, <3>3
  <2>2. CASE a.at = "item"
    <3>1. Len(a.ids) <= Turns(b, Len(ids))
      BY <2>2 DEF Ordered
    <3>2. Len(x.ids) = Len(a.ids) - 1
      BY <2>2
    <3>3. Turns(b, Len(ids)) \in Nat
      BY <1>1, TurnsOf
    <3>4. QED
      BY <1>1, <3>1, <3>2, <3>3
  <2>3. QED
    BY <2>1, <2>2
<1>5. QED
  BY <1>3, <1>4 DEF Ordered

\* The listing at the head goes on: from the whole index, or from where it was.
LEMMA FreshGoesOn ==
  ASSUME NEW a \in Ops, NEW x \in Ops, NEW ids \in Seq(Nat), NEW recs,
         \A i \in DOMAIN recs : recs[i] \in Rows,
         a.at = "item", a.ids # <<>>, Fresh(a, ids, recs), NEW out \in Seq(Rows),
         out = IF Head(a.ids) \in DOMAIN recs THEN Append(a.seen, recs[Head(a.ids)]) ELSE a.seen
  PROVE  /\ x.op = "list" /\ x.at = "item" /\ x.ids = Tail(a.ids) /\ x.seen = out
              => Fresh(x, ids, recs)
         /\ Tail(a.ids) = <<>> => Lists(out, Len(ids), ids, recs)
<1> DEFINE n == Len(ids)
           k == Len(a.ids)
           p == n - k
<1>1. /\ n \in Nat /\ k \in Nat \ {0} /\ Head(a.ids) = a.ids[1] /\ a.seen \in Seq(Rows)
      /\ Tail(a.ids) \in Seq(Nat) /\ Len(Tail(a.ids)) = k - 1
      /\ \A i \in 1 .. k - 1 : Tail(a.ids)[i] = a.ids[i + 1]
  <2>1. a.ids \in Seq(Nat) /\ a.seen \in Seq(Rows)
    BY DEF Ops
  <2>2. QED
    BY <2>1, HeadTailProperties, LenProperties, EmptySeq
<1>2. /\ k <= n /\ \A i \in 1 .. k : a.ids[i] = ids[p + i]
      /\ Lists(a.seen, p, ids, recs)
  BY DEF Fresh
<1> HIDE DEF n, k
<1>3. p \in Nat /\ ids[p + 1] = Head(a.ids)
  BY <1>1, <1>2
<1>4. Lists(out, p + 1, ids, recs)
  <2> HIDE DEF p
  <2>1. IF ids[p + 1] \in DOMAIN recs THEN out = Append(a.seen, recs[ids[p + 1]])
                                      ELSE out = a.seen
    BY <1>3
  <2>2. ids[p + 1] \in DOMAIN recs => recs[ids[p + 1]] \in Rows
    BY <1>3
  <2>3. QED
    BY <1>1, <1>2, <1>3, <2>1, <2>2, OneMoreListed
<1>5. ASSUME Tail(a.ids) = <<>>
      PROVE  Lists(out, Len(ids), ids, recs)
  <2>1. k = 1
    <3>1. Len(Tail(a.ids)) = 0
      BY <1>5, EmptySeq
    <3>2. k - 1 = 0 /\ k \in Nat
      BY <1>1, <3>1 DEF k
    <3>3. QED
      BY <3>2
  <2>2. p + 1 = n
    BY <1>1, <2>1
  <2>3. QED
    BY <1>4, <2>2 DEF n
<1>6. ASSUME x.op = "list", x.at = "item", x.ids = Tail(a.ids), x.seen = out
      PROVE  Fresh(x, ids, recs)
  <2>1. Len(x.ids) = k - 1 /\ k - 1 <= n /\ n - (k - 1) = p + 1
    BY <1>1, <1>2, <1>6
  <2>2. \A i \in 1 .. k - 1 : x.ids[i] = ids[n - (k - 1) + i]
    <3> SUFFICES ASSUME NEW i \in 1 .. k - 1 PROVE x.ids[i] = ids[n - (k - 1) + i]
      OBVIOUS
    <3>1. x.ids[i] = a.ids[i + 1] /\ i + 1 \in 1 .. k
      BY <1>1, <1>6
    <3>2. a.ids[i + 1] = ids[p + (i + 1)]
      BY <1>2, <3>1
    <3>3. p + (i + 1) = n - (k - 1) + i
      BY <1>1
    <3>4. QED
      BY <3>1, <3>2, <3>3
  <2>3. Lists(x.seen, n - (k - 1), ids, recs)
    BY <1>4, <1>6, <2>1
  <2>4. QED
    BY <1>6, <2>1, <2>2, <2>3 DEF Fresh, n
<1>7. QED
  BY <1>5, <1>6

LEMMA QueueServedInOrder ==
  ASSUME DiagramTypes, Serve, QueueInOrder(pending, index, records, savedList, mounts)
  PROVE  QueueInOrder(pending', index', records', savedList', mounts')
<1> DEFINE a == Head(pending)
           b == pending[2]
<1>1. /\ pending \in Seq(Ops) /\ index \in Seq(Nat) /\ mounts \in Nat
      /\ \A i \in DOMAIN records : records[i] \in Rows
  BY DEF DiagramTypes, StoreTypes
<1>2. /\ pending # <<>> /\ UNCHANGED mounts
      /\ ServeRecord(a) \/ ServeIndex(a) \/ ServeStore(a) \/ ServeList(a)
  BY DEF Serve
<1>3. a = pending[1] /\ a \in Ops /\ 1 \in DOMAIN pending /\ DOMAIN pending = 1 .. Len(pending)
  <2>1. List(0) \in Ops
    BY ListIsOp
  <2>2. QED
    BY <1>1, <1>2, <2>1, QueueServed
<1>4. /\ Sound(a, mounts) /\ Distinct(index)
      /\ a.mount = mounts /\ a.op = "list" /\ ~Crowded(pending, mounts) => Fresh(a, index, records)
      /\ Crowded(pending, mounts) => Ordered(a, b, index, records)
  BY <1>3 DEF QueueInOrder
<1>5. Crowded(pending, mounts) => b \in Ops /\ Sound(b, mounts)
  <2> SUFFICES ASSUME Crowded(pending, mounts) PROVE b \in Ops /\ Sound(b, mounts)
    OBVIOUS
  <2>1. Len(pending) = 2
    BY DEF Crowded
  <2>2. 2 \in DOMAIN pending /\ 2 \in 1 .. Len(pending)
    BY <1>3, <2>1
  <2>3. b \in Ops
    BY <1>1, <2>2, ElementOfSeq
  <2>4. QED
    BY <2>2, <2>3 DEF QueueInOrder
<1>6. a.id \in Nat /\ a.ids \in Seq(Nat) /\ a.seen \in Seq(Rows) /\ a.mount \in Nat
  BY <1>3 DEF Ops
<1> DEFINE next == List(a.mount)
<1>7. /\ next \in Ops /\ next.op = "list" /\ next.at = "index" /\ next.mount = a.mount
      /\ next.seen = <<>>
  <2>1. next.seen = <<>>
    BY DEF List
  <2>2. QED
    BY <1>6, <2>1, ListIsOp
<1> HIDE DEF a, b, next
<1>8. Sound(next, mounts) /\ Fresh(next, index', records')
  BY <1>4, <1>7 DEF Sound, Fresh
<1>9. CASE ServeRecord(a)
  <2> DEFINE x == [a EXCEPT !.at = "index", !.source = NoSource, !.kind = ""]
  <2>1. x \in Ops /\ x.at = "index" /\ x.op = a.op /\ x.mount = a.mount
    <3>1. x \in Ops
      BY <1>3, ServedIsOp, EmptySeq
    <3>2. QED
      BY <1>3, <3>1 DEF Ops
  <2>2. /\ pending' = Append(Tail(pending), x) /\ UNCHANGED <<index, savedList>>
        /\ a.at = "record"
    BY <1>9 DEF ServeRecord, Requeue, Page
  <2> HIDE DEF x
  <2>3. a.op # "list" /\ a.mount = mounts
    BY <1>4, <2>2 DEF Sound
  <2>4. Sound(x, mounts)
    BY <1>4, <2>1, <2>3 DEF Sound
  <2>5. Crowded(pending, mounts) => Ordered(b, x, index, records')
    BY <1>1, <1>3, <1>4, <1>5, <2>1, <2>2, <2>3, OrderedAfterChange
  <2>6. QueueInOrder(Append(Tail(pending), x), index, records', savedList, mounts)
    BY <1>1, <1>2, <1>3, <1>4, <2>1, <2>3, <2>4, <2>5, QueueRequeued DEF b
  <2>7. QED
    BY <1>2, <2>2, <2>6
<1>10. CASE ServeIndex(a)
  <2>1. /\ UNCHANGED <<records, index, savedList>> /\ a.at = "index" /\ a.op \in {"save", "delete"}
    BY <1>10 DEF ServeIndex
  <2>2. a.op # "list" /\ a.mount = mounts
    BY <1>4, <2>1 DEF Sound
  <2>3. CASE a.op = "save" /\ a.id \in ToSet(index)
    <3>1. pending' = Append(Tail(pending), next)
      BY <1>10, <2>3 DEF ServeIndex, Requeue, next
    <3>2. Crowded(pending, mounts) => Ordered(b, next, index, records)
      BY <1>1, <1>3, <1>4, <1>5, <1>7, <2>1, <2>2, OrderedAfterChange
    <3>3. Fresh(next, index, records)
      BY <1>8, <2>1
    <3>4. QueueInOrder(Append(Tail(pending), next), index, records, savedList, mounts)
      BY <1>1, <1>2, <1>3, <1>4, <1>7, <1>8, <2>2, <3>2, <3>3, QueueRequeued DEF b
    <3>5. QED
      BY <1>2, <2>1, <3>1, <3>4
  <2>4. CASE ~(a.op = "save" /\ a.id \in ToSet(index))
    <3> DEFINE ids == IF a.op = "save" THEN Append(index, a.id) ELSE Without(index, a.id)
               x == [a EXCEPT !.at = "store", !.ids = ids]
    <3>1. pending' = Append(Tail(pending), x)
      BY <1>10, <2>4 DEF ServeIndex, Requeue
    <3>2. ids \in Seq(Nat) /\ Len(index) <= Len(ids) + 1 /\ Distinct(ids)
      <4>1. Len(index) \in Nat
        BY <1>1, LenProperties
      <4>2. CASE a.op = "save"
        <5>1. /\ ids \in Seq(Nat) /\ DOMAIN ids = 1 .. Len(index) + 1 /\ Len(ids) = Len(index) + 1
              /\ DOMAIN index = 1 .. Len(index)
              /\ \A i \in 1 .. Len(index) : ids[i] = index[i]
              /\ ids[Len(index) + 1] = a.id
          BY <1>1, <1>6, <4>2, QueueJoined
        <5>2. \A i \in 1 .. Len(index) : index[i] # a.id
          BY <2>4, <4>2, <5>1 DEF ToSet
        <5> HIDE DEF ids
        <5>3. \A i \in DOMAIN ids : i \in 1 .. Len(index) \/ i = Len(index) + 1
          BY <4>1, <5>1
        <5>4. Distinct(ids)
          <6> SUFFICES ASSUME NEW i \in DOMAIN ids, NEW j \in DOMAIN ids, ids[i] = ids[j]
                       PROVE  i = j
            BY DEF Distinct
          <6>1. CASE i \in 1 .. Len(index) /\ j \in 1 .. Len(index)
            BY <1>4, <5>1, <6>1 DEF Distinct
          <6>2. CASE i \in 1 .. Len(index) /\ j = Len(index) + 1
            BY <5>1, <5>2, <6>2
          <6>3. CASE i = Len(index) + 1 /\ j \in 1 .. Len(index)
            BY <5>1, <5>2, <6>3
          <6>4. QED
            BY <5>3, <6>1, <6>2, <6>3
        <5>5. QED
          BY <4>1, <5>1, <5>4
      <4>3. CASE a.op # "save"
        <5>1. ids = Without(index, a.id)
          BY <4>3
        <5>2. /\ ids \in Seq(Nat) /\ Len(ids) \in {Len(index), Len(index) - 1}
              /\ \A i, j \in DOMAIN ids : ids[i] = ids[j] => i = j
          BY <1>1, <1>4, <1>6, <5>1, WithoutShortens DEF Distinct
        <5>3. QED
          BY <4>1, <5>2 DEF Distinct
      <4>4. QED
        BY <4>2, <4>3
    <3> HIDE DEF ids
    <3>3. x \in Ops /\ x.at = "store" /\ x.ids = ids /\ x.op = a.op /\ x.mount = a.mount
      <4>1. x \in Ops
        BY <1>3, <3>2, ServedIsOp, EmptySeq
      <4>2. QED
        BY <1>3, <4>1 DEF Ops
    <3> HIDE DEF x
    <3>4. Sound(x, mounts)
      BY <1>4, <2>2, <3>2, <3>3 DEF Sound
    <3>5. Crowded(pending, mounts) => Ordered(b, x, index, records)
      BY <1>1, <1>3, <1>4, <1>5, <2>1, <2>2, <3>2, <3>3, OrderedAfterChange
    <3>6. QueueInOrder(Append(Tail(pending), x), index, records, savedList, mounts)
      BY <1>1, <1>2, <1>3, <1>4, <2>2, <3>3, <3>4, <3>5, QueueRequeued DEF b
    <3>7. QED
      BY <1>2, <2>1, <3>1, <3>6
  <2>5. QED
    BY <2>3, <2>4
<1>11. CASE ServeStore(a)
  <2>1. /\ index' = a.ids /\ pending' = Append(Tail(pending), next) /\ a.at = "store"
        /\ UNCHANGED <<records, savedList>>
    BY <1>11 DEF ServeStore, Requeue, next
  <2>2. a.op # "list" /\ a.mount = mounts /\ Distinct(a.ids)
    BY <1>4, <2>1 DEF Sound
  <2>3. Crowded(pending, mounts) => Ordered(b, next, a.ids, records)
    BY <1>1, <1>3, <1>4, <1>5, <1>6, <1>7, <2>1, OrderedAfterChange
  <2>4. Fresh(next, a.ids, records)
    BY <1>8, <2>1
  <2>5. QueueInOrder(Append(Tail(pending), next), a.ids, records, savedList, mounts)
    BY <1>1, <1>2, <1>3, <1>7, <1>8, <2>2, <2>3, <2>4, QueueRequeued DEF b
  <2>6. QED
    BY <1>2, <2>1, <2>5
<1>12. CASE ServeList(a)
  <2> DEFINE ids == IF a.at = "index" THEN index ELSE Tail(a.ids)
             seen == IF a.at = "item" /\ Head(a.ids) \in DOMAIN records
                       THEN Append(a.seen, records[Head(a.ids)]) ELSE a.seen
             x == [a EXCEPT !.at = "item", !.ids = ids, !.seen = seen]
  <2>1. /\ UNCHANGED <<records, index>> /\ a.op = "list"
        /\ \/ /\ pending' = Tail(pending) /\ ids = <<>>
              /\ savedList' = IF a.mount = mounts THEN seen ELSE savedList
           \/ /\ pending' = Append(Tail(pending), x) /\ savedList' = savedList /\ ids # <<>>
    BY <1>12 DEF ServeList, Requeue
  <2>2. /\ a.at \in {"index", "item"} /\ (a.at = "index" => a.seen = <<>>)
        /\ (a.at = "item" => a.ids # <<>>)
    BY <1>4, <2>1 DEF Sound
  <2>3. seen \in Seq(Rows)
    <3>1. CASE a.at = "item" /\ Head(a.ids) \in DOMAIN records
      BY <1>1, <1>6, <3>1, AppendProperties
    <3>2. CASE ~(a.at = "item" /\ Head(a.ids) \in DOMAIN records)
      BY <1>6, <3>2
    <3>3. QED
      BY <3>1, <3>2
  <2>4. ids \in Seq(Nat) /\ (a.at = "item" => Len(ids) = Len(a.ids) - 1)
    <3>1. CASE a.at = "index"
      BY <1>1, <3>1
    <3>2. CASE a.at = "item"
      BY <1>6, <2>2, <3>2, HeadTailProperties
    <3>3. QED
      BY <2>2, <3>1, <3>2
  \* What the listing has read when it was fresh before the step.
  <2>5. ASSUME Fresh(a, index, records)
        PROVE  /\ x.op = "list" /\ x.at = "item" /\ x.ids = ids /\ x.seen = seen
                    => Fresh(x, index, records)
               /\ ids = <<>> => Lists(seen, Len(index), index, records)
    <3>1. CASE a.at = "index"
      <4>1. ids = index /\ seen = <<>> /\ Len(index) \in Nat
        BY <1>1, <2>2, <3>1, LenProperties
      <4>2. ids = <<>> => Len(index) = 0
        BY <4>1, EmptySeq
      <4>3. Lists(<<>>, 0, index, records)
        BY NothingListed
      <4>4. Len(index) - Len(index) = 0 /\ \A k : k \in 1 .. Len(index) => Len(index) - Len(index) + k = k
        BY <4>1
      <4> HIDE DEF ids, seen, x
      <4>5. x.op = "list" /\ x.at = "item" /\ x.ids = ids /\ x.seen = seen => Fresh(x, index, records)
        BY <4>1, <4>3, <4>4 DEF Fresh
      <4>6. QED
        BY <4>1, <4>2, <4>3, <4>5
    <3>2. CASE a.at = "item"
      <4>1. /\ seen = IF Head(a.ids) \in DOMAIN records THEN Append(a.seen, records[Head(a.ids)])
                                                        ELSE a.seen
            /\ ids = Tail(a.ids)
        BY <3>2
      <4>2. x \in Ops
        BY <1>3, <2>3, <2>4, ServedIsOp
      <4> HIDE DEF ids, seen, x
      <4>3. QED
        BY <1>1, <1>3, <2>2, <2>3, <2>5, <3>2, <4>1, <4>2, FreshGoesOn
    <3>3. QED
      BY <2>2, <3>1, <3>2
  <2>6. CASE pending' = Tail(pending)
    <3>1. ids = <<>> /\ savedList' = IF a.mount = mounts THEN seen ELSE savedList
      <4>1. Len(Tail(pending)) # Len(Append(Tail(pending), x))
        <5>1. x \in Ops
          BY <1>3, <2>3, <2>4, ServedIsOp
        <5> HIDE DEF x
        <5>2. QED
          BY <1>1, <1>2, <5>1, QueueServed
      <4> HIDE DEF ids, seen, x
      <4>2. QED
        BY <2>1, <2>6, <4>1
    <3> HIDE DEF seen, ids, x
    <3>2. a.mount = mounts /\ ~Crowded(pending, mounts)
            => Lists(seen, Len(index), index, records)
      BY <1>4, <2>1, <2>5, <3>1
    <3>3. Crowded(pending, mounts) /\ b.op = "list" => Fresh(b, index, records)
      <4> SUFFICES ASSUME Crowded(pending, mounts), b.op = "list" PROVE Fresh(b, index, records)
        OBVIOUS
      <4>1. Ordered(a, b, index, records) /\ b \in Ops /\ Sound(b, mounts)
        BY <1>4, <1>5
      <4>2. CASE b.at # "item"
        BY <4>2 DEF Fresh
      <4>3. CASE b.at = "item"
        <5>1. b.ids # <<>> /\ b.ids \in Seq(Nat) /\ Len(b.ids) \in Nat \ {0}
          <6>1. b.ids # <<>> /\ b.ids \in Seq(Nat)
            BY <4>1, <4>3 DEF Sound, Ops
          <6>2. QED
            BY <6>1, LenProperties, EmptySeq
        <5>2. CASE a.at = "index"
          <6>1. Len(index) = 0
            BY <3>1, <5>2 DEF ids
          <6>2. Turns(a, Len(index)) = 1
            BY <1>3, <2>1, <5>2, <6>1, TurnsOf
          <6>3. Len(b.ids) < 1
            BY <4>1, <4>3, <5>2, <6>2 DEF Ordered
          <6>4. QED
            BY <5>1, <6>3
        <5>3. CASE a.at = "item"
          <6>1. Len(a.ids) = 1
            <7>1. Len(ids) = 0 /\ Len(ids) = Len(a.ids) - 1 /\ Len(a.ids) \in Nat
              BY <1>6, <2>4, <3>1, <5>3, LenProperties
            <7>2. QED
              BY <7>1
          <6>2. Len(a.ids) <= Len(b.ids)
            BY <5>1, <6>1
          <6>3. QED
            BY <4>1, <4>3, <5>3, <6>2 DEF Ordered
        <5>4. QED
          BY <2>2, <5>2, <5>3
      <4>4. QED
        BY <4>2, <4>3
    <3>4. QueueInOrder(Tail(pending), index, records, savedList', mounts)
      BY <1>1, <1>2, <1>3, <2>1, <3>1, <3>2, <3>3, QueueListed DEF b
    <3>5. QED
      BY <1>2, <2>1, <2>6, <3>4
  <2>7. CASE pending' = Append(Tail(pending), x) /\ savedList' = savedList /\ ids # <<>>
    <3>1. /\ x \in Ops /\ x.at = "item" /\ x.ids = ids /\ x.seen = seen
          /\ x.op = a.op /\ x.mount = a.mount
      <4> HIDE DEF ids, seen
      <4>1. x \in Ops
        BY <1>3, <2>3, <2>4, ServedIsOp
      <4>2. QED
        BY <1>3, <4>1 DEF Ops
    <3>2. a.at = "index" => Len(ids) = Len(index)
      OBVIOUS
    <3> HIDE DEF seen, ids, x
    <3>3. Fresh(a, index, records) => Fresh(x, index, records)
      BY <2>1, <2>5, <3>1
    <3>4. Sound(x, mounts)
      BY <1>4, <2>1, <2>7, <3>1 DEF Sound
    <3>5. Crowded(pending, mounts) => Ordered(b, x, index, records)
      BY <1>1, <1>3, <1>4, <1>5, <2>1, <2>2, <2>4, <3>1, <3>2, <3>3, OrderedAfterRead
    <3>6. QueueInOrder(Append(Tail(pending), x), index, records, savedList, mounts)
      BY <1>1, <1>2, <1>3, <1>4, <2>1, <3>1, <3>3, <3>4, <3>5, QueueRequeued DEF b
    <3>7. QED
      BY <1>2, <2>1, <2>7, <3>6
  <2>8. QED
    BY <2>1, <2>6, <2>7
<1>13. QED
  BY <1>2, <1>9, <1>10, <1>11, <1>12

LEMMA DiagramsInvInit == DiagramsInit => DiagramsInv
<1> SUFFICES ASSUME DiagramsInit PROVE DiagramsInv
  OBVIOUS
<1>1. DiagramTypes
  BY DiagramTypesInit
<1> DEFINE x == List(1)
<1>2. /\ x \in Ops /\ x.op = "list" /\ x.at = "index" /\ x.mount = 1 /\ x.seen = <<>>
  <2>1. x.seen = <<>>
    BY DEF List
  <2>2. QED
    BY <2>1, ListIsOp
<1>3. pending = <<x>> /\ index = <<>> /\ mounts = 1
  BY DEF DiagramsInit
<1> HIDE DEF x
<1>4. DOMAIN pending = {1} /\ pending[1] = x /\ Len(pending) = 1 /\ DOMAIN index = {}
  BY <1>3
<1>5. Distinct(index)
  BY <1>4 DEF Distinct
<1>6. Sound(x, mounts) /\ Fresh(x, index, records)
  BY <1>2, <1>3 DEF Sound, Fresh
<1>7. ~Crowded(pending, mounts)
  BY <1>4 DEF Crowded
<1>8. QueueInOrder(pending, index, records, savedList, mounts)
  BY <1>2, <1>3, <1>4, <1>5, <1>6, <1>7 DEF QueueInOrder
<1>9. QED
  BY <1>1, <1>8 DEF DiagramsInv

LEMMA DiagramsInvStep == DiagramsInv /\ [DiagramsNext]_diagrams => DiagramsInv'
<1> SUFFICES ASSUME DiagramsInv, [DiagramsNext]_diagrams PROVE DiagramsInv'
  OBVIOUS
<1>1. DiagramTypes /\ DiagramTypes'
  BY DiagramTypesStep DEF DiagramsInv
<1>2. SUFFICES ASSUME ~spoilt'
               PROVE  QueueInOrder(pending', index', records', savedList', mounts')
  BY <1>1 DEF DiagramsInv
<1>3. pending \in Seq(Ops) /\ index \in Seq(Nat) /\ mounts \in Nat /\ spoilt \in BOOLEAN
      /\ savedList \in Seq(Rows) /\ current \in Nat /\ clicks \in Nat
      /\ activeTab \in Tabs /\ editor \in Pictures
  BY <1>1 DEF DiagramTypes, StoreTypes
<1>4. ~spoilt => QueueInOrder(pending, index, records, savedList, mounts)
  BY DEF DiagramsInv
<1>5. CASE /\ UNCHANGED <<pending, index, records, savedList, mounts, spoilt>>
  BY <1>2, <1>4, <1>5
<1>6. ASSUME NEW x \in Ops, x.op # "list", x.at = "record", x.mount = mounts,
             pending' = Append(pending, x), spoilt' = (spoilt \/ Len(pending) > 1),
             UNCHANGED <<index, records, savedList, mounts>>
      PROVE  QueueInOrder(pending', index', records', savedList', mounts')
  <2>1. ~spoilt /\ ~(Len(pending) > 1)
    BY <1>2, <1>6
  <2>2. Len(pending) <= 1
    BY <1>3, <2>1, LenProperties
  <2>3. QueueInOrder(Append(pending, x), index, records, savedList, mounts)
    BY <1>3, <1>4, <1>6, <2>1, <2>2, QueueClicked
  <2>4. QED
    BY <1>6, <2>3
<1>7. List(mounts) \in Ops /\ List(mounts).mount = mounts
  BY <1>3, ListIsOp
<1>8. CASE Draw
  BY <1>5, <1>8 DEF Draw
<1>9. CASE \E kind \in Tabs : SelectTab(kind)
  BY <1>5, <1>9 DEF SelectTab
<1>10. CASE HandleSaveDiagram
  <2> DEFINE id == IF current # 0 THEN current ELSE clicks + 1
             x == [List(mounts) EXCEPT !.op = "save", !.at = "record", !.kind = activeTab,
                                       !.id = id, !.source = editor]
  <2>1. /\ pending' = Append(pending, x) /\ spoilt' = (spoilt \/ Len(pending) > 1)
        /\ UNCHANGED <<index, records, savedList, mounts>>
    BY <1>10 DEF HandleSaveDiagram
  <2>2. id \in Nat
    BY <1>3
  <2> HIDE DEF id
  <2>3. x \in Ops /\ x.op # "list" /\ x.at = "record" /\ x.mount = mounts
    <3>1. x \in Ops
      BY <1>3, <2>2, ClickedIsOp
    <3>2. QED
      BY <1>7, <3>1 DEF Ops
  <2> HIDE DEF x
  <2>4. QED
    BY <1>6, <2>1, <2>3
<1>11. CASE \E i \in DOMAIN savedList : HandleLoadDiagram(i)
  BY <1>5, <1>11 DEF HandleLoadDiagram
<1>12. CASE \E i \in DOMAIN savedList : HandleDeleteDiagram(i)
  <2>1. PICK i \in DOMAIN savedList : HandleDeleteDiagram(i)
    BY <1>12
  <2> DEFINE id == savedList[i].id
             open == (current = id)
             x == [List(mounts) EXCEPT !.op = "delete", !.at = "record", !.id = id, !.open = open]
  <2>2. /\ pending' = Append(pending, x) /\ spoilt' = (spoilt \/ Len(pending) > 1)
        /\ UNCHANGED <<index, records, savedList, mounts>>
    BY <2>1 DEF HandleDeleteDiagram
  <2>3. id \in Nat /\ open \in BOOLEAN
    <3>1. savedList[i] \in Rows
      BY <1>3, ElementOfSeq, LenProperties
    <3>2. QED
      BY <3>1 DEF Rows
  <2> HIDE DEF id, open
  <2>4. x \in Ops /\ x.op # "list" /\ x.at = "record" /\ x.mount = mounts
    <3>1. \E k \in Tabs : TRUE
      BY DEF Tabs
    <3>2. x \in Ops
      BY <1>3, <2>3, <3>1, ClickedIsOp
    <3>3. QED
      BY <1>7, <3>2 DEF Ops
  <2> HIDE DEF x
  <2>5. QED
    BY <1>6, <2>2, <2>4
<1>13. CASE Serve
  <2>1. ~spoilt
    BY <1>2, <1>13 DEF Serve
  <2>2. QED
    BY <1>1, <1>4, <1>13, <2>1, QueueServedInOrder
<1>14. CASE FailServe
  BY <1>2, <1>14 DEF FailServe
<1>15. CASE ReopenDiagrams
  <2>1. /\ pending' = Append(pending, List(mounts + 1)) /\ mounts' = mounts + 1
        /\ savedList' = <<>> /\ UNCHANGED <<index, records>>
        /\ spoilt' = (spoilt \/ \E i \in DOMAIN pending : pending[i].op # "list")
    BY <1>15 DEF ReopenDiagrams
  <2>2. ~spoilt /\ \A i \in DOMAIN pending : pending[i].op = "list"
    BY <1>2, <2>1
  <2>3. QueueInOrder(Append(pending, List(mounts + 1)), index, records, <<>>, mounts + 1)
    BY <1>3, <1>4, <2>2, QueueReopened
  <2>4. QED
    BY <2>1, <2>3
<1>16. CASE UNCHANGED diagrams
  BY <1>5, <1>16 DEF diagrams
<1>17. QED
  BY <1>8, <1>9, <1>10, <1>11, <1>12, <1>13, <1>14, <1>15, <1>16 DEF DiagramsNext

LEMMA DiagramsInvProperty == DiagramsInv => SidebarIsCurrent
<1> SUFFICES ASSUME DiagramsInv, pending = <<>>, ~spoilt PROVE Shows(savedList, Len(index))
  BY DEF SidebarIsCurrent
<1>1. QueueInOrder(pending, index, records, savedList, mounts) /\ DOMAIN pending = {}
  BY DEF DiagramsInv
<1>2. Lists(savedList, Len(index), index, records)
  BY <1>1 DEF QueueInOrder
<1>3. QED
  BY <1>2, ShowsLists

\* Once the store has nothing left to do the sidebar shows what is stored, in
\* whatever order the requests of up to two overlapping operations were served
\* (DiagramPage.tsx, diagramStore.ts), for any number of diagrams and visits;
\* unless a request failed or the page was left in the middle of an operation.
THEOREM SidebarIsCurrentAlways == DiagramsSpec => []SidebarIsCurrent
<1>1. DiagramsSpec => []DiagramsInv
  BY DiagramsInvInit, DiagramsInvStep, PTL DEF DiagramsSpec
<1>2. QED
  BY <1>1, DiagramsInvProperty, PTL


--------------------------------------------------------------------------------
(* The pages together. *)

\* Each page's part of a session is a behaviour of that page by itself: the others'
\* steps leave its state alone (App.tsx mounts one page at a time).
THEOREM SessionIsEachPages ==
  AppSpec => DocsSpec /\ DataSpec /\ DiagramsSpec /\ WorkbenchSpec /\ SignInSpec
<1>1. AppInit => DocsInit /\ DataInit /\ DiagramsInit /\ WorkbenchInit /\ SignInInit
  BY DEF AppInit
<1>2. [AppNext]_workbenchPages => [DocsNext]_docs
  BY DEF AppNext, workbenchPages
<1>3. [AppNext]_workbenchPages => [DataNext]_data
  BY DEF AppNext, workbenchPages
<1>4. [AppNext]_workbenchPages => [DiagramsNext]_diagrams
  BY DEF AppNext, workbenchPages
<1>5. [AppNext]_workbenchPages => [WorkbenchNext]_workbench
  BY DEF AppNext, workbenchPages
<1>6. [AppNext]_workbenchPages => [SignInNext]_team
  BY DEF AppNext, workbenchPages
<1>7. QED
  BY <1>1, <1>2, <1>3, <1>4, <1>5, <1>6, PTL
     DEF AppSpec, DocsSpec, DataSpec, DiagramsSpec, WorkbenchSpec, SignInSpec

\* So what was proved of each page holds of a session on any of them.
THEOREM PagesStaySafe ==
  AppSpec => [](/\ PermalinkNamesTheDocument /\ DraftIsLastTyped /\ SidebarIsCurrent
                /\ OnlyConfirmedHosts /\ VerifierOfTheSameAttempt)
BY SessionIsEachPages, PermalinkNamesTheDocumentAlways, DraftIsLastTypedAlways,
   SidebarIsCurrentAlways, ApiOnlyConfirmedHosts, SignInVerifierOfTheSameAttempt, PTL

-------------------------------------------------------------------------------
(***************************************************************************)
(* The query page: a JSON path finds what its segments mean, in every      *)
(* document and for every query. Recursive functions that go through a     *)
(* document, an expression or a query are shown to be defined one level,   *)
(* token or segment at a time. What walk visits is known from the deepest  *)
(* nodes up; then what each kind of segment leads to, and by induction on  *)
(* the number of segments what all of them do. In the other direction, the *)
(* tokens are read from the last to the first.                             *)
(***************************************************************************)

\* A set of numbers that is not empty has a least one.
LEMMA LeastNumber ==
  ASSUME NEW T \in SUBSET Nat, T # {}
  PROVE  \E x \in T : \A y \in T : x <= y
<1>1. IsWellFoundedOn(OpToRel(<, Nat), Nat)
  BY NatLessThanWellFounded
<1>2. PICK x \in T : \A y \in T : <<y, x>> \notin OpToRel(<, Nat)
  BY <1>1, WFMin
<1>3. \A y \in T : ~(y < x)
  BY <1>2 DEF OpToRel
<1>4. x \in Nat /\ \A y \in T : y \in Nat
  OBVIOUS
<1>5. \A y \in T : x <= y
  BY <1>3, <1>4
<1>6. QED
  BY <1>5

-------------------------------------------------------------------------------
(* The queries: sequences joined by FlattenSeq *)

\* The recursive function inside FlattenSeq, up to the n-th of the sequences.
FlatTable(f, s, n) == f = [i \in 1 .. n |-> IF i = 1 THEN s[i] ELSE f[i - 1] \o s[i]]

\* The recursion of FlattenSeq defines a function, part by part.
LEMMA LongerFlat ==
  ASSUME NEW s, NEW n \in Nat \ {0, 1}, NEW f, FlatTable(f, s, n - 1)
  PROVE  \E g : FlatTable(g, s, n)
<1> DEFINE g == [i \in 1 .. n |-> IF i = 1 THEN s[i] ELSE f[i - 1] \o s[i]]
<1>1. ASSUME NEW i \in 1 .. n - 1 PROVE i \in 1 .. n /\ g[i] = f[i]
  <2>1. i \in 1 .. n
    OBVIOUS
  <2>2. f[i] = IF i = 1 THEN s[i] ELSE f[i - 1] \o s[i]
    BY DEF FlatTable
  <2>3. g[i] = IF i = 1 THEN s[i] ELSE f[i - 1] \o s[i]
    BY <2>1
  <2>4. QED
    BY <2>1, <2>2, <2>3
<1>2. \A i \in 1 .. n : i # 1 => i - 1 \in 1 .. n - 1
  OBVIOUS
<1> HIDE DEF g
<1>3. \A i \in 1 .. n : i # 1 => f[i - 1] = g[i - 1]
  BY <1>1, <1>2
<1>4. g = [i \in 1 .. n |-> IF i = 1 THEN s[i] ELSE g[i - 1] \o s[i]]
  BY <1>3 DEF g
<1>5. QED
  BY <1>4 DEF FlatTable

\* There is such a function, and its last value is what FlattenSeq gives.
LEMMA FlatIsDefined ==
  ASSUME NEW s, Len(s) \in Nat \ {0}
  PROVE  \E f : FlatTable(f, s, Len(s)) /\ FlattenSeq(s) = f[Len(s)]
<1> DEFINE S == {m \in Nat \ {0} : ~\E f : FlatTable(f, s, m)}
<1>1. \E f : FlatTable(f, s, Len(s))
  <2>1. SUFFICES ASSUME S # {} PROVE FALSE
    OBVIOUS
  <2>2. PICK m \in S : \A h \in S : m <= h
    BY <2>1, LeastNumber
  <2>3. CASE m = 1
    <3> DEFINE f == [i \in 1 .. 1 |-> s[i]]
    <3>1. f = [i \in 1 .. 1 |-> IF i = 1 THEN s[i] ELSE f[i - 1] \o s[i]]
      OBVIOUS
    <3>2. FlatTable(f, s, 1)
      BY <3>1 DEF FlatTable
    <3>3. QED
      BY <2>2, <2>3, <3>2
  <2>4. CASE m # 1
    <3>1. m \in Nat \ {0, 1} /\ m - 1 \in Nat \ {0} /\ m - 1 \notin S
      BY <2>2, <2>4
    <3>2. PICK f : FlatTable(f, s, m - 1)
      BY <3>1
    <3>3. QED
      BY <2>2, <3>1, <3>2, LongerFlat
  <2>5. QED
    BY <2>3, <2>4
<1> DEFINE F == CHOOSE f : FlatTable(f, s, Len(s))
<1>2. FlatTable(F, s, Len(s))
  BY <1>1
<1>3. FlattenSeq(s) = F[Len(s)]
  BY DEF FlattenSeq, FlatTable
<1>4. QED
  BY <1>2, <1>3

\* An item of two sequences joined is one of the first or one of the second.
LEMMA Joined ==
  ASSUME NEW T, NEW s, s \in Seq(T), NEW t, t \in Seq(T)
  PROVE  /\ s \o t \in Seq(T) /\ Len(s \o t) = Len(s) + Len(t)
         /\ \A i \in 1 .. Len(s) : i \in 1 .. Len(s \o t) /\ (s \o t)[i] = s[i]
         /\ \A i \in 1 .. Len(t) : Len(s) + i \in 1 .. Len(s \o t) /\ (s \o t)[Len(s) + i] = t[i]
         /\ \A k \in 1 .. Len(s \o t) : k \in 1 .. Len(s) \/ \E i \in 1 .. Len(t) : k = Len(s) + i
<1>1. /\ s \o t \in Seq(T) /\ Len(s \o t) = Len(s) + Len(t)
      /\ \A i \in 1 .. Len(s) : i \in 1 .. Len(s \o t) /\ (s \o t)[i] = s[i]
      /\ \A i \in 1 .. Len(t) : Len(s) + i \in 1 .. Len(s \o t) /\ (s \o t)[Len(s) + i] = t[i]
  OBVIOUS
<1>2. ASSUME NEW k \in 1 .. Len(s \o t), k \notin 1 .. Len(s)
      PROVE  \E i \in 1 .. Len(t) : k = Len(s) + i
  <2>1. Len(s) \in Nat /\ Len(t) \in Nat /\ k \in 1 .. Len(s) + Len(t)
    BY <1>1
  <2>2. k - Len(s) \in 1 .. Len(t) /\ k = Len(s) + (k - Len(s))
    BY <1>2, <2>1
  <2>3. QED
    BY <2>2
<1>3. QED
  BY <1>1, <1>2

\* The first m parts of s, laid one after the other: part i comes after off[i - 1]
\* items.
Laid(s, m, flat, off) ==
  /\ off[0] = 0 /\ off[m] = Len(flat)
  /\ \A i \in 1 .. m : /\ off[i - 1] \in Nat /\ off[i] \in Nat /\ off[i] <= Len(flat)
                       /\ off[i] = off[i - 1] + Len(s[i]) /\ Len(s[i]) \in Nat
  /\ \A i \in 1 .. m : \A j \in 1 .. Len(s[i]) : flat[off[i - 1] + j] = s[i][j]
  /\ \A k \in 1 .. Len(flat) : \E i \in 1 .. m : \E j \in 1 .. Len(s[i]) : k = off[i - 1] + j

\* One sequence more lies behind those that are laid out.
LEMMA OneMoreIsLaid ==
  ASSUME NEW T, NEW s, NEW m \in Nat, NEW flat \in Seq(T), NEW part \in Seq(T), part = s[m + 1],
         NEW off, Laid(s, m, flat, off), off[m + 1] = Len(flat \o part)
  PROVE  Laid(s, m + 1, flat \o part, off)
<1> DEFINE longer == flat \o part
<1>1. /\ longer \in Seq(T) /\ Len(longer) = Len(flat) + Len(part)
      /\ Len(flat) \in Nat /\ Len(part) \in Nat
      /\ \A i \in 1 .. Len(flat) : longer[i] = flat[i]
      /\ \A i \in 1 .. Len(part) : longer[Len(flat) + i] = part[i]
      /\ \A k \in 1 .. Len(longer) : k \in 1 .. Len(flat) \/ \E i \in 1 .. Len(part) : k = Len(flat) + i
  BY Joined
<1> HIDE DEF longer
<1>2. off[m] = Len(flat) /\ (m + 1) - 1 = m
  BY DEF Laid
<1>3. \A i \in 1 .. m + 1 : i \in 1 .. m \/ i = m + 1
  OBVIOUS
<1>4. off[0] = 0 /\ off[m + 1] = Len(longer)
  BY DEF Laid, longer
<1>5. ASSUME NEW i \in 1 .. m + 1
      PROVE  /\ off[i - 1] \in Nat /\ off[i] \in Nat /\ off[i] <= Len(longer)
             /\ off[i] = off[i - 1] + Len(s[i]) /\ Len(s[i]) \in Nat
  <2>1. CASE i = m + 1
    <3>1. off[i - 1] = Len(flat) /\ off[i] = Len(longer) /\ s[i] = part
      BY <2>1, <1>2, <1>4
    <3>2. QED
      BY <3>1, <1>1
  <2>2. CASE i \in 1 .. m
    <3>1. /\ off[i - 1] \in Nat /\ off[i] \in Nat /\ off[i] <= Len(flat)
          /\ off[i] = off[i - 1] + Len(s[i]) /\ Len(s[i]) \in Nat
      BY <2>2 DEF Laid
    <3>2. QED
      BY <3>1, <1>1
  <2>3. QED
    BY <1>3, <2>1, <2>2
<1>6. ASSUME NEW i \in 1 .. m + 1, NEW j \in 1 .. Len(s[i])
      PROVE  longer[off[i - 1] + j] = s[i][j]
  <2>1. CASE i = m + 1
    <3>1. off[i - 1] = Len(flat) /\ s[i] = part
      BY <2>1, <1>2
    <3>2. QED
      BY <3>1, <1>1
  <2>2. CASE i \in 1 .. m
    <3>1. /\ off[i - 1] \in Nat /\ off[i] \in Nat /\ off[i] <= Len(flat)
          /\ off[i] = off[i - 1] + Len(s[i]) /\ flat[off[i - 1] + j] = s[i][j]
          /\ Len(s[i]) \in Nat
      BY <2>2 DEF Laid
    <3>2. off[i - 1] + j \in 1 .. Len(flat)
      <4> DEFINE L == Len(s[i])
                 b == off[i - 1]
                 c == off[i]
      <4>1. b \in Nat /\ c \in Nat /\ c <= Len(flat) /\ c = b + L /\ j \in 1 .. L /\ L \in Nat
        BY <3>1
      <4> HIDE DEF L, b, c
      <4>2. b + j \in 1 .. Len(flat)
        BY <4>1, <1>1
      <4>3. QED
        BY <4>2 DEF b
    <3>3. QED
      BY <3>1, <3>2, <1>1
  <2>3. QED
    BY <1>3, <2>1, <2>2
<1>7. ASSUME NEW k \in 1 .. Len(longer)
      PROVE  \E i \in 1 .. m + 1 : \E j \in 1 .. Len(s[i]) : k = off[i - 1] + j
  <2>1. CASE k \in 1 .. Len(flat)
    <3>1. PICK i \in 1 .. m : \E j \in 1 .. Len(s[i]) : k = off[i - 1] + j
      BY <2>1 DEF Laid
    <3>2. i \in 1 .. m + 1
      OBVIOUS
    <3>3. QED
      BY <3>1, <3>2
  <2>2. ASSUME NEW j \in 1 .. Len(part), k = Len(flat) + j
        PROVE  \E i \in 1 .. m + 1 : \E jj \in 1 .. Len(s[i]) : k = off[i - 1] + jj
    <3>1. m + 1 \in 1 .. m + 1
      OBVIOUS
    <3>2. j \in 1 .. Len(s[m + 1]) /\ k = off[(m + 1) - 1] + j
      BY <2>2, <1>2
    <3>3. QED
      BY <3>1, <3>2
  <2>3. QED
    BY <1>1, <2>1, <2>2
<1>8. QED
  BY <1>4, <1>5, <1>6, <1>7 DEF Laid, longer

\* FlattenSeq lays the parts one after the other.
LEMMA FlatIsLaid ==
  ASSUME NEW T, NEW s \in Seq(Seq(T))
  PROVE  FlattenSeq(s) \in Seq(T) /\ \E off : Laid(s, Len(s), FlattenSeq(s), off)
<1>1. Len(s) \in Nat /\ DOMAIN s = 1 .. Len(s) /\ \A i \in 1 .. Len(s) : s[i] \in Seq(T)
  OBVIOUS
<1>2. CASE Len(s) = 0
  <2> DEFINE off == [i \in {0} |-> 0]
  <2>1. s = <<>> /\ FlattenSeq(s) = <<>>
    BY <1>2 DEF FlattenSeq
  <2>2. off[0] = 0
    OBVIOUS
  <2> HIDE DEF off
  <2>3. Len(<<>>) = 0 /\ <<>> \in Seq(T)
    OBVIOUS
  <2>4. \A i : i \notin 1 .. 0
    OBVIOUS
  <2>5. Laid(s, 0, <<>>, off)
    BY <2>2, <2>3, <2>4 DEF Laid
  <2>6. QED
    BY <1>2, <2>1, <2>3, <2>5
<1>3. CASE Len(s) # 0
  <2>1. Len(s) \in Nat \ {0}
    BY <1>1, <1>3
  <2>2. PICK f : FlatTable(f, s, Len(s)) /\ FlattenSeq(s) = f[Len(s)]
    BY <2>1, FlatIsDefined
  <2> DEFINE off == [i \in 0 .. Len(s) |-> IF i = 0 THEN 0 ELSE Len(f[i])]
             Holds(m) == f[m] \in Seq(T) /\ Laid(s, m, f[m], off)
             S == {m \in 1 .. Len(s) : ~Holds(m)}
  <2>3. off[0] = 0 /\ \A i \in 1 .. Len(s) : off[i] = Len(f[i])
    BY <2>1
  <2>4. f[1] = s[1] /\ \A i \in 2 .. Len(s) : f[i] = f[i - 1] \o s[i]
    <3>1. 1 \in 1 .. Len(s) /\ \A i \in 2 .. Len(s) : i \in 1 .. Len(s) /\ i # 1
      BY <2>1
    <3>2. QED
      BY <2>2, <3>1 DEF FlatTable
  <2> HIDE DEF off
  <2>5. S = {}
    <3>1. SUFFICES ASSUME S # {} PROVE FALSE
      OBVIOUS
    <3>2. S \in SUBSET Nat
      OBVIOUS
    <3>3. PICK m \in S : \A h \in S : m <= h
      BY <3>1, <3>2, LeastNumber
    <3>4. m \in 1 .. Len(s) /\ ~Holds(m)
      OBVIOUS
    <3>5. CASE m = 1
      <4> DEFINE none == <<>>
      <4>1. \A i : i \notin 1 .. 0
        OBVIOUS
      <4>2. none \in Seq(T) /\ Len(none) = 0
        OBVIOUS
      <4>3. Laid(s, 0, none, off)
        BY <2>3, <4>1, <4>2 DEF Laid
      <4>4. s[1] \in Seq(T) /\ none \o s[1] = s[1]
        BY <1>1, <3>4, <3>5
      <4>5. off[1] = Len(none \o s[1])
        BY <2>3, <2>4, <3>4, <3>5, <4>4
      <4> HIDE DEF none
      <4>6. 0 \in Nat /\ s[0 + 1] = s[1] /\ off[0 + 1] = off[1] /\ 0 + 1 = 1
        OBVIOUS
      <4>7. Laid(s, 0 + 1, none \o s[1], off)
        BY <4>2, <4>3, <4>4, <4>5, <4>6, OneMoreIsLaid
      <4>8. QED
        BY <2>4, <3>4, <3>5, <4>4, <4>6, <4>7
    <3>6. CASE m # 1
      <4> DEFINE p == m - 1
      <4>1. p \in Nat /\ p \in 1 .. Len(s) /\ p < m /\ p + 1 = m /\ m \in 2 .. Len(s)
        BY <3>4, <3>6
      <4>2. p \notin S
        BY <3>3, <4>1
      <4>3. Holds(p)
        BY <4>1, <4>2
      <4>4. f[m] = f[p] \o s[m] /\ s[m] \in Seq(T) /\ off[m] = Len(f[m])
        BY <1>1, <2>3, <2>4, <3>4, <4>1
      <4> HIDE DEF p
      <4>5. Laid(s, p + 1, f[p] \o s[m], off)
        BY <4>1, <4>3, <4>4, OneMoreIsLaid
      <4>6. f[p] \o s[m] \in Seq(T)
        BY <4>3, <4>4
      <4>7. QED
        BY <3>4, <4>1, <4>4, <4>5, <4>6
    <3>7. QED
      BY <3>5, <3>6
  <2>6. Holds(Len(s))
    BY <2>1, <2>5
  <2>7. QED
    BY <2>2, <2>6
<1>4. QED
  BY <1>2, <1>3

\* It holds what the parts hold.
LEMMA FlatHoldsTheParts ==
  ASSUME NEW T, NEW s \in Seq(Seq(T))
  PROVE  /\ FlattenSeq(s) \in Seq(T)
         /\ \A x : x \in Range(FlattenSeq(s)) <=> \E i \in DOMAIN s : x \in Range(s[i])
<1> DEFINE flat == FlattenSeq(s)
<1>1. flat \in Seq(T) /\ \E off : Laid(s, Len(s), flat, off)
  BY FlatIsLaid
<1> HIDE DEF flat
<1>2. PICK off : Laid(s, Len(s), flat, off)
  BY <1>1
<1>3. /\ DOMAIN s = 1 .. Len(s) /\ DOMAIN flat = 1 .. Len(flat)
      /\ \A i \in DOMAIN s : s[i] \in Seq(T) /\ DOMAIN s[i] = 1 .. Len(s[i]) /\ Len(s[i]) \in Nat
  BY <1>1
<1>4. ASSUME NEW x, x \in Range(flat) PROVE \E i \in DOMAIN s : x \in Range(s[i])
  <2>1. PICK k \in 1 .. Len(flat) : x = flat[k]
    BY <1>3, <1>4 DEF Range
  <2>2. PICK i \in 1 .. Len(s) : \E j \in 1 .. Len(s[i]) : k = off[i - 1] + j
    BY <1>2 DEF Laid
  <2>3. PICK j \in 1 .. Len(s[i]) : k = off[i - 1] + j
    BY <2>2
  <2>4. x = s[i][j]
    BY <1>2, <2>1, <2>3 DEF Laid
  <2>5. QED
    BY <1>3, <2>4 DEF Range
<1>5. ASSUME NEW x, NEW i \in DOMAIN s, x \in Range(s[i]) PROVE x \in Range(flat)
  <2>1. PICK j \in 1 .. Len(s[i]) : x = s[i][j]
    BY <1>3, <1>5 DEF Range
  <2>2. /\ off[i - 1] \in Nat /\ off[i] \in Nat /\ off[i] <= Len(flat)
        /\ off[i] = off[i - 1] + Len(s[i]) /\ flat[off[i - 1] + j] = s[i][j]
    BY <1>2, <1>3 DEF Laid
  <2>3. off[i - 1] + j \in 1 .. Len(flat)
    <3> DEFINE L == Len(s[i])
               b == off[i - 1]
               c == off[i]
    <3>1. /\ b \in Nat /\ c \in Nat /\ c <= Len(flat) /\ c = b + L /\ j \in 1 .. L
          /\ L \in Nat /\ Len(flat) \in Nat
      BY <1>1, <1>3, <2>2
    <3> HIDE DEF L, b, c
    <3>2. b + j \in 1 .. Len(flat)
      BY <3>1
    <3>3. QED
      BY <3>2 DEF b
  <2>4. QED
    BY <1>3, <2>1, <2>2, <2>3 DEF Range
<1>6. QED
  BY <1>1, <1>4, <1>5 DEF flat

\* Nothing twice, when no part has something twice and no two share something.
LEMMA FlatIsInjective ==
  ASSUME NEW T, NEW s \in Seq(Seq(T)), \A i \in DOMAIN s : IsInjective(s[i]),
         \A i, j \in DOMAIN s : \A x : x \in Range(s[i]) /\ x \in Range(s[j]) => i = j
  PROVE  IsInjective(FlattenSeq(s))
<1> DEFINE flat == FlattenSeq(s)
<1>1. flat \in Seq(T) /\ \E off : Laid(s, Len(s), flat, off)
  BY FlatIsLaid
<1> HIDE DEF flat
<1>2. PICK off : Laid(s, Len(s), flat, off)
  BY <1>1
<1>3. /\ DOMAIN s = 1 .. Len(s) /\ DOMAIN flat = 1 .. Len(flat)
      /\ \A i \in DOMAIN s : s[i] \in Seq(T) /\ DOMAIN s[i] = 1 .. Len(s[i])
  BY <1>1
<1>4. SUFFICES ASSUME NEW a \in 1 .. Len(flat), NEW b \in 1 .. Len(flat), flat[a] = flat[b]
               PROVE  a = b
  BY <1>3 DEF IsInjective, flat
<1>5. PICK i \in 1 .. Len(s) : \E k \in 1 .. Len(s[i]) : a = off[i - 1] + k
  BY <1>2 DEF Laid
<1>6. PICK k \in 1 .. Len(s[i]) : a = off[i - 1] + k
  BY <1>5
<1>7. PICK j \in 1 .. Len(s) : \E l \in 1 .. Len(s[j]) : b = off[j - 1] + l
  BY <1>2 DEF Laid
<1>8. PICK l \in 1 .. Len(s[j]) : b = off[j - 1] + l
  BY <1>7
<1>9. flat[a] = s[i][k] /\ flat[b] = s[j][l]
  BY <1>2, <1>6, <1>8 DEF Laid
<1>10. s[i][k] \in Range(s[i]) /\ s[j][l] \in Range(s[j])
  BY <1>3 DEF Range
<1>11. i = j
  BY <1>3, <1>4, <1>9, <1>10
<1>12. k = l
  BY <1>3, <1>4, <1>9, <1>11 DEF IsInjective
<1>13. QED
  BY <1>6, <1>8, <1>11, <1>12

-------------------------------------------------------------------------------
(* The paths of a document *)

\* Two sequences of one length with the same items.
LEMMA SameItems ==
  ASSUME NEW T, NEW s \in Seq(T), NEW t \in Seq(T), Len(s) = Len(t),
         \A i \in 1 .. Len(s) : s[i] = t[i]
  PROVE  s = t
OBVIOUS

\* The beginning of a sequence.
LEMMA Beginning ==
  ASSUME NEW T, NEW q \in Seq(T), NEW m \in 0 .. Len(q)
  PROVE  /\ SubSeq(q, 1, m) \in Seq(T) /\ Len(SubSeq(q, 1, m)) = m
         /\ \A i \in 1 .. m : SubSeq(q, 1, m)[i] = q[i]
<1>1. Len(q) \in Nat /\ m \in Nat /\ \A i \in 1 .. m : i \in 1 .. Len(q) /\ q[i] \in T
  OBVIOUS
<1>2. SubSeq(q, 1, m) = [i \in 1 .. m |-> q[i]]
  BY <1>1
<1>3. QED
  BY <1>1, <1>2

\* The beginnings of a path are those it goes on from.
LEMMA PrefixIs ==
  ASSUME NEW T, NEW p \in Seq(T), NEW q \in Seq(T)
  PROVE  IsPrefix(p, q) <=> Len(p) <= Len(q) /\ \A i \in 1 .. Len(p) : p[i] = q[i]
<1>1. Len(p) \in Nat /\ Len(q) \in Nat
  OBVIOUS
<1>2. CASE Len(p) <= Len(q)
  <2>1. Len(p) \in 0 .. Len(p) /\ Len(p) \in 0 .. Len(q)
    BY <1>1, <1>2
  <2> DEFINE a == SubSeq(p, 1, Len(p))
             b == SubSeq(q, 1, Len(p))
  <2>2. a \in Seq(T) /\ Len(a) = Len(p) /\ \A i \in 1 .. Len(p) : a[i] = p[i]
    BY <2>1, Beginning
  <2>3. b \in Seq(T) /\ Len(b) = Len(p) /\ \A i \in 1 .. Len(p) : b[i] = q[i]
    BY <2>1, Beginning
  <2>4. IsPrefix(p, q) <=> a = b
    BY <1>2 DEF IsPrefix
  <2> HIDE DEF a, b
  <2>5. a = b <=> \A i \in 1 .. Len(p) : a[i] = b[i]
    BY <2>2, <2>3, SameItems
  <2>6. QED
    BY <1>2, <2>2, <2>3, <2>4, <2>5
<1>3. CASE ~(Len(p) <= Len(q))
  BY <1>3 DEF IsPrefix
<1>4. QED
  BY <1>2, <1>3

\* The paths of a document are sequences of numbers, with every beginning of theirs.
LEMMA PathsAre ==
  ASSUME NEW root, IsDocument(root)
  PROVE  /\ <<>> \in DOMAIN root
         /\ \A p \in DOMAIN root : p \in Seq(Nat) /\ Len(p) \in Nat /\ root[p].size \in Nat
         /\ \E deepest \in Nat : \A p \in DOMAIN root : Len(p) <= deepest
<1>1. \A p \in DOMAIN root : p \in Seq(Nat) /\ root[p].size \in Nat
  BY DEF IsDocument
<1>2. \A p \in DOMAIN root : Len(p) \in Nat
  BY <1>1
<1>3. QED
  BY <1>1, <1>2 DEF IsDocument

\* The children of a node.
LEMMA ChildrenAre ==
  ASSUME NEW root, IsDocument(root), NEW p \in DOMAIN root, NEW i \in 1 .. root[p].size
  PROVE  /\ Append(p, i) \in DOMAIN root /\ Append(p, i) # <<>>
         /\ Front(Append(p, i)) = p /\ Last(Append(p, i)) = i /\ Len(Append(p, i)) = Len(p) + 1
<1>1. p \in Seq(Nat) /\ root[p].size \in Nat /\ Append(p, i) \in DOMAIN root
  BY DEF IsDocument
<1>2. i \in Nat
  BY <1>1
<1> DEFINE q == Append(p, i)
<1>3. /\ q \in Seq(Nat) /\ Len(q) = Len(p) + 1 /\ Len(p) \in Nat /\ q[Len(p) + 1] = i
      /\ \A k \in 1 .. Len(p) : q[k] = p[k]
  BY <1>1, <1>2
<1> HIDE DEF q
<1>4. q # <<>> /\ Last(q) = i
  BY <1>3 DEF Last
<1>5. Front(q) = SubSeq(q, 1, Len(p)) /\ Len(p) \in 0 .. Len(q)
  BY <1>3 DEF Front
<1>6. Front(q) = p
  BY <1>1, <1>3, <1>5, Beginning, SameItems
<1>7. QED
  BY <1>1, <1>3, <1>4, <1>6 DEF q

\* A path other than the root's is its parent's and one position more.
LEMMA ParentIs ==
  ASSUME NEW root, IsDocument(root), NEW q \in DOMAIN root, q # <<>>
  PROVE  /\ Front(q) \in DOMAIN root /\ Last(q) \in 1 .. root[Front(q)].size
         /\ q = Append(Front(q), Last(q)) /\ Len(q) = Len(Front(q)) + 1
         /\ \A k \in 1 .. Len(Front(q)) : Front(q)[k] = q[k]
<1>1. q \in Seq(Nat) /\ Front(q) \in DOMAIN root /\ Last(q) \in 1 .. root[Front(q)].size
  BY DEF IsDocument
<1>2. Front(q) \in Seq(Nat) /\ root[Front(q)].size \in Nat
  BY <1>1 DEF IsDocument
<1>3. Last(q) \in Nat /\ Len(q) \in Nat /\ Len(q) # 0
  BY <1>1, <1>2
<1>4. Len(q) - 1 \in 0 .. Len(q)
  BY <1>3
<1> DEFINE f == SubSeq(q, 1, Len(q) - 1)
           a == Append(f, Last(q))
<1>5. f \in Seq(Nat) /\ Len(f) = Len(q) - 1 /\ \A k \in 1 .. Len(q) - 1 : f[k] = q[k]
  BY <1>1, <1>4, Beginning
<1>6. Front(q) = f /\ Last(q) = q[Len(q)]
  BY DEF Front, Last
<1> HIDE DEF f
<1>7. /\ a \in Seq(Nat) /\ Len(a) = Len(f) + 1 /\ a[Len(f) + 1] = Last(q)
      /\ \A k \in 1 .. Len(f) : a[k] = f[k]
  BY <1>3, <1>5
<1> HIDE DEF a
<1>8. Len(a) = Len(q) /\ \A k \in 1 .. Len(q) : k \in 1 .. Len(q) - 1 \/ k = Len(q)
  BY <1>3, <1>5, <1>7
<1>9. \A k \in 1 .. Len(a) : a[k] = q[k]
  BY <1>3, <1>5, <1>6, <1>7, <1>8
<1>10. a = q
  BY <1>1, <1>7, <1>8, <1>9, SameItems
<1>11. QED
  BY <1>1, <1>3, <1>5, <1>6, <1>10 DEF a

\* Every node on the way to a node is in the document.
LEMMA BeginningsArePaths ==
  ASSUME NEW root, IsDocument(root), NEW q \in DOMAIN root, NEW m \in 0 .. Len(q)
  PROVE  SubSeq(q, 1, m) \in DOMAIN root
<1> DEFINE S == {n \in Nat : n <= Len(q) /\ SubSeq(q, 1, Len(q) - n) \notin DOMAIN root}
<1>1. q \in Seq(Nat) /\ Len(q) \in Nat
  BY PathsAre
<1>2. S = {}
  <2>1. SUFFICES ASSUME S # {} PROVE FALSE
    OBVIOUS
  <2>2. PICK n \in S : \A h \in S : n <= h
    BY <2>1, LeastNumber
  <2>3. n \in Nat /\ n <= Len(q) /\ SubSeq(q, 1, Len(q) - n) \notin DOMAIN root
    OBVIOUS
  <2>4. CASE n = 0
    <3>1. Len(q) - n = Len(q) /\ Len(q) \in 0 .. Len(q)
      BY <1>1, <2>4
    <3>2. SubSeq(q, 1, Len(q)) = q
      BY <1>1, <3>1, Beginning, SameItems
    <3>3. QED
      BY <2>3, <3>1, <3>2
  <2>5. CASE n # 0
    <3> DEFINE l == Len(q) - n
               r == SubSeq(q, 1, l + 1)
    <3>1. /\ n - 1 \in Nat /\ n - 1 <= Len(q) /\ ~(n <= n - 1) /\ Len(q) - (n - 1) = l + 1
          /\ l \in 0 .. Len(q) /\ l + 1 \in 0 .. Len(q) /\ l \in Nat /\ (l + 1) - 1 = l
      BY <1>1, <2>3, <2>5
    <3>2. r \in DOMAIN root
      BY <2>2, <3>1
    <3> HIDE DEF l
    <3>3. r \in Seq(Nat) /\ Len(r) = l + 1 /\ \A i \in 1 .. l + 1 : r[i] = q[i]
      BY <1>1, <3>1, Beginning
    <3>4. /\ SubSeq(q, 1, l) \in Seq(Nat) /\ Len(SubSeq(q, 1, l)) = l
          /\ \A i \in 1 .. l : SubSeq(q, 1, l)[i] = q[i]
      BY <1>1, <3>1, Beginning
    <3> HIDE DEF r
    <3>5. r # <<>>
      BY <3>1, <3>3
    <3>6. /\ Front(r) \in DOMAIN root /\ Len(r) = Len(Front(r)) + 1
          /\ \A k \in 1 .. Len(Front(r)) : Front(r)[k] = r[k]
      BY <3>2, <3>5, ParentIs
    <3>7. Front(r) \in Seq(Nat) /\ Len(Front(r)) \in Nat
      BY <3>6, PathsAre
    <3>8. Len(Front(r)) = l /\ \A k \in 1 .. l : k \in 1 .. l + 1
      BY <3>1, <3>3, <3>6, <3>7
    <3>9. Front(r) = SubSeq(q, 1, l)
      BY <3>3, <3>4, <3>6, <3>7, <3>8, SameItems
    <3>10. QED
      BY <2>3, <3>6, <3>9 DEF l
  <2>6. QED
    BY <2>4, <2>5
<1>3. Len(q) - m \in Nat /\ Len(q) - m <= Len(q) /\ Len(q) - (Len(q) - m) = m
  BY <1>1
<1>4. QED
  BY <1>2, <1>3

\* The way to another node below p goes through a child of p.
LEMMA TheWayDown ==
  ASSUME NEW root, IsDocument(root), NEW p \in DOMAIN root, NEW q \in DOMAIN root,
         IsPrefix(p, q), p # q
  PROVE  \E i \in 1 .. root[p].size : IsPrefix(Append(p, i), q)
<1> DEFINE l == Len(p)
           r == SubSeq(q, 1, l + 1)
<1>1. p \in Seq(Nat) /\ q \in Seq(Nat) /\ l \in Nat /\ Len(q) \in Nat
  BY PathsAre
<1>2. l <= Len(q) /\ \A i \in 1 .. l : p[i] = q[i]
  BY <1>1, PrefixIs
<1>3. l # Len(q)
  BY <1>1, <1>2, SameItems
<1>4. l + 1 \in 0 .. Len(q) /\ l + 1 \in Nat
  BY <1>1, <1>2, <1>3
<1> HIDE DEF l
<1>5. r \in DOMAIN root
  BY <1>4, BeginningsArePaths
<1>6. r \in Seq(Nat) /\ Len(r) = l + 1 /\ \A i \in 1 .. l + 1 : r[i] = q[i]
  BY <1>1, <1>4, Beginning
<1> HIDE DEF r
<1>7. r # <<>>
  BY <1>1, <1>6
<1>8. /\ Front(r) \in DOMAIN root /\ Last(r) \in 1 .. root[Front(r)].size
      /\ r = Append(Front(r), Last(r)) /\ Len(r) = Len(Front(r)) + 1
      /\ \A k \in 1 .. Len(Front(r)) : Front(r)[k] = r[k]
  BY <1>5, <1>7, ParentIs
<1>9. Front(r) \in Seq(Nat) /\ Len(Front(r)) \in Nat
  BY <1>8, PathsAre
<1>10. Len(Front(r)) = l /\ \A k \in 1 .. l : k \in 1 .. l + 1
  BY <1>1, <1>6, <1>8, <1>9
<1>11. Len(p) = l
  BY DEF l
<1>12. \A k \in 1 .. l : Front(r)[k] = p[k]
  BY <1>2, <1>6, <1>8, <1>10
<1>13. Front(r) = p
  BY <1>1, <1>9, <1>10, <1>11, <1>12, SameItems
<1>14. Len(r) <= Len(q)
  BY <1>1, <1>4, <1>6
<1>15. IsPrefix(r, q)
  BY <1>1, <1>6, <1>14, PrefixIs
<1>16. QED
  BY <1>8, <1>13, <1>15

\* A node below a child of p is below p, and no other child of p.
LEMMA BelowAChild ==
  ASSUME NEW root, IsDocument(root), NEW p \in DOMAIN root, NEW q \in DOMAIN root,
         NEW i \in 1 .. root[p].size, IsPrefix(Append(p, i), q)
  PROVE  IsPrefix(p, q) /\ q # p /\ Len(q) > Len(p) /\ q[Len(p) + 1] = i
<1>1. p \in Seq(Nat) /\ q \in Seq(Nat) /\ root[p].size \in Nat /\ Len(p) \in Nat /\ Len(q) \in Nat
  BY PathsAre
<1>2. i \in Nat
  BY <1>1
<1> DEFINE c == Append(p, i)
<1>3. /\ c \in Seq(Nat) /\ Len(c) = Len(p) + 1 /\ c[Len(p) + 1] = i
      /\ \A k \in 1 .. Len(p) : c[k] = p[k]
  BY <1>1, <1>2
<1>4. IsPrefix(c, q)
  OBVIOUS
<1> HIDE DEF c
<1>5. Len(c) <= Len(q) /\ \A k \in 1 .. Len(c) : c[k] = q[k]
  BY <1>1, <1>3, <1>4, PrefixIs
<1>6. Len(p) < Len(q) /\ Len(p) <= Len(q) /\ Len(p) + 1 \in 1 .. Len(c) /\ \A k \in 1 .. Len(p) : k \in 1 .. Len(c)
  BY <1>1, <1>3, <1>5
<1>7. \A k \in 1 .. Len(p) : p[k] = q[k]
  BY <1>3, <1>5, <1>6
<1>8. IsPrefix(p, q)
  BY <1>1, <1>6, <1>7, PrefixIs
<1>9. QED
  BY <1>1, <1>3, <1>5, <1>6, <1>8

-------------------------------------------------------------------------------
(* walk *)

\* What walk visits from the paths of length d and more.
WalkTable(w, root, d) ==
  w = [p \in {x \in DOMAIN root : Len(x) >= d} |->
         <<p>> \o FlattenSeq([i \in 1 .. root[p].size |-> w[Append(p, i)]])]

\* It is defined one level nearer to the root, when it is for the deeper ones.
LEMMA LongerWalk ==
  ASSUME NEW root, IsDocument(root), NEW d \in Nat, NEW w, WalkTable(w, root, d + 1)
  PROVE  \E g : WalkTable(g, root, d)
<1> DEFINE g == [p \in {x \in DOMAIN root : Len(x) >= d} |->
                   <<p>> \o FlattenSeq([i \in 1 .. root[p].size |-> w[Append(p, i)]])]
           At(p, v) == <<p>> \o FlattenSeq([i \in 1 .. root[p].size |-> v[Append(p, i)]])
<1>1. ASSUME NEW p \in DOMAIN root, Len(p) >= d + 1 PROVE g[p] = w[p]
  <2>1. Len(p) >= d
    BY <1>1, PathsAre
  <2>2. w[p] = At(p, w)
    BY <1>1 DEF WalkTable
  <2>3. g[p] = At(p, w)
    BY <2>1
  <2>4. QED
    BY <2>2, <2>3
<1> HIDE DEF g
<1>2. ASSUME NEW p \in DOMAIN root, Len(p) >= d PROVE At(p, w) = At(p, g)
  <2>1. ASSUME NEW i \in 1 .. root[p].size PROVE g[Append(p, i)] = w[Append(p, i)]
    <3>1. Append(p, i) \in DOMAIN root /\ Len(Append(p, i)) = Len(p) + 1 /\ Len(p) \in Nat
      BY ChildrenAre, PathsAre
    <3>2. Len(Append(p, i)) >= d + 1
      BY <1>2, <3>1
    <3>3. QED
      BY <1>1, <3>1, <3>2
  <2>2. [i \in 1 .. root[p].size |-> w[Append(p, i)]] = [i \in 1 .. root[p].size |-> g[Append(p, i)]]
    BY <2>1
  <2>3. QED
    BY <2>2
<1>3. g = [p \in {x \in DOMAIN root : Len(x) >= d} |-> At(p, w)]
  BY DEF g
<1> HIDE DEF At
<1>4. g = [p \in {x \in DOMAIN root : Len(x) >= d} |-> At(p, g)]
  BY <1>2, <1>3
<1>5. QED
  BY <1>4 DEF WalkTable, At

\* So it is for the whole document, and Walk is that function.
LEMMA WalkIsDefined ==
  ASSUME NEW root, IsDocument(root)
  PROVE  \A p \in DOMAIN root :
           Walk(root)[p] = <<p>> \o FlattenSeq([i \in 1 .. root[p].size |-> Walk(root)[Append(p, i)]])
<1> DEFINE S == {d \in Nat : \E w : WalkTable(w, root, d)}
<1>1. PICK deepest \in Nat : \A p \in DOMAIN root : Len(p) <= deepest
  BY PathsAre
<1>2. S # {}
  <2> DEFINE w == [p \in {} |-> <<>>]
             E == {x \in DOMAIN root : Len(x) >= deepest + 1}
  <2>1. \A p \in DOMAIN root : Len(p) \in Nat
    BY PathsAre
  <2>2. E = {}
    BY <1>1, <2>1
  <2>3. w = [p \in E |-> <<p>> \o FlattenSeq([i \in 1 .. root[p].size |-> w[Append(p, i)]])]
    BY <2>2
  <2>4. WalkTable(w, root, deepest + 1)
    BY <2>3 DEF WalkTable
  <2>5. deepest + 1 \in S
    BY <1>1, <2>4
  <2>6. QED
    BY <2>5
<1>3. PICK d \in S : \A h \in S : d <= h
  BY <1>2, LeastNumber
<1>4. d = 0
  <2>1. SUFFICES ASSUME d # 0 PROVE FALSE
    OBVIOUS
  <2>2. d - 1 \in Nat /\ ~(d <= d - 1) /\ (d - 1) + 1 = d
    BY <1>3, <2>1
  <2>3. PICK w : WalkTable(w, root, d)
    BY <1>3
  <2>4. \E g : WalkTable(g, root, d - 1)
    BY <2>2, <2>3, LongerWalk
  <2>5. QED
    BY <1>3, <2>2, <2>4
<1>5. PICK w : WalkTable(w, root, 0)
  BY <1>3, <1>4
<1>6. {x \in DOMAIN root : Len(x) >= 0} = DOMAIN root
  <2>1. \A x \in DOMAIN root : Len(x) \in Nat
    BY PathsAre
  <2>2. \A x \in DOMAIN root : Len(x) >= 0
    BY <2>1
  <2> DEFINE D == DOMAIN root
  <2>3. \A x \in D : Len(x) >= 0
    BY <2>2
  <2> HIDE DEF D
  <2>4. {x \in D : Len(x) >= 0} = D
    BY <2>3
  <2>5. QED
    BY <2>4 DEF D
<1> DEFINE Whole(v) == v = [p \in DOMAIN root |->
                              <<p>> \o FlattenSeq([i \in 1 .. root[p].size |-> v[Append(p, i)]])]
<1>7. Whole(w)
  BY <1>5, <1>6 DEF WalkTable
<1>8. Walk(root) = CHOOSE v : Whole(v)
  BY DEF Walk
<1>9. Whole(Walk(root))
  BY <1>7, <1>8
<1>10. QED
  BY <1>9

\* The nodes from p down, each once.
Walked(root, p) ==
  /\ Walk(root)[p] \in Seq(DOMAIN root)
  /\ \A q : q \in Range(Walk(root)[p]) <=> q \in DOMAIN root /\ IsPrefix(p, q)
  /\ IsInjective(Walk(root)[p])

\* The items of a sequence with one put before them.
LEMMA Prepended ==
  ASSUME NEW T, NEW x \in T, NEW s \in Seq(T)
  PROVE  /\ <<x>> \o s \in Seq(T)
         /\ \A y : y \in Range(<<x>> \o s) <=> y = x \/ y \in Range(s)
         /\ x \notin Range(s) /\ IsInjective(s) => IsInjective(<<x>> \o s)
<1> DEFINE one == <<x>>
           t == one \o s
<1>1. one \in Seq(T) /\ Len(one) = 1 /\ one[1] = x
  OBVIOUS
<1>2. /\ t \in Seq(T) /\ Len(t) = Len(one) + Len(s)
      /\ \A i \in 1 .. Len(one) : i \in 1 .. Len(t) /\ t[i] = one[i]
      /\ \A i \in 1 .. Len(s) : Len(one) + i \in 1 .. Len(t) /\ t[Len(one) + i] = s[i]
      /\ \A k \in 1 .. Len(t) : k \in 1 .. Len(one) \/ \E i \in 1 .. Len(s) : k = Len(one) + i
  BY <1>1, Joined
<1> HIDE DEF t, one
<1>3. /\ 1 \in 1 .. Len(t) /\ t[1] = x
      /\ \A i \in 1 .. Len(s) : 1 + i \in 1 .. Len(t) /\ t[1 + i] = s[i]
      /\ \A k \in 1 .. Len(t) : k = 1 \/ \E i \in 1 .. Len(s) : k = 1 + i
  BY <1>1, <1>2
<1>4. DOMAIN t = 1 .. Len(t) /\ DOMAIN s = 1 .. Len(s)
  BY <1>2
<1>5. ASSUME NEW y PROVE y \in Range(t) <=> y = x \/ y \in Range(s)
  <2>1. ASSUME y \in Range(t) PROVE y = x \/ y \in Range(s)
    <3>1. PICK k \in 1 .. Len(t) : y = t[k]
      BY <1>4, <2>1 DEF Range
    <3>2. CASE k = 1
      BY <1>3, <3>1, <3>2
    <3>3. ASSUME NEW i \in 1 .. Len(s), k = 1 + i PROVE y \in Range(s)
      BY <1>3, <1>4, <3>1, <3>3 DEF Range
    <3>4. QED
      BY <1>3, <3>2, <3>3
  <2>2. ASSUME y = x PROVE y \in Range(t)
    BY <1>3, <1>4, <2>2 DEF Range
  <2>3. ASSUME y \in Range(s) PROVE y \in Range(t)
    <3>1. PICK i \in 1 .. Len(s) : y = s[i]
      BY <1>4, <2>3 DEF Range
    <3>2. QED
      BY <1>3, <1>4, <3>1 DEF Range
  <2>4. QED
    BY <2>1, <2>2, <2>3
<1>6. ASSUME x \notin Range(s), IsInjective(s) PROVE IsInjective(t)
  <2>1. \A i \in 1 .. Len(s) : s[i] # x
    BY <1>4, <1>6 DEF Range
  <2>2. \A i, j \in 1 .. Len(s) : s[i] = s[j] => i = j
    BY <1>4, <1>6 DEF IsInjective
  <2>3. ASSUME NEW a \in 1 .. Len(t), NEW b \in 1 .. Len(t), t[a] = t[b] PROVE a = b
    <3>1. CASE a = 1 \/ b = 1
      <4>1. ASSUME NEW c \in 1 .. Len(t), t[c] = x PROVE c = 1
        <5>1. SUFFICES ASSUME c # 1 PROVE FALSE
          OBVIOUS
        <5>2. PICK i \in 1 .. Len(s) : c = 1 + i
          BY <1>3, <5>1
        <5>3. s[i] = x
          BY <1>3, <4>1, <5>2
        <5>4. QED
          BY <2>1, <5>3
      <4>2. t[a] = x /\ t[b] = x
        BY <1>3, <2>3, <3>1
      <4>3. QED
        BY <4>1, <4>2
    <3>2. CASE a # 1 /\ b # 1
      <4>1. PICK i \in 1 .. Len(s) : a = 1 + i
        BY <1>3, <3>2
      <4>2. PICK j \in 1 .. Len(s) : b = 1 + j
        BY <1>3, <3>2
      <4>3. s[i] = s[j]
        BY <1>3, <2>3, <4>1, <4>2
      <4>4. QED
        BY <2>2, <4>1, <4>2, <4>3
    <3>3. QED
      BY <3>1, <3>2
  <2>4. QED
    BY <1>4, <2>3 DEF IsInjective
<1>7. QED
  BY <1>2, <1>5, <1>6 DEF t, one

\* A node has walked itself and below, when each of its children has.
LEMMA WalkedFromTheChildren ==
  ASSUME NEW root, IsDocument(root), NEW p \in DOMAIN root,
         \A i \in 1 .. root[p].size : Walked(root, Append(p, i))
  PROVE  Walked(root, p)
<1> DEFINE T == DOMAIN root
           w == Walk(root)
           parts == [i \in 1 .. root[p].size |-> w[Append(p, i)]]
           flat == FlattenSeq(parts)
<1>1. w[p] = <<p>> \o flat
  BY WalkIsDefined
<1>2. root[p].size \in Nat /\ p \in Seq(Nat)
  BY PathsAre
<1>3. \A i \in 1 .. root[p].size : /\ w[Append(p, i)] \in Seq(T) /\ IsInjective(w[Append(p, i)])
                                   /\ \A q : q \in Range(w[Append(p, i)]) <=> q \in T /\ IsPrefix(Append(p, i), q)
  BY DEF Walked
<1> HIDE DEF w
<1>4. parts \in Seq(Seq(T)) /\ DOMAIN parts = 1 .. root[p].size
  BY <1>2, <1>3
<1>5. \A i \in DOMAIN parts : parts[i] = w[Append(p, i)]
  OBVIOUS
<1> HIDE DEF parts, T
<1>6. flat \in Seq(T) /\ \A x : x \in Range(flat) <=> \E i \in DOMAIN parts : x \in Range(parts[i])
  BY <1>4, FlatHoldsTheParts
<1>7. \A x : x \in Range(flat) <=> x \in T /\ \E i \in 1 .. root[p].size : IsPrefix(Append(p, i), x)
  BY <1>3, <1>4, <1>5, <1>6
<1>8. \A i, j \in DOMAIN parts : \A x : x \in Range(parts[i]) /\ x \in Range(parts[j]) => i = j
  <2>1. SUFFICES ASSUME NEW i \in DOMAIN parts, NEW j \in DOMAIN parts, NEW x,
                        x \in Range(parts[i]), x \in Range(parts[j])
                 PROVE  i = j
    OBVIOUS
  <2>2. x \in DOMAIN root /\ IsPrefix(Append(p, i), x) /\ IsPrefix(Append(p, j), x)
    BY <1>3, <1>4, <1>5, <2>1 DEF T
  <2>3. x[Len(p) + 1] = i
    BY <1>4, <2>2, BelowAChild
  <2>4. x[Len(p) + 1] = j
    BY <1>4, <2>2, BelowAChild
  <2>5. QED
    BY <2>3, <2>4
<1>9. IsInjective(flat)
  BY <1>3, <1>4, <1>5, <1>8, FlatIsInjective
<1> HIDE DEF flat
<1>10. p \in T
  BY DEF T
<1>11. p \notin Range(flat)
  <2>1. ASSUME NEW i \in 1 .. root[p].size, IsPrefix(Append(p, i), p) PROVE FALSE
    BY <2>1, BelowAChild
  <2>2. QED
    BY <1>7, <2>1
<1>12. /\ w[p] \in Seq(T) /\ IsInjective(w[p])
       /\ \A y : y \in Range(w[p]) <=> y = p \/ y \in Range(flat)
  BY <1>1, <1>6, <1>9, <1>10, <1>11, Prepended
<1>13. ASSUME NEW q PROVE q \in Range(w[p]) <=> q \in DOMAIN root /\ IsPrefix(p, q)
  <2>1. IsPrefix(p, p)
    BY <1>2, PrefixIs
  <2>2. ASSUME NEW i \in 1 .. root[p].size, q \in DOMAIN root, IsPrefix(Append(p, i), q)
        PROVE  IsPrefix(p, q)
    BY <2>2, BelowAChild
  <2>3. ASSUME q \in DOMAIN root, IsPrefix(p, q), q # p
        PROVE  \E i \in 1 .. root[p].size : IsPrefix(Append(p, i), q)
    BY <2>3, TheWayDown
  <2>4. QED
    BY <1>7, <1>12, <2>1, <2>2, <2>3 DEF T
<1>14. QED
  BY <1>12, <1>13 DEF Walked, w, T

\* From every node walk visits the node and what is below it, and nothing twice.
LEMMA EveryNodeIsWalked ==
  ASSUME NEW root, IsDocument(root)
  PROVE  \A p \in DOMAIN root : Walked(root, p)
<1>1. PICK deepest \in Nat : \A p \in DOMAIN root : Len(p) <= deepest
  BY PathsAre
<1> DEFINE S == {n \in Nat : \E p \in DOMAIN root : Len(p) = deepest - n /\ ~Walked(root, p)}
<1>2. S = {}
  <2>1. SUFFICES ASSUME S # {} PROVE FALSE
    OBVIOUS
  <2>2. PICK n \in S : \A h \in S : n <= h
    BY <2>1, LeastNumber
  <2>3. PICK p \in DOMAIN root : Len(p) = deepest - n /\ ~Walked(root, p)
    OBVIOUS
  <2>4. ASSUME NEW i \in 1 .. root[p].size PROVE Walked(root, Append(p, i))
    <3>1. Append(p, i) \in DOMAIN root /\ Len(Append(p, i)) = Len(p) + 1 /\ Len(p) \in Nat
      BY ChildrenAre, PathsAre
    <3>2. Len(Append(p, i)) <= deepest
      BY <1>1, <3>1
    <3>3. n \in Nat /\ n - 1 \in Nat /\ Len(Append(p, i)) = deepest - (n - 1) /\ ~(n <= n - 1)
      BY <2>3, <3>1, <3>2
    <3>4. n - 1 \notin S
      BY <2>2, <3>3
    <3>5. QED
      BY <3>1, <3>3, <3>4
  <2>5. Walked(root, p)
    BY <2>4, WalkedFromTheChildren
  <2>6. QED
    BY <2>3, <2>5
<1>3. ASSUME NEW p \in DOMAIN root PROVE Walked(root, p)
  <2>1. Len(p) \in Nat /\ Len(p) <= deepest
    BY <1>1, PathsAre
  <2>2. deepest - Len(p) \in Nat /\ Len(p) = deepest - (deepest - Len(p))
    BY <2>1
  <2>3. QED
    BY <1>2, <2>2
<1>4. QED
  BY <1>3

-------------------------------------------------------------------------------
(* Slices *)

\* The larger of two numbers.
LEMMA LargerOf ==
  ASSUME NEW a \in Int, NEW b \in Int
  PROVE  Max({a, b}) \in Int /\ Max({a, b}) = IF a < b THEN b ELSE a
<1> DEFINE m == IF a < b THEN b ELSE a
<1>1. m \in {a, b} /\ \A y \in {a, b} : m >= y
  OBVIOUS
<1>2. \A x \in {a, b} : (\A y \in {a, b} : x >= y) => x = m
  OBVIOUS
<1> HIDE DEF m
<1>3. Max({a, b}) = m
  BY <1>1, <1>2 DEF Max
<1>4. QED
  BY <1>3 DEF m

\* The smaller of two numbers.
LEMMA SmallerOf ==
  ASSUME NEW a \in Int, NEW b \in Int
  PROVE  Min({a, b}) \in Int /\ Min({a, b}) = IF a < b THEN a ELSE b
<1> DEFINE m == IF a < b THEN a ELSE b
<1>1. m \in {a, b} /\ \A y \in {a, b} : m =< y
  OBVIOUS
<1>2. \A x \in {a, b} : (\A y \in {a, b} : x =< y) => x = m
  OBVIOUS
<1> HIDE DEF m
<1>3. Min({a, b}) = m
  BY <1>1, <1>2 DEF Min
<1>4. QED
  BY <1>3 DEF m

\* Multiples of a positive step are in the order of what is multiplied.
LEMMA TimesStep ==
  ASSUME NEW d \in Nat \ {0}, NEW x \in Int, NEW y \in Int
  PROVE  /\ x * d \in Int /\ (x - y) * d = x * d - y * d /\ (-x) * d = -(x * d)
         /\ x <= y <=> x * d <= y * d
         /\ x >= 0 => x <= x * d
<1>1. x * d \in Int /\ y * d \in Int /\ (x - y) * d = x * d - y * d /\ (-x) * d = -(x * d)
  OBVIOUS
<1>2. ASSUME x <= y PROVE x * d <= y * d
  <2>1. y - x \in Nat
    BY <1>2
  <2>2. (y - x) * d \in Nat /\ (y - x) * d = y * d - x * d
    BY <2>1
  <2>3. QED
    BY <1>1, <2>2
<1>3. ASSUME ~(x <= y) PROVE ~(x * d <= y * d)
  <2>1. x - y \in Nat /\ x - y >= 1
    BY <1>3
  <2>2. (x - y) * d >= 1 * d
    <3> DEFINE e == x - y
    <3>1. e - 1 \in Nat
      BY <2>1
    <3> HIDE DEF e
    <3>2. (e - 1) * d \in Nat
      BY <3>1
    <3>3. e \in Int /\ (e - 1) * d = e * d - d
      BY <3>1, <2>1 DEF e
    <3>4. QED
      BY <3>2, <3>3 DEF e
  <2>3. x * d - y * d >= d
    BY <1>1, <2>2
  <2>4. QED
    BY <1>1, <2>3
<1>4. ASSUME x >= 0 PROVE x <= x * d
  <2>1. x \in Nat /\ d - 1 \in Nat
    BY <1>4
  <2>2. x * (d - 1) \in Nat
    BY <2>1
  <2>3. x * (d - 1) = x * d - x
    OBVIOUS
  <2>4. QED
    BY <1>1, <2>2, <2>3
<1>5. QED
  BY <1>1, <1>2, <1>3, <1>4

\* Rounding up counts the steps that stay below a.
LEMMA RoundedUp ==
  ASSUME NEW a \in Int, NEW d \in Nat \ {0}
  PROVE  /\ (a + d - 1) \div d \in Int
         /\ \A m \in Int : m <= (a + d - 1) \div d <=> (m - 1) * d < a
<1> DEFINE b == a + d - 1
           q == b \div d
<1>1. b \in Int
  OBVIOUS
<1> HIDE DEF b
<1>2. q \in Int /\ q * d <= b /\ b < (q + 1) * d
  BY <1>1
<1> HIDE DEF q
<1>3. q * d \in Int /\ (q + 1) * d = q * d + d
  BY <1>2
<1>4. q * d <= a + d - 1 /\ a + d - 1 < q * d + d
  BY <1>2, <1>3 DEF b
<1>5. ASSUME NEW m \in Int PROVE m <= q <=> (m - 1) * d < a
  <2>1. (m - 1) * d \in Int /\ m * d \in Int /\ (m - 1) * d = m * d - d
    OBVIOUS
  <2>2. m <= q <=> m * d <= q * d
    BY <1>2, TimesStep
  <2>3. CASE m <= q
    BY <1>3, <1>4, <2>1, <2>2, <2>3
  <2>4. CASE ~(m <= q)
    <3>1. q + 1 <= m /\ q + 1 \in Int
      BY <1>2, <2>4
    <3>2. (q + 1) * d <= m * d
      BY <3>1, TimesStep
    <3>3. QED
      BY <1>3, <1>4, <2>1, <2>4, <3>2
  <2>5. QED
    BY <2>3, <2>4
<1>6. QED
  BY <1>2, <1>5 DEF q, b

\* The indexes in a slice of an array with `size` elements.
InSlice(segment, size, x) ==
  \E n \in 0 .. size :
    LET Wrap(k) == IF k < 0 THEN k + size ELSE k
        up == segment.step > 0
        default == IF up THEN 0 ELSE size - 1
        start == IF segment.start = <<>> THEN default ELSE Wrap(segment.start[1])
        first == IF up /\ start < 0 THEN 0
                 ELSE IF ~up /\ start >= size THEN size - 1 ELSE start
    IN /\ x = first + n * segment.step
       /\ segment.step # 0
       /\ segment.end # <<>> =>
            IF up THEN x < Wrap(segment.end[1]) ELSE x > Wrap(segment.end[1])

\* The slices there are.
Slices == [kind : {"slice"}, start : Seq(Int), end : Seq(Int), step : Int]

\* A slice with a positive step visits the indexes it means, none twice.
LEMMA SliceUp ==
  ASSUME NEW segment \in Slices, segment.step > 0, NEW length \in Nat
  PROVE  LET indexes == SliceIndexes(segment, length)
         IN /\ indexes \in Seq(Int) /\ IsInjective(indexes)
            /\ \A x \in Int : x \in Range(indexes) <=> x \in 0 .. length - 1 /\ InSlice(segment, length, x)
<1> DEFINE d == segment.step
           start == IF segment.start = <<>> THEN 0
                    ELSE IF segment.start[1] < 0 THEN segment.start[1] + length ELSE segment.start[1]
           end == IF segment.end = <<>> THEN length
                  ELSE IF segment.end[1] < 0 THEN segment.end[1] + length ELSE segment.end[1]
           first == Max({start, 0})
           last == Min({end, length})
           count == (last - first + d - 1) \div d
           indexes == SliceIndexes(segment, length)
<1>1. d \in Nat \ {0} /\ d \in Int /\ d # 0
  BY DEF Slices
<1>2. start \in Int /\ end \in Int
  <2>1. segment.start \in Seq(Int) /\ segment.end \in Seq(Int)
    BY DEF Slices
  <2>2. /\ segment.start # <<>> => segment.start[1] \in Int
        /\ segment.end # <<>> => segment.end[1] \in Int
    BY <2>1
  <2>3. QED
    BY <2>2
<1>3. indexes = [n \in 1 .. count |-> first + (n - 1) * d]
  BY <1>1 DEF SliceIndexes
<1>4. first \in Int /\ first = IF start < 0 THEN 0 ELSE start
  BY <1>2, LargerOf
<1>5. last \in Int /\ last = IF end < length THEN end ELSE length
  BY <1>2, SmallerOf
<1>6. ASSUME NEW x \in Int
      PROVE  InSlice(segment, length, x) <=>
               \E n \in 0 .. length : x = first + n * d /\ (segment.end # <<>> => x < end)
  BY <1>1, <1>4 DEF InSlice
<1>7. segment.end = <<>> => end = length
  OBVIOUS
<1> HIDE DEF d, start, end, indexes
<1> HIDE DEF first, last
<1> DEFINE a == last - first
<1>8. a \in Int /\ count = (a + d - 1) \div d
  BY <1>1, <1>4, <1>5
<1>9. count \in Int /\ \A m \in Int : m <= count <=> (m - 1) * d < a
  BY <1>1, <1>8, RoundedUp
<1> HIDE DEF count
<1>10. \A n \in Int : n * d \in Int /\ n - 1 \in Int
  BY <1>1
<1>11. indexes \in Seq(Int) /\ DOMAIN indexes = 1 .. count
  <2>1. \A n \in 1 .. count : first + (n - 1) * d \in Int
    BY <1>4, <1>9, <1>10
  <2>2. CASE count \in Nat
    BY <1>3, <2>1, <2>2
  <2>3. CASE count \notin Nat
    <3>1. 1 .. count = {}
      BY <1>9, <2>3
    <3>2. indexes = <<>>
      BY <1>3, <3>1
    <3>3. QED
      BY <3>1, <3>2
  <2>4. QED
    BY <2>2, <2>3
<1>12. IsInjective(indexes)
  <2>1. SUFFICES ASSUME NEW m \in 1 .. count, NEW n \in 1 .. count, indexes[m] = indexes[n]
                 PROVE  m = n
    BY <1>11 DEF IsInjective
  <2>2. first + (m - 1) * d = first + (n - 1) * d
    BY <1>3, <2>1
  <2>3. m \in Int /\ n \in Int /\ m - 1 \in Int /\ n - 1 \in Int
    BY <1>9
  <2>4. (m - 1) * d = (n - 1) * d
    BY <1>4, <1>10, <2>2, <2>3
  <2>5. m - 1 <= n - 1 /\ n - 1 <= m - 1
    BY <1>1, <1>10, <2>3, <2>4, TimesStep
  <2>6. QED
    BY <2>3, <2>5
<1>13. ASSUME NEW x \in Int, x \in Range(indexes)
       PROVE  x \in 0 .. length - 1 /\ InSlice(segment, length, x)
  <2>1. PICK m \in 1 .. count : x = first + (m - 1) * d
    BY <1>3, <1>11, <1>13 DEF Range
  <2> DEFINE n == m - 1
  <2>2. m \in Int /\ n \in Int /\ n >= 0 /\ m <= count
    BY <1>9
  <2>3. n * d < a
    BY <1>9, <2>2
  <2> HIDE DEF n
  <2>4. n <= n * d /\ n * d \in Int
    BY <1>1, <2>2, TimesStep
  <2>5. x = first + n * d
    BY <2>1 DEF n
  <2>6. x < last /\ x >= n /\ x >= 0
    BY <1>4, <1>5, <2>2, <2>3, <2>4, <2>5
  <2>7. x < length /\ x < end
    BY <1>2, <1>5, <2>6
  <2>8. n \in 0 .. length /\ x \in 0 .. length - 1
    BY <2>2, <2>6, <2>7
  <2>9. QED
    BY <1>6, <2>5, <2>7, <2>8
<1>14. ASSUME NEW x \in Int, x \in 0 .. length - 1, InSlice(segment, length, x)
       PROVE  x \in Range(indexes)
  <2>1. PICK n \in 0 .. length : x = first + n * d /\ (segment.end # <<>> => x < end)
    BY <1>6, <1>14
  <2>2. x < length /\ x < end
    BY <1>7, <1>14, <2>1
  <2>3. x < last
    BY <1>5, <2>2
  <2>4. n \in Int /\ n * d \in Int
    BY <1>10
  <2>5. n * d < a
    BY <1>4, <1>5, <2>1, <2>3, <2>4
  <2>6. n + 1 \in Int /\ (n + 1) - 1 = n
    BY <2>4
  <2>7. n + 1 <= count
    BY <1>9, <2>5, <2>6
  <2>8. n + 1 \in 1 .. count
    BY <1>9, <2>7
  <2>9. indexes[n + 1] = x
    BY <1>3, <2>1, <2>6, <2>8
  <2>10. QED
    BY <1>11, <2>8, <2>9 DEF Range
<1>15. QED
  BY <1>11, <1>12, <1>13, <1>14 DEF indexes

\* So does a slice with a negative step.
LEMMA SliceDown ==
  ASSUME NEW segment \in Slices, segment.step < 0, NEW length \in Nat
  PROVE  LET indexes == SliceIndexes(segment, length)
         IN /\ indexes \in Seq(Int) /\ IsInjective(indexes)
            /\ \A x \in Int : x \in Range(indexes) <=> x \in 0 .. length - 1 /\ InSlice(segment, length, x)
<1> DEFINE step == segment.step
           d == -step
           start == IF segment.start = <<>> THEN length - 1
                    ELSE IF segment.start[1] < 0 THEN segment.start[1] + length ELSE segment.start[1]
           end == IF segment.end = <<>> THEN -length - 1
                  ELSE IF segment.end[1] < 0 THEN segment.end[1] + length ELSE segment.end[1]
           first == Min({start, length - 1})
           last == Max({end, -1})
           count == (first - last - step - 1) \div (-step)
           indexes == SliceIndexes(segment, length)
<1>1. d \in Nat \ {0} /\ step \in Int /\ step # 0 /\ ~(step > 0) /\ step = -d
  BY DEF Slices
<1>2. start \in Int /\ end \in Int /\ length - 1 \in Int
  <2>1. segment.start \in Seq(Int) /\ segment.end \in Seq(Int)
    BY DEF Slices
  <2>2. /\ segment.start # <<>> => segment.start[1] \in Int
        /\ segment.end # <<>> => segment.end[1] \in Int
    BY <2>1
  <2>3. QED
    BY <2>2
<1>3. indexes = [n \in 1 .. count |-> first + (n - 1) * step]
  BY <1>1 DEF SliceIndexes
<1>4. first \in Int /\ first = IF start >= length THEN length - 1 ELSE start
  <2>1. first \in Int /\ first = IF start < length - 1 THEN start ELSE length - 1
    BY <1>2, SmallerOf
  <2>2. QED
    BY <1>2, <2>1
<1>5. last \in Int /\ last = IF end < -1 THEN -1 ELSE end
  BY <1>2, LargerOf
<1>6. ASSUME NEW x \in Int
      PROVE  InSlice(segment, length, x) <=>
               \E n \in 0 .. length : x = first + n * step /\ (segment.end # <<>> => x > end)
  BY <1>1, <1>4 DEF InSlice
<1>7. segment.end = <<>> => end < -1 \/ length = 0
  OBVIOUS
<1> HIDE DEF step, start, end, indexes
<1> HIDE DEF first, last
<1> DEFINE a == first - last
<1>8. a \in Int /\ count = (a + d - 1) \div d
  <2>1. a \in Int /\ first - last - step - 1 = a + d - 1
    BY <1>1, <1>4, <1>5
  <2>2. QED
    BY <2>1
<1> HIDE DEF d
<1>9. count \in Int /\ \A m \in Int : m <= count <=> (m - 1) * d < a
  BY <1>1, <1>8, RoundedUp
<1> HIDE DEF count
<1>10. \A n \in Int : n * d \in Int /\ n - 1 \in Int /\ n * step = -(n * d)
  BY <1>1
<1>11. indexes \in Seq(Int) /\ DOMAIN indexes = 1 .. count
  <2>1. \A n \in 1 .. count : first + (n - 1) * step \in Int
    BY <1>1, <1>4, <1>9, <1>10
  <2>2. CASE count \in Nat
    BY <1>3, <2>1, <2>2
  <2>3. CASE count \notin Nat
    <3>1. 1 .. count = {}
      BY <1>9, <2>3
    <3>2. indexes = <<>>
      BY <1>3, <3>1
    <3>3. QED
      BY <3>1, <3>2
  <2>4. QED
    BY <2>2, <2>3
<1>12. IsInjective(indexes)
  <2>1. SUFFICES ASSUME NEW m \in 1 .. count, NEW n \in 1 .. count, indexes[m] = indexes[n]
                 PROVE  m = n
    BY <1>11 DEF IsInjective
  <2>2. first + (m - 1) * step = first + (n - 1) * step
    BY <1>3, <2>1
  <2>3. m \in Int /\ n \in Int /\ m - 1 \in Int /\ n - 1 \in Int
    BY <1>9
  <2>4. (m - 1) * d = (n - 1) * d
    BY <1>4, <1>10, <2>2, <2>3
  <2>5. m - 1 <= n - 1 /\ n - 1 <= m - 1
    BY <1>1, <1>10, <2>3, <2>4, TimesStep
  <2>6. QED
    BY <2>3, <2>5
<1>13. ASSUME NEW x \in Int, x \in Range(indexes)
       PROVE  x \in 0 .. length - 1 /\ InSlice(segment, length, x)
  <2>1. PICK m \in 1 .. count : x = first + (m - 1) * step
    BY <1>3, <1>11, <1>13 DEF Range
  <2> DEFINE n == m - 1
  <2>2. m \in Int /\ n \in Int /\ n >= 0 /\ m <= count
    BY <1>9
  <2>3. n * d < a
    BY <1>9, <2>2
  <2> HIDE DEF n
  <2>4. n <= n * d /\ n * d \in Int
    BY <1>1, <2>2, TimesStep
  <2>5. x = first + n * step /\ n * step = -(n * d)
    BY <1>10, <2>1, <2>2 DEF n
  <2>6. x > last /\ x <= first - n
    BY <1>4, <1>5, <2>2, <2>3, <2>4, <2>5
  <2>7. x > -1 /\ x > end
    BY <1>2, <1>5, <2>6
  <2>8. first <= length - 1
    BY <1>2, <1>4
  <2>9. n \in 0 .. length /\ x \in 0 .. length - 1
    BY <1>4, <2>2, <2>6, <2>7, <2>8
  <2>10. QED
    BY <1>6, <2>5, <2>7, <2>9
<1>14. ASSUME NEW x \in Int, x \in 0 .. length - 1, InSlice(segment, length, x)
       PROVE  x \in Range(indexes)
  <2>1. PICK n \in 0 .. length : x = first + n * step /\ (segment.end # <<>> => x > end)
    BY <1>6, <1>14
  <2>2. x > -1 /\ x > end
    BY <1>2, <1>7, <1>14, <2>1
  <2>3. x > last
    BY <1>2, <1>5, <2>2
  <2>4. n \in Int /\ n * d \in Int /\ n * step = -(n * d)
    BY <1>10
  <2>5. n * d < a
    BY <1>4, <1>5, <2>1, <2>3, <2>4
  <2>6. n + 1 \in Int /\ (n + 1) - 1 = n
    BY <2>4
  <2>7. n + 1 <= count
    BY <1>9, <2>5, <2>6
  <2>8. n + 1 \in 1 .. count
    BY <1>9, <2>7
  <2>9. indexes[n + 1] = x
    BY <1>3, <2>1, <2>6, <2>8
  <2>10. QED
    BY <1>11, <2>8, <2>9 DEF Range
<1>15. QED
  BY <1>11, <1>12, <1>13, <1>14 DEF indexes

\* So does every slice: one whose step is 0 means no index.
LEMMA SliceIs ==
  ASSUME NEW segment \in Slices, NEW length \in Nat
  PROVE  LET indexes == SliceIndexes(segment, length)
         IN /\ indexes \in Seq(Int) /\ IsInjective(indexes)
            /\ \A x \in Int : x \in Range(indexes) <=> x \in 0 .. length - 1 /\ InSlice(segment, length, x)
<1>1. segment.step \in Int
  BY DEF Slices
<1>2. CASE segment.step > 0
  BY <1>2, SliceUp
<1>3. CASE segment.step < 0
  BY <1>3, SliceDown
<1>4. CASE segment.step = 0
  <2>1. SliceIndexes(segment, length) = <<>>
    BY <1>4 DEF SliceIndexes
  <2>2. \A x : ~InSlice(segment, length, x)
    BY <1>4 DEF InSlice
  <2>3. DOMAIN <<>> = {} /\ <<>> \in Seq(Int)
    OBVIOUS
  <2>4. IsInjective(<<>>) /\ \A x : x \notin Range(<<>>)
    BY <2>3 DEF IsInjective, Range
  <2>5. QED
    BY <2>1, <2>2, <2>3, <2>4
<1>5. QED
  BY <1>1, <1>2, <1>3, <1>4

-------------------------------------------------------------------------------
(* What a segment leads to *)

\* What a sequence of one item holds, and what the empty one does.
LEMMA OneAndNone ==
  ASSUME NEW T
  PROVE  /\ \A x \in T : /\ <<x>> \in Seq(T) /\ IsInjective(<<x>>)
                         /\ \A y : y \in Range(<<x>>) <=> y = x
         /\ <<>> \in Seq(T) /\ IsInjective(<<>>) /\ \A y : y \notin Range(<<>>)
<1>1. ASSUME NEW x \in T PROVE /\ <<x>> \in Seq(T) /\ IsInjective(<<x>>)
                               /\ \A y : y \in Range(<<x>>) <=> y = x
  <2> DEFINE one == <<x>>
  <2>1. one \in Seq(T) /\ DOMAIN one = {1} /\ one[1] = x
    OBVIOUS
  <2> HIDE DEF one
  <2>2. IsInjective(one) /\ \A y : y \in Range(one) <=> y = x
    BY <2>1 DEF IsInjective, Range
  <2>3. QED
    BY <2>1, <2>2 DEF one
<1>2. <<>> \in Seq(T) /\ DOMAIN <<>> = {}
  OBVIOUS
<1>3. IsInjective(<<>>) /\ \A y : y \notin Range(<<>>)
  BY <1>2 DEF IsInjective, Range
<1>4. QED
  BY <1>1, <1>2, <1>3

\* The node at q is a child of the one at p.
ChildOf(p, q) == q # <<>> /\ Front(q) = p

\* A child of a node is one of its positions.
LEMMA ChildrenOf ==
  ASSUME NEW root, IsDocument(root), NEW p \in DOMAIN root
  PROVE  /\ \A i \in 1 .. root[p].size : /\ Append(p, i) \in DOMAIN root /\ ChildOf(p, Append(p, i))
                                         /\ Last(Append(p, i)) = i
         /\ \A q \in DOMAIN root : ChildOf(p, q) =>
              Last(q) \in 1 .. root[p].size /\ q = Append(p, Last(q))
  BY ChildrenAre, ParentIs DEF ChildOf

\* The member with a name.
Named(root, p, name) == If(HasOwn(root[p], name), Append(p, PositionOf(root[p], name)))

\* The child under a name is the only one that has this name.
LEMMA NamedIs ==
  ASSUME NEW root, IsDocument(root), NEW p \in DOMAIN root, NEW name
  PROVE  /\ Named(root, p, name) \in Seq(DOMAIN root) /\ IsInjective(Named(root, p, name))
         /\ \A q : q \in Range(Named(root, p, name)) <=>
              /\ q \in DOMAIN root /\ ChildOf(p, q)
              /\ root[p].type = "object" /\ root[p].keys[Last(q)] = name
<1> DEFINE node == root[p]
           T == DOMAIN root
<1>1. /\ node.size \in Nat /\ node.keys \in Seq(STRING)
      /\ node.type = "object" => Len(node.keys) = node.size /\ IsInjective(node.keys)
  BY DEF IsDocument
<1>2. DOMAIN node.keys = 1 .. Len(node.keys)
  BY <1>1
<1>3. /\ \A i \in 1 .. node.size : /\ Append(p, i) \in T /\ ChildOf(p, Append(p, i))
                                   /\ Last(Append(p, i)) = i
      /\ \A q \in T : ChildOf(p, q) => Last(q) \in 1 .. node.size /\ q = Append(p, Last(q))
  BY ChildrenOf
<1>4. Named(root, p, name) = If(HasOwn(node, name), Append(p, PositionOf(node, name)))
  BY DEF Named
<1> HIDE DEF node, T
<1>5. CASE HasOwn(node, name)
  <2> DEFINE i == PositionOf(node, name)
  <2>1. node.type = "object" /\ i \in DOMAIN node.keys /\ node.keys[i] = name
    BY <1>5 DEF HasOwn, PositionOf
  <2> HIDE DEF i
  <2>2. i \in 1 .. node.size /\ \A j \in 1 .. node.size : node.keys[j] = name => j = i
    BY <1>1, <1>2, <2>1 DEF IsInjective
  <2>3. Named(root, p, name) = <<Append(p, i)>>
    BY <1>4, <1>5 DEF If, i
  <2>4. Append(p, i) \in T /\ ChildOf(p, Append(p, i)) /\ Last(Append(p, i)) = i
    BY <1>3, <2>2
  <2>5. /\ <<Append(p, i)>> \in Seq(T) /\ IsInjective(<<Append(p, i)>>)
        /\ \A y : y \in Range(<<Append(p, i)>>) <=> y = Append(p, i)
    BY <2>4, OneAndNone
  <2>6. ASSUME NEW q
        PROVE  q = Append(p, i) <=>
                 q \in T /\ ChildOf(p, q) /\ node.type = "object" /\ node.keys[Last(q)] = name
    BY <1>3, <2>1, <2>2, <2>4
  <2>7. QED
    BY <2>3, <2>5, <2>6 DEF node, T
<1>6. CASE ~HasOwn(node, name)
  <2>1. Named(root, p, name) = <<>>
    BY <1>4, <1>6 DEF If
  <2>2. \A i \in 1 .. node.size : ~(node.type = "object" /\ node.keys[i] = name)
    BY <1>1, <1>2, <1>6 DEF HasOwn
  <2>3. \A q : ~(q \in T /\ ChildOf(p, q) /\ node.type = "object" /\ node.keys[Last(q)] = name)
    BY <1>3, <2>2
  <2>4. QED
    BY <2>1, <2>3, OneAndNone DEF node, T
<1>7. QED
  BY <1>5, <1>6

\* A segment that does not lead to a node in two ways.
Once(segment) ==
  /\ segment.kind = "index" => Len(segment.indexes) = 1
  /\ segment.kind = "child" => IsInjective(segment.names)

\* The segment finds what it leads to.
Applies(segment, p) ==
  LET matches == ApplySegment(segment, document, p)
  IN /\ matches \in Seq(DOMAIN document)
     /\ \A q : q \in Range(matches) <=> q \in DOMAIN document /\ Leads(segment, p, q)
     /\ Once(segment) => IsInjective(matches)

\* applySegment on a child segment: the children with one of its names.
LEMMA ChildApplies ==
  ASSUME IsDocument(document), NEW p \in DOMAIN document,
         NEW segment \in [kind : {"child"}, names : Seq(STRING)]
  PROVE  Applies(segment, p)
<1> DEFINE T == DOMAIN document
           node == document[p]
           names == segment.names
           parts == [i \in DOMAIN names |-> Named(document, p, names[i])]
           matches == FlattenSeq(parts)
<1>1. names \in Seq(STRING) /\ segment.kind = "child"
  OBVIOUS
<1>2. ApplySegment(segment, document, p) = matches
  BY <1>1 DEF ApplySegment, Named
<1>3. ASSUME NEW q
      PROVE  Leads(segment, p, q) <=>
               /\ ChildOf(p, q) /\ node.type = "object"
               /\ \E i \in DOMAIN names : names[i] = node.keys[Last(q)]
  BY <1>1 DEF Leads, ChildOf
<1>4. \A i \in DOMAIN names :
        /\ Named(document, p, names[i]) \in Seq(T) /\ IsInjective(Named(document, p, names[i]))
        /\ \A q : q \in Range(Named(document, p, names[i])) <=>
             q \in T /\ ChildOf(p, q) /\ node.type = "object" /\ node.keys[Last(q)] = names[i]
  BY NamedIs
<1>5. DOMAIN names = 1 .. Len(names) /\ Len(names) \in Nat
  BY <1>1
<1>6. Once(segment) => IsInjective(names)
  BY <1>1 DEF Once
<1> HIDE DEF T, node, names
<1>7. parts \in Seq(Seq(T)) /\ DOMAIN parts = DOMAIN names
  BY <1>4, <1>5
<1>8. \A i \in DOMAIN parts : parts[i] = Named(document, p, names[i])
  OBVIOUS
<1> HIDE DEF parts
<1>9. matches \in Seq(T) /\ \A q : q \in Range(matches) <=> \E i \in DOMAIN parts : q \in Range(parts[i])
  BY <1>7, FlatHoldsTheParts
<1>10. ASSUME NEW q PROVE q \in Range(matches) <=> q \in T /\ Leads(segment, p, q)
  <2>1. q \in Range(matches) <=> \E i \in DOMAIN names : q \in Range(Named(document, p, names[i]))
    BY <1>7, <1>8, <1>9
  <2>2. \A i \in DOMAIN names : q \in Range(Named(document, p, names[i])) <=>
          q \in T /\ ChildOf(p, q) /\ node.type = "object" /\ node.keys[Last(q)] = names[i]
    BY <1>4
  <2>3. QED
    BY <1>3, <2>1, <2>2
<1>11. ASSUME Once(segment) PROVE IsInjective(matches)
  <2>1. \A i, j \in DOMAIN names : names[i] = names[j] => i = j
    BY <1>6, <1>11 DEF IsInjective
  <2>2. ASSUME NEW i \in DOMAIN parts, NEW j \in DOMAIN parts, NEW x,
               x \in Range(parts[i]), x \in Range(parts[j])
        PROVE  i = j
    <3>1. /\ x \in Range(Named(document, p, names[i])) /\ x \in Range(Named(document, p, names[j]))
          /\ i \in DOMAIN names /\ j \in DOMAIN names
      BY <1>7, <1>8, <2>2
    <3>2. node.keys[Last(x)] = names[i] /\ node.keys[Last(x)] = names[j]
      BY <1>4, <3>1
    <3>3. QED
      BY <2>1, <3>1, <3>2
  <2>3. QED
    BY <1>4, <1>7, <1>8, <2>2, FlatIsInjective
<1>12. QED
  BY <1>2, <1>9, <1>10, <1>11 DEF Applies, T

\* applySegment on an index segment: the elements at one of its indexes.
LEMMA IndexApplies ==
  ASSUME IsDocument(document), NEW p \in DOMAIN document,
         NEW segment \in [kind : {"index"}, indexes : Seq(Int)]
  PROVE  Applies(segment, p)
<1> DEFINE T == DOMAIN document
           node == document[p]
           indexes == segment.indexes
           Index(i) == IF indexes[i] < 0 THEN node.size + indexes[i] ELSE indexes[i]
           Part(i) == If(node.type = "array" /\ Index(i) \in 0 .. node.size - 1, Append(p, Index(i) + 1))
           parts == [i \in DOMAIN indexes |-> Part(i)]
           matches == FlattenSeq(parts)
<1>1. indexes \in Seq(Int) /\ segment.kind = "index"
  OBVIOUS
<1>2. ApplySegment(segment, document, p) = matches
  BY <1>1 DEF ApplySegment
<1>3. node.size \in Nat
  BY PathsAre
<1>4. /\ \A i \in 1 .. node.size : /\ Append(p, i) \in T /\ ChildOf(p, Append(p, i))
                                   /\ Last(Append(p, i)) = i
      /\ \A q \in T : ChildOf(p, q) => Last(q) \in 1 .. node.size /\ q = Append(p, Last(q))
  BY ChildrenOf
<1>5. DOMAIN indexes = 1 .. Len(indexes) /\ Len(indexes) \in Nat /\ \A i \in DOMAIN indexes : indexes[i] \in Int
  BY <1>1
<1>6. \A i \in DOMAIN indexes : Index(i) = IF indexes[i] < 0 THEN indexes[i] + node.size ELSE indexes[i]
  BY <1>3, <1>5
<1>7. ASSUME NEW q
      PROVE  Leads(segment, p, q) <=>
               /\ ChildOf(p, q) /\ node.type = "array"
               /\ \E i \in DOMAIN indexes : Index(i) = Last(q) - 1
  <2>1. Leads(segment, p, q) <=>
          /\ ChildOf(p, q) /\ node.type = "array"
          /\ \E i \in DOMAIN indexes :
               (IF indexes[i] < 0 THEN indexes[i] + node.size ELSE indexes[i]) = Last(q) - 1
    BY <1>1 DEF Leads, ChildOf
  <2>2. QED
    BY <1>6, <2>1
<1>8. Once(segment) => Len(indexes) = 1
  BY <1>1 DEF Once
<1>9. \A i \in DOMAIN indexes : Index(i) \in Int
  BY <1>3, <1>5
<1>10. \A i \in DOMAIN indexes :
         Part(i) = IF node.type = "array" /\ Index(i) \in 0 .. node.size - 1
                   THEN <<Append(p, Index(i) + 1)>> ELSE <<>>
  BY DEF If
<1> HIDE DEF T, node, indexes, Index, Part
<1>11. ASSUME NEW i \in DOMAIN indexes
       PROVE  /\ Part(i) \in Seq(T) /\ IsInjective(Part(i))
              /\ \A q : q \in Range(Part(i)) <=>
                   q \in T /\ ChildOf(p, q) /\ node.type = "array" /\ Index(i) = Last(q) - 1
  <2>1. CASE node.type = "array" /\ Index(i) \in 0 .. node.size - 1
    <3> DEFINE c == Append(p, Index(i) + 1)
    <3>1. Part(i) = <<c>>
      BY <1>10, <2>1
    <3>2. Index(i) + 1 \in 1 .. node.size
      BY <1>3, <1>9, <2>1
    <3>3. c \in T /\ ChildOf(p, c) /\ Last(c) = Index(i) + 1
      BY <1>4, <3>2
    <3> HIDE DEF c
    <3>4. <<c>> \in Seq(T) /\ IsInjective(<<c>>) /\ \A q : q \in Range(<<c>>) <=> q = c
      BY <3>3, OneAndNone
    <3>5. ASSUME NEW q, q \in T, ChildOf(p, q), Index(i) = Last(q) - 1 PROVE q = c
      <4>1. Last(q) \in Nat /\ q = Append(p, Last(q))
        BY <1>3, <1>4, <3>5
      <4>2. Last(q) = Index(i) + 1
        BY <1>9, <3>5, <4>1
      <4>3. QED
        BY <4>1, <4>2 DEF c
    <3>6. Index(i) = Last(c) - 1
      BY <1>9, <3>3
    <3>7. QED
      BY <2>1, <3>1, <3>3, <3>4, <3>5, <3>6
  <2>2. CASE ~(node.type = "array" /\ Index(i) \in 0 .. node.size - 1)
    <3>1. Part(i) = <<>>
      BY <1>10, <2>2
    <3>2. ASSUME NEW q, q \in T, ChildOf(p, q), node.type = "array", Index(i) = Last(q) - 1 PROVE FALSE
      <4>1. Last(q) \in 1 .. node.size
        BY <1>4, <3>2
      <4>2. Index(i) \in 0 .. node.size - 1
        BY <1>3, <3>2, <4>1
      <4>3. QED
        BY <2>2, <3>2, <4>2
    <3>3. QED
      BY <3>1, <3>2, OneAndNone
  <2>3. QED
    BY <2>1, <2>2
<1>12. parts \in Seq(Seq(T)) /\ DOMAIN parts = DOMAIN indexes
  BY <1>5, <1>11
<1>13. \A i \in DOMAIN parts : parts[i] = Part(i)
  OBVIOUS
<1> HIDE DEF parts
<1>14. matches \in Seq(T) /\ \A q : q \in Range(matches) <=> \E i \in DOMAIN parts : q \in Range(parts[i])
  BY <1>12, FlatHoldsTheParts
<1>15. \A q : q \in Range(matches) <=> q \in T /\ Leads(segment, p, q)
  BY <1>7, <1>11, <1>12, <1>13, <1>14
<1>16. ASSUME Once(segment) PROVE IsInjective(matches)
  <2>1. \A i, j \in DOMAIN parts : i = j
    <3>1. DOMAIN parts = 1 .. 1
      BY <1>5, <1>8, <1>12, <1>16
    <3>2. QED
      BY <3>1
  <2>2. \A i \in DOMAIN parts : IsInjective(parts[i])
    BY <1>11, <1>12, <1>13
  <2>3. QED
    BY <1>12, <2>1, <2>2, FlatIsInjective
<1>17. QED
  BY <1>2, <1>14, <1>15, <1>16 DEF Applies, T

\* applySegment on a slice: the elements at the indexes it visits.
LEMMA SliceApplies ==
  ASSUME IsDocument(document), NEW p \in DOMAIN document, NEW segment \in Slices
  PROVE  Applies(segment, p)
<1> DEFINE T == DOMAIN document
           node == document[p]
           indexes == IF node.type = "array" THEN SliceIndexes(segment, node.size) ELSE <<>>
           matches == [i \in DOMAIN indexes |-> Append(p, indexes[i] + 1)]
<1>1. segment.kind = "slice"
  BY DEF Slices
<1>2. ApplySegment(segment, document, p) = matches
  BY <1>1 DEF ApplySegment
<1>3. node.size \in Nat
  BY PathsAre
<1>4. /\ \A i \in 1 .. node.size : /\ Append(p, i) \in T /\ ChildOf(p, Append(p, i))
                                   /\ Last(Append(p, i)) = i
      /\ \A q \in T : ChildOf(p, q) => Last(q) \in 1 .. node.size /\ q = Append(p, Last(q))
  BY ChildrenOf
<1>5. ASSUME NEW q
      PROVE  Leads(segment, p, q) <=>
               ChildOf(p, q) /\ node.type = "array" /\ InSlice(segment, node.size, Last(q) - 1)
  BY <1>1 DEF Leads, ChildOf, InSlice
<1>6. /\ indexes \in Seq(Int) /\ IsInjective(indexes)
      /\ \A x \in Int : x \in Range(indexes) <=>
           node.type = "array" /\ x \in 0 .. node.size - 1 /\ InSlice(segment, node.size, x)
  <2>1. CASE node.type = "array"
    BY <1>3, <2>1, SliceIs
  <2>2. CASE node.type # "array"
    BY <2>2, OneAndNone
  <2>3. QED
    BY <2>1, <2>2
<1> HIDE DEF T, node, indexes
<1>7. DOMAIN indexes = 1 .. Len(indexes) /\ Len(indexes) \in Nat /\ \A i \in DOMAIN indexes : indexes[i] \in Int
  BY <1>6
<1>8. ASSUME NEW i \in DOMAIN indexes
      PROVE  /\ indexes[i] + 1 \in 1 .. node.size /\ node.type = "array"
             /\ InSlice(segment, node.size, indexes[i])
             /\ matches[i] \in T /\ ChildOf(p, matches[i]) /\ Last(matches[i]) = indexes[i] + 1
  <2>1. indexes[i] \in Range(indexes)
    BY DEF Range
  <2>2. indexes[i] \in 0 .. node.size - 1 /\ node.type = "array" /\ InSlice(segment, node.size, indexes[i])
    BY <1>6, <1>7, <2>1
  <2>3. indexes[i] + 1 \in 1 .. node.size
    BY <1>3, <2>2
  <2>4. QED
    BY <1>4, <2>2, <2>3
<1>9. matches \in Seq(T) /\ DOMAIN matches = DOMAIN indexes
  BY <1>7, <1>8
<1>10. IsInjective(matches)
  <2>1. SUFFICES ASSUME NEW i \in DOMAIN indexes, NEW j \in DOMAIN indexes, matches[i] = matches[j]
                 PROVE  i = j
    BY <1>9 DEF IsInjective
  <2>2. indexes[i] + 1 = indexes[j] + 1
    BY <1>8, <2>1
  <2>3. indexes[i] = indexes[j]
    BY <1>7, <2>2
  <2>4. QED
    BY <1>6, <2>3 DEF IsInjective
<1>11. ASSUME NEW q, q \in Range(matches) PROVE q \in T /\ Leads(segment, p, q)
  <2>1. PICK i \in DOMAIN indexes : q = matches[i]
    BY <1>9, <1>11 DEF Range
  <2>2. Last(q) - 1 = indexes[i]
    BY <1>7, <1>8, <2>1
  <2>3. QED
    BY <1>5, <1>8, <2>1, <2>2
<1>12. ASSUME NEW q, q \in T, Leads(segment, p, q) PROVE q \in Range(matches)
  <2>1. ChildOf(p, q) /\ node.type = "array" /\ InSlice(segment, node.size, Last(q) - 1)
    BY <1>5, <1>12
  <2>2. Last(q) \in 1 .. node.size /\ q = Append(p, Last(q))
    BY <1>4, <1>12, <2>1
  <2> DEFINE x == Last(q) - 1
  <2>3. x \in Int /\ x \in 0 .. node.size - 1 /\ x + 1 = Last(q)
    BY <1>3, <2>2
  <2> HIDE DEF x
  <2>4. x \in Range(indexes)
    BY <1>6, <2>1, <2>3 DEF x
  <2>5. PICK i \in DOMAIN indexes : x = indexes[i]
    BY <2>4 DEF Range
  <2>6. matches[i] = q
    BY <2>2, <2>3, <2>5
  <2>7. QED
    BY <1>9, <2>6 DEF Range
<1> HIDE DEF matches
<1>13. QED
  BY <1>2, <1>9, <1>10, <1>11, <1>12 DEF Applies, T

\* applySegment on a wildcard: every child.
LEMMA WildcardApplies ==
  ASSUME IsDocument(document), NEW p \in DOMAIN document, NEW segment, segment.kind = "wildcard"
  PROVE  Applies(segment, p)
<1> DEFINE T == DOMAIN document
           n == document[p].size
           matches == [i \in 1 .. n |-> Append(p, i)]
<1>1. ApplySegment(segment, document, p) = matches
  BY DEF ApplySegment
<1>2. n \in Nat
  BY PathsAre
<1>3. /\ \A i \in 1 .. n : Append(p, i) \in T /\ ChildOf(p, Append(p, i)) /\ Last(Append(p, i)) = i
      /\ \A q \in T : ChildOf(p, q) => Last(q) \in 1 .. n /\ q = Append(p, Last(q))
  BY ChildrenOf
<1>4. ASSUME NEW q PROVE Leads(segment, p, q) <=> ChildOf(p, q)
  BY DEF Leads, ChildOf
<1> HIDE DEF T, n
<1>5. matches \in Seq(T) /\ DOMAIN matches = 1 .. n /\ \A i \in 1 .. n : matches[i] = Append(p, i)
  BY <1>2, <1>3
<1> HIDE DEF matches
<1>6. IsInjective(matches)
  BY <1>3, <1>5 DEF IsInjective
<1>7. \A q : q \in Range(matches) <=> q \in T /\ ChildOf(p, q)
  BY <1>3, <1>5 DEF Range
<1>8. QED
  BY <1>1, <1>4, <1>5, <1>6, <1>7 DEF Applies, T

\* applySegment on a filter: the children that it lets through.
LEMMA FilterApplies ==
  ASSUME IsDocument(document), NEW p \in DOMAIN document, NEW segment, segment.kind = "filter"
  PROVE  Applies(segment, p)
<1> DEFINE T == DOMAIN document
           n == document[p].size
           Part(i) == If(EvaluateFilter(segment, document, Append(p, i)), Append(p, i))
           parts == [i \in 1 .. n |-> Part(i)]
           matches == FlattenSeq(parts)
<1>1. ApplySegment(segment, document, p) = matches
  BY DEF ApplySegment
<1>2. n \in Nat
  BY PathsAre
<1>3. /\ \A i \in 1 .. n : Append(p, i) \in T /\ ChildOf(p, Append(p, i)) /\ Last(Append(p, i)) = i
      /\ \A q \in T : ChildOf(p, q) => Last(q) \in 1 .. n /\ q = Append(p, Last(q))
  BY ChildrenOf
<1>4. ASSUME NEW q PROVE Leads(segment, p, q) <=> ChildOf(p, q) /\ EvaluateFilter(segment, document, q)
  BY DEF Leads, ChildOf
<1>5. \A i : Part(i) = IF EvaluateFilter(segment, document, Append(p, i)) THEN <<Append(p, i)>> ELSE <<>>
  BY DEF If
<1> HIDE DEF T, n, Part
<1>6. ASSUME NEW i \in 1 .. n
      PROVE  /\ Part(i) \in Seq(T) /\ IsInjective(Part(i))
             /\ \A q : q \in Range(Part(i)) <=> q = Append(p, i) /\ EvaluateFilter(segment, document, q)
  <2> DEFINE c == Append(p, i)
  <2>1. c \in T
    BY <1>3
  <2>2. Part(i) = IF EvaluateFilter(segment, document, c) THEN <<c>> ELSE <<>>
    BY <1>5
  <2> HIDE DEF c
  <2>3. CASE EvaluateFilter(segment, document, c)
    <3>1. Part(i) = <<c>>
      BY <2>2, <2>3
    <3>2. <<c>> \in Seq(T) /\ IsInjective(<<c>>) /\ \A q : q \in Range(<<c>>) <=> q = c
      BY <2>1, OneAndNone
    <3>3. QED
      BY <2>3, <3>1, <3>2 DEF c
  <2>4. CASE ~EvaluateFilter(segment, document, c)
    <3>1. Part(i) = <<>>
      BY <2>2, <2>4
    <3>2. QED
      BY <2>4, <3>1, OneAndNone DEF c
  <2>5. QED
    BY <2>3, <2>4
<1>7. parts \in Seq(Seq(T)) /\ DOMAIN parts = 1 .. n /\ \A i \in 1 .. n : parts[i] = Part(i)
  BY <1>2, <1>6
<1> HIDE DEF parts
<1>8. matches \in Seq(T) /\ \A q : q \in Range(matches) <=> \E i \in DOMAIN parts : q \in Range(parts[i])
  BY <1>7, FlatHoldsTheParts
<1>9. \A q : q \in Range(matches) <=>
        \E i \in 1 .. n : q = Append(p, i) /\ EvaluateFilter(segment, document, q)
  BY <1>6, <1>7, <1>8
<1>10. \A q : q \in Range(matches) <=> q \in T /\ Leads(segment, p, q)
  BY <1>3, <1>4, <1>9
<1>11. \A i, j \in DOMAIN parts : \A x : x \in Range(parts[i]) /\ x \in Range(parts[j]) => i = j
  BY <1>3, <1>6, <1>7
<1>12. \A i \in DOMAIN parts : IsInjective(parts[i])
  BY <1>6, <1>7
<1>13. IsInjective(matches)
  BY <1>7, <1>11, <1>12, FlatIsInjective
<1>14. QED
  BY <1>1, <1>8, <1>10, <1>13 DEF Applies, T

\* A node is below p when its parent is p or below it.
LEMMA ParentOnTheWay ==
  ASSUME NEW root, IsDocument(root), NEW p \in DOMAIN root, NEW q \in DOMAIN root
  PROVE  (q # <<>> /\ IsPrefix(p, Front(q))) <=> (IsPrefix(p, q) /\ p # q)
<1>1. p \in Seq(Nat) /\ q \in Seq(Nat) /\ Len(p) \in Nat /\ Len(q) \in Nat
  BY PathsAre
<1>2. IsPrefix(p, q) <=> Len(p) <= Len(q) /\ \A i \in 1 .. Len(p) : p[i] = q[i]
  BY <1>1, PrefixIs
<1>3. CASE q = <<>>
  <2>1. Len(q) = 0
    BY <1>3
  <2>2. IsPrefix(p, q) => p = q
    BY <1>1, <1>2, <2>1, SameItems
  <2>3. QED
    BY <1>3, <2>2
<1>4. CASE q # <<>>
  <2> DEFINE f == Front(q)
  <2>1. f \in DOMAIN root /\ Len(q) = Len(f) + 1 /\ \A k \in 1 .. Len(f) : f[k] = q[k]
    BY <1>4, ParentIs
  <2> HIDE DEF f
  <2>2. f \in Seq(Nat) /\ Len(f) \in Nat
    BY <2>1, PathsAre
  <2>3. IsPrefix(p, f) <=> Len(p) <= Len(f) /\ \A i \in 1 .. Len(p) : p[i] = f[i]
    BY <1>1, <2>2, PrefixIs
  <2>4. ASSUME IsPrefix(p, f) PROVE IsPrefix(p, q) /\ p # q
    <3>1. Len(p) < Len(q) /\ \A i \in 1 .. Len(p) : i \in 1 .. Len(f)
      BY <1>1, <2>1, <2>2, <2>3, <2>4
    <3>2. \A i \in 1 .. Len(p) : p[i] = q[i]
      BY <2>1, <2>3, <2>4, <3>1
    <3>3. p # q
      BY <1>1, <3>1
    <3>4. QED
      BY <1>1, <1>2, <3>1, <3>2, <3>3
  <2>5. ASSUME IsPrefix(p, q), p # q PROVE IsPrefix(p, f)
    <3>1. Len(p) # Len(q)
      BY <1>1, <1>2, <2>5, SameItems
    <3>2. Len(p) <= Len(f) /\ \A i \in 1 .. Len(p) : i \in 1 .. Len(f)
      BY <1>1, <1>2, <2>1, <2>2, <2>5, <3>1
    <3>3. QED
      BY <1>2, <2>1, <2>3, <2>5, <3>2
  <2>6. QED
    BY <1>4, <2>4, <2>5 DEF f
<1>5. QED
  BY <1>3, <1>4

\* applySegment on a descent: the nodes below, or those of them with its name.
LEMMA DescendApplies ==
  ASSUME IsDocument(document), NEW p \in DOMAIN document,
         NEW segment \in [kind : {"descend"}, name : Seq(STRING)]
  PROVE  Applies(segment, p)
<1> DEFINE T == DOMAIN document
           nodes == Walk(document)[p]
           Part(i) == IF segment.name = <<>> THEN <<nodes[i]>> ELSE Named(document, nodes[i], segment.name[1])
           parts == [i \in DOMAIN nodes |-> Part(i)]
           matches == FlattenSeq(parts)
<1>1. segment.kind = "descend"
  OBVIOUS
<1>2. ApplySegment(segment, document, p) = matches
  BY <1>1 DEF ApplySegment, Named
<1>3. /\ nodes \in Seq(T) /\ IsInjective(nodes)
      /\ \A q : q \in Range(nodes) <=> q \in T /\ IsPrefix(p, q)
  BY EveryNodeIsWalked DEF Walked
<1>4. ASSUME NEW q
      PROVE  Leads(segment, p, q) <=>
               /\ IsPrefix(p, q)
               /\ segment.name # <<>> =>
                    p # q /\ document[Front(q)].type = "object" /\ document[Front(q)].keys[Last(q)] = segment.name[1]
  BY <1>1 DEF Leads
<1> DEFINE Member(c, q) == /\ q \in T /\ ChildOf(c, q)
                           /\ document[c].type = "object" /\ document[c].keys[Last(q)] = segment.name[1]
<1>5. ASSUME NEW c \in T
      PROVE  /\ Named(document, c, segment.name[1]) \in Seq(T)
             /\ IsInjective(Named(document, c, segment.name[1]))
             /\ \A q : q \in Range(Named(document, c, segment.name[1])) <=> Member(c, q)
  BY <1>5, NamedIs
<1>6. \A q \in T : (q # <<>> /\ IsPrefix(p, Front(q))) <=> (IsPrefix(p, q) /\ p # q)
  BY ParentOnTheWay
<1>7. \A q \in T : q # <<>> => Front(q) \in T
  BY ParentIs
<1> HIDE DEF T, nodes
<1>8. DOMAIN nodes = 1 .. Len(nodes) /\ Len(nodes) \in Nat /\ \A i \in DOMAIN nodes : nodes[i] \in T
  BY <1>3
<1>9. CASE segment.name = <<>>
  <2>1. \A i \in DOMAIN nodes : Part(i) = <<nodes[i]>>
    BY <1>9
  <2> HIDE DEF Part
  <2>2. ASSUME NEW i \in DOMAIN nodes
        PROVE  /\ Part(i) \in Seq(T) /\ IsInjective(Part(i))
               /\ \A q : q \in Range(Part(i)) <=> q = nodes[i]
    <3>1. Part(i) = <<nodes[i]>> /\ nodes[i] \in T
      BY <1>8, <2>1
    <3>2. /\ <<nodes[i]>> \in Seq(T) /\ IsInjective(<<nodes[i]>>)
          /\ \A q : q \in Range(<<nodes[i]>>) <=> q = nodes[i]
      BY <3>1, OneAndNone
    <3>3. QED
      BY <3>1, <3>2
  <2>3. parts \in Seq(Seq(T)) /\ DOMAIN parts = DOMAIN nodes /\ \A i \in DOMAIN nodes : parts[i] = Part(i)
    BY <1>8, <2>2
  <2> HIDE DEF parts
  <2>4. matches \in Seq(T) /\ \A q : q \in Range(matches) <=> \E i \in DOMAIN parts : q \in Range(parts[i])
    BY <2>3, FlatHoldsTheParts
  <2>5. ASSUME NEW q PROVE q \in Range(matches) <=> q \in Range(nodes)
    <3>1. q \in Range(matches) <=> \E i \in DOMAIN nodes : q \in Range(Part(i))
      BY <2>3, <2>4
    <3>2. q \in Range(matches) <=> \E i \in DOMAIN nodes : q = nodes[i]
      BY <2>2, <3>1
    <3>3. QED
      BY <3>2 DEF Range
  <2>6. \A q : q \in Range(matches) <=> q \in T /\ Leads(segment, p, q)
    BY <1>3, <1>4, <1>9, <2>5
  <2>7. \A i, j \in DOMAIN parts : \A x : x \in Range(parts[i]) /\ x \in Range(parts[j]) => i = j
    BY <1>3, <2>2, <2>3 DEF IsInjective
  <2>8. IsInjective(matches)
    BY <2>2, <2>3, <2>7, FlatIsInjective
  <2>9. QED
    BY <1>2, <2>4, <2>6, <2>8 DEF Applies, T
<1>10. CASE segment.name # <<>>
  <2>1. \A i \in DOMAIN nodes : Part(i) = Named(document, nodes[i], segment.name[1])
    BY <1>10
  <2> HIDE DEF Part
  <2>2. \A i \in DOMAIN nodes : /\ Part(i) \in Seq(T) /\ IsInjective(Part(i))
                                /\ \A q : q \in Range(Part(i)) <=> Member(nodes[i], q)
    BY <1>5, <1>8, <2>1
  <2>3. parts \in Seq(Seq(T)) /\ DOMAIN parts = DOMAIN nodes /\ \A i \in DOMAIN nodes : parts[i] = Part(i)
    BY <1>8, <2>2
  <2> HIDE DEF parts
  <2>4. matches \in Seq(T) /\ \A q : q \in Range(matches) <=> \E i \in DOMAIN parts : q \in Range(parts[i])
    BY <2>3, FlatHoldsTheParts
  <2>5. ASSUME NEW q PROVE q \in Range(matches) <=> \E c \in Range(nodes) : Member(c, q)
    <3>1. q \in Range(matches) <=> \E i \in DOMAIN nodes : q \in Range(Part(i))
      BY <2>3, <2>4
    <3> HIDE DEF Member
    <3>2. q \in Range(matches) <=> \E i \in DOMAIN nodes : Member(nodes[i], q)
      BY <2>2, <3>1
    <3>3. QED
      BY <3>2 DEF Range
  <2>6. ASSUME NEW q
        PROVE  (\E c \in Range(nodes) : Member(c, q)) <=> q \in T /\ Leads(segment, p, q)
    <3>1. (\E c \in Range(nodes) : Member(c, q)) <=>
            /\ q \in T /\ q # <<>> /\ Front(q) \in Range(nodes)
            /\ document[Front(q)].type = "object" /\ document[Front(q)].keys[Last(q)] = segment.name[1]
      BY DEF ChildOf
    <3> HIDE DEF Member
    <3>2. q \in T /\ q # <<>> => (Front(q) \in Range(nodes) <=> IsPrefix(p, Front(q)))
      BY <1>3, <1>7
    <3>3. QED
      BY <1>4, <1>6, <1>10, <3>1, <3>2
  <2>7. \A q : q \in Range(matches) <=> q \in T /\ Leads(segment, p, q)
    BY <2>5, <2>6
  <2>8. \A i, j \in DOMAIN parts : \A x : x \in Range(parts[i]) /\ x \in Range(parts[j]) => i = j
    BY <1>3, <2>2, <2>3 DEF IsInjective, ChildOf
  <2>9. IsInjective(matches)
    BY <2>2, <2>3, <2>8, FlatIsInjective
  <2>10. QED
    BY <1>2, <2>4, <2>7, <2>9 DEF Applies, T
<1>11. QED
  BY <1>9, <1>10

\* Whatever the segment, applySegment leads to the nodes that the segment does.
LEMMA SegmentApplies ==
  ASSUME IsDocument(document), NEW p \in DOMAIN document, NEW segment, IsSegment(segment)
  PROVE  Applies(segment, p)
<1>1. CASE segment \in [kind : {"child"}, names : Seq(STRING)]
  BY <1>1, ChildApplies
<1>2. CASE segment \in [kind : {"index"}, indexes : Seq(Int)]
  BY <1>2, IndexApplies
<1>3. CASE segment \in [kind : {"slice"}, start : Seq(Int), end : Seq(Int), step : Int]
  BY <1>3, SliceApplies DEF Slices
<1>4. CASE segment \in [kind : {"wildcard"}]
  <2>1. segment.kind = "wildcard"
    BY <1>4
  <2>2. QED
    BY <2>1, WildcardApplies
<1>5. CASE segment \in [kind : {"descend"}, name : Seq(STRING)]
  BY <1>5, DescendApplies
<1>6. CASE segment.kind = "filter"
  BY <1>6, FilterApplies
<1>7. QED
  BY <1>1, <1>2, <1>3, <1>4, <1>5, <1>6 DEF IsSegment

-------------------------------------------------------------------------------
(* The segments, one after the other *)

\* The results after each of the first n segments.
EvaluationTable(f, root, segments, n) ==
  f = [k \in 0 .. n |-> IF k = 0 THEN [ok |-> TRUE, paths |-> << <<>> >>]
                        ELSE Apply(segments[k], root, f[k - 1])]

\* They are defined for one segment more, when they are for those before it.
LEMMA LongerEvaluation ==
  ASSUME NEW root, NEW segments, NEW n \in Nat \ {0}, NEW f, EvaluationTable(f, root, segments, n - 1)
  PROVE  \E g : EvaluationTable(g, root, segments, n)
<1> DEFINE First == [ok |-> TRUE, paths |-> << <<>> >>]
           g == [k \in 0 .. n |-> IF k = 0 THEN First ELSE Apply(segments[k], root, f[k - 1])]
<1>1. ASSUME NEW k \in 0 .. n - 1 PROVE g[k] = f[k]
  <2>1. k \in 0 .. n
    OBVIOUS
  <2>2. f[k] = IF k = 0 THEN First ELSE Apply(segments[k], root, f[k - 1])
    BY DEF EvaluationTable
  <2>3. g[k] = IF k = 0 THEN First ELSE Apply(segments[k], root, f[k - 1])
    BY <2>1
  <2>4. QED
    BY <2>2, <2>3
<1>2. \A k \in 0 .. n : k # 0 => k - 1 \in 0 .. n - 1
  OBVIOUS
<1> HIDE DEF g
<1>3. \A k \in 0 .. n : k # 0 => f[k - 1] = g[k - 1]
  BY <1>1, <1>2
<1>4. g = [k \in 0 .. n |-> IF k = 0 THEN First ELSE Apply(segments[k], root, g[k - 1])]
  BY <1>3 DEF g
<1>5. QED
  BY <1>4 DEF EvaluationTable

\* So they are for all segments, and Evaluate gives the last of them.
LEMMA EvaluationIsDefined ==
  ASSUME NEW root, NEW segments, Len(segments) \in Nat
  PROVE  \E f : EvaluationTable(f, root, segments, Len(segments)) /\ Evaluate(root, segments) = f[Len(segments)]
<1> DEFINE S == {m \in Nat : ~\E f : EvaluationTable(f, root, segments, m)}
<1>1. \E f : EvaluationTable(f, root, segments, Len(segments))
  <2>1. SUFFICES ASSUME S # {} PROVE FALSE
    OBVIOUS
  <2>2. PICK m \in S : \A h \in S : m <= h
    BY <2>1, LeastNumber
  <2>3. CASE m = 0
    <3> DEFINE f == [k \in 0 .. 0 |-> [ok |-> TRUE, paths |-> << <<>> >>]]
    <3>1. f = [k \in 0 .. 0 |-> IF k = 0 THEN [ok |-> TRUE, paths |-> << <<>> >>]
                                ELSE Apply(segments[k], root, f[k - 1])]
      OBVIOUS
    <3>2. EvaluationTable(f, root, segments, 0)
      BY <3>1 DEF EvaluationTable
    <3>3. QED
      BY <2>2, <2>3, <3>2
  <2>4. CASE m # 0
    <3>1. m \in Nat \ {0} /\ m - 1 \in Nat /\ m - 1 \notin S
      BY <2>2, <2>4
    <3>2. PICK f : EvaluationTable(f, root, segments, m - 1)
      BY <3>1
    <3>3. QED
      BY <2>2, <3>1, <3>2, LongerEvaluation
  <2>5. QED
    BY <2>3, <2>4
<1> DEFINE F == CHOOSE f : EvaluationTable(f, root, segments, Len(segments))
<1>2. EvaluationTable(F, root, segments, Len(segments))
  BY <1>1
<1>3. Evaluate(root, segments) = F[Len(segments)]
  BY DEF Evaluate, EvaluationTable
<1>4. QED
  BY <1>2, <1>3

\* The nodes that each of the first n segments leads to.
SelectionTable(f, segments, n) ==
  f = [k \in 0 .. n |-> IF k = 0 THEN {<<>>}
                        ELSE {q \in DOMAIN document : \E p \in f[k - 1] : Leads(segments[k], p, q)}]

\* They are defined for one segment more, when they are for those before it.
LEMMA LongerSelection ==
  ASSUME NEW segments, NEW n \in Nat \ {0}, NEW f, SelectionTable(f, segments, n - 1)
  PROVE  \E g : SelectionTable(g, segments, n)
<1> DEFINE Next(k, nodes) == {q \in DOMAIN document : \E p \in nodes : Leads(segments[k], p, q)}
           g == [k \in 0 .. n |-> IF k = 0 THEN {<<>>} ELSE Next(k, f[k - 1])]
<1>1. ASSUME NEW k \in 0 .. n - 1 PROVE g[k] = f[k]
  <2>1. k \in 0 .. n
    OBVIOUS
  <2>2. f[k] = IF k = 0 THEN {<<>>} ELSE Next(k, f[k - 1])
    BY DEF SelectionTable
  <2> HIDE DEF Next
  <2>3. g[k] = IF k = 0 THEN {<<>>} ELSE Next(k, f[k - 1])
    BY <2>1
  <2>4. QED
    BY <2>2, <2>3
<1>2. \A k \in 0 .. n : k # 0 => k - 1 \in 0 .. n - 1
  OBVIOUS
<1> HIDE DEF g
<1>3. \A k \in 0 .. n : k # 0 => f[k - 1] = g[k - 1]
  BY <1>1, <1>2
<1> HIDE DEF Next
<1>4. g = [k \in 0 .. n |-> IF k = 0 THEN {<<>>} ELSE Next(k, g[k - 1])]
  BY <1>3 DEF g
<1>5. QED
  BY <1>4 DEF SelectionTable, Next

\* So they are for all segments, and Selected is this function.
LEMMA SelectionIsDefined ==
  ASSUME NEW segments, Len(segments) \in Nat
  PROVE  SelectionTable(Selected(segments), segments, Len(segments))
<1> DEFINE S == {m \in Nat : ~\E f : SelectionTable(f, segments, m)}
<1>1. \E f : SelectionTable(f, segments, Len(segments))
  <2>1. SUFFICES ASSUME S # {} PROVE FALSE
    OBVIOUS
  <2>2. PICK m \in S : \A h \in S : m <= h
    BY <2>1, LeastNumber
  <2>3. CASE m = 0
    <3> DEFINE f == [k \in 0 .. 0 |-> {<<>>}]
    <3>1. f = [k \in 0 .. 0 |-> IF k = 0 THEN {<<>>}
                 ELSE {q \in DOMAIN document : \E p \in f[k - 1] : Leads(segments[k], p, q)}]
      OBVIOUS
    <3>2. SelectionTable(f, segments, 0)
      BY <3>1 DEF SelectionTable
    <3>3. QED
      BY <2>2, <2>3, <3>2
  <2>4. CASE m # 0
    <3>1. m \in Nat \ {0} /\ m - 1 \in Nat /\ m - 1 \notin S
      BY <2>2, <2>4
    <3>2. PICK f : SelectionTable(f, segments, m - 1)
      BY <3>1
    <3>3. QED
      BY <2>2, <3>1, <3>2, LongerSelection
  <2>5. QED
    BY <2>3, <2>4
<1>2. Selected(segments) = CHOOSE f : SelectionTable(f, segments, Len(segments))
  BY DEF Selected, SelectionTable
<1>3. QED
  BY <1>1, <1>2

\* Whether a query may be expected to find no node twice.
WithoutRepeats(segments) ==
  /\ \A i, j \in DOMAIN segments : segments[i].kind = "descend" /\ segments[j].kind = "descend" => i = j
  /\ \A i \in DOMAIN segments : Once(segments[i])

\* A segment that is no descent leads to children only.
LEMMA WhereItLeads ==
  ASSUME NEW segment, IsSegment(segment), NEW p, NEW q, Leads(segment, p, q)
  PROVE  /\ segment.kind # "descend" => ChildOf(p, q)
         /\ segment.kind = "descend" => IsPrefix(p, q)
<1>1. segment.kind \in {"child", "index", "slice", "wildcard", "descend", "filter"}
  BY DEF IsSegment
<1>2. QED
  BY <1>1 DEF Leads, ChildOf

\* Without a descent, the length of a path says after how many segments it is found.
LEMMA OneWayDown ==
  ASSUME NEW T, NEW p \in Seq(T), NEW r \in Seq(T), NEW q \in Seq(T), Len(p) = Len(r),
         IsPrefix(p, q), IsPrefix(r, q)
  PROVE  p = r
<1>1. (\A i \in 1 .. Len(p) : p[i] = q[i]) /\ \A i \in 1 .. Len(r) : r[i] = q[i]
  BY PrefixIs
<1>2. QED
  BY <1>1, SameItems

\* What the first k segments find is what they select; before a descent, all of
\* it lies at one depth.
Finds(segments, result, nodes, k) ==
  result.ok =>
    /\ result.paths \in Seq(DOMAIN document)
    /\ \A q : q \in Range(result.paths) <=> q \in nodes
    /\ WithoutRepeats(segments) =>
         /\ IsInjective(result.paths)
         /\ (\A i \in 1 .. k : segments[i].kind # "descend") => \A q \in nodes : Len(q) = k

\* One segment more keeps the matches what the segments mean.
LEMMA OneMoreSegment ==
  ASSUME IsDocument(document), NEW segments, Len(segments) \in Nat, DOMAIN segments = 1 .. Len(segments),
         \A i \in DOMAIN segments : IsSegment(segments[i]),
         NEW k \in 1 .. Len(segments), NEW before, NEW nodes, nodes \subseteq DOMAIN document,
         Finds(segments, before, nodes, k - 1)
  PROVE  Finds(segments, Apply(segments[k], document, before),
               {q \in DOMAIN document : \E p \in nodes : Leads(segments[k], p, q)}, k)
<1> DEFINE T == DOMAIN document
           segment == segments[k]
           paths == before.paths
           after == {q \in T : \E p \in nodes : Leads(segment, p, q)}
           parts == [i \in DOMAIN paths |-> ApplySegment(segment, document, paths[i])]
           flat == FlattenSeq(parts)
           result == Apply(segment, document, before)
<1>1. SUFFICES ASSUME result.ok
               PROVE  /\ result.paths \in Seq(T)
                      /\ \A q : q \in Range(result.paths) <=> q \in after
                      /\ WithoutRepeats(segments) =>
                           /\ IsInjective(result.paths)
                           /\ (\A i \in 1 .. k : segments[i].kind # "descend") => \A q \in after : Len(q) = k
  BY DEF Finds
<1>2. before.ok /\ result.paths = flat
  <2>1. ~TooMany.ok
    BY DEF TooMany
  <2>2. CASE before.ok
    <3>1. result = Bounded(flat)
      BY <2>2 DEF Apply
    <3> HIDE DEF flat, result
    <3>2. result = IF Len(flat) > MaxResults THEN TooMany ELSE [ok |-> TRUE, paths |-> flat]
      BY <3>1 DEF Bounded
    <3>3. QED
      BY <1>1, <2>1, <2>2, <3>2
  <2>3. CASE ~before.ok
    <3>1. result = TooMany
      BY <2>3 DEF Apply
    <3> HIDE DEF result
    <3>2. QED
      BY <1>1, <2>1, <3>1
  <2>4. QED
    BY <2>2, <2>3
<1>3. /\ paths \in Seq(T) /\ \A q : q \in Range(paths) <=> q \in nodes
      /\ WithoutRepeats(segments) =>
           /\ IsInjective(paths)
           /\ (\A i \in 1 .. k - 1 : segments[i].kind # "descend") => \A q \in nodes : Len(q) = k - 1
  BY <1>2 DEF Finds
<1>4. IsSegment(segment)
  OBVIOUS
<1>5. DOMAIN paths = 1 .. Len(paths) /\ Len(paths) \in Nat /\ \A i \in DOMAIN paths : paths[i] \in T
  BY <1>3
<1>6. \A i \in DOMAIN paths : Applies(segment, paths[i])
  BY <1>4, <1>5, SegmentApplies
<1>7. \A i \in DOMAIN paths :
        /\ ApplySegment(segment, document, paths[i]) \in Seq(T)
        /\ \A q : q \in Range(ApplySegment(segment, document, paths[i])) <=>
             q \in T /\ Leads(segment, paths[i], q)
        /\ Once(segment) => IsInjective(ApplySegment(segment, document, paths[i]))
  BY <1>6 DEF Applies
<1> HIDE DEF result, paths, segment, T
<1>8. /\ parts \in Seq(Seq(T)) /\ DOMAIN parts = DOMAIN paths
      /\ \A i \in DOMAIN paths : parts[i] = ApplySegment(segment, document, paths[i])
  BY <1>5, <1>7
<1> HIDE DEF parts
<1>9. flat \in Seq(T) /\ \A q : q \in Range(flat) <=> \E i \in DOMAIN parts : q \in Range(parts[i])
  BY <1>8, FlatHoldsTheParts
<1> HIDE DEF flat
<1>10. ASSUME NEW q PROVE q \in Range(flat) <=> q \in after
  <2>1. q \in Range(flat) <=> \E i \in DOMAIN paths : q \in T /\ Leads(segment, paths[i], q)
    BY <1>7, <1>8, <1>9
  <2>2. (\E i \in DOMAIN paths : q \in T /\ Leads(segment, paths[i], q)) <=>
          q \in T /\ \E p \in Range(paths) : Leads(segment, p, q)
    BY DEF Range
  <2>3. QED
    BY <1>3, <2>1, <2>2
<1>11. ASSUME WithoutRepeats(segments) PROVE IsInjective(flat)
  <2>1. Once(segment) /\ IsInjective(paths)
    BY <1>3, <1>11 DEF WithoutRepeats, segment
  <2>2. ASSUME NEW i \in DOMAIN parts, NEW j \in DOMAIN parts, NEW x,
               x \in Range(parts[i]), x \in Range(parts[j])
        PROVE  i = j
    <3>1. i \in DOMAIN paths /\ j \in DOMAIN paths
      BY <1>8
    <3>2. x \in T /\ Leads(segment, paths[i], x) /\ Leads(segment, paths[j], x)
      BY <1>7, <1>8, <2>2, <3>1
    <3>3. paths[i] \in T /\ paths[j] \in T /\ paths[i] \in nodes /\ paths[j] \in nodes
      BY <1>3, <1>5, <3>1 DEF Range
    <3>4. paths[i] = paths[j]
      <4>1. CASE segment.kind # "descend"
        BY <1>4, <3>2, <4>1, WhereItLeads DEF ChildOf
      <4>2. CASE segment.kind = "descend"
        <5>1. IsPrefix(paths[i], x) /\ IsPrefix(paths[j], x)
          BY <1>4, <3>2, <4>2, WhereItLeads
        <5>2. \A m \in 1 .. k - 1 : m \in DOMAIN segments /\ m # k
          OBVIOUS
        <5>3. \A m \in 1 .. k - 1 : segments[m].kind # "descend"
          BY <1>11, <4>2, <5>2 DEF WithoutRepeats, segment
        <5>4. Len(paths[i]) = Len(paths[j])
          BY <1>3, <1>11, <3>3, <5>3
        <5>5. paths[i] \in Seq(Nat) /\ paths[j] \in Seq(Nat) /\ x \in Seq(Nat)
          BY <3>2, <3>3, PathsAre DEF T
        <5>6. QED
          BY <5>1, <5>4, <5>5, OneWayDown
      <4>3. QED
        BY <4>1, <4>2
    <3>5. QED
      BY <2>1, <3>1, <3>4 DEF IsInjective
  <2>3. \A i \in DOMAIN parts : IsInjective(parts[i])
    BY <1>7, <1>8, <2>1
  <2>4. \A i, j \in DOMAIN parts : \A x : x \in Range(parts[i]) /\ x \in Range(parts[j]) => i = j
    BY <2>2
  <2> HIDE DEF Range, IsInjective
  <2>5. parts \in Seq(Seq(T))
    BY <1>8
  <2>6. IsInjective(FlattenSeq(parts))
    BY <2>3, <2>4, <2>5, FlatIsInjective
  <2>7. QED
    BY <2>6 DEF flat
<1>12. ASSUME WithoutRepeats(segments), \A i \in 1 .. k : segments[i].kind # "descend", NEW q \in after
       PROVE  Len(q) = k
  <2>1. PICK p \in nodes : Leads(segment, p, q)
    OBVIOUS
  <2>2. q \in T
    OBVIOUS
  <2>3. k \in 1 .. k /\ \A i \in 1 .. k - 1 : i \in 1 .. k
    OBVIOUS
  <2>4. ChildOf(p, q)
    BY <1>4, <1>12, <2>1, <2>3, WhereItLeads DEF segment
  <2>5. Len(p) = k - 1
    BY <1>3, <1>12, <2>1, <2>3
  <2>6. Len(q) = Len(p) + 1
    BY <2>2, <2>4, ParentIs DEF ChildOf, T
  <2>7. QED
    BY <2>5, <2>6
<1>13. QED
  BY <1>2, <1>9, <1>10, <1>11, <1>12

\* So the matches of a query that is evaluated to the end are what it means.
LEMMA EvaluationFinds ==
  ASSUME IsDocument(document), NEW segments, Len(segments) \in Nat, DOMAIN segments = 1 .. Len(segments),
         \A i \in DOMAIN segments : IsSegment(segments[i])
  PROVE  Finds(segments, Evaluate(document, segments), Selected(segments)[Len(segments)], Len(segments))
<1> DEFINE n == Len(segments)
           T == DOMAIN document
           selected == Selected(segments)
           After(k, nodes) == {q \in T : \E p \in nodes : Leads(segments[k], p, q)}
<1>1. PICK f : EvaluationTable(f, document, segments, n) /\ Evaluate(document, segments) = f[n]
  BY EvaluationIsDefined
<1>2. SelectionTable(selected, segments, n)
  BY SelectionIsDefined
<1>3. /\ f[0] = [ok |-> TRUE, paths |-> << <<>> >>]
      /\ \A k \in 1 .. n : f[k] = Apply(segments[k], document, f[k - 1])
  <2>1. 0 \in 0 .. n /\ \A k \in 1 .. n : k \in 0 .. n /\ k # 0
    OBVIOUS
  <2>2. QED
    BY <1>1, <2>1 DEF EvaluationTable
<1>4. selected[0] = {<<>>} /\ \A k \in 1 .. n : selected[k] = After(k, selected[k - 1])
  <2>1. 0 \in 0 .. n /\ \A k \in 1 .. n : k \in 0 .. n /\ k # 0
    OBVIOUS
  <2> HIDE DEF selected
  <2>2. QED
    BY <1>2, <2>1 DEF SelectionTable
<1> HIDE DEF selected
<1> DEFINE Holds(k) == selected[k] \subseteq T /\ Finds(segments, f[k], selected[k], k)
           S == {k \in 0 .. n : ~Holds(k)}
<1>5. S = {}
  <2>1. SUFFICES ASSUME S # {} PROVE FALSE
    OBVIOUS
  <2>2. S \in SUBSET Nat
    OBVIOUS
  <2>3. PICK k \in S : \A h \in S : k <= h
    BY <2>1, <2>2, LeastNumber
  <2>4. k \in 0 .. n /\ ~Holds(k)
    OBVIOUS
  <2>5. CASE k = 0
    <3>1. <<>> \in T
      BY PathsAre
    <3> DEFINE e == <<>>
    <3>2. e \in T /\ Len(e) = 0
      BY <3>1
    <3>3. f[0].ok /\ f[0].paths = <<e>> /\ selected[0] = {e}
      BY <1>3, <1>4
    <3> HIDE DEF e, T
    <3>4. <<e>> \in Seq(T) /\ IsInjective(<<e>>) /\ \A y : y \in Range(<<e>>) <=> y = e
      BY <3>2, OneAndNone
    <3>5. Finds(segments, f[0], selected[0], 0)
      BY <3>2, <3>3, <3>4 DEF Finds, T
    <3>6. QED
      BY <2>4, <2>5, <3>2, <3>3, <3>5
  <2>6. CASE k # 0
    <3>1. k \in 1 .. n /\ k - 1 \in 0 .. n /\ k - 1 < k
      BY <2>4, <2>6
    <3>2. k - 1 \notin S
      BY <2>3, <3>1
    <3>3. Holds(k - 1)
      BY <3>1, <3>2
    <3>4. f[k] = Apply(segments[k], document, f[k - 1]) /\ selected[k] = After(k, selected[k - 1])
      BY <1>3, <1>4, <3>1
    <3>5. Finds(segments, Apply(segments[k], document, f[k - 1]), After(k, selected[k - 1]), k)
      BY <3>1, <3>3, OneMoreSegment
    <3>6. QED
      BY <2>4, <3>4, <3>5
  <2>7. QED
    BY <2>5, <2>6
<1>6. n \in 0 .. n
  OBVIOUS
<1>7. Holds(n)
  BY <1>5, <1>6
<1>8. QED
  BY <1>1, <1>7 DEF selected

-------------------------------------------------------------------------------
(* Parsing what has been written *)

\* What parse makes of the tokens from the d-th on.
ParseTable(f, tokens, d) == f = [i \in d .. Len(tokens) + 1 |-> ParseFrom(tokens, f, i)]

\* What it makes of them from the i-th on depends on what follows only.
LEMMA SameAfter ==
  ASSUME NEW tokens, Len(tokens) \in Nat, DOMAIN tokens = 1 .. Len(tokens),
         NEW i \in 1 .. Len(tokens) + 1, NEW f, NEW g,
         \A j \in i + 1 .. Len(tokens) + 1 : f[j] = g[j]
  PROVE  ParseFrom(tokens, f, i) = ParseFrom(tokens, g, i)
<1>1. \A kind : IsToken(tokens, i, kind) => i + 1 \in i + 1 .. Len(tokens) + 1
  BY DEF IsToken
<1>2. \A kind : IsToken(tokens, i + 1, kind) => i + 2 \in i + 1 .. Len(tokens) + 1
  BY DEF IsToken
<1>3. \A kind : IsToken(tokens, i + 2, kind) => i + 3 \in i + 1 .. Len(tokens) + 1
  BY DEF IsToken
<1>4. /\ \A kind : IsToken(tokens, i, kind) => f[i + 1] = g[i + 1]
      /\ \A kind : IsToken(tokens, i + 1, kind) => f[i + 2] = g[i + 2]
      /\ \A kind : IsToken(tokens, i + 2, kind) => f[i + 3] = g[i + 3]
  BY <1>1, <1>2, <1>3
<1>5. QED
  BY <1>4 DEF ParseFrom

\* It is defined from one token earlier, when it is from those after it.
LEMMA LongerParsing ==
  ASSUME NEW tokens, Len(tokens) \in Nat, DOMAIN tokens = 1 .. Len(tokens),
         NEW d \in 1 .. Len(tokens) + 1, NEW f, ParseTable(f, tokens, d + 1)
  PROVE  \E g : ParseTable(g, tokens, d)
<1> DEFINE n == Len(tokens) + 1
           g == [i \in d .. n |-> ParseFrom(tokens, f, i)]
<1>1. \A i \in d + 1 .. n : i \in d .. n
  OBVIOUS
<1>2. \A i \in d + 1 .. n : f[i] = ParseFrom(tokens, f, i)
  BY DEF ParseTable
<1>3. \A i \in d + 1 .. n : g[i] = f[i]
  BY <1>1, <1>2
<1> HIDE DEF g
<1>4. ASSUME NEW i \in d .. n PROVE ParseFrom(tokens, f, i) = ParseFrom(tokens, g, i)
  <2>1. i \in 1 .. n /\ \A j \in i + 1 .. n : j \in d + 1 .. n
    OBVIOUS
  <2>2. \A j \in i + 1 .. n : f[j] = g[j]
    BY <1>3, <2>1
  <2>3. QED
    BY <2>1, <2>2, SameAfter
<1>5. g = [i \in d .. n |-> ParseFrom(tokens, g, i)]
  BY <1>4 DEF g
<1>6. QED
  BY <1>5 DEF ParseTable

\* So it is from the first token on, and Parse gives that.
LEMMA ParsingIsDefined ==
  ASSUME NEW tokens, Len(tokens) \in Nat, DOMAIN tokens = 1 .. Len(tokens)
  PROVE  \E f : ParseTable(f, tokens, 1) /\ Parse(tokens) = f[1]
<1> DEFINE n == Len(tokens) + 1
           S == {d \in Nat \ {0} : \E f : ParseTable(f, tokens, d)}
<1>1. n + 1 \in S
  <2> DEFINE f == [i \in {} |-> <<>>]
             E == (n + 1) .. n
  <2>1. E = {}
    OBVIOUS
  <2>2. f = [i \in E |-> ParseFrom(tokens, f, i)]
    BY <2>1
  <2>3. ParseTable(f, tokens, n + 1)
    BY <2>2 DEF ParseTable
  <2>4. QED
    BY <2>3
<1>2. PICK d \in S : \A h \in S : d <= h
  BY <1>1, LeastNumber
<1>3. d = 1
  <2>1. SUFFICES ASSUME d # 1 PROVE FALSE
    OBVIOUS
  <2>2. d <= n + 1 /\ d \in Nat
    BY <1>1, <1>2
  <2>3. d - 1 \in 1 .. n /\ d - 1 \in Nat \ {0} /\ (d - 1) + 1 = d /\ ~(d <= d - 1)
    BY <1>2, <2>1, <2>2
  <2>4. PICK f : ParseTable(f, tokens, d)
    BY <1>2
  <2>5. \E g : ParseTable(g, tokens, d - 1)
    BY <2>3, <2>4, LongerParsing
  <2>6. QED
    BY <1>2, <2>3, <2>5
<1>4. \E f : ParseTable(f, tokens, 1)
  BY <1>2, <1>3
<1> DEFINE F == CHOOSE f : ParseTable(f, tokens, 1)
<1>5. ParseTable(F, tokens, 1)
  BY <1>4
<1>6. Parse(tokens) = F[1]
  BY DEF Parse, ParseTable
<1>7. QED
  BY <1>5, <1>6

\* What stands for an error of parse, in place of a segment.
Refusal == [kind |-> "refused"]
\* What can be read of some segments: they themselves and errors.
CanBeRead(segments) == {segments[i] : i \in DOMAIN segments} \cup {Refusal}

\* What is left after the first k - 1 segments.
Rest(segments, k) == [i \in 1 .. Len(segments) - k + 1 |-> segments[k - 1 + i]]

\* The tokens from the k-th segment on are read as what is left, or refused.
ReadFrom(segments, read, k) ==
  /\ read \in Seq(CanBeRead(segments))
  /\ (\E i \in DOMAIN read : read[i].kind = "refused") \/ read = Rest(segments, k)

\* One segment is read before what is read of those behind it.
LEMMA ReadOneMore ==
  ASSUME NEW segments, Len(segments) \in Nat, DOMAIN segments = 1 .. Len(segments),
         NEW k \in 1 .. Len(segments), NEW x, x \in {segments[k], Refusal},
         NEW read, ReadFrom(segments, read, k + 1)
  PROVE  ReadFrom(segments, <<x>> \o read, k)
<1> DEFINE T == CanBeRead(segments)
           one == <<x>>
           t == one \o read
           rest == Rest(segments, k + 1)
           n == Len(segments)
<1>1. x \in T
  BY DEF CanBeRead
<1> HIDE DEF T
<1>2. one \in Seq(T) /\ Len(one) = 1 /\ one[1] = x
  BY <1>1
<1>3. read \in Seq(T) /\ ((\E i \in DOMAIN read : read[i].kind = "refused") \/ read = rest)
  BY DEF ReadFrom, T
<1> HIDE DEF one
<1>4. /\ t \in Seq(T) /\ Len(t) = 1 + Len(read) /\ t[1] = x /\ 1 \in 1 .. Len(t)
      /\ \A i \in 1 .. Len(read) : 1 + i \in 1 .. Len(t) /\ t[1 + i] = read[i]
      /\ \A j \in 1 .. Len(t) : j = 1 \/ \E i \in 1 .. Len(read) : j = 1 + i
  <2>1. /\ t \in Seq(T) /\ Len(t) = Len(one) + Len(read)
        /\ \A i \in 1 .. Len(one) : i \in 1 .. Len(t) /\ t[i] = one[i]
        /\ \A i \in 1 .. Len(read) : Len(one) + i \in 1 .. Len(t) /\ t[Len(one) + i] = read[i]
        /\ \A j \in 1 .. Len(t) : j \in 1 .. Len(one) \/ \E i \in 1 .. Len(read) : j = Len(one) + i
    BY <1>2, <1>3, Joined
  <2> HIDE DEF t
  <2>2. QED
    BY <1>2, <2>1
<1> HIDE DEF t
<1>5. DOMAIN t = 1 .. Len(t) /\ DOMAIN read = 1 .. Len(read) /\ Len(read) \in Nat
  BY <1>3, <1>4
<1>6. CASE x = Refusal
  <2>1. t[1].kind = "refused"
    BY <1>4, <1>6 DEF Refusal
  <2>2. QED
    BY <1>4, <1>5, <2>1 DEF ReadFrom, T, t, one
<1>7. CASE \E i \in DOMAIN read : read[i].kind = "refused"
  <2>1. PICK i \in DOMAIN read : read[i].kind = "refused"
    BY <1>7
  <2>2. t[1 + i].kind = "refused" /\ 1 + i \in DOMAIN t
    BY <1>4, <1>5, <2>1
  <2>3. QED
    BY <1>4, <2>2 DEF ReadFrom, T, t, one
<1>8. CASE x = segments[k] /\ read = rest
  <2> DEFINE whole == Rest(segments, k)
  <2>1. rest = [i \in 1 .. n - k |-> segments[k + i]]
    BY DEF Rest
  <2>2. n - k \in Nat
    OBVIOUS
  <2>3. whole = [i \in 1 .. n - k + 1 |-> segments[k - 1 + i]]
    BY DEF Rest
  <2>4. \A i \in 1 .. n - k + 1 : k - 1 + i \in DOMAIN segments /\ segments[k - 1 + i] \in T
    BY DEF T, CanBeRead
  <2> HIDE DEF rest, whole, n
  <2>5. Len(read) = n - k /\ \A i \in 1 .. n - k : read[i] = segments[k + i]
    BY <1>3, <1>8, <2>1, <2>2
  <2>6. whole \in Seq(T) /\ Len(whole) = n - k + 1
    BY <2>2, <2>3, <2>4
  <2>7. ASSUME NEW j \in 1 .. Len(t) PROVE t[j] = whole[j]
    <3>1. CASE j = 1
      <4>1. whole[1] = segments[k - 1 + 1] /\ k - 1 + 1 = k
        BY <2>2, <2>3
      <4>2. QED
        BY <1>4, <1>8, <3>1, <4>1
    <3>2. ASSUME NEW i \in 1 .. Len(read), j = 1 + i PROVE t[j] = whole[j]
      <4>1. t[j] = segments[k + i] /\ 1 + i \in 1 .. n - k + 1
        BY <1>4, <2>2, <2>5, <3>2
      <4>2. whole[1 + i] = segments[k - 1 + (1 + i)] /\ k - 1 + (1 + i) = k + i
        BY <2>2, <2>3, <4>1
      <4>3. QED
        BY <3>2, <4>1, <4>2
    <3>3. QED
      BY <1>4, <3>1, <3>2
  <2>8. t = whole
    BY <1>4, <2>2, <2>5, <2>6, <2>7, SameItems
  <2>9. QED
    BY <1>4, <2>8 DEF ReadFrom, T, t, one, whole
<1>9. QED
  BY <1>3, <1>6, <1>7, <1>8

\* How the k-th segment wanted is written.
WrittenAs(part, k) ==
  \/ \E name \in STRING : part = <<Dot, Word(name)>> /\ wanted[k] = ChildStep(<<name>>)
  \/ part = <<Dot, Asterisk>> /\ wanted[k] = WildcardStep
  \/ \E name \in STRING : part = <<Dot, Dot, Word(name)>> /\ wanted[k] = DescendStep(<<name>>)
  \/ part = <<Dot, Dot, Asterisk>> /\ wanted[k] = DescendStep(<<>>)
  \/ /\ part = <<Dot, Dot>> /\ wanted[k] = DescendStep(<<>>)
     /\ k < Len(wanted) /\ Written(wanted, k + 1) = <<Bracket(wanted[k + 1])>>
  \/ part = <<Bracket(wanted[k])>>

\* A sequence of one name.
LEMMA OneName ==
  ASSUME NEW names \in Seq(STRING), Len(names) = 1
  PROVE  names[1] \in STRING /\ names = <<names[1]>>
OBVIOUS

\* Every segment is written in one of these ways.
LEMMA HowItIsWritten ==
  ASSUME Len(wanted) \in Nat, \A i \in 1 .. Len(wanted) : IsSegment(wanted[i]), NEW k \in 1 .. Len(wanted)
  PROVE  WrittenAs(Written(wanted, k), k)
<1> DEFINE segment == wanted[k]
           part == Written(wanted, k)
<1>1. IsSegment(segment)
  OBVIOUS
<1>2. CASE segment.kind = "child" /\ Len(segment.names) = 1 /\ style = "dots"
  <2>1. segment \in [kind : {"child"}, names : Seq(STRING)]
    BY <1>1, <1>2 DEF IsSegment
  <2>2. segment.names \in Seq(STRING) /\ segment = [kind |-> "child", names |-> segment.names]
    BY <2>1
  <2>3. segment.names[1] \in STRING /\ segment.names = <<segment.names[1]>>
    BY <1>2, <2>2, OneName
  <2>4. part = <<Dot, Word(segment.names[1])>>
    BY <1>2 DEF Written
  <2>5. segment = ChildStep(<<segment.names[1]>>)
    BY <2>2, <2>3 DEF ChildStep
  <2>6. QED
    BY <2>3, <2>4, <2>5 DEF WrittenAs
<1>3. CASE segment.kind = "wildcard" /\ style = "dots"
  <2>1. segment \in [kind : {"wildcard"}]
    BY <1>1, <1>3 DEF IsSegment
  <2>2. segment = WildcardStep
    BY <2>1 DEF WildcardStep
  <2>3. part = <<Dot, Asterisk>>
    BY <1>3 DEF Written
  <2>4. QED
    BY <2>2, <2>3 DEF WrittenAs
<1>4. CASE segment.kind = "descend"
  <2>1. segment \in [kind : {"descend"}, name : Seq(STRING)] /\ Len(segment.name) <= 1
    BY <1>1, <1>4 DEF IsSegment
  <2>2. segment.name \in Seq(STRING) /\ segment = DescendStep(segment.name)
    BY <2>1 DEF DescendStep
  <2>3. CASE segment.name # <<>>
    <3>1. Len(segment.name) = 1
      <4> DEFINE names == segment.name
      <4>1. names \in Seq(STRING) /\ names # <<>> /\ Len(names) <= 1
        BY <2>1, <2>2, <2>3
      <4> HIDE DEF names
      <4>2. Len(names) \in Nat /\ Len(names) # 0
        BY <4>1
      <4> DEFINE l == Len(names)
      <4>3. l \in Nat /\ l # 0 /\ l <= 1
        BY <4>1, <4>2
      <4> HIDE DEF l
      <4>4. l = 1
        BY <4>3
      <4>5. QED
        BY <4>4 DEF l, names
    <3>2. segment.name[1] \in STRING /\ segment.name = <<segment.name[1]>>
      BY <2>2, <3>1, OneName
    <3>3. part = <<Dot, Dot, Word(segment.name[1])>>
      BY <1>4, <2>3 DEF Written
    <3>4. QED
      BY <2>2, <3>2, <3>3 DEF WrittenAs
  <2>4. CASE segment.name = <<>>
    <3>1. segment = DescendStep(<<>>)
      BY <2>2, <2>4
    <3>2. part = IF style = "brackets" /\ k < Len(wanted) /\ wanted[k + 1].kind # "descend"
                   THEN <<Dot, Dot>> ELSE <<Dot, Dot, Asterisk>>
      BY <1>4, <2>4 DEF Written
    <3>3. CASE style = "brackets" /\ k < Len(wanted) /\ wanted[k + 1].kind # "descend"
      <4>1. Written(wanted, k + 1) = <<Bracket(wanted[k + 1])>>
        BY <3>3 DEF Written
      <4>2. QED
        BY <3>1, <3>2, <3>3, <4>1 DEF WrittenAs
    <3>4. CASE ~(style = "brackets" /\ k < Len(wanted) /\ wanted[k + 1].kind # "descend")
      BY <3>1, <3>2, <3>4 DEF WrittenAs
    <3>5. QED
      BY <3>3, <3>4
  <2>5. QED
    BY <2>3, <2>4
<1>5. CASE /\ ~(segment.kind = "child" /\ Len(segment.names) = 1 /\ style = "dots")
           /\ ~(segment.kind = "wildcard" /\ style = "dots") /\ segment.kind # "descend"
  <2>1. part = <<Bracket(segment)>>
    BY <1>5 DEF Written
  <2>2. QED
    BY <2>1 DEF WrittenAs
<1>6. QED
  BY <1>2, <1>3, <1>4, <1>5

\* A segment written at its place among the tokens is read as itself or refused.
LEMMA SegmentIsRead ==
  ASSUME Len(wanted) \in Nat, DOMAIN wanted = 1 .. Len(wanted), NEW k \in 1 .. Len(wanted),
         NEW tokens, Len(tokens) \in Nat, DOMAIN tokens = 1 .. Len(tokens),
         NEW v, ParseTable(v, tokens, 1), NEW b \in Nat, NEW part, WrittenAs(part, k),
         \A j \in 1 .. Len(part) : b + j \in 1 .. Len(tokens) /\ tokens[b + j] = part[j],
         k < Len(wanted) /\ Written(wanted, k + 1) = <<Bracket(wanted[k + 1])>> =>
           b + Len(part) + 1 \in 1 .. Len(tokens) /\ tokens[b + Len(part) + 1] = Bracket(wanted[k + 1]),
         ReadFrom(wanted, v[b + Len(part) + 1], k + 1)
  PROVE  ReadFrom(wanted, v[b + 1], k)
<1> DEFINE i == b + 1
<1>1. ASSUME i \in 1 .. Len(tokens) PROVE v[i] = ParseFrom(tokens, v, i)
  <2>1. i \in 1 .. Len(tokens) + 1
    BY <1>1
  <2> HIDE DEF i
  <2>2. QED
    BY <2>1 DEF ParseTable
<1>2. ASSUME NEW x \in {wanted[k], Refusal}, v[i] = <<x>> \o v[b + Len(part) + 1]
      PROVE  ReadFrom(wanted, v[i], k)
  BY <1>2, ReadOneMore
<1>3. /\ Dot.token = "." /\ Asterisk.token = "*"
      /\ \A name : Word(name).token = "name" /\ Word(name).name = name
      /\ \A body : Bracket(body).token = "[" /\ Bracket(body).body = body
  BY DEF Dot, Asterisk, Word, Bracket
<1>4. ASSUME NEW name \in STRING, part = <<Dot, Word(name)>>, wanted[k] = ChildStep(<<name>>)
      PROVE  ReadFrom(wanted, v[i], k)
  <2>1. Len(part) = 2 /\ part[1] = Dot /\ part[2] = Word(name) /\ b + 2 = i + 1 /\ b + 2 + 1 = i + 2
    BY <1>4
  <2>2. /\ i \in 1 .. Len(tokens) /\ tokens[i] = Dot
        /\ i + 1 \in 1 .. Len(tokens) /\ tokens[i + 1] = Word(name)
    <3>1. 1 \in 1 .. Len(part) /\ 2 \in 1 .. Len(part)
      BY <2>1
    <3>2. /\ b + 1 \in 1 .. Len(tokens) /\ tokens[b + 1] = part[1]
          /\ b + 2 \in 1 .. Len(tokens) /\ tokens[b + 2] = part[2]
      BY <3>1
    <3>3. QED
      BY <2>1, <3>2
  <2> HIDE DEF i
  <2>3. ParseFrom(tokens, v, i) = <<ChildStep(<<name>>)>> \o v[i + 2]
    <3>1. /\ ~(i > Len(tokens))
          /\ IsToken(tokens, i, ".") /\ ~IsToken(tokens, i, "*") /\ ~IsToken(tokens, i, "[") /\ ~IsToken(tokens, i, "name")
          /\ IsToken(tokens, i + 1, "name") /\ ~IsToken(tokens, i + 1, ".") /\ ~IsToken(tokens, i + 1, "*") /\ ~IsToken(tokens, i + 1, "[")
          /\ tokens[i + 1].name = name
      BY <1>3, <2>2 DEF IsToken
    <3>2. QED
      BY <3>1 DEF ParseFrom
  <2>4. QED
    BY <1>1, <1>2, <1>4, <2>1, <2>2, <2>3
<1>5. ASSUME part = <<Dot, Asterisk>>, wanted[k] = WildcardStep PROVE ReadFrom(wanted, v[i], k)
  <2>1. Len(part) = 2 /\ part[1] = Dot /\ part[2] = Asterisk /\ b + 2 = i + 1 /\ b + 2 + 1 = i + 2
    BY <1>5
  <2>2. /\ i \in 1 .. Len(tokens) /\ tokens[i] = Dot
        /\ i + 1 \in 1 .. Len(tokens) /\ tokens[i + 1] = Asterisk
    BY <2>1
  <2> HIDE DEF i
  <2>3. ParseFrom(tokens, v, i) = <<WildcardStep>> \o v[i + 2]
    <3>1. /\ ~(i > Len(tokens))
          /\ IsToken(tokens, i, ".") /\ ~IsToken(tokens, i, "*") /\ ~IsToken(tokens, i, "[") /\ ~IsToken(tokens, i, "name")
          /\ IsToken(tokens, i + 1, "*") /\ ~IsToken(tokens, i + 1, ".") /\ ~IsToken(tokens, i + 1, "[") /\ ~IsToken(tokens, i + 1, "name")
      BY <1>3, <2>2 DEF IsToken
    <3>2. QED
      BY <3>1 DEF ParseFrom
  <2>4. QED
    BY <1>1, <1>2, <1>5, <2>1, <2>2, <2>3
<1>6. ASSUME NEW name \in STRING, part = <<Dot, Dot, Word(name)>>, wanted[k] = DescendStep(<<name>>)
      PROVE  ReadFrom(wanted, v[i], k)
  <2>1. /\ Len(part) = 3 /\ part[1] = Dot /\ part[2] = Dot /\ part[3] = Word(name)
        /\ b + 2 = i + 1 /\ b + 3 = i + 2 /\ b + 3 + 1 = i + 3
    BY <1>6
  <2>2. /\ i \in 1 .. Len(tokens) /\ tokens[i] = Dot
        /\ i + 1 \in 1 .. Len(tokens) /\ tokens[i + 1] = Dot
        /\ i + 2 \in 1 .. Len(tokens) /\ tokens[i + 2] = Word(name)
    <3>1. 1 \in 1 .. Len(part) /\ 2 \in 1 .. Len(part) /\ 3 \in 1 .. Len(part)
      BY <2>1
    <3>2. /\ b + 1 \in 1 .. Len(tokens) /\ tokens[b + 1] = part[1]
          /\ b + 2 \in 1 .. Len(tokens) /\ tokens[b + 2] = part[2]
          /\ b + 3 \in 1 .. Len(tokens) /\ tokens[b + 3] = part[3]
      BY <3>1
    <3>3. QED
      BY <2>1, <3>2
  <2> HIDE DEF i
  <2>3. ParseFrom(tokens, v, i) = <<DescendStep(<<name>>)>> \o v[i + 3]
    <3>1. /\ ~(i > Len(tokens))
          /\ IsToken(tokens, i, ".") /\ ~IsToken(tokens, i, "*") /\ ~IsToken(tokens, i, "[") /\ ~IsToken(tokens, i, "name")
          /\ IsToken(tokens, i + 1, ".") /\ ~IsToken(tokens, i + 1, "*") /\ ~IsToken(tokens, i + 1, "[") /\ ~IsToken(tokens, i + 1, "name")
          /\ IsToken(tokens, i + 2, "name") /\ ~IsToken(tokens, i + 2, ".") /\ ~IsToken(tokens, i + 2, "*") /\ ~IsToken(tokens, i + 2, "[")
          /\ tokens[i + 2].name = name
      BY <1>3, <2>2 DEF IsToken
    <3>2. QED
      BY <3>1 DEF ParseFrom
  <2>4. QED
    BY <1>1, <1>2, <1>6, <2>1, <2>2, <2>3
<1>7. ASSUME part = <<Dot, Dot, Asterisk>>, wanted[k] = DescendStep(<<>>)
      PROVE  ReadFrom(wanted, v[i], k)
  <2>1. /\ Len(part) = 3 /\ part[1] = Dot /\ part[2] = Dot /\ part[3] = Asterisk
        /\ b + 2 = i + 1 /\ b + 3 = i + 2 /\ b + 3 + 1 = i + 3
    BY <1>7
  <2>2. /\ i \in 1 .. Len(tokens) /\ tokens[i] = Dot
        /\ i + 1 \in 1 .. Len(tokens) /\ tokens[i + 1] = Dot
        /\ i + 2 \in 1 .. Len(tokens) /\ tokens[i + 2] = Asterisk
    BY <2>1
  <2> HIDE DEF i
  <2>3. ParseFrom(tokens, v, i) = <<DescendStep(<<>>)>> \o v[i + 3]
    <3>1. /\ ~(i > Len(tokens))
          /\ IsToken(tokens, i, ".") /\ ~IsToken(tokens, i, "*") /\ ~IsToken(tokens, i, "[") /\ ~IsToken(tokens, i, "name")
          /\ IsToken(tokens, i + 1, ".") /\ ~IsToken(tokens, i + 1, "*") /\ ~IsToken(tokens, i + 1, "[") /\ ~IsToken(tokens, i + 1, "name")
          /\ IsToken(tokens, i + 2, "*") /\ ~IsToken(tokens, i + 2, ".") /\ ~IsToken(tokens, i + 2, "[") /\ ~IsToken(tokens, i + 2, "name")
      BY <1>3, <2>2 DEF IsToken
    <3>2. QED
      BY <3>1 DEF ParseFrom
  <2>4. QED
    BY <1>1, <1>2, <1>7, <2>1, <2>2, <2>3
<1>8. ASSUME part = <<Dot, Dot>>, wanted[k] = DescendStep(<<>>), k < Len(wanted),
             Written(wanted, k + 1) = <<Bracket(wanted[k + 1])>>
      PROVE  ReadFrom(wanted, v[i], k)
  <2>1. Len(part) = 2 /\ part[1] = Dot /\ part[2] = Dot /\ b + 2 = i + 1 /\ b + 2 + 1 = i + 2
    BY <1>8
  <2>2. /\ i \in 1 .. Len(tokens) /\ tokens[i] = Dot
        /\ i + 1 \in 1 .. Len(tokens) /\ tokens[i + 1] = Dot
        /\ i + 2 \in 1 .. Len(tokens) /\ tokens[i + 2] = Bracket(wanted[k + 1])
    BY <1>8, <2>1
  <2> HIDE DEF i
  <2>3. ParseFrom(tokens, v, i) = <<DescendStep(<<>>)>> \o v[i + 2]
    <3>1. /\ ~(i > Len(tokens))
          /\ IsToken(tokens, i, ".") /\ ~IsToken(tokens, i, "*") /\ ~IsToken(tokens, i, "[") /\ ~IsToken(tokens, i, "name")
          /\ IsToken(tokens, i + 1, ".") /\ ~IsToken(tokens, i + 1, "*") /\ ~IsToken(tokens, i + 1, "[") /\ ~IsToken(tokens, i + 1, "name")
          /\ IsToken(tokens, i + 2, "[") /\ ~IsToken(tokens, i + 2, ".") /\ ~IsToken(tokens, i + 2, "*") /\ ~IsToken(tokens, i + 2, "name")
      BY <1>3, <2>2 DEF IsToken
    <3>2. QED
      BY <3>1 DEF ParseFrom
  <2>4. QED
    BY <1>1, <1>2, <1>8, <2>1, <2>2, <2>3
<1>9. ASSUME part = <<Bracket(wanted[k])>> PROVE ReadFrom(wanted, v[i], k)
  <2>1. Len(part) = 1 /\ part[1] = Bracket(wanted[k]) /\ b + 1 + 1 = i + 1
    BY <1>9
  <2>2. i \in 1 .. Len(tokens) /\ tokens[i] = Bracket(wanted[k])
    BY <2>1
  <2> HIDE DEF i
  <2>3. ParseFrom(tokens, v, i) = ParseBracket(wanted[k]) \o v[i + 1]
    <3>1. /\ ~(i > Len(tokens))
          /\ IsToken(tokens, i, "[") /\ ~IsToken(tokens, i, ".") /\ ~IsToken(tokens, i, "*") /\ ~IsToken(tokens, i, "name")
          /\ tokens[i].body = wanted[k]
      BY <1>3, <2>2 DEF IsToken
    <3>2. QED
      BY <3>1 DEF ParseFrom
  <2>4. ParseBracket(wanted[k]) \in {<<wanted[k]>>, <<Refusal>>}
    BY DEF ParseBracket, Unreadable, Refusal
  <2>5. \E x \in {wanted[k], Refusal} : ParseBracket(wanted[k]) = <<x>>
    BY <2>4
  <2>6. QED
    BY <1>1, <1>2, <2>1, <2>2, <2>3, <2>5
<1>10. QED
  BY <1>4, <1>5, <1>6, <1>7, <1>8, <1>9 DEF WrittenAs

\* What SUPPORTED_SYNTAX says is read as it is meant, or refused.
LEMMA ExpressionIsRead ==
  ASSUME Len(wanted) \in Nat, DOMAIN wanted = 1 .. Len(wanted), \A i \in 1 .. Len(wanted) : IsSegment(wanted[i])
  PROVE  ReadFrom(wanted, Parse(Expression), 1)
<1> DEFINE n == Len(wanted)
           T == {Dot, Asterisk} \cup {Word(name) : name \in STRING} \cup {Bracket(wanted[i]) : i \in 1 .. n}
           parts == [i \in DOMAIN wanted |-> Written(wanted, i)]
           tokens == FlattenSeq(parts)
<1>1. \A k \in 1 .. n : WrittenAs(Written(wanted, k), k)
  BY HowItIsWritten
<1>2. ASSUME NEW k \in 1 .. n PROVE Written(wanted, k) \in Seq(T)
  <2>1. /\ Dot \in T /\ Asterisk \in T /\ \A name \in STRING : Word(name) \in T
        /\ Bracket(wanted[k]) \in T
    OBVIOUS
  <2> HIDE DEF T
  <2>2. \A x, y, z \in T : <<x>> \in Seq(T) /\ <<x, y>> \in Seq(T) /\ <<x, y, z>> \in Seq(T)
    OBVIOUS
  <2>3. QED
    BY <1>1, <2>1, <2>2 DEF WrittenAs
<1> HIDE DEF T
<1>3. parts \in Seq(Seq(T)) /\ Len(parts) = n /\ \A k \in 1 .. n : parts[k] = Written(wanted, k)
  BY <1>2
<1> HIDE DEF parts
<1>4. tokens \in Seq(T) /\ \E off : Laid(parts, n, tokens, off)
  BY <1>3, FlatIsLaid
<1>5. Expression = tokens
  BY DEF Expression, parts
<1> HIDE DEF tokens
<1>6. PICK off : Laid(parts, n, tokens, off)
  BY <1>4
<1>7. Len(tokens) \in Nat /\ DOMAIN tokens = 1 .. Len(tokens)
  BY <1>4
<1>8. PICK v : ParseTable(v, tokens, 1) /\ Parse(tokens) = v[1]
  BY <1>7, ParsingIsDefined
<1>9. /\ off[0] = 0 /\ off[n] = Len(tokens)
      /\ \A k \in 1 .. n : off[k - 1] \in Nat /\ off[k] = off[k - 1] + Len(Written(wanted, k))
      /\ \A k \in 1 .. n : \A j \in 1 .. Len(Written(wanted, k)) :
           off[k - 1] + j \in 1 .. Len(tokens) /\ tokens[off[k - 1] + j] = Written(wanted, k)[j]
  <2>1. /\ off[0] = 0 /\ off[n] = Len(tokens)
        /\ \A k \in 1 .. n : /\ off[k - 1] \in Nat /\ off[k] \in Nat /\ off[k] <= Len(tokens)
                             /\ off[k] = off[k - 1] + Len(Written(wanted, k))
                             /\ Len(Written(wanted, k)) \in Nat
        /\ \A k \in 1 .. n : \A j \in 1 .. Len(Written(wanted, k)) :
             tokens[off[k - 1] + j] = Written(wanted, k)[j]
    BY <1>3, <1>6 DEF Laid
  <2>2. ASSUME NEW k \in 1 .. n, NEW j \in 1 .. Len(Written(wanted, k))
        PROVE  off[k - 1] + j \in 1 .. Len(tokens)
    <3> DEFINE L == Len(Written(wanted, k))
               b == off[k - 1]
               c == off[k]
    <3>1. b \in Nat /\ c \in Nat /\ c <= Len(tokens) /\ c = b + L /\ j \in 1 .. L /\ L \in Nat
      BY <2>1
    <3> HIDE DEF L, b, c
    <3>2. b + j \in 1 .. Len(tokens)
      BY <1>7, <3>1
    <3>3. QED
      BY <3>2 DEF b
  <2>3. QED
    BY <2>1, <2>2
<1> DEFINE Read(k) == ReadFrom(wanted, v[off[k - 1] + 1], k)
           S == {m \in Nat : m <= n /\ ~Read(n + 1 - m)}
<1>10. S = {}
  <2>1. SUFFICES ASSUME S # {} PROVE FALSE
    OBVIOUS
  <2>2. PICK m \in S : \A h \in S : m <= h
    BY <2>1, LeastNumber
  <2>3. m \in Nat /\ m <= n /\ ~Read(n + 1 - m)
    OBVIOUS
  <2>4. CASE m = 0
    <3> DEFINE e == Len(tokens) + 1
               none == <<>>
    <3>1. v[e] = ParseFrom(tokens, v, e)
      BY <1>7, <1>8 DEF ParseTable
    <3>2. ParseFrom(tokens, v, e) = none
      <4>1. e > Len(tokens) /\ e \notin DOMAIN tokens
        BY <1>7
      <4> HIDE DEF e
      <4>2. QED
        BY <4>1 DEF ParseFrom, IsToken
    <3>3. none = Rest(wanted, n + 1)
      <4>1. 1 .. Len(wanted) - (n + 1) + 1 = {}
        OBVIOUS
      <4>2. QED
        BY <4>1 DEF Rest
    <3>4. none \in Seq(CanBeRead(wanted))
      OBVIOUS
    <3>5. n + 1 - m = n + 1 /\ (n + 1) - 1 = n /\ off[n] + 1 = e
      BY <1>9, <2>4
    <3> HIDE DEF e, none
    <3>6. ReadFrom(wanted, v[e], n + 1)
      BY <3>1, <3>2, <3>3, <3>4 DEF ReadFrom
    <3>7. Read(n + 1)
      BY <3>5, <3>6
    <3>8. QED
      BY <2>3, <3>5, <3>7
  <2>5. CASE m # 0
    <3> DEFINE k == n + 1 - m
               b == off[k - 1]
               part == Written(wanted, k)
    <3>1. /\ k \in 1 .. n /\ m - 1 \in Nat /\ m - 1 <= n /\ ~(m <= m - 1)
          /\ n + 1 - (m - 1) = k + 1 /\ (k + 1) - 1 = k
      BY <2>3, <2>5
    <3>2. Read(k + 1)
      <4>1. m - 1 \notin S
        BY <2>2, <3>1
      <4>2. Read(n + 1 - (m - 1))
        BY <3>1, <4>1
      <4>3. QED
        BY <3>1, <4>2
    <3> HIDE DEF k
    <3>3. /\ b \in Nat /\ off[k] = b + Len(part) /\ WrittenAs(part, k)
          /\ \A j \in 1 .. Len(part) : b + j \in 1 .. Len(tokens) /\ tokens[b + j] = part[j]
      BY <1>1, <1>9, <3>1
    <3>4. ReadFrom(wanted, v[b + Len(part) + 1], k + 1)
      BY <3>1, <3>2, <3>3
    <3> DEFINE Next == k < Len(wanted) /\ Written(wanted, k + 1) = <<Bracket(wanted[k + 1])>>
    <3>5. ASSUME Next
          PROVE  b + Len(part) + 1 \in 1 .. Len(tokens) /\ tokens[b + Len(part) + 1] = Bracket(wanted[k + 1])
      <4>1. k + 1 \in 1 .. n
        BY <3>1, <3>5
      <4>2. Len(<<Bracket(wanted[k + 1])>>) = 1 /\ <<Bracket(wanted[k + 1])>>[1] = Bracket(wanted[k + 1])
        OBVIOUS
      <4>3. 1 \in 1 .. Len(Written(wanted, k + 1))
        BY <3>5, <4>2
      <4>4. /\ off[(k + 1) - 1] + 1 \in 1 .. Len(tokens)
            /\ tokens[off[(k + 1) - 1] + 1] = Written(wanted, k + 1)[1]
        BY <1>9, <4>1, <4>3
      <4>5. QED
        BY <3>1, <3>3, <3>5, <4>2, <4>4
    <3>6. k < Len(wanted) /\ Written(wanted, k + 1) = <<Bracket(wanted[k + 1])>> =>
            b + Len(part) + 1 \in 1 .. Len(tokens) /\ tokens[b + Len(part) + 1] = Bracket(wanted[k + 1])
      BY <3>5
    <3> HIDE DEF b, part
    <3>7. ReadFrom(wanted, v[b + 1], k)
      BY <1>7, <1>8, <3>1, <3>3, <3>4, <3>6, SegmentIsRead
    <3>8. QED
      BY <2>3, <3>7 DEF k, b
  <2>6. QED
    BY <2>4, <2>5
<1>11. Read(1)
  <2>1. n \in Nat /\ n <= n /\ n + 1 - n = 1
    OBVIOUS
  <2>2. QED
    BY <1>10, <2>1
<1>12. off[1 - 1] + 1 = 1
  BY <1>9
<1>13. QED
  BY <1>5, <1>8, <1>11, <1>12

\* For one document and one query.
LEMMA QueryFindsItsMatches ==
  ASSUME IsDocument(document), wanted \in Seq(Steps), \A segment \in Steps : IsSegment(segment)
  PROVE  QueriesFindTheirMatches
<1> DEFINE n == Len(wanted)
           read == Parse(Expression)
           result == Evaluate(document, wanted)
<1>1. n \in Nat /\ DOMAIN wanted = 1 .. n /\ \A i \in 1 .. n : IsSegment(wanted[i])
  OBVIOUS
<1>2. ReadFrom(wanted, read, 1)
  BY <1>1, ExpressionIsRead
<1>3. Finds(wanted, result, Selected(wanted)[n], n)
  BY <1>1, EvaluationFinds
<1>4. Rest(wanted, 1) = wanted
  <2>1. Rest(wanted, 1) = [i \in 1 .. n |-> wanted[i]]
    <3>1. n - 1 + 1 = n /\ \A i \in 1 .. n : 1 - 1 + i = i
      BY <1>1
    <3>2. QED
      BY <3>1 DEF Rest
  <2>2. QED
    BY <2>1
<1>5. Result = IF \E i \in DOMAIN read : read[i].kind = "refused" THEN [ok |-> FALSE, paths |-> <<>>]
               ELSE Evaluate(document, read)
  BY DEF Result, QueryJsonPath
<1> HIDE DEF read, result
<1>6. SUFFICES ASSUME Result.ok
               PROVE  /\ Range(Result.paths) = Selected(wanted)[n]
                      /\ WithoutRepeats(wanted) => IsInjective(Result.paths)
  BY DEF QueriesFindTheirMatches, WithoutRepeats, Once
<1>7. Result = result
  <2>1. ~\E i \in DOMAIN read : read[i].kind = "refused"
    BY <1>5, <1>6
  <2>2. read = wanted
    BY <1>2, <1>4, <2>1 DEF ReadFrom
  <2>3. QED
    BY <1>5, <2>1, <2>2 DEF result
<1>8. /\ \A q : q \in Range(Result.paths) <=> q \in Selected(wanted)[n]
      /\ WithoutRepeats(wanted) => IsInjective(Result.paths)
  BY <1>3, <1>6, <1>7 DEF Finds
<1>9. QED
  BY <1>8

\* The documents and segments of the page are those that there are.
QueryTypes == document \in JsonDocuments /\ wanted \in Seq(Steps)

\* QueriesFindTheirMatches, for documents of any depth and queries of any length:
\* what parse reads of an expression written as SUPPORTED_SYNTAX says, and
\* queryJsonPath finds with it, are the nodes its segments mean, none of them
\* twice but through a union or two descents; whatever the user types and
\* whichever document is pasted.
THEOREM QueriesFindWhatTheyMean ==
  QueryInit /\ [][TypeQuery \/ TypeDocument]_queryVars => []QueriesFindTheirMatches
<1>1. QueryInit => QueryTypes
  BY DEF QueryInit, QueryTypes
<1>2. QueryTypes /\ [TypeQuery \/ TypeDocument]_queryVars => QueryTypes'
  <2>1. SUFFICES ASSUME QueryTypes, [TypeQuery \/ TypeDocument]_queryVars PROVE QueryTypes'
    OBVIOUS
  <2>2. CASE TypeQuery
    <3>1. <<>> \in Seq(Steps) /\ \A segment \in Steps : Append(wanted, segment) \in Seq(Steps)
      BY <2>1 DEF QueryTypes
    <3>2. QED
      BY <2>1, <2>2, <3>1 DEF TypeQuery, QueryTypes
  <2>3. CASE TypeDocument
    BY <2>1, <2>3 DEF TypeDocument, QueryTypes
  <2>4. CASE UNCHANGED queryVars
    BY <2>1, <2>4 DEF queryVars, QueryTypes
  <2>5. QED
    BY <2>1, <2>2, <2>3, <2>4
<1>3. QueryTypes => QueriesFindTheirMatches
  BY JsonPathAssumption, QueryFindsItsMatches DEF QueryTypes
<1>4. QED
  BY <1>1, <1>2, <1>3, PTL

===============================================================================
