----------------------------- MODULE ApiWorkbench -----------------------------
(***************************************************************************)
(* The API workbench: ApiPage.tsx and RequestEditor.tsx over               *)
(* requestRunner.ts, requestPolicy.ts and environmentStore.ts. A request   *)
(* is composed from an operation and a server whose address may be an      *)
(* environment variable; its host must be allowed and confirmed by the     *)
(* user once per session. Variables and confirmed hosts are module state:  *)
(* they outlive the page but not a refresh.                                *)
(***************************************************************************)
EXTENDS Integers, FiniteSets

CONSTANTS
  Hosts,        \* bound: hosts that addresses resolve to, with their ports
  ClassOf,      \* what evaluateTarget finds a host to be
  Operations,   \* bound: operations of the loaded specification
  WithSchema,   \* those that document a JSON response
  Server,       \* a server address with an environment variable for its host
  MaxRequests   \* bound: requests on the wire in a session

Classes == {"loopback", "private", "suffix", "public", "linklocal", "credentials"}

ASSUME WorkbenchAssumption ==
  /\ ClassOf \in [Hosts -> Classes]
  /\ WithSchema \subseteq Operations
  /\ Server \notin Hosts
  /\ MaxRequests \in Nat

None == "none"

VARIABLES
  variables,       \* sessionEnv: the value of the server's variable, or None
  confirmedHosts,
  selectedOp,      \* None while no specification is loaded
  selectedServer,
  isExecuting,
  pendingConfirmation,  \* the dialog's host and the request, or NoConfirmation
  lastExecution,   \* the operation it was sent for, and its outcome
  lastValidation,  \* the operation whose response schema was applied, or None
  inFlight,        \* the fetches in progress
  wire,            \* history: the hosts that requests were sent to
  sent             \* requests sent so far

workbench == <<variables, confirmedHosts, selectedOp, selectedServer, isExecuting,
               pendingConfirmation, lastExecution, lastValidation, inFlight, wire, sent>>

Config(op, url) == [op |-> op, url |-> url]
Execution(op, outcome) == [op |-> op, outcome |-> outcome]
NoExecution == Execution(None, None)
Confirmation(host, config) == [host |-> host, config |-> config]
NoConfirmation == Confirmation(None, Config(None, None))

WorkbenchInit ==
  /\ selectedOp = None /\ selectedServer = Server
  /\ isExecuting = FALSE /\ pendingConfirmation = NoConfirmation
  /\ lastExecution = NoExecution /\ lastValidation = None
  /\ variables = None
  /\ confirmedHosts = {}
  /\ inFlight = {}
  /\ wire = {} /\ sent = 0

\* environmentStore.ts: a variable that is missing stays in the text.
ResolveUrl(url) == IF url = Server THEN variables ELSE url

\* requestPolicy.ts, without an allowance for public hosts.
Allowed(host) == ClassOf[host] \in {"loopback", "private", "suffix"}

\* A parsed specification: its first operation and first server are selected.
HandleParseSpec ==
  /\ selectedOp = None
  /\ \E op \in Operations, url \in Hosts \cup {Server} :
       selectedOp' = op /\ selectedServer' = url
  /\ UNCHANGED <<variables, confirmedHosts, isExecuting, pendingConfirmation, lastExecution,
                 lastValidation, inFlight, wire, sent>>

ChangeSpec ==
  /\ selectedOp # None
  /\ selectedOp' = None
  /\ UNCHANGED <<variables, confirmedHosts, selectedServer, isExecuting, pendingConfirmation,
                 lastExecution, lastValidation, inFlight, wire, sent>>

SelectOperation(op) ==
  /\ selectedOp # None
  /\ selectedOp' = op
  /\ UNCHANGED <<variables, confirmedHosts, selectedServer, isExecuting, pendingConfirmation,
                 lastExecution, lastValidation, inFlight, wire, sent>>

SelectServer(url) ==
  /\ selectedOp # None
  /\ selectedServer' = url
  /\ UNCHANGED <<variables, confirmedHosts, selectedOp, isExecuting, pendingConfirmation,
                 lastExecution, lastValidation, inFlight, wire, sent>>

\* handleAddEnvVar and handleDeleteEnvVar, whatever else is on the screen.
SetVariable(value) ==
  /\ variables' = value
  /\ UNCHANGED <<confirmedHosts, selectedOp, selectedServer, isExecuting, pendingConfirmation,
                 lastExecution, lastValidation, inFlight, wire, sent>>

\* runRequest up to its fetch, with the hosts confirmed by then.
RunRequest(config, confirmed, seenOp) ==
  LET host == ResolveUrl(config.url)
  IN \/ /\ host = None \/ (host # None /\ ~Allowed(host))
        /\ lastExecution' = Execution(config.op, "refused")
        /\ isExecuting' = FALSE /\ pendingConfirmation' = NoConfirmation
        /\ UNCHANGED <<inFlight, wire, sent>>
     \/ /\ host # None /\ Allowed(host) /\ host \notin confirmed
        /\ pendingConfirmation' = Confirmation(host, config)
        /\ isExecuting' = FALSE /\ lastExecution' = NoExecution
        /\ UNCHANGED <<inFlight, wire, sent>>
     \/ /\ host # None /\ Allowed(host) /\ host \in confirmed
        /\ sent < MaxRequests
        /\ sent' = sent + 1
        /\ inFlight' = inFlight \cup
             {[config |-> config, seenOp |-> seenOp, of |-> sent + 1, page |-> TRUE]}
        /\ wire' = wire \cup {host}
        /\ isExecuting' = TRUE /\ lastExecution' = NoExecution /\ pendingConfirmation' = NoConfirmation

\* The editor's Send button; it is disabled while a request is executing or a
\* variable of the address is missing.
HandleSend ==
  /\ selectedOp # None /\ ~isExecuting /\ pendingConfirmation = NoConfirmation
  /\ ResolveUrl(selectedServer) # None
  /\ RunRequest(Config(selectedOp, selectedServer), confirmedHosts, selectedOp)
  /\ lastValidation' = None
  /\ UNCHANGED <<variables, confirmedHosts, selectedOp, selectedServer>>

\* Mutant: the confirmed request is sent without looking at its address again.
HandleConfirmHostBlindly ==
  /\ pendingConfirmation # NoConfirmation
  /\ confirmedHosts' = confirmedHosts \cup {pendingConfirmation.host}
  /\ RunRequest(pendingConfirmation.config,
                confirmedHosts' \cup {ResolveUrl(pendingConfirmation.config.url)}, selectedOp)
  /\ lastValidation' = None
  /\ UNCHANGED <<variables, selectedOp, selectedServer>>

\* The dialog confirms the host it names, and the request is run again, its
\* address resolved anew.
HandleConfirmHost ==
  /\ pendingConfirmation # NoConfirmation
  /\ confirmedHosts' = confirmedHosts \cup {pendingConfirmation.host}
  /\ RunRequest(pendingConfirmation.config, confirmedHosts', selectedOp)
  /\ lastValidation' = None
  /\ UNCHANGED <<variables, selectedOp, selectedServer>>

CancelConfirmation ==
  /\ pendingConfirmation # NoConfirmation
  /\ pendingConfirmation' = NoConfirmation
  /\ UNCHANGED <<variables, confirmedHosts, selectedOp, selectedServer, isExecuting,
                 lastExecution, lastValidation, inFlight, wire, sent>>

\* The fetch ends: with JSON, another body, or not at all (30 s, the network).
\* What came is validated with the operation the sending render had selected.
FinishRequest(r, outcome) ==
  /\ inFlight' = inFlight \ {r}
  /\ IF r.page
       THEN /\ isExecuting' = FALSE
            /\ lastExecution' = Execution(r.config.op, outcome)
            /\ lastValidation' = IF outcome = "json" /\ r.seenOp \in WithSchema
                                   THEN r.seenOp ELSE lastValidation
       ELSE UNCHANGED <<isExecuting, lastExecution, lastValidation>>
  /\ UNCHANGED <<variables, confirmedHosts, selectedOp, selectedServer, pendingConfirmation,
                 wire, sent>>

\* The page is mounted anew.
Mount ==
  /\ selectedOp' = None /\ selectedServer' = Server
  /\ isExecuting' = FALSE /\ pendingConfirmation' = NoConfirmation
  /\ lastExecution' = NoExecution /\ lastValidation' = None

\* The page is left and opened again: fetches go on, but reach nobody.
LeaveWorkbench ==
  /\ Mount
  /\ inFlight' = {[r EXCEPT !.page = FALSE] : r \in inFlight}
  /\ UNCHANGED <<variables, confirmedHosts, wire, sent>>

\* A refresh of the browser.
Refresh ==
  /\ Mount
  /\ variables' = None
  /\ confirmedHosts' = {}
  /\ inFlight' = {} /\ wire' = {}
  /\ UNCHANGED sent

WorkbenchNext ==
  \/ HandleParseSpec \/ ChangeSpec
  \/ \E op \in Operations : SelectOperation(op)
  \/ \E url \in Hosts \cup {Server} : SelectServer(url)
  \/ \E value \in Hosts \cup {None} : SetVariable(value)
  \/ HandleSend \/ HandleConfirmHost \/ CancelConfirmation
  \/ \E r \in inFlight, outcome \in {"json", "other", "error"} : FinishRequest(r, outcome)
  \/ LeaveWorkbench \/ Refresh

WorkbenchSpec == WorkbenchInit /\ [][WorkbenchNext]_workbench

-------------------------------------------------------------------------------
(* Properties *)

\* Requests have only been sent to hosts that the policy allows and that the
\* user has confirmed in the dialog since the last refresh, however variables
\* change between the dialog and the answer to it (README.md:
\* "permitted only to loopback, RFC1918 private IPv4 and approved private DNS
\* suffixes, with a confirmation dialog on first use of each host").
OnlyConfirmedHosts == wire \subseteq {h \in confirmedHosts : Allowed(h)}

===============================================================================
