------------------------------ MODULE TeamService -----------------------------
(***************************************************************************)
(* Requests on the team routes (internal/httpapi/team_routes.go) and on    *)
(* the collaboration socket, served concurrently: identify the caller,     *)
(* ask WorkspaceService.Authorize, then write. Each is a transaction of    *)
(* its own, so other requests come between the question and the write.     *)
(***************************************************************************)
EXTENDS TeamStore

CONSTANTS
  Requests,       \* requests in flight at once
  GlobalAdmins,   \* subjects whose token carries the admin role
  MaxRecords      \* bound: audit records written

ASSUME ServiceAssumption ==
  /\ GlobalAdmins \subseteq Subjects
  /\ MaxRecords \in Nat

VARIABLES
  pc,      \* where each request is
  asked,   \* what it asks for
  held     \* history: every role anybody held, as <<workspace, subject, role>>

vars == <<tables, pc, asked, held>>

\* What a caller may ask. Reads change nothing and are left out.
Ops == {"me", "create", "rename", "add-member", "activate", "draw"}
Ask == [op : Ops, by : Subjects, ws : Workspaces, user : Subjects,
        as : Roles, pack : Packs, version : Versions]

Init ==
  /\ StoreInit
  /\ pc = [r \in Requests |-> "idle"]
  /\ asked = [r \in Requests |-> None]
  /\ held = {}

Goto(r, label) == pc' = [pc EXCEPT ![r] = label]

\* The request is answered, with success or an error.
Answer(r) ==
  /\ Goto(r, "idle")
  /\ asked' = [asked EXCEPT ![r] = None]

\* What is left unread in a request for this operation is fixed, not explored.
Relevant(q) ==
  /\ q.op \notin {"rename", "add-member", "draw"} =>
       q.ws = CHOOSE w \in Workspaces : TRUE
  /\ q.op # "add-member" =>
       q.user = (CHOOSE u \in Subjects : TRUE) /\ q.as = "viewer"
  /\ q.op # "activate" =>
       q.pack = (CHOOSE p \in Packs : TRUE) /\ q.version = CHOOSE v \in Versions : TRUE

\* A request arrives with a valid token. The team routes persist the caller first
\* and fail if they cannot (no step then); the socket does not.
Identify(r) ==
  /\ pc[r] = "idle"
  /\ \E q \in Ask :
       /\ Relevant(q)
       /\ IF q.op = "draw" THEN UNCHANGED tables ELSE UpsertUser(q.by)
       /\ IF q.op = "me"
          THEN UNCHANGED <<pc, asked>>
          ELSE /\ Goto(r, "identified")
               /\ asked' = [asked EXCEPT ![r] = q]
  /\ UNCHANGED held

\* Mutant: any member who may write may manage members.
EntitledToWrite(q) ==
  \/ q.by \in GlobalAdmins
  \/ q.op = "create"
  \/ q.op \in {"rename", "add-member"} /\ role[q.ws][q.by] \in {"editor", "admin"}
  \/ q.op = "draw" /\ role[q.ws][q.by] # None

\* Authorize: a global admin may do anything, packs are for them alone, and the
\* rest goes by the role the caller has now. A socket asks for read access. (Create
\* asks nothing.)
Entitled(q) ==
  \/ q.by \in GlobalAdmins
  \/ q.op = "create"
  \/ q.op = "rename"     /\ role[q.ws][q.by] \in {"editor", "admin"}
  \/ q.op = "add-member" /\ role[q.ws][q.by] = "admin"
  \/ q.op = "draw"       /\ role[q.ws][q.by] # None

Authorize(r) ==
  /\ pc[r] = "identified"
  /\ IF Entitled(asked[r]) THEN Goto(r, "entitled") /\ UNCHANGED asked ELSE Answer(r)
  /\ UNCHANGED <<tables, held>>

\* The write the request is for.
Write(q) ==
  \/ /\ q.op = "create"
     /\ \E w \in Workspaces : CreateWorkspace(q.by, w)
  \/ q.op = "rename"     /\ RenameWorkspace(q.by, q.ws)
  \/ q.op = "add-member" /\ AddMember(q.by, q.ws, q.user, q.as)
  \/ q.op = "activate"   /\ ActivatePack(q.by, q.pack, q.version)
  \/ q.op = "draw"       /\ SaveDiagramSnapshot(q.ws, q.by)

\* The write commits. A socket goes on serving its peer.
Commit(r) ==
  /\ pc[r] = "entitled"
  /\ asked[r].op # "draw" => Len(audit) < MaxRecords
  /\ Write(asked[r])
  /\ held' = held \union {h \in Workspaces \X Subjects \X Roles : role'[h[1]][h[2]] = h[3]}
  /\ IF asked[r].op = "draw" THEN UNCHANGED <<pc, asked>> ELSE Answer(r)

\* The request ends without a write: a constraint, a database error, a cancelled
\* context, a crash of the server, the end of the socket.
Fail(r) ==
  /\ pc[r] # "idle"
  /\ Answer(r)
  /\ UNCHANGED <<tables, held>>

Next == \E r \in Requests : Identify(r) \/ Authorize(r) \/ Commit(r) \/ Fail(r)

Spec == Init /\ [][Next]_vars
-------------------------------------------------------------------------------
TypeOK ==
  /\ StoreTypeOK
  /\ pc \in [Requests -> {"idle", "identified", "entitled"}]
  /\ asked \in [Requests -> Ask \union {None}]
  /\ held \subseteq Workspaces \X Subjects \X Roles

\* Whoever changed a membership was an admin of that workspace at some time, or of
\* the installation: no chain of grants, overlapping as it may, lets anyone else in.
GrantsComeFromAdmins ==
  \A i \in 1..Len(audit) :
    LET e == audit[i]
    IN  e.action = "set-member-role" =>
          e.actor \in GlobalAdmins \/ <<e.target, e.actor, "admin">> \in held

\* Every role in the roster is accounted for in the audit trail, whatever requests
\* fail or overlap: it is the creator's, or a record says that role was granted.
RosterIsAudited ==
  \A w \in Workspaces, u \in Subjects :
    role[w][u] # None =>
      \E i \in 1..Len(audit) :
        /\ audit[i].target = w
        /\ \/ audit[i].action = "set-member-role" /\ audit[i].role = role[w][u]
           \/ audit[i].action = "create-workspace" /\ audit[i].actor = u

\* A workspace's owner is always one of its members, and every member, owner and
\* caller whose write was recorded is a user the store knows.
RowsAreAnchored ==
  /\ \A w \in Workspaces : owner[w] # None => role[w][owner[w]] # None
  /\ \A w \in Workspaces, u \in Subjects :
       role[w][u] # None => owner[w] # None /\ u \in users
  /\ \A i \in 1..Len(audit) : audit[i].actor \in users

\* threat-model-phase-3.md:16: the caller's role is verified before any write, so
\* that a viewer cannot write content. Whoever drew a canvas held a role that may
\* write.
ViewersOnlyRead ==
  \A w \in Workspaces :
    canvas[w] # None =>
      \/ canvas[w] \in GlobalAdmins
      \/ \E r \in {"editor", "admin"} : <<w, canvas[w], r>> \in held
===============================================================================
