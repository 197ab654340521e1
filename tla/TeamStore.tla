------------------------------- MODULE TeamStore ------------------------------
(***************************************************************************)
(* The team database of internal/team/store.go: its tables, and the writes *)
(* that change them. Store.mu and the SQLite transaction make each write   *)
(* one step: it commits whole or leaves nothing. An operator below is what *)
(* a committed write did; where a constraint makes the write impossible    *)
(* the operator is false and the caller sees an error.                     *)
(***************************************************************************)
EXTENDS Integers, Sequences

CONSTANTS
  Subjects,     \* OIDC subjects
  Workspaces,   \* the identifiers newUUID may produce
  Packs,        \* content pack names
  Versions,     \* content pack versions
  None          \* a row or a column that is not there

Roles   == {"viewer", "editor", "admin"}
Actions == {"create-workspace", "rename-workspace", "set-member-role", "activate-pack"}
Record  == [actor : Subjects, action : Actions, role : Roles \union {None},
            target : Workspaces \union Packs]

ASSUME StoreAssumption ==
  /\ None \notin Subjects \union Versions \union Roles
  /\ Workspaces \intersect Packs = {}

VARIABLES
  users,     \* users
  owner,     \* workspaces: the owner of each that exists
  role,      \* workspace_members
  active,    \* active_packs: the version of each active pack
  audit,     \* audit_events, oldest first
  canvas     \* diagram_snapshots: who drew each workspace's canvas last

tables == <<users, owner, role, active, audit, canvas>>

StoreInit ==
  /\ users = {}
  /\ owner = [w \in Workspaces |-> None]
  /\ role = [w \in Workspaces |-> [u \in Subjects |-> None]]
  /\ active = [p \in Packs |-> None]
  /\ audit = <<>>
  /\ canvas = [w \in Workspaces |-> None]

\* A role change is recorded as "set-member-role:<role>" on the workspace: the record
\* names the role but not the member.
Log(a, action, r, target) ==
  audit' = Append(audit, [actor |-> a, action |-> action, role |-> r, target |-> target])

UpsertUser(u) ==
  /\ users' = users \union {u}
  /\ UNCHANGED <<owner, role, active, audit, canvas>>

\* The identifier is a fresh UUID; the owner's row must exist (foreign key) and the
\* owner becomes the first admin.
CreateWorkspace(u, w) ==
  /\ owner[w] = None
  /\ u \in users
  /\ owner' = [owner EXCEPT ![w] = u]
  /\ role' = [role EXCEPT ![w][u] = "admin"]
  /\ Log(u, "create-workspace", None, w)
  /\ UNCHANGED <<users, active, canvas>>

\* Mutant: actor and target swapped in the audit insert.
RenameWorkspaceSwapped(a, w) ==
  /\ owner[w] # None
  /\ Log(w, "rename-workspace", None, a)
  /\ UNCHANGED <<users, owner, role, active, canvas>>

\* Names are opaque here: what a rename leaves behind is its audit record.
RenameWorkspace(a, w) ==
  /\ owner[w] # None
  /\ Log(a, "rename-workspace", None, w)
  /\ UNCHANGED <<users, owner, role, active, canvas>>

\* Mutant: the role is written outside the transaction that writes the record.
AddMemberUnaudited(a, w, u, r) ==
  /\ owner[w] # None
  /\ u \in users
  /\ role' = [role EXCEPT ![w][u] = r]
  /\ Log(a, "set-member-role", r, w) \/ UNCHANGED audit
  /\ UNCHANGED <<users, owner, active, canvas>>

\* Mutant: foreign keys are not enforced.
AddMemberUnanchored(a, w, u, r) ==
  /\ role' = [role EXCEPT ![w][u] = r]
  /\ Log(a, "set-member-role", r, w)
  /\ UNCHANGED <<users, owner, active, canvas>>

\* Inserts a member or changes the role of one; both rows it refers to must exist.
AddMember(a, w, u, r) ==
  /\ owner[w] # None
  /\ u \in users
  /\ role' = [role EXCEPT ![w][u] = r]
  /\ Log(a, "set-member-role", r, w)
  /\ UNCHANGED <<users, owner, active, canvas>>

ActivatePack(a, p, v) ==
  /\ active' = [active EXCEPT ![p] = v]
  /\ Log(a, "activate-pack", None, p)
  /\ UNCHANGED <<users, owner, role, canvas>>

\* One snapshot per workspace, last write wins; not audited.
SaveDiagramSnapshot(w, u) ==
  /\ owner[w] # None
  /\ canvas' = [canvas EXCEPT ![w] = u]
  /\ UNCHANGED <<users, owner, role, active, audit>>

StoreTypeOK ==
  /\ users \subseteq Subjects
  /\ owner \in [Workspaces -> Subjects \union {None}]
  /\ role \in [Workspaces -> [Subjects -> Roles \union {None}]]
  /\ active \in [Packs -> Versions \union {None}]
  /\ audit \in Seq(Record)
  /\ canvas \in [Workspaces -> Subjects \union {None}]
===============================================================================
