------------------------------ MODULE Workbench ------------------------------
(***************************************************************************)
(* The application's pages that keep something or talk to someone, as      *)
(* App.tsx mounts them: one at a time. A session here is spent on one of   *)
(* them, which it leaves and comes back to: the pages share the browser's  *)
(* two stores, but no record of them, and the address bar.                 *)
(***************************************************************************)
EXTENDS DocsSearch, DataWorkbench, Diagrams, ApiWorkbench, TeamSignIn

VARIABLE currentPath

workbenchPages == <<currentPath, docs, data, diagrams, workbench, team>>

Paths == {"/docs", "/data", "/diagrams", "/api-workbench", "/team"}

AppInit ==
  /\ currentPath \in Paths
  /\ DocsInit /\ DataInit /\ DiagramsInit /\ WorkbenchInit /\ SignInInit

\* RouterView.
AppNext ==
  \/ currentPath = "/docs" /\ DocsNext /\ UNCHANGED <<currentPath, data, diagrams, workbench, team>>
  \/ currentPath = "/data" /\ DataNext /\ UNCHANGED <<currentPath, docs, diagrams, workbench, team>>
  \/ currentPath = "/diagrams" /\ DiagramsNext /\ UNCHANGED <<currentPath, docs, data, workbench, team>>
  \/ currentPath = "/api-workbench" /\ WorkbenchNext /\ UNCHANGED <<currentPath, docs, data, diagrams, team>>
  \/ currentPath = "/team" /\ SignInNext /\ UNCHANGED <<currentPath, docs, data, diagrams, workbench>>

AppSpec == AppInit /\ [][AppNext]_workbenchPages

===============================================================================
