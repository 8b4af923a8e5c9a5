--------------------------- MODULE ProjectCatalog ---------------------------
(***************************************************************************)
(* What a managed state root promises: a catalog of projects, each with its *)
(* open Proposals and its retained revisions, in which every creation,      *)
(* addition and deletion happens in one step.  A crash, an I/O error, a     *)
(* restart or a migration to the new layout changes nothing of it.          *)
(***************************************************************************)
CONSTANTS Projects, Proposals, ProjectOf

VARIABLES
  catalog,    \* the projects that exist
  workspaces, \* the Proposals whose workspace exists
  revised     \* the Proposals adopted as a retained revision

cvars == <<catalog, workspaces, revised>>

CInit == /\ catalog \subseteq Projects
         /\ workspaces \subseteq {p \in Proposals : ProjectOf[p] \in catalog}
         /\ revised = {}

AddProject(j) ==
  /\ j \notin catalog
  /\ catalog' = catalog \cup {j}
  /\ UNCHANGED <<workspaces, revised>>

\* A project goes with everything that belongs to it.
DropProject(j) ==
  /\ j \in catalog
  /\ catalog' = catalog \ {j}
  /\ workspaces' = {p \in workspaces : ProjectOf[p] # j}
  /\ revised' = {p \in revised : ProjectOf[p] # j}

AddWorkspace(p) ==
  /\ ProjectOf[p] \in catalog
  /\ p \notin workspaces
  /\ workspaces' = workspaces \cup {p}
  /\ UNCHANGED <<catalog, revised>>

DropWorkspace(p) ==
  /\ p \in workspaces \ revised
  /\ workspaces' = workspaces \ {p}
  /\ UNCHANGED <<catalog, revised>>

Revise(p) ==
  /\ p \in workspaces \ revised
  /\ revised' = revised \cup {p}
  /\ UNCHANGED <<catalog, workspaces>>

CNext ==
  \/ \E j \in Projects : AddProject(j) \/ DropProject(j)
  \/ \E p \in Proposals : AddWorkspace(p) \/ DropWorkspace(p) \/ Revise(p)

CSpec == CInit /\ [][CNext]_cvars
=============================================================================
