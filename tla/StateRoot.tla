------------------------------ MODULE StateRoot ------------------------------
(***************************************************************************)
(* The managed state root on disk: project trees with their retained        *)
(* revisions and Proposal workspaces, the content-addressed objects they    *)
(* share, and the recovery backups of the migration from the old layout.    *)
(*                                                                          *)
(* A project is created in a staging tree and published by a rename,        *)
(* deleted by a rename that hides its tree until everything of it is gone,  *)
(* and migrated behind a journal.  Deleting a Proposal or a project drops   *)
(* the objects nothing else refers to.  One operation runs at a time (the   *)
(* Store mutex and the state-root lease); each is a sequence of durable     *)
(* steps, of which any may fail with an I/O error and between any two of    *)
(* which the process may die.  The next start inspects the whole root       *)
(* read-only, refuses it or finishes what it finds (ManagedStorage::open).  *)
(***************************************************************************)
EXTENDS Naturals, Sequences, FiniteSets

CONSTANTS
  Projects, Proposals, Objects,
  ProjectOf,   \* ProjectOf[p]: the project Proposal p belongs to
  Base,        \* Base[j]: the objects of the first revision of project j
  Site,        \* Site[p]: the objects of the workspace of Proposal p
  Rank,        \* Rank[j]: the place of project j in directory order
  Legacy,      \* the projects that exist at the start, in the old layout
  MaxProjects, \* limit on the number of projects
  FaultSites,  \* the steps an I/O error or a process death may interrupt
  MaxFaults,   \* bound on the number of I/O errors of a behaviour
  MaxCrashes   \* bound on the number of process deaths of a behaviour

ASSUME StateRootAssumption ==
  /\ ProjectOf \in [Proposals -> Projects]
  /\ IsFiniteSet(Projects) /\ Rank \in [Projects -> Nat]
  /\ Base \in [Projects -> SUBSET Objects]
  /\ Site \in [Proposals -> SUBSET Objects]
  /\ Legacy \subseteq Projects
  /\ MaxFaults \in Nat /\ MaxCrashes \in Nat

VARIABLES
  disk,    \* what a restart finds; its fields are in Disks below
  phase,   \* "down", "opening", "serving" or "refused"
  todo,    \* the durable steps <<name, subject>> the running operation has left
  doomed,  \* the objects it is dropping
  loaded,  \* the projects of the Store in memory
  used,    \* the identifiers given out so far; they are random and fresh
  settled, \* history: the last creation or deletion answered with success
  faults, crashes

vars == <<disk, phase, todo, doomed, loaded, used, settled, faults, crashes>>

Disks ==
  [tree      : [Projects -> {"absent", "creating", "active", "deleting", "torn"}],
   marked    : SUBSET Projects,          \* trees with layout.json
   aside     : SUBSET Projects,          \* .migration-old- trees
   migrating : [Projects -> {"absent", "partial", "whole"}],
   journal   : SUBSET Projects,          \* migrations/<project>.json
   backup    : [Projects -> {"absent", "creating", "kept", "deleting", "torn"}],
   temporary : SUBSET Projects,          \* an orphan temporary in revisions/
   revised   : SUBSET Proposals,         \* adopted as a retained revision
   workspace : [Proposals -> {"absent", "creating", "kept", "deleting", "torn"}],
   objects   : SUBSET Objects]

-----------------------------------------------------------------------------
(* What the disk says. *)

Of(j) == {p \in Proposals : ProjectOf[p] = j}
Active(d) == {j \in Projects : d.tree[j] = "active"}

\* The objects the retained revisions of j name.
Manifests(d, j) == Base[j] \cup UNION {Site[p] : p \in Of(j) \cap d.revised}
Readable(d, j) == Manifests(d, j) \subseteq d.objects

\* The objects of the Proposal workspaces of j in one of the given states.
Workspaces(d, j, states) ==
  UNION {Site[p] : p \in {q \in Of(j) : d.workspace[q] \in states}}

\* Mutant: the workspaces under review are not looked at.
Reachable_RevisionsOnly(d) == UNION {Manifests(d, j) : j \in Active(d)}

\* collect_active_object_bindings: hidden and staged trees are passed over.
Reachable(d) ==
  UNION {Manifests(d, j) \cup Workspaces(d, j, {"kept"}) : j \in Active(d)}

\* It takes any name in revisions/ but a manifest's for a corruption.
Collectable(d) == Active(d) \cap d.temporary = {}

\* No backup is staged, hidden or torn, but perhaps that of j.
OthersWhole(d, j) == \A k \in Projects \ {j} : d.backup[k] \in {"absent", "kept"}

\* preflight_backup_inventory: staging is disposable, the rest verifies.
AcceptedBackup(d, j) == d.backup[j] # "torn"

\* preflight_proposal_root
AcceptedWorkspace(d, p) == d.workspace[p] # "torn"

\* preflight_project_inventory: staging of creations and migrations is
\* disposable, a hidden project must still be whole.
AcceptedProject(d, j) ==
  /\ d.tree[j] # "torn"
  /\ d.tree[j] \in {"active", "deleting"} =>
       Readable(d, j) /\ \A p \in Of(j) : AcceptedWorkspace(d, p)

\* preflight_existing_managed_root: what the first, read-only phase of a start
\* accepts.
Accepted(d) ==
  /\ \A j \in Projects : AcceptedBackup(d, j) /\ AcceptedProject(d, j)
  /\ Cardinality(Active(d)) <= MaxProjects

\* verify_backup_root
Backed(d, j) == d.backup[j] = "kept"

\* validate_migrated_staging
Migrated(d, j) == d.migrating[j] = "whole"

\* project_has_valid_layout, of the active tree.
HasNewLayout(d, j) == j \in Active(d) \cap d.marked

\* The whole of a project that passes validate_project_core, but for what the
\* sweep of its Proposals finds.
Valid(d, j) == j \in Active(d) \ d.temporary /\ Readable(d, j)

-----------------------------------------------------------------------------
(* The read-only recovery a refused start falls back to. *)

\* active_recovery_summary: the current revision and its objects are read under
\* the name of the project; the model asks for all revisions.
AcceptedPoint(d, j) == j \in Active(d) /\ Readable(d, j)

\* verified_backup_summary: a backup carries its own files.
BackupPoint(d, j) == Backed(d, j)

\* list_points, new_recovery: the projects with a verified point.  Interrupted
\* entries are listed as unverified; more projects than the limit are an error.
Points(d) ==
  IF Cardinality(Active(d)) > MaxProjects THEN {}
  ELSE {j \in Projects : AcceptedPoint(d, j) \/ BackupPoint(d, j)}

-----------------------------------------------------------------------------
(* The operations as sequences of durable steps. *)

\* A step of S for each of its projects, in directory order.
Each(name, S) ==
  [i \in 1..Cardinality(S) |->
     <<name, CHOOSE j \in S : Cardinality({k \in S : Rank[k] < Rank[j]}) = i - 1>>]

Creation(j) == << <<"stage", j>>, <<"fill", j>>, <<"publish", j>>, <<"created", j>> >>

Preparation(p) == << <<"sweep", ProjectOf[p]>>, <<"stageWorkspace", p>>,
                     <<"fillWorkspace", p>>, <<"publishWorkspace", p>> >>

Cleanup(p) == << <<"collect", p>>, <<"removeWorkspace", p>> >>
WorkspaceDeletion(p) == << <<"sweep", ProjectOf[p]>>, <<"hideWorkspace", p>> >> \o Cleanup(p)

Commit(p) == << <<"fillRevision", p>>, <<"manifest", p>> >>

ProjectDeletion(j) == << <<"validate", j>>, <<"hide", j>>, <<"finish", j>>, <<"deleted", j>> >>

Opening == << <<"preflight", "all">>, <<"migrations", "all">>, <<"orphans", "all">>,
              <<"deletions", "all">>, <<"hidden", "all">>, <<"projects", "all">>, <<"serve", "all">> >>

\* Mutant: the swap comes first, the backup is made of the new tree.
Resumption_BackupLast(d, j) ==
  (IF HasNewLayout(d, j) THEN << >>
   ELSE << <<"copyTree", j>>, <<"setAside", j>>, <<"swap", j>> >>)
  \o << <<"copyBackup", j>>, <<"publishBackup", j>>, <<"removeAside", j>>, <<"endJournal", j>> >>

\* resume_migration: back up the old tree, build the new one beside it, swap
\* them, and only then remove the old one and the journal.
Resumption(d, j) ==
  (IF Backed(d, j) THEN << >>
   ELSE << <<"validate", j>>, <<"copyBackup", j>>, <<"publishBackup", j>> >>)
  \o (IF HasNewLayout(d, j) THEN << <<"validate", j>> >>
      ELSE (IF Migrated(d, j) THEN << >> ELSE << <<"copyTree", j>> >>)
           \o (IF j \in Active(d) THEN << <<"setAside", j>> >> ELSE << >>)
           \o << <<"swap", j>>, <<"validate", j>> >>)
  \o << <<"removeAside", j>>, <<"endJournal", j>> >>

\* What an operation still does when one of its steps fails: create_project and
\* prepare_proposal remove their staging once they have begun to fill it.
Rescue(d, step) ==
  CASE step[1] \in {"fill", "publish"} /\ d.tree[step[2]] = "creating" ->
         << <<"unstage", step[2]>> >>
    [] step[1] \in {"fillWorkspace", "publishWorkspace"} /\ d.workspace[step[2]] = "creating" ->
         Cleanup(step[2])
    [] OTHER -> << >>

-----------------------------------------------------------------------------
(* How a step ends. *)

Init ==
  /\ disk \in [tree      : {[j \in Projects |-> IF j \in Legacy THEN "active" ELSE "absent"]},
               marked    : {{}}, aside : {{}}, journal : {{}}, temporary : {{}}, revised : {{}},
               migrating : {[j \in Projects |-> "absent"]},
               backup    : {[j \in Projects |-> "absent"]},
               workspace : {w \in [Proposals -> {"absent", "kept"}] :
                              \A p \in Proposals : ProjectOf[p] \notin Legacy => w[p] = "absent"},
               objects   : SUBSET Objects]
  /\ disk.objects = (UNION {Base[j] : j \in Legacy}) \cup
                    (UNION {Site[p] : p \in {q \in Proposals : disk.workspace[q] = "kept"}})
  /\ phase = "down"
  /\ todo = << >>
  /\ doomed = {}
  /\ loaded = {}
  /\ used = Legacy
  /\ settled = [j \in Projects |-> IF j \in Legacy THEN "created" ELSE "none"]
  /\ faults = 0
  /\ crashes = 0

Fault == faults < MaxFaults /\ faults' = faults + 1 /\ UNCHANGED crashes
Death == crashes < MaxCrashes /\ crashes' = crashes + 1 /\ UNCHANGED faults

\* The running operation ends with an error: a start fails, a request is
\* answered with the error and leaves the Store as it was.
Fail(p, rescue) ==
  /\ doomed' = {}
  /\ IF phase = "opening"
     THEN phase' = p /\ todo' = << >> /\ loaded' = {}
     ELSE todo' = rescue /\ UNCHANGED <<phase, loaded>>

\* The process dies.
Die == /\ Death
       /\ phase' = "down" /\ todo' = << >> /\ doomed' = {} /\ loaded' = {}

\* The next step of the running operation is <<name, s>>.  Where it finds what
\* it expects (ok), it leaves the disk in the state done, and then goes before
\* the rest; where it does not, the operation ends (StorageError::Corrupt).  An
\* I/O error or a death leaves the disk as it was, changed, or in one of the
\* states partial; the error may also hit the removal of what was begun, whose
\* result the code ignores.
Step(name, s, ok, done, partial, then) ==
  /\ todo # << >> /\ Head(todo) = <<name, s>> /\ doomed = {}
  /\ UNCHANGED <<used, settled>>
  /\ \/ /\ ok
        /\ disk' = done
        /\ todo' = then \o Tail(todo)
        /\ UNCHANGED <<phase, loaded, doomed, faults, crashes>>
     \/ /\ ~ok
        /\ Fail("refused", << >>)
        /\ UNCHANGED <<disk, faults, crashes>>
     \/ /\ ok /\ name \in FaultSites
        /\ disk' \in {disk, done} \cup partial
        /\ Fault
        /\ Fail("down", Rescue(disk', <<name, s>>))
     \/ /\ ok /\ name \in FaultSites
        /\ disk' \in {disk} \cup partial
        /\ Die

\* A step that only reads the disk.
Check(name, s, ok, then) == Step(name, s, ok, disk, {}, then)

\* cleanup_candidate_objects: what nothing reaches is dropped before the
\* operation goes on; without a candidate nothing else is looked at.
Collect(name, s, ok, candidates) ==
  /\ todo # << >> /\ Head(todo) = <<name, s>> /\ doomed = {}
  /\ UNCHANGED <<disk, used, settled, faults, crashes>>
  /\ IF ok /\ (candidates = {} \/ Collectable(disk))
     THEN /\ doomed' = (candidates \ Reachable(disk)) \cap disk.objects
          /\ todo' = Tail(todo)
          /\ UNCHANGED <<phase, loaded>>
     ELSE Fail("refused", << >>)

\* remove_exact_candidate_object: one after the other, in the order of their
\* digests, which is any.
Drop(o) ==
  /\ o \in doomed
  /\ UNCHANGED <<used, settled>>
  /\ \/ /\ disk' = [disk EXCEPT !.objects = @ \ {o}]
        /\ doomed' = doomed \ {o}
        /\ UNCHANGED <<phase, todo, loaded, faults, crashes>>
     \/ /\ "drop" \in FaultSites
        /\ disk' \in {disk, [disk EXCEPT !.objects = @ \ {o}]}
        /\ Fault
        /\ Fail("down", << >>)

-----------------------------------------------------------------------------
(* create_project *)

StageProject(j) ==
  Step("stage", j, disk.tree[j] = "absent", [disk EXCEPT !.tree[j] = "creating"], {}, << >>)

\* The staging tree gets its first revision, whose objects are written before.
FillProject(j) ==
  Step("fill", j, TRUE, [disk EXCEPT !.objects = @ \cup Base[j]],
       {[disk EXCEPT !.objects = @ \cup some] : some \in SUBSET Base[j]}, << >>)

PublishProject(j) ==
  Step("publish", j, TRUE, [disk EXCEPT !.tree[j] = "active", !.marked = @ \cup {j}], {}, << >>)

UnstageProject(j) ==
  Step("unstage", j, TRUE, [disk EXCEPT !.tree[j] = "absent"], {}, << >>)

\* The project enters the Store, and the request is answered.
ProjectCreated(j) ==
  /\ todo # << >> /\ Head(todo) = <<"created", j>>
  /\ loaded' = loaded \cup {j}
  /\ settled' = [settled EXCEPT ![j] = "created"]
  /\ todo' = Tail(todo)
  /\ UNCHANGED <<disk, phase, doomed, used, faults, crashes>>

-----------------------------------------------------------------------------
(* prepare_proposal, delete_proposal, commit_revision_at *)

\* The leftovers of an earlier addition or deletion of a Proposal.
Leftovers(d, j) == {p \in Of(j) : d.workspace[p] \in {"creating", "deleting", "torn"}}

\* Mutant: what was left stays.
SweepProposals_Nothing(j) == Check("sweep", j, disk.tree[j] = "active", << >>)

\* recover_owned_proposal_staging: all of them go, in some order.
SweepProposals(j) ==
  \/ /\ Leftovers(disk, j) = {}
     /\ Check("sweep", j, disk.tree[j] = "active", << >>)
  \/ \E p \in Leftovers(disk, j) :
       Check("sweep", j, disk.tree[j] = "active", Cleanup(p) \o << <<"sweep", j>> >>)

StageWorkspace(p) ==
  Step("stageWorkspace", p, disk.workspace[p] = "absent",
       [disk EXCEPT !.workspace[p] = "creating"], {}, << >>)

FillWorkspace(p) ==
  Step("fillWorkspace", p, TRUE, [disk EXCEPT !.objects = @ \cup Site[p]],
       {[disk EXCEPT !.objects = @ \cup some] : some \in SUBSET Site[p]}, << >>)

PublishWorkspace(p) ==
  Step("publishWorkspace", p, TRUE, [disk EXCEPT !.workspace[p] = "kept"], {}, << >>)

HideWorkspace(p) ==
  Step("hideWorkspace", p, disk.workspace[p] = "kept",
       [disk EXCEPT !.workspace[p] = "deleting"], {}, << >>)

\* complete_proposal_staging_cleanup: a hidden workspace must be whole, a staged
\* one may hold any part of its site.
CollectWorkspace(p) ==
  \E files \in (IF disk.workspace[p] = "creating" THEN SUBSET Site[p] ELSE {Site[p]}) :
    Collect("collect", p, disk.workspace[p] # "torn", files)

RemoveWorkspace(p) ==
  Step("removeWorkspace", p, TRUE, [disk EXCEPT !.workspace[p] = "absent"],
       IF disk.workspace[p] = "deleting" THEN {[disk EXCEPT !.workspace[p] = "torn"]} ELSE {},
       << >>)

\* The objects of an adopted Proposal are written anew, then its manifest: a
\* temporary with its bytes takes its name.
FillRevision(p) ==
  Step("fillRevision", p, disk.tree[ProjectOf[p]] = "active",
       [disk EXCEPT !.objects = @ \cup Site[p]], {}, << >>)

WriteManifest(p) ==
  Step("manifest", p, TRUE, [disk EXCEPT !.revised = @ \cup {p}],
       {[disk EXCEPT !.temporary = @ \cup {ProjectOf[p]}]}, << >>)

-----------------------------------------------------------------------------
(* delete_project *)

\* validate_new_project, which sweeps the Proposals too.
ValidateProject(j) == Check("validate", j, Valid(disk, j), << <<"sweep", j>> >>)

HideProject(j) ==
  Step("hide", j,
       /\ j \notin disk.journal
       /\ OthersWhole(disk, j) /\ disk.backup[j] \in {"absent", "kept"},
       [disk EXCEPT !.tree[j] = "deleting"], {}, << >>)

\* Mutant: the backups of the project are forgotten.
FinishDeletion_KeepsBackup(j) ==
  Check("finish", j, disk.tree[j] = "deleting", << <<"collectProject", j>>, <<"removeTree", j>> >>)

\* complete_project_delete: the objects first, then the backups, then the tree.
FinishDeletion(j) ==
  Check("finish", j, disk.tree[j] = "deleting",
        << <<"collectProject", j>>, <<"hideBackup", j>>, <<"removeBackup", j>>,
           <<"removeTree", j>> >>)

CollectProject(j) ==
  Collect("collectProject", j,
          j \notin disk.temporary /\ \A p \in Of(j) : disk.workspace[p] # "torn",
          Manifests(disk, j) \cup Workspaces(disk, j, {"kept", "deleting"}))

HideBackup(j) ==
  Step("hideBackup", j, OthersWhole(disk, j) /\ disk.backup[j] \notin {"creating", "torn"},
       [disk EXCEPT !.backup[j] = IF @ = "absent" THEN "absent" ELSE "deleting"], {}, << >>)

RemoveBackup(j) ==
  Step("removeBackup", j, TRUE, [disk EXCEPT !.backup[j] = "absent"],
       IF disk.backup[j] = "deleting" THEN {[disk EXCEPT !.backup[j] = "torn"]} ELSE {}, << >>)

RemoveTree(j) ==
  Step("removeTree", j, TRUE,
       [disk EXCEPT !.tree[j] = "absent", !.marked = @ \ {j}, !.revised = @ \ Of(j),
                    !.workspace = [p \in Proposals |-> IF p \in Of(j) THEN "absent" ELSE @[p]]],
       {[disk EXCEPT !.tree[j] = "torn"]}, << >>)

\* The project leaves the Store, and the request is answered.
ProjectDeleted(j) ==
  /\ todo # << >> /\ Head(todo) = <<"deleted", j>> /\ doomed = {}
  /\ loaded' = loaded \ {j}
  /\ settled' = [settled EXCEPT ![j] = "deleted"]
  /\ todo' = Tail(todo)
  /\ UNCHANGED <<disk, phase, doomed, used, faults, crashes>>

-----------------------------------------------------------------------------
(* ManagedStorage::open *)

Preflight == Check("preflight", "all", Accepted(disk), << >>)

RecoverMigrations == Check("migrations", "all", TRUE, Each("resume", disk.journal))

ResumeMigration(j) ==
  LET marked == HasNewLayout(disk, j)
  IN  Check("resume", j,
            /\ j \in Active(disk) \cup disk.aside
            /\ j \in Active(disk) \cap disk.aside => marked
            /\ Backed(disk, j) \/ (j \in Active(disk) /\ ~marked)
            /\ marked => disk.migrating[j] = "absent",
            Resumption(disk, j))

CopyBackup(j) ==
  Step("copyBackup", j, TRUE, [disk EXCEPT !.backup[j] = "creating"], {}, << >>)
PublishBackup(j) ==
  Step("publishBackup", j, TRUE, [disk EXCEPT !.backup[j] = "kept"], {}, << >>)

\* create_migrated_staging, after what an earlier attempt left was removed.
CopyTree(j) ==
  Step("copyTree", j, TRUE, [disk EXCEPT !.migrating[j] = "whole"],
       {[disk EXCEPT !.migrating[j] = "partial"], [disk EXCEPT !.migrating[j] = "absent"]}, << >>)

SetAside(j) ==
  Step("setAside", j, j \notin disk.aside,
       [disk EXCEPT !.tree[j] = "absent", !.aside = @ \cup {j}], {}, << >>)

SwapIn(j) ==
  Step("swap", j, j \in disk.aside,
       [disk EXCEPT !.tree[j] = "active", !.marked = @ \cup {j}, !.migrating[j] = "absent"],
       {}, << >>)

RemoveAside(j) ==
  Step("removeAside", j, TRUE, [disk EXCEPT !.aside = @ \ {j}], {}, << >>)

EndJournal(j) ==
  Step("endJournal", j, TRUE, [disk EXCEPT !.journal = @ \ {j}], {}, << >>)

\* An old tree without its journal is never disposable; staging is.
CleanOrphans ==
  Step("orphans", "all", disk.aside = {},
       [disk EXCEPT !.migrating = [j \in Projects |-> "absent"],
                    !.backup = [j \in Projects |->
                                  IF @[j] = "creating" THEN "absent" ELSE @[j]]], {}, << >>)

RecoverDeletions ==
  Check("deletions", "all", TRUE, Each("finish", {j \in Projects : disk.tree[j] = "deleting"}))

\* A hidden backup whose project is no longer hidden.
CheckHiddenBackups ==
  Check("hidden", "all", \A j \in Projects : disk.backup[j] # "deleting", << >>)

\* load_projects
ListProjects ==
  Check("projects", "all", TRUE, Each("load", {j \in Projects : disk.tree[j] # "absent"}))

\* A staging tree is removed; a project is recovered, migrated if it is in the
\* old layout, and validated.
LoadProject(j) ==
  \/ /\ disk.tree[j] = "creating"
     /\ Step("load", j, TRUE, [disk EXCEPT !.tree[j] = "absent"], {}, << >>)
  \/ /\ disk.tree[j] # "creating"
     /\ Step("load", j, disk.tree[j] = "active", [disk EXCEPT !.temporary = @ \ {j}], {},
             (IF j \in disk.marked THEN << >> ELSE << <<"validate", j>>, <<"migrate", j>> >>)
             \o << <<"validate", j>> >>)

\* migrate_legacy_project
StartMigration(j) ==
  Step("migrate", j, j \notin disk.journal, [disk EXCEPT !.journal = @ \cup {j}], {},
       << <<"resume", j>> >>)

Serve ==
  /\ todo = << <<"serve", "all">> >> /\ doomed = {}
  /\ phase' = "serving"
  /\ loaded' = Active(disk)
  /\ todo' = << >>
  /\ UNCHANGED <<disk, doomed, used, settled, faults, crashes>>

-----------------------------------------------------------------------------
(* The requests, the starts and the deaths. *)

Idle == phase = "serving" /\ todo = << >> /\ doomed = {}

Begin(steps) ==
  /\ Idle
  /\ todo' = steps
  /\ UNCHANGED <<disk, phase, doomed, loaded, faults, crashes>>

CreateProject(j) ==
  /\ j \notin used
  /\ Cardinality(loaded) < MaxProjects
  /\ used' = used \cup {j}
  /\ Begin(Creation(j))
  /\ UNCHANGED settled

\* Only a Proposal a Decision has denied is deleted, only one under review is
\* adopted; an identifier is given out once.
CreateProposal(p) ==
  /\ ProjectOf[p] \in loaded /\ disk.workspace[p] = "absent" /\ p \notin used
  /\ used' = used \cup {p}
  /\ Begin(Preparation(p))
  /\ UNCHANGED settled

\* Mutant: an adopted Proposal is deleted too.
DeleteProposal_Adopted(p) ==
  /\ ProjectOf[p] \in loaded /\ disk.workspace[p] = "kept"
  /\ Begin(WorkspaceDeletion(p))
  /\ UNCHANGED <<used, settled>>

DeleteProposal(p) ==
  /\ ProjectOf[p] \in loaded /\ disk.workspace[p] = "kept" /\ p \notin disk.revised
  /\ Begin(WorkspaceDeletion(p))
  /\ UNCHANGED <<used, settled>>

AdoptProposal(p) ==
  /\ ProjectOf[p] \in loaded /\ disk.workspace[p] = "kept" /\ p \notin disk.revised
  /\ Begin(Commit(p))
  /\ UNCHANGED <<used, settled>>

\* From the request on, until it is answered with success, the project may or
\* may not exist.
DeleteProject(j) ==
  /\ j \in loaded
  /\ settled' = [settled EXCEPT ![j] = "none"]
  /\ Begin(ProjectDeletion(j))
  /\ UNCHANGED used

Start ==
  /\ phase \in {"down", "refused"}
  /\ phase' = "opening"
  /\ todo' = Opening
  /\ UNCHANGED <<disk, doomed, loaded, used, settled, faults, crashes>>

\* A death between two steps.
Crash ==
  /\ phase \in {"opening", "serving"}
  /\ (IF doomed # {} THEN "drop" ELSE IF todo = << >> THEN "idle" ELSE Head(todo)[1]) \in FaultSites
  /\ Die
  /\ UNCHANGED <<disk, used, settled>>

ProjectSteps(j) ==
  \/ StageProject(j) \/ FillProject(j) \/ PublishProject(j) \/ UnstageProject(j)
  \/ ProjectCreated(j)
  \/ SweepProposals(j) \/ ValidateProject(j) \/ HideProject(j) \/ FinishDeletion(j)
  \/ CollectProject(j) \/ HideBackup(j) \/ RemoveBackup(j) \/ RemoveTree(j)
  \/ ProjectDeleted(j)
  \/ LoadProject(j) \/ StartMigration(j) \/ ResumeMigration(j) \/ CopyBackup(j)
  \/ PublishBackup(j) \/ CopyTree(j) \/ SetAside(j) \/ SwapIn(j) \/ RemoveAside(j)
  \/ EndJournal(j)

ProposalSteps(p) ==
  \/ StageWorkspace(p) \/ FillWorkspace(p) \/ PublishWorkspace(p) \/ HideWorkspace(p)
  \/ CollectWorkspace(p) \/ RemoveWorkspace(p) \/ FillRevision(p) \/ WriteManifest(p)

StartSteps ==
  \/ Preflight \/ RecoverMigrations \/ CleanOrphans \/ RecoverDeletions
  \/ CheckHiddenBackups \/ ListProjects \/ Serve

Requests ==
  \/ \E j \in Projects : CreateProject(j) \/ DeleteProject(j)
  \/ \E p \in Proposals : CreateProposal(p) \/ DeleteProposal(p) \/ AdoptProposal(p)

Next ==
  \/ Requests \/ Start \/ StartSteps \/ Crash
  \/ \E j \in Projects : ProjectSteps(j)
  \/ \E p \in Proposals : ProposalSteps(p)
  \/ \E o \in Objects : Drop(o)

Spec == Init /\ [][Next]_vars

-----------------------------------------------------------------------------
(* Properties. *)

\* The disk, the control and the counters keep their shape.
TypeOK ==
  /\ disk \in Disks
  /\ phase \in {"down", "opening", "serving", "refused"}
  /\ doomed \subseteq Objects
  /\ loaded \subseteq Projects \cap used
  /\ used \subseteq Projects \cup Proposals
  /\ settled \in [Projects -> {"none", "created", "deleted"}]
  /\ faults \in 0..MaxFaults /\ crashes \in 0..MaxCrashes

Exists(d) == Active(d) \cup d.aside

\* Whatever is deleted, cleaned up, migrated or interrupted, every object that a
\* retained revision or an open Proposal of an existing project names is there:
\* the collection of objects (cleanup_candidate_objects) never takes one that
\* is shared.
RetainedObjectsKept ==
  \A j \in Exists(disk) :
    Manifests(disk, j) \cup Workspaces(disk, j, {"kept"}) \subseteq disk.objects

\* At every boundary of a migration the old tree or the validated new one holds
\* the name of the project or can take it back, and the backup is there before
\* the old tree goes and for as long as the project lives.
MigrationReadable ==
  \A j \in Projects :
    /\ j \in disk.journal => j \in Exists(disk)
    /\ j \in disk.aside => j \in disk.journal /\ disk.backup[j] = "kept"
    /\ j \in Active(disk) \cap disk.aside => j \in disk.marked /\ disk.migrating[j] = "absent"
    /\ j \in Active(disk) \cap disk.marked \cap Legacy => disk.backup[j] = "kept"

\* A creation answered with success outlives every error, death and restart,
\* and the Store that serves has it; where no start succeeds, because of what is
\* on disk or of an I/O error, the read-only recovery offers it all the same,
\* unless failed creations made more projects than it reads.  A deletion answered
\* with success leaves no tree, no backup and no workspace behind.
AnswersAreDurable ==
  \A j \in Projects :
    /\ settled[j] = "created" =>
         /\ j \in Exists(disk)
         /\ phase = "serving" => j \in loaded
         /\ phase \in {"down", "refused"} =>
              j \in Points(disk) \/ Cardinality(Active(disk)) > MaxProjects
    /\ settled[j] = "deleted" =>
         /\ disk.tree[j] = "absent" /\ disk.backup[j] = "absent" /\ j \notin Exists(disk)
         /\ \A p \in Of(j) : disk.workspace[p] = "absent"

\* A start that serves has finished or removed whatever an earlier process left.
ServedClean ==
  [][phase = "opening" /\ phase' = "serving" =>
       /\ \A j \in Projects :
            /\ disk'.tree[j] = "absent" \/ (disk'.tree[j] = "active" /\ j \in disk'.marked)
            /\ disk'.backup[j] \in {"absent", "kept"} /\ disk'.migrating[j] = "absent"
            /\ Leftovers(disk', j) = {}
       /\ disk'.aside = {} /\ disk'.journal = {} /\ disk'.temporary = {}]_vars

\* A start refuses the root only where a deletion or a cleanup was left
\* unfinished or projects exceed the limit: a death in a creation, in a
\* revision or in a migration never makes the root unusable.
RefusalNeedsLeftover ==
  phase = "refused" =>
    \/ Cardinality(Active(disk)) > MaxProjects
    \/ \E j \in Projects :
         \/ disk.tree[j] \in {"deleting", "torn"}
         \/ disk.backup[j] \in {"deleting", "torn"}
         \/ Leftovers(disk, j) # {}

\* A start either refuses for one of these reasons or serves a root in which
\* nothing unfinished is left.
StartupSettles == []RefusalNeedsLeftover /\ ServedClean

\* What complete_project_delete says of a restart, "already-removed exact
\* objects are intentionally idempotent", asks for this where nothing but the
\* removal of objects is interrupted; preflight_revision_inventory refuses.
StartupAccepts == phase # "refused"

Catalog == INSTANCE ProjectCatalog WITH
  catalog    <- Exists(disk),
  workspaces <- {p \in Proposals : disk.workspace[p] = "kept" /\ ProjectOf[p] \in Exists(disk)},
  revised    <- {p \in disk.revised : ProjectOf[p] \in Exists(disk)}

\* Creations, additions, adoptions and deletions happen at one rename each, and
\* errors, deaths, restarts and migrations change no project and no Proposal.
ImplementsCatalog == Catalog!CSpec
=============================================================================
