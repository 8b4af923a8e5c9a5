------------------------- MODULE GeneratedArtifacts -------------------------
(***************************************************************************)
(* The generated archives of one kind, static exports or publication        *)
(* drafts: what the Store serves for download and the directories of the    *)
(* projects that hold it across restarts.  Their number and bytes are       *)
(* limited, on disk for each project and in the Store for all of them.  One *)
(* operation runs at a time; any durable step may fail and the process may  *)
(* die anywhere, and the Store changes only with an answer of success.      *)
(***************************************************************************)
EXTENDS Naturals, Sequences, FiniteSets, SequencesExt

CONSTANTS
  Projects, Artifacts,
  None,        \* no record
  ProjectOf,   \* ProjectOf[a]: the project archive a is made for
  Size,        \* Size[a]: its bytes
  MaxRecords,  \* limit on the archives of a project, and of the Store
  MaxBytes,    \* limit on their bytes
  MaxFaults,   \* bound on the number of I/O errors of a behaviour
  MaxCrashes   \* bound on the number of process deaths of a behaviour

ASSUME GeneratedArtifactsAssumption ==
  /\ IsFiniteSet(Projects) /\ IsFiniteSet(Artifacts) /\ None # "kept"
  /\ ProjectOf \in [Artifacts -> Projects]
  /\ Size \in [Artifacts -> Nat \ {0}]
  /\ {MaxRecords, MaxBytes, MaxFaults, MaxCrashes} \subseteq Nat

VARIABLES
  entry,     \* on disk: "absent", "staging", "kept" or "deleting" for each archive
  store,     \* the archives that can be downloaded
  phase,     \* "down", "opening", "serving" or "refused"
  todo,      \* the steps <<name, subject>> the running operation has left
  used,      \* the identifiers given out so far; they are random and fresh
  answered,  \* history: the last request on an archive answered with success
  faults, crashes

vars == <<entry, store, phase, todo, used, answered, faults, crashes>>

\* checked_byte_total: every byte of every archive is counted once.
Bytes(S) == Cardinality(UNION {{a} \X (1..Size[a]) : a \in S})

Within(S) == Cardinality(S) <= MaxRecords /\ Bytes(S) <= MaxBytes

Of(j) == {a \in Artifacts : ProjectOf[a] = j}
Kept == {a \in Artifacts : entry[a] = "kept"}

\* What an interrupted creation or deletion left in the directory of j.
Leftovers(j) == {a \in Of(j) : entry[a] \in {"staging", "deleting"}}

-----------------------------------------------------------------------------
Init ==
  /\ entry = [a \in Artifacts |-> "absent"]
  /\ store = {}
  /\ phase = "serving"
  /\ todo = << >>
  /\ used = {}
  /\ answered = [a \in Artifacts |-> "none"]
  /\ faults = 0
  /\ crashes = 0

Idle == phase = "serving" /\ todo = << >>

\* The operation ends with an error, which leaves the Store as it was.
Fail(p) ==
  /\ todo' = << >>
  /\ phase' = IF phase = "opening" THEN p ELSE phase
  /\ UNCHANGED store

Die ==
  /\ crashes < MaxCrashes /\ crashes' = crashes + 1
  /\ phase' = "down" /\ todo' = << >> /\ store' = {}
  /\ UNCHANGED faults

\* The next step is <<name, s>>: it is refused unless ok and leaves the entries
\* done; an error leaves one of the states error, a death one of death.
Step(name, s, ok, done, error, death) ==
  /\ todo # << >> /\ Head(todo) = <<name, s>>
  /\ UNCHANGED <<used, answered>>
  /\ \/ /\ ok
        /\ entry' = done
        /\ todo' = Tail(todo)
        /\ UNCHANGED <<store, phase, faults, crashes>>
     \/ /\ ~ok
        /\ Fail("refused")
        /\ UNCHANGED <<entry, faults, crashes>>
     \/ /\ ok /\ faults < MaxFaults
        /\ entry' \in error
        /\ faults' = faults + 1
        /\ Fail("down")
        /\ UNCHANGED crashes
     \/ /\ ok /\ entry' \in death
        /\ Die

As(S, state) == [a \in Artifacts |-> IF a \in S THEN state ELSE entry[a]]

-----------------------------------------------------------------------------
(* load_generated_collection, at the head of every operation and of a start *)

\* Leftovers are removed in the order of the directory, and what is kept must
\* be within the limits of a project.
LoadCollection(j) ==
  Step("collection", j, Within(Kept \cap Of(j)), As(Leftovers(j), "absent"),
       {As(S, "absent") : S \in SUBSET Leftovers(j)},
       {As(S, "absent") : S \in SUBSET Leftovers(j)})

-----------------------------------------------------------------------------
(* create_export, create_publication: persist_generated_artifact *)

\* Mutant: each project has the limits of the Store for itself.
CreateArtifact_PerProject(a) ==
  /\ Idle
  /\ a \notin used
  /\ Within((store \cap Of(ProjectOf[a])) \cup {a})
  /\ used' = used \cup {a}
  /\ todo' = << <<"collection", ProjectOf[a]>>, <<"stage", a>>, <<"fill", a>>, <<"publish", a>>,
                <<"created", a>> >>
  /\ UNCHANGED <<entry, store, phase, answered, faults, crashes>>

\* The Store's limits are looked at first, those of the directory are the
\* project's.
CreateArtifact(a) ==
  /\ Idle
  /\ a \notin used
  /\ Cardinality(store) < MaxRecords /\ Bytes(store) + Size[a] <= MaxBytes
  /\ used' = used \cup {a}
  /\ todo' = << <<"collection", ProjectOf[a]>>, <<"stage", a>>, <<"fill", a>>, <<"publish", a>>,
                <<"created", a>> >>
  /\ UNCHANGED <<entry, store, phase, answered, faults, crashes>>

\* Mutant: what is on disk is not counted.
StageArtifact_Uncounted(a) ==
  Step("stage", a, TRUE, As({a}, "staging"), {entry, As({a}, "staging")}, {entry})

\* An error of the directory sync leaves the staging directory.
StageArtifact(a) ==
  Step("stage", a, Within((Kept \cap Of(ProjectOf[a])) \cup {a}), As({a}, "staging"),
       {entry, As({a}, "staging")}, {entry})

\* From here on an error removes the staging directory where it can.
FillArtifact(a) ==
  Step("fill", a, TRUE, entry, {entry, As({a}, "absent")}, {entry})

\* The rename may have been done when the error comes.
PublishArtifact(a) ==
  Step("publish", a, TRUE, As({a}, "kept"), {entry, As({a}, "absent"), As({a}, "kept")}, {entry})

ArtifactCreated(a) ==
  /\ todo = << <<"created", a>> >>
  /\ store' = store \cup {a}
  /\ answered' = [answered EXCEPT ![a] = "created"]
  /\ todo' = << >>
  /\ UNCHANGED <<entry, phase, used, faults, crashes>>

-----------------------------------------------------------------------------
(* cleanup_retention: delete_generated_artifact *)

\* Mutant: the Store lets go first, and answers.
DeleteArtifact_StoreFirst(a) ==
  /\ Idle /\ a \in store
  /\ store' = store \ {a}
  /\ answered' = [answered EXCEPT ![a] = "deleted"]
  /\ todo' = << <<"collection", ProjectOf[a]>>, <<"hide", a>>, <<"remove", a>> >>
  /\ UNCHANGED <<entry, phase, used, faults, crashes>>

\* From the request on the archive may or may not be there.
DeleteArtifact(a) ==
  /\ Idle /\ a \in store
  /\ answered' = [answered EXCEPT ![a] = "none"]
  /\ todo' = << <<"collection", ProjectOf[a]>>, <<"hide", a>>, <<"remove", a>>, <<"deleted", a>> >>
  /\ UNCHANGED <<entry, store, phase, used, faults, crashes>>

HideArtifact(a) ==
  Step("hide", a, entry[a] = "kept", As({a}, "deleting"), {entry, As({a}, "deleting")}, {entry})

RemoveArtifact(a) ==
  Step("remove", a, TRUE, As({a}, "absent"), {entry, As({a}, "absent")}, {entry})

ArtifactDeleted(a) ==
  /\ todo = << <<"deleted", a>> >>
  /\ store' = store \ {a}
  /\ answered' = [answered EXCEPT ![a] = "deleted"]
  /\ todo' = << >>
  /\ UNCHANGED <<entry, phase, used, faults, crashes>>

-----------------------------------------------------------------------------
(* StudioState::new *)

Start ==
  /\ phase \in {"down", "refused"}
  /\ phase' = "opening"
  /\ todo' = << <<"preflight", "all">> >>
             \o SetToSeq({<<"collection", j>> : j \in Projects}) \o << <<"serve", "all">> >>
  /\ UNCHANGED <<entry, store, used, answered, faults, crashes>>

\* preflight_generated_inventory
Preflight ==
  Step("preflight", "all", \A j \in Projects : Within(Kept \cap Of(j)), entry, {}, {})

\* The archives of all projects together must be within the limits too.
Serve ==
  /\ todo = << <<"serve", "all">> >>
  /\ IF Within(Kept)
     THEN phase' = "serving" /\ store' = Kept /\ todo' = << >>
     ELSE Fail("refused")
  /\ UNCHANGED <<entry, used, answered, faults, crashes>>

Crash == phase \in {"opening", "serving"} /\ Die /\ UNCHANGED <<entry, used, answered>>

Next ==
  \/ \E j \in Projects : LoadCollection(j)
  \/ \E a \in Artifacts :
       \/ CreateArtifact(a) \/ StageArtifact(a) \/ FillArtifact(a) \/ PublishArtifact(a)
       \/ ArtifactCreated(a)
       \/ DeleteArtifact(a) \/ HideArtifact(a) \/ RemoveArtifact(a) \/ ArtifactDeleted(a)
  \/ Start \/ Preflight \/ Serve \/ Crash

Spec == Init /\ [][Next]_vars

-----------------------------------------------------------------------------
(* Properties. *)

StepNames == {"preflight", "collection", "serve", "stage", "fill", "publish", "created",
              "hide", "remove", "deleted"}

\* Entries, Store and control keep their shape.
TypeOK ==
  /\ entry \in [Artifacts -> {"absent", "staging", "kept", "deleting"}]
  /\ store \subseteq Artifacts
  /\ phase \in {"down", "opening", "serving", "refused"}
  /\ todo \in Seq(StepNames \X (Projects \cup Artifacts \cup {"all"}))
  /\ answered \in [Artifacts -> {"none", "created", "deleted"}]

\* An archive whose creation was answered survives every error, death and
\* restart and can be downloaded while the Store serves; one whose deletion was
\* answered never comes back.
AnsweredArtifactsKept ==
  \A a \in Artifacts :
    /\ answered[a] = "created" => entry[a] = "kept" /\ (phase = "serving" => a \in store)
    /\ answered[a] = "deleted" => entry[a] = "absent" /\ a \notin store

\* A start refuses the archives only because one is on disk that the Store never
\* answered for: its creation failed after the rename, or the process died
\* before the answer, and the archives created since did not count it.
RefusalNeedsGhost ==
  phase = "refused" =>
    /\ ~ (Cardinality(Kept) <= MaxRecords /\ Bytes(Kept) <= MaxBytes)
    /\ \E a \in Kept : answered[a] # "created"

Shelf == INSTANCE RecordShelf WITH
  Keys <- Artifacts, Values <- {"kept"}, Limit <- MaxRecords, Place <- ProjectOf,
  records <- [a \in Artifacts |-> IF entry[a] = "kept" THEN "kept" ELSE None]

\* In each project archives come and go in single steps and within the limit of
\* the project, ghosts included.
ImplementsShelf == Shelf!RSpec
=============================================================================
