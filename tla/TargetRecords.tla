---------------------------- MODULE TargetRecords ----------------------------
(***************************************************************************)
(* The Target records of one project and its display name, in memory and on *)
(* disk.  A Target is an immutable file of at most MaxTargets; at the limit *)
(* a new one takes the place of one no context refers to, behind a journal  *)
(* that a later request or the next start completes.  One operation runs at *)
(* a time; any of its durable steps may fail, the process may die between   *)
(* and inside them, and memory is changed only by an answer of success.     *)
(***************************************************************************)
EXTENDS Naturals, Sequences, FiniteSets

CONSTANTS
  Targets,     \* Target identifiers, which the client chooses; ordered
  Values,      \* canonical bytes of a Target
  None,        \* no record
  Names,       \* display names
  MaxTargets,  \* limit on the number of Targets of a project
  MaxFaults,   \* bound on the number of I/O errors of a behaviour
  MaxCrashes   \* bound on the number of process deaths of a behaviour

ASSUME TargetRecordsAssumption ==
  /\ Targets \subseteq Nat /\ IsFiniteSet(Targets)
  /\ None \notin Values /\ None \notin Names /\ None \notin Targets
  /\ MaxTargets \in Nat \ {0}
  /\ MaxFaults \in Nat /\ MaxCrashes \in Nat

VARIABLES
  disk,      \* what a restart finds; its fields are in Disks below
  mem,       \* the project in the Store: records, name, and the Targets of its contexts
  phase,     \* "down", "opening", "serving" or "refused"
  todo,      \* the durable steps the running operation has left
  job,       \* the request it serves
  answered,  \* history: the records and the name last answered with success
  failed,    \* history: a request has failed since the start
  faults, crashes

vars == <<disk, mem, phase, todo, job, answered, failed, faults, crashes>>

Jobs == [old : Targets \cup {None}, new : Targets, value : Values, expected : Values \cup {None}]
Records == [Targets -> Values \cup {None}]

ASSUME NoneIsNoJob == None \notin Jobs

Disks ==
  [records : Records,
   staged  : SUBSET Targets,       \* .replacing-target-<id>.<nonce>.tmp
   stray   : BOOLEAN,              \* .<id>.json.<nonce>.immutable.tmp
   journal : Jobs \cup {None},     \* target-transaction.json
   name    : Names]                \* project.json

-----------------------------------------------------------------------------
(* What the disk says. *)

Kept(r) == {t \in Targets : r[t] # None}
Full(r) == Cardinality(Kept(r)) >= MaxTargets

\* validate_target_transaction_inventory and the cases of
\* complete_target_replace: the journal's own staging is there exactly when the
\* new record is not, and nothing else is half written.
Completable(d) ==
  LET j == d.journal
  IN  /\ ~d.stray
      /\ d.staged \subseteq {j.new}
      /\ d.records[j.old] \in {None, j.expected}
      /\ d.records[j.new] \in {None, j.value}
      /\ IF d.records[j.new] = None
         THEN d.records[j.old] # None /\ d.staged = {j.new}
         ELSE d.staged = {}

\* The records a start would load: those of the journal, if there is one that
\* can be completed.
Effective(d) ==
  IF d.journal # None /\ Completable(d)
  THEN [d.records EXCEPT ![d.journal.old] = None, ![d.journal.new] = d.journal.value]
  ELSE d.records

\* preflight_target_inventory and preflight_target_transaction.
Accepted(d) ==
  IF d.journal = None
  THEN Cardinality(Kept(d.records)) <= MaxTargets
  ELSE /\ Cardinality(Kept(d.records)) <= MaxTargets + 1
       /\ Completable(d)
       /\ Cardinality(Kept(Effective(d))) = MaxTargets

\* recyclable_target_id: the first in order that no context refers to.
Recyclable == Kept(mem.records) \ mem.contexts

\* Mutant: contexts are not looked at.
First_AnyTarget(S) == {t \in Kept(mem.records) : \A u \in Kept(mem.records) : t <= u}
First(S) == {t \in S : \A u \in S : t <= u}

-----------------------------------------------------------------------------
(* How a step ends. *)

Init ==
  /\ disk \in [records : {[t \in Targets |-> None]}, staged : {{}}, stray : {FALSE},
               journal : {None}, name : Names]
  /\ mem = [records |-> disk.records, name |-> disk.name, contexts |-> {}]
  /\ phase = "serving"
  /\ todo = << >>
  /\ job = None
  /\ answered = [records |-> disk.records, name |-> disk.name]
  /\ failed = FALSE
  /\ faults = 0
  /\ crashes = 0

Idle == phase = "serving" /\ todo = << >>

\* The operation ends with an error, which leaves the Store as it was.
Fail(p) ==
  /\ todo' = << >> /\ job' = None
  /\ IF phase = "opening" THEN phase' = p /\ UNCHANGED failed
                          ELSE failed' = TRUE /\ UNCHANGED phase
  /\ UNCHANGED mem

\* The process dies: contexts and everything else in memory are gone.
Die ==
  /\ crashes < MaxCrashes /\ crashes' = crashes + 1
  /\ phase' = "down" /\ todo' = << >> /\ job' = None
  /\ mem' = [records |-> [t \in Targets |-> None], name |-> None, contexts |-> {}]
  /\ UNCHANGED <<failed, faults>>

\* The next step of the running operation is name.  It is refused unless ok; it
\* leaves the disk in the state done, from where the steps then follow; an I/O
\* error leaves it in one of the states error, a death in one of death.
Step(name, ok, done, error, death, then) ==
  /\ todo # << >> /\ Head(todo) = name
  /\ UNCHANGED answered
  /\ \/ /\ ok
        /\ disk' = done
        /\ todo' = then \o Tail(todo)
        /\ UNCHANGED <<mem, phase, job, failed, faults, crashes>>
     \/ /\ ~ok
        /\ Fail("refused")
        /\ UNCHANGED <<disk, faults, crashes>>
     \/ /\ ok /\ faults < MaxFaults
        /\ disk' \in error
        /\ faults' = faults + 1
        /\ Fail("down")
        /\ UNCHANGED crashes
     \/ /\ ok /\ disk' \in death
        /\ Die

-----------------------------------------------------------------------------
(* recover_target_transaction, complete_target_replace *)

\* Mutant: the old record goes first.
Completion_OldFirst(d) ==
  <<"unlink">> \o (IF d.records[d.journal.new] = None THEN <<"link">> ELSE << >>) \o <<"unjournal">>

\* What is left of the replacement in the journal.
Completion(d) ==
  (IF d.records[d.journal.new] = None THEN <<"link">> ELSE << >>)
  \o (IF d.records[d.journal.old] # None THEN <<"unlink">> ELSE << >>)
  \o <<"unjournal">>

\* Mutant: a journal that was left is taken for staging and removed with it.
Recover_DropsJournal ==
  LET done == [disk EXCEPT !.staged = {}, !.stray = FALSE, !.journal = None]
  IN  Step("recover", TRUE, done, {disk, done}, {disk, done}, << >>)

Recover ==
  \/ /\ disk.journal # None
     /\ Step("recover", TRUE, disk, {disk}, {disk}, <<"complete">>)
  \/ /\ disk.journal = None
     /\ LET done == [disk EXCEPT !.staged = {}, !.stray = FALSE]
        IN  Step("recover", TRUE, done, {disk, done}, {disk, done}, << >>)

Complete ==
  /\ todo # << >> /\ Head(todo) = "complete" /\ disk.journal # None
  /\ Step("complete", Completable(disk), disk, {disk}, {disk}, Completion(disk))

Link ==
  /\ todo # << >> /\ Head(todo) = "link"
  /\ LET done == [disk EXCEPT !.records[disk.journal.new] = disk.journal.value, !.staged = {}]
     IN  Step("link", TRUE, done, {disk, done}, {disk}, << >>)

Unlink ==
  /\ todo # << >> /\ Head(todo) = "unlink"
  /\ LET done == [disk EXCEPT !.records[disk.journal.old] = None]
     IN  Step("unlink", TRUE, done, {disk, done}, {disk}, << >>)

\* The journal is removed, then the records are counted.
Unjournal ==
  /\ todo # << >> /\ Head(todo) = "unjournal"
  /\ LET done == [disk EXCEPT !.journal = None]
     IN  IF Cardinality(Kept(disk.records)) = MaxTargets
         THEN Step("unjournal", TRUE, done, {disk, done}, {disk}, << >>)
         ELSE disk' = done /\ Fail("refused") /\ UNCHANGED <<answered, faults, crashes>>

-----------------------------------------------------------------------------
(* create_target: persist_target below the limit, replace_target at it *)

\* At the limit, the first record no context refers to is recycled; where all
\* are referred to, the request is refused.  A record that is to be recycled is
\* no longer promised.
CreateTarget(t, v) ==
  /\ Idle
  /\ mem.records[t] = None
  /\ IF Full(mem.records)
     THEN /\ \E old \in First(Recyclable) :
               /\ job' = [old |-> old, new |-> t, value |-> v, expected |-> mem.records[old]]
               /\ answered' = [answered EXCEPT !.records[old] = None]
          /\ todo' = <<"recover", "stage", "journal", "complete", "answer">>
     ELSE /\ job' = [old |-> None, new |-> t, value |-> v, expected |-> None]
          /\ todo' = <<"recover", "write", "add", "answer">>
          /\ UNCHANGED answered
  /\ UNCHANGED <<disk, mem, phase, failed, faults, crashes>>

\* write_immutable: a record that is there must hold the same bytes; otherwise
\* a temporary is written, which an error removes where it can.
Write ==
  /\ todo # << >> /\ Head(todo) = "write"
  /\ LET there == disk.records[job.new] # None
         done == IF there THEN disk ELSE [disk EXCEPT !.stray = TRUE]
     IN  Step("write", IF there THEN disk.records[job.new] = job.value ELSE ~Full(disk.records),
              done, {disk, done}, {disk, done}, << >>)

Add ==
  /\ todo # << >> /\ Head(todo) = "add"
  /\ LET done == IF disk.records[job.new] # None THEN disk
                 ELSE [disk EXCEPT !.records[job.new] = job.value, !.stray = FALSE]
     IN  Step("add", TRUE, done, {disk, done, [disk EXCEPT !.stray = FALSE]}, {disk}, << >>)

\* The memory's idea of the records must be the disk's; then the new bytes are
\* written beside them.
Stage ==
  /\ todo # << >> /\ Head(todo) = "stage"
  /\ LET done == [disk EXCEPT !.staged = @ \cup {job.new}]
     IN  Step("stage",
              /\ Cardinality(Kept(disk.records)) = MaxTargets
              /\ disk.records[job.old] # None /\ disk.records[job.new] = None
              /\ disk.records[job.old] = job.expected,
              done, {disk, done}, {disk, done}, << >>)

\* An error removes the staging where it can, but not the journal, whose rename
\* may have been done.
Journal ==
  /\ todo # << >> /\ Head(todo) = "journal"
  /\ LET done == [disk EXCEPT !.journal = job]
     IN  Step("journal", TRUE, done,
              {disk, done, [disk EXCEPT !.staged = {}], [done EXCEPT !.staged = {}]},
              {disk}, << >>)

\* Mutant: the recycled record stays in the Store.
Answer_KeepsOld ==
  /\ todo = <<"answer">>
  /\ mem' = [mem EXCEPT !.records[job.new] = job.value]
  /\ answered' = [answered EXCEPT !.records[job.new] = job.value]
  /\ todo' = << >> /\ job' = None
  /\ UNCHANGED <<disk, phase, failed, faults, crashes>>

\* The Store takes the new record, the request is answered.
Answer ==
  /\ todo = <<"answer">>
  /\ mem' = [mem EXCEPT !.records = [t \in Targets |-> IF t = job.new THEN job.value
                                                       ELSE IF t = job.old THEN None ELSE @[t]]]
  /\ answered' = [answered EXCEPT !.records[job.new] = job.value]
  /\ todo' = << >> /\ job' = None
  /\ UNCHANGED <<disk, phase, failed, faults, crashes>>

-----------------------------------------------------------------------------
(* update_project_metadata *)

\* Mutant: a name that memory already has is answered at once.
Renamed_FromMemory(n) == mem.name = n \/ disk.name = n

\* A retry of what was done is recognised by what the disk says.
Renamed(n) == disk.name = n

\* The name is replaced by one atomic write if the disk still has the expected
\* one.  One error is recovered by reading the file again; a second one, of the
\* last sync, leaves the new name on disk and the old one in memory, as does a
\* death before the answer.
RenameProject(expected, n) ==
  /\ Idle
  /\ mem.name \in {expected, n}
  /\ Renamed(n) \/ disk.name = expected
  /\ \/ /\ disk' = [disk EXCEPT !.name = IF Renamed(n) THEN @ ELSE n]
        /\ mem' = [mem EXCEPT !.name = n]
        /\ answered' = [answered EXCEPT !.name = n]
        /\ UNCHANGED <<phase, todo, job, failed, faults, crashes>>
     \/ /\ ~Renamed(n)
        /\ answered' = [answered EXCEPT !.name = None]
        /\ failed' = TRUE
        /\ \/ faults + 1 <= MaxFaults /\ faults' = faults + 1 /\ UNCHANGED disk
           \/ faults + 2 <= MaxFaults /\ faults' = faults + 2 /\ disk' = [disk EXCEPT !.name = n]
        /\ UNCHANGED <<mem, phase, todo, job, crashes>>
     \/ /\ ~Renamed(n)
        /\ answered' = [answered EXCEPT !.name = None]
        /\ disk' = [disk EXCEPT !.name = n]
        /\ Die

-----------------------------------------------------------------------------
(* Contexts, starts and deaths *)

UseTarget(t) ==
  /\ Idle /\ mem.records[t] # None
  /\ mem' = [mem EXCEPT !.contexts = @ \cup {t}]
  /\ UNCHANGED <<disk, phase, todo, job, answered, failed, faults, crashes>>

ClearContexts ==
  /\ Idle
  /\ mem' = [mem EXCEPT !.contexts = {}]
  /\ UNCHANGED <<disk, phase, todo, job, answered, failed, faults, crashes>>

Start ==
  /\ phase \in {"down", "refused"}
  /\ phase' = "opening"
  /\ todo' = <<"preflight", "recover", "load">>
  /\ UNCHANGED <<disk, mem, job, answered, failed, faults, crashes>>

Preflight == Step("preflight", Accepted(disk), disk, {}, {}, << >>)

\* load_target_bytes; the project enters the Store.
Load ==
  /\ todo = <<"load">>
  /\ UNCHANGED <<disk, answered, faults, crashes>>
  /\ IF Cardinality(Kept(disk.records)) <= MaxTargets
     THEN /\ phase' = "serving"
          /\ mem' = [records |-> disk.records, name |-> disk.name, contexts |-> {}]
          /\ failed' = FALSE
          /\ todo' = << >>
          /\ UNCHANGED job
     ELSE Fail("refused")

Crash == phase \in {"opening", "serving"} /\ Die /\ UNCHANGED <<disk, answered>>

Next ==
  \/ \E t \in Targets : UseTarget(t) \/ \E v \in Values : CreateTarget(t, v)
  \/ \E e, n \in Names : RenameProject(e, n)
  \/ ClearContexts
  \/ Recover \/ Complete \/ Link \/ Unlink \/ Unjournal
  \/ Write \/ Add \/ Stage \/ Journal \/ Answer
  \/ Start \/ Preflight \/ Load \/ Crash

Spec == Init /\ [][Next]_vars

-----------------------------------------------------------------------------
(* Properties. *)

\* The disk, memory, the control and the counters keep their shape, memory
\* the limit and the disk one record more while one is exchanged.
TypeOK ==
  /\ disk \in Disks
  /\ mem \in [records : Records, name : Names \cup {None}, contexts : SUBSET Targets]
  /\ Cardinality(Kept(mem.records)) <= MaxTargets
  /\ Cardinality(Kept(disk.records)) <= IF disk.journal = None THEN MaxTargets ELSE MaxTargets + 1
  /\ phase \in {"down", "opening", "serving", "refused"}
  /\ job \in Jobs \cup {None}
  /\ answered \in [records : Records, name : Names \cup {None}]
  /\ failed \in BOOLEAN
  /\ faults \in 0..MaxFaults /\ crashes \in 0..MaxCrashes

\* A Target whose creation was answered is what a start would load, with the
\* same bytes, until a replacement that recycles it begins, and the Store that
\* serves has it; so does the name that was answered last.
AnsweredRecordsKept ==
  /\ \A t \in Targets :
       answered.records[t] # None =>
         /\ Effective(disk)[t] = answered.records[t]
         /\ phase = "serving" => mem.records[t] = answered.records[t]
  /\ answered.name # None =>
       disk.name = answered.name /\ (phase = "serving" => mem.name = answered.name)

\* Between two requests the Store has exactly what a restart would find, unless
\* a request has failed since the start.
MemoryIsDisk ==
  Idle /\ ~failed => /\ mem.records = Effective(disk)
                     /\ mem.name = disk.name
                     /\ disk.journal = None /\ disk.staged = {} /\ ~disk.stray

\* A Target that a context of the Store refers to is not recycled: the context
\* can still be opened, and on disk its record stays unless a request failed.
ContextsKeepTheirTarget ==
  \A t \in mem.contexts : mem.records[t] # None /\ (failed \/ Effective(disk)[t] # None)

\* Whatever failed and wherever the process died, a start refuses the records
\* only where the write of a journal failed after its rename and its staging
\* was removed (replace_target).
RefusalNeedsLostStaging ==
  phase = "refused" =>
    /\ disk.journal # None /\ disk.staged = {}
    /\ disk.records[disk.journal.new] = None /\ disk.records[disk.journal.old] # None

Shelf == INSTANCE RecordShelf WITH
  Keys <- Targets, Values <- Values, None <- None, Limit <- MaxTargets,
  Place <- [t \in Targets |-> "targets"], records <- Effective(disk)

\* What a start would load changes by one addition below the limit or by one
\* exchange at it, however many steps, errors, deaths and retries that takes.
ImplementsShelf == Shelf!RSpec
=============================================================================
