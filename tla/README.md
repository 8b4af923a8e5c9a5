# SynapseGit LP Studio in TLA+

LP Studio is a local web server (Rust, `src/apps/local-server`) and a browser
application with which a person edits a landing page with the help of an AI.
The AI only ever proposes: a generated change becomes a Proposal, a person
decides about it, and the Accepted revision of the project moves only by a
decision to adopt. The decision is recorded in SynapseGit, a content-addressed
history; sites, Proposals, Targets and generated archives are files in a managed
state root. This directory models how the server keeps those promises when
requests interleave, disk operations fail and the process dies.

The paths below are relative to `src/apps/local-server/src/`; those that begin
with `docs/` are in `src/docs/`, and `App.tsx` and `studio-reducer.ts` in
`src/apps/web/src/`.

## Inventory

| part | state | operations | what is hard | module |
|---|---|---|---|---|
| Human Decision handlers (`lib.rs` 4204-4683) | Store behind one mutex: Accepted revision, Proposal under review, history, one-shot approvals | create_approval, create_decision, reconcile_review | nine durable steps in three stores without a transaction; any fails or is the last before a crash; the token is spent first | `DecisionProtocol` |
| SynapseGit sidecar (`synapse_sidecar.rs`) | Proposal Refs, decision Ref, SQLite review journal | begin_proposal, decide, resume, inspect_proposal | the Ref moves before the journal knows; a lost answer, a refused retry and an unreadable repository look alike | `DecisionProtocol` |
| Startup recovery of Decisions (`lib.rs` 1013-1383) | reads all of the above | recover_persisted_proposals | must accept and finish every state the handlers can leave | `DecisionProtocol` |
| AI attempt registry (`ai_attempt.rs`) | slot per project, queue, last 512 outcomes, generations | queue, claim, cancel, complete, release | bounded memory shared by projects; late drop guards | `AiAttempts` |
| create_proposal (`lib.rs` 3861-4182) | a future that awaits a provider without the mutex | claim, provider call, second section, drop guard | everything it checked may have changed when the answer comes | `AiAttempts` |
| Managed state root (`storage.rs`) | project trees, retained revisions, Proposal workspaces, shared objects, migration journal, backups | create, adopt, delete, migrate, open | renames in an order that a crash shows half done; objects shared by content; recovery may delete only what it owns | `StateRoot` |
| Recovery reader (`storage.rs` 2457) | none | list_points | must offer every project where a start fails | `StateRoot` |
| Target records (`storage.rs` 1330-1515) | record files, replacement journal, staging; display name | create_target, persist_target, replace_target, update name | replacement at the limit of 32; a record a running context pins | `TargetRecords` |
| Generated archives (`storage.rs` 1114-1316, `lib.rs` 4685-5146) | exports, publication drafts | create, delete, load | caps counted in memory and on disk | `GeneratedArtifacts` |
| Import (`lib.rs` 3260-3500, `storage.rs` 2915-3169) | sessions, previews | preview, confirm | a scan without the lock of a directory that changes meanwhile | `ImportReview` |
| ChangeSet (`change_set.rs`) | none (pure) | parse_and_apply_change_set | operation graph, rename cycles, case folding, references in syntax the scan cannot classify, scripts reviewed long ago | `ChangeSetApplication` |
| Static export (`static_export.rs`) | none (pure) | the profile an export claims, the dynamic sources of its receipt | a second resolution of references beside the ChangeSet's; scripts are not analysed | `SiteReferences` |
| Sessions and credentials (`lib.rs` 3047-3210) | sessions, credential bindings | put, clear, expire | a binding a running attempt references | `AiAttempts`, `ImportReview` |
| Web studio: name editor (`App.tsx` 431-530, `lib.rs` 3449, `storage.rs` 543) | draft, confirmed name, number, timer, chain of saves | type, save, answer | answers of superseded saves; a save that outlives its page | `NameAutosave` |
| Web studio: generation, review and Decision (`App.tsx` 3125-3755, `studio-reducer.ts`) | projection, context, Proposal, operation, lock, run number | click, answer, dispatch | tasks whose answers cross; lost answers | `StudioPage` |
| Web studio: the rest | Targets, previews, retention, exports, publications | actions | late captures | not modelled |
| static_syntax, publication, ai_provider, preview, contracts, scripts | none, or read only | pure functions over bytes | parsing | not modelled |

What makes each part correct: only an authorised Decision moves Accepted, a
Proposal is decided once, the stores agree up to the one step recovery
finishes, startup accepts whatever a crash leaves, at most one run per project
is in flight, a cancelled run leaves nothing behind, deletion and recovery touch
only what the operation owns, an answered request outlives every crash, and what
was reviewed is what is applied, imported and exported.

The complete list of hazards, each at its line and with the properties that
catch it, is in `PROJECT.json`.

## Modules

| module | models |
|---|---|
| `DecisionChain` | Decisions, the chain of them and the revision it leads to |
| `HumanDecision` | abstract: Authorise, Decide, Follow - what a project promises |
| `DecisionProtocol` | the handlers, the sidecar, the storage steps, crashes and startup of one project; implements `HumanDecision` |
| `AiAttempts` | the attempt registry, create_proposal around the provider call, the requests that race with it |
| `ProjectCatalog` | abstract: a set of projects with their Proposals and revisions, each changed in one step |
| `StateRoot` | the managed root: creation, adoption, deletion, migration, collection of objects, start; implements `ProjectCatalog` |
| `RecordShelf` | abstract: bounded directories of immutable records, put, dropped or exchanged in one step |
| `TargetRecords` | Targets, their replacement journal, the display name; implements `RecordShelf` |
| `GeneratedArtifacts` | exports and publication drafts under their limits; implements `RecordShelf` |
| `ImportReview` | sessions, previews, the scan and the confirmation |
| `SiteReferences` | how the ChangeSet checks and the export resolve the references of a site |
| `ChangeSetApplication` | the checks of a ChangeSet, its application, the blocking warnings, the export |
| `NameAutosave` | the editor of the project name, the saves it sends and the server's compare-and-set |
| `StudioPage` | the page from the review of a context to the end of a Decision, and what the server answers it |
| `MC...` | the constants of the instances TLC explores |
| `...Proofs` | theorems about the module they extend, see Theorems |

Four modules (`DecisionProtocol`, `StateRoot`, `TargetRecords`,
`GeneratedArtifacts`) describe failures in the same way. `phase` is `down`,
`opening`, `serving` or `refused`; `todo` (in DecisionProtocol: `pc` and `op`)
holds the durable steps the running operation has left, because the Store mutex
and the state-root lease admit one operation at a time; each durable step
happens, or fails with an I/O error whose effect may be there or not, or is the
last of the process; memory changes only with the answer. Histories
(`settled`, `answered`, `shown`, `proposed`, `consumed`) record what a client was
told, so that the properties can speak of promises.

### DecisionProtocol

One project, because a handler touches one project. `pc` is the next durable
step of the handler that holds the mutex, `op` the handler (kind, Proposal,
requested disposition, error of the last publication). State and code:

- disk: `order` (the directories under `proposals/`, by `recorded_at`), `base`,
  `bound` (`review.json`), `decisionFile` (`decision.json`), `completed`
  (`completion.json`), `pointer` (`current.json`), `site`, `txn`
  (`transaction.json`), `retained` (revision manifests);
- SynapseGit: `chain` (the decision Ref and its parents), `refs`, `expected`
  (the decision head a Proposal was published against, as a length of the
  chain, which determines it because the chain only grows), `row` and `intent`
  (the review journal);
- memory: `revision`, `active`, `outcome`, `history`, `grants`.

The planned revision of a Proposal is named by the Proposal itself; a manifest
digest and its revision are one value. Actions are named for the function they
are: `RegisterIntent` (create_decision_intent), `QueryReview` and
`RequeryReview` (the reconcile_parsed calls of decide and resume),
`CallSynapse`, `PersistDecision`, then commit_revision in its four renames
`MaterializeRevision`, `UnlinkSite`, `LinkSite`, `AdvancePointer`, then
`CompleteDecision`. create_decision, finalize_reconciled_decision and startup
run the same durable tail in the same order, so `op.kind` tells them apart
where they differ. Startup goes through the Proposal directories one by one
(`RecoverProposal`, then the sidecar steps), applies an adoption that Accepted
has not followed (`RecoverAccepted`) and writes missing completions
(`RecoverCompletions`).

Every durable step has a second disjunct, `Fault(site)`: an I/O error that
reports failure with the effect either there or not. `Abort` is the answer of a
failed handler, `Reject` a validation error, which startup meets again every
time (`phase = "refused"`: read-only recovery). `Crash` ends the process between
any two steps; `Stop` is the graceful shutdown, which waits for the handler.
`ExpireApproval` covers both the sweep and the refusal of an expired token.

### AiAttempts

The requests in flight (`Requests`) go from `Claim` (first section under the
mutex) through `calling` (the await) and `answered` (waiting for the mutex
again) to `MaterializeProposal` or `unwinding` (the drop guard waiting for the
mutex). `cancelled` is what the watch channels say, `terminal` the tombstones in
their order. `EndReview` stands for the whole of DecisionProtocol as this module
sees it: a Proposal goes away, and Accepted may move. The cleanup actions, the
credential actions and create_context are one step each, since they hold the
mutex throughout. `next` starts over at a restart, together with everything that
could hold an old generation. `proposed` is a history variable.

### StateRoot

`disk` is what a restart finds: for each project the state of its tree
(`creating`, `active`, `deleting`, `torn`), the layout marker, the tree set aside
by a migration, the migrated copy, the migration journal and the backup; for each
Proposal its workspace and whether it became a retained revision; and the shared
`objects`. `torn` is a tree whose removal or copy stopped in the middle. An
operation puts its steps into `todo` (`Creation`, `Preparation`, `Commit`,
`WorkspaceDeletion`, `ProjectDeletion`, `Opening`, `Resumption`), and a step of
the same name takes the head, so an order of steps is one definition to compare
with the code. `Collect` is cleanup_candidate_objects: it computes the doomed
objects from everything still reachable and `Drop` removes them one by one.
`Preflight` is the read-only inspection with which `ManagedStorage::open` begins,
and `Accepted` what it accepts. `Points` is what the recovery reader offers; it
changes nothing and is an operator.

### TargetRecords and GeneratedArtifacts

`TargetRecords` has one action per rename: `Write` and `Add` for a new Target
below the limit, `Stage`, `Journal`, `Link`, `Unlink`, `Unjournal` for the
exchange at the limit, `Recover` for the completion which the next request or
the next start performs, `RenameProject` for the display name. `stray` and
`staged` are the temporary files a death leaves behind. `Effective` is what the
journal on disk makes of the records, so the refinement maps the exchange to the
moment the journal is there.

`GeneratedArtifacts` treats one kind of archive (exports and drafts do not
interact): staging, fill, rename, answer; hide, remove, answer; and the start,
which loads the directories of the projects one by one (`LoadCollection`) and
refuses more than the limits admit.

### ImportReview

The directory `source` changes at any time (`Edit`). A scan reads it file by
file (`ScanFile`) without the mutex, so a scan may see a state the directory
never had. A confirmation has three sections under the mutex
(`CheckPreview`, `RecheckPreview`, `ImportProject`) with the scan between the
first two. The clock (`Tick`) expires sessions and previews;
`ImportFails` leaves a project on disk that no one was told about.

### SiteReferences and ChangeSetApplication

One behaviour is one ChangeSet: `stage` is the check it has reached or the
refusal it ended with, in the order of parse_and_apply_change_set. What a file
holds is given by tables over contents, because the checks only use the
references, not the markup. There are three kinds of reference:

| table | references | what `Scan` says of the file |
|---|---|---|
| `Refs` (`Scripts` of them are sources of scripts) | in attributes and CSS the scan reads | lists them |
| `Hidden` | in syntax it cannot classify: character references, noscript, srcdoc, escaped CSS | `incomplete` (the content is `Ambiguous`) |
| `Runtime` | made by a JavaScript file, an inline script or an event handler, or written in a type that is not read, such as JSON | nothing but `dynamic` for scripts, nothing at all for the type (`Unread`) |

`Inline` holds the inline scripts and event handlers themselves, which the
comparison of behaviours sees. A file may have references of all kinds. The
properties say which kind they are about: `ReferencesHold` and
`ExportIsTruthful` leave `Runtime` out by name, since no check of the code looks
at them (Observations). That a file with `Hidden` references is `Ambiguous`, and one
with `Runtime` references `Dynamic` or `Unread`, is `SiteReferencesAssumption`: it
takes the scan of bytes, which is not modelled, to flag what it means to flag.

Paths are sequences of segments, and both resolutions (`ResolveLocal` of the
ChangeSet and `ResolveReference` of the export) walk them as the code does, in the
order of their early returns: the export looks for control characters and
backslashes before it looks at the scheme and refuses an unknown scheme, while the
ChangeSet passes what leads away first, drops the query and walks an unknown
scheme as a segment. `text` says what a reference holds that an address should
not; a control character in the path itself makes the path `Unsafe` for both.

### NameAutosave

The editor's refs are variables (`draft`, `confirmed`, `sequence`), `timer` is the
number the debounce timer was set for, `chain` the saves queued behind each
other and `request` the one that is out. Typing is three actions, one for each
way through the effect: the confirmed name, a name that is not valid, and a new name.
`SendNext` is the turn of a save: it sends what the editor now believes to be
stored as the expected name, or returns where there is nothing to do. The server
compares both names with the Store and with `project.json`
(`UpdateProjectMetadata`); its write may fail with its effect there. `Reload` leaves
a request behind as a stray that the server may still run; `Restart` loses it.

The histories are `lastQueued` (the last name a save was queued for), `failed`
(an error or a lost answer since the page was opened) and `overtaken` (a stray of an
earlier page changed the name). With a stray, an expected name can be true again
although the name changed twice in between; the properties about one page
exclude that.

### StudioPage

A click starts a task, an async function. A task sends requests (`wants`); the
server serves them in any order (`Serve`), and the page takes what a task brought
(`Receive`), dispatching to the reducer what the code dispatches: `Fail`,
`ClearAttempt`, `ShowReview`, `Refresh` and `LoadProject` are the reducer's actions.
Only generations and their cancellations compare a run number (`run`,
`Current`). An attempt and its Proposal are one identity, the approval and the Decision are
one request with the outcomes of both. What DecisionProtocol and AiAttempts show
in detail is one step here, with the outcomes that matter to the page: refused,
done, done but unknown.

`knownDecided` and `unsure` are what the page was told. `overlapped` records that a task
ended an operation it had not started (Observations); `OneDecision`,
`DecisionLocks` and `RestShowsProject` hold unless that happened, `PageSettles` always. What
it may lead to is said under Observations.

### Composition

- DecisionProtocol implements HumanDecision with `accepted <- pointer`,
  `log <- chain`, `authorised <- consumed`: the abstract Accepted revision is the
  durable pointer, not memory, which a crash loses.
- StateRoot implements ProjectCatalog with the trees, workspaces and retained
  revisions that a start would keep; hiding a tree is the deletion.
- TargetRecords and GeneratedArtifacts implement the same RecordShelf.
- DecisionProtocol and AiAttempts meet at `CreateProposal` /
  `MaterializeProposal` (the second section of create_proposal is entered only
  with an answer and no review) and at `EndReview`; each models the other's side
  by its guard and effect.
- DecisionProtocol and StateRoot meet at commit_revision: the former has the
  renames of site and pointer, the latter (`Commit`) the objects and the
  manifest. The start is split the same way; the product of all of them is not
  explored, since the parts of the disk they read are disjoint.

## Runs

`pass` means TLC explores every reachable state and finds no error.

| run | question | bounds |
|---|---|---|
| `DecisionFaults` | was every Decision approved, do the three stores agree, does memory show what they hold, are the records final, is each Proposal decided once (implements HumanDecision), is one review open | 2 Proposals (one with a blocking check), 2 tokens, 2 errors at any site including create_proposal and an unreadable repository, 2 crashes, a clock that may be set back |
| `DecisionLiveness` | is a committed Decision never denied, do intents settle, does Accepted follow, does startup accept what was left and serve the project again | 2 Proposals, 1 token, 1 error in the steps of a Decision or startup (of the repository too), 2 crashes, `FairSpec` |
| `AttemptRaces` | does a run keep its slot and context, does a cancelled one propose, do outcomes stay, is a slot freed | 1 project, 2 attempts, 2 requests, 1 credential binding, memory of 1 outcome, 2 contexts, 2 generations, 1 adoption, `FairSpec` |
| `StateRoot` | do objects, backups and answered projects survive, is what is served clean, implements ProjectCatalog | 3 projects (one in the old layout), 2 Proposals sharing objects, 3 objects, limit of 2 projects, 2 errors, 2 crashes at any durable step |
| `TargetRecords` | is a replacement one exchange, does memory agree with the disk, is a pinned Target kept | 3 Targets, limit of 2, 2 values, 2 names, 2 errors, 2 crashes |
| `GeneratedArtifacts` | does an answered archive stay, what can make a start refuse | 2 projects, 4 archives (one large), limits of 2 records and 3 units of bytes, 2 errors, 2 crashes |
| `ImportReview` | is a preview one project, and the project what was reviewed | 2 sessions, previews, requests and files, 1 version of a file, limits of 1 session, 1 preview and 2 projects, 2 ticks, 1 edit, 1 error, 1 restart |
| `NameAutosave` | is the last name saved the one stored, does no save overwrite a name it did not expect, does every save end | 3 names, 5 numbers given out, 1 fault, 1 page opened again, weak fairness |
| `StudioPage` | does the page settle, does a review stay within reach, is Accepted shown, is one Decision under way, and nothing decided or unknown offered for another | 1 attempt and its Proposal, 3 tasks at a time, 2 faults, weak fairness |
| `ChangeSet` | are operations applied as asked and reviewed as applied, do references hold, does nothing new run, is an export truthful | every Accepted site over 5 paths and 11 contents (references of all kinds and schemes), every pair of operations |

Two more runs expect a violation. Each states what a comment or an ADR
says, and finds a behaviour of the code that does not keep it:

- `InterruptedDeletion` (storage.rs 1704): one process death while the objects of
  a deleted project are removed makes every later start refuse the root. The
  read-only inspection that precedes recovery wants every object of every tree,
  also of the hidden one whose deletion it would resume. The comment at 1699-1702
  says that a restart recomputes the set and that removed objects are
  idempotent.
- `DeniedDecision` (synapse_sidecar.rs 588): an unreadable repository before and
  after a retry that is refused as stale turns a committed Decision into a
  terminal denial. It takes two errors, which is why `DecisionLiveness` passes
  with one.

Why the bounds are enough. The interesting states of a Decision concern the
Proposal under review and the one before it (lineage, chain, history), so two
Proposals reach them. Two errors cover a failure and a failing repair; two
crashes cover a crash of the recovery. A second token makes a stale one
possible. For attempts, a memory of one outcome makes forgetting happen at once
(the code's is 512), two requests make a stale guard and its successor coexist,
and with two generations an attempt is run, cancelled, forgotten for an outcome of the
other one, which may be cancelled before it runs, and run again. All its safety properties
are theorems for any bounds and any number of projects.
In the state root, one project is migrated, one is created and a third is refused
or becomes possible by a deletion; objects are shared between two projects and
between a Proposal and the revision it started from, so that each deletion has
an object to drop and one to keep. A limit of two Targets with three identifiers
makes every third creation an exchange, and two of the Targets may be pinned. Of four archives two
fill a limit by number, and the large one with another fills it by bytes. Two
requests of an import confirm the same preview, or one takes the place of an
expired preview while another confirms it. A pair of operations is what the checks of
operations compare; chains and swaps of renames are pairs, and the theorems hold
for any number. Tokens, and the sessions, previews and requests of an import, are interchangeable and used as symmetry sets
where no liveness is checked.
Of three names one is stored, one is out and one is typed; five numbers are enough
for two saves in the chain behind one that is out. Three tasks of a page are a
generation, its cancellation and a restore, or a Decision and two that overlap it; two faults are a
Decision of unknown outcome and a reconciliation that does not settle it.

`CHECK_DEADLOCK FALSE` stands where the system stops when identifiers, the clock or
the bounds are spent, or at the end of a ChangeSet.

`DecisionFaults` includes every error the model has, and its `MemoryFollows` leaves
two cases aside, by name: a Decision that was wrongly denied (the subject of
`DeniedDecision`) and directories that a clock set back has shuffled. A
startup refuses after some errors of the creation sites and of the clock
(Observations), so that "startup accepts what was left", a part of `ServedAgain`, is
checked by `DecisionLiveness` for the errors of a Decision and of startup.

## Fairness

- `WF(Step)`: a handler that holds the mutex, and a startup, run to their
  answer. They are synchronous code without waiting on anyone.
- `WF(Start)`: a launched process starts.
- `SF(Stop)`: a server is restarted some time. Nothing in the server finishes a
  Decision in the background; the user guide (`docs/user-guide.md:185`) names
  restart and reconciliation as what does. No user request is assumed fair, so
  the liveness properties hold without the user ever asking for reconciliation.
- `WF(Generate(r))`: the provider answers, fails or is ended by the client
  timeout of 90 s (`ai_provider.rs` 528), and a request that is not waiting runs
  on. `Disconnect`, cancellations and all other requests are not fair.

- `NameAutosave`: the timer fires, queued saves take their turn, requests are run and
  answered. `StudioPage`: WF for each task's request (`Serve`) and continuation
  (`Receive`). Typing, clicks, reloads and faults are not fair, so
  `AutosaveSettles` and `PageSettles` need nothing of the creator.

A crash is never assumed to happen or to stop happening other than by
`MaxCrashes`; faults are bounded by `MaxFaults` (`MaxSaveFaults`). `ServedAgain` and `DecisionsComplete`
therefore speak of what follows after the last of them. The modules of the state root are
checked for safety only: what they owe after a crash is stated as a property of
a start that serves and of the reasons a start may have to refuse
(`StartupSettles`).

## Theorems

Every theorem holds for all values of the constants under the assumptions their
modules name (`GenesisAssumption`, `ConstantsAssumption`, `NoneAssumption`,
`AttemptsAssumption`, `ImportReviewAssumption`, `GeneratedArtifactsAssumption`,
`StateRootAssumption`, `TargetRecordsAssumption`, `NoneIsNoJob`, `SiteReferencesAssumption`,
`ChangeSetAssumption`, `NameAutosaveAssumption`, `StudioPageAssumption` and the
`NoneAssumption` of `StudioPage`):
sentinels are not values, bounds are naturals, and the
few finiteness conditions under which counting means something (in
`StateRootAssumption`: there are finitely many projects, so that a start goes
through them in directory order). Each proof has a
lemma per action; facts about sequences, maxima and the answers of a handler are
stated once and cited.

`DecisionProtocolProofs`, with the invariant `IInv`:

- `TypeCorrect`: `Spec => []TypeOK`.
- `DecisionsAuthorised`: `Spec => []CommittedWasApproved`. The property speaks
  of the Ref only and is not inductive: startup and reconciliation publish an
  intent registered by an earlier process. `IInv` adds `Authorised` (every
  registered intent, and the request about to register one, is among the
  consumed approvals), `Control` (what `pc` says of the handler in flight) and
  `Journalled` (a review that is worked on or shown has its journal row).
- `BlockedStaysOut`: `Spec => []BlockedNeverAdopted`. Only create_approval looks
  at the checks. `Gated` carries the fact from the outstanding tokens to the
  consumed ones, and `CommittedWasApproved` to the Ref. `DecisionsWereApproved`
  puts the two together: `Spec => []DecidedAsApproved`.

The second half of that module is about what is durable, with `JInv` on top of
`IInv`: `Registered` (how
Refs, chain, journal rows and intents of a Proposal go together), `Pursued` (what
a handler between two steps knows), `Reviewed` (the review in memory is the one
the Ref is about), `Led` (each Proposal's base is where the chain led when it was
published, and the pointer is where it leads or one adoption behind) and
`OneOpenReview`.

- `OneReviewAtATime`: `Spec => []OneOpenReview`.
- `OfferedReviewsAreUndecided`: `Spec => []OpenReviewHasNoIntent`, a part of
  `MemoryFollows`, for errors of the repository and of creation and any clock
  as well.
- `RecordsStay`: `Spec => RecordsAreFinal`.
- `ProtocolImplementsDecision`: `Spec => ImplementsHumanDecision`.
  `CreateDecision` maps to Authorise, `CallSynapse` to Decide, `AdvancePointer`
  to Follow, everything else to a stutter. The hard case is the adoption a startup
  re-applies: `UnappliedIsHead` shows that it is the head of the Ref, from `Led`
  and not from the order of the directories, so it holds for a clock that was
  set back.

The part after it adds `KInv` on top of both: `Closed` (completion.json comes
after decision.json and, for the adoption at the head, after the pointer),
`Finishing` (what the durable tail has written by each `pc`) and `Lineage` (each
directory a startup has passed is about the revision those before it lead to).

- `StoresFollowTheRef`: `Spec => []StoresAgree`. `Lineage` gives `HeadIsLast`: the
  adoption found last in the directories is the head of the Ref. A startup that
  meets directories in an order the chain contradicts refuses before it writes.

The two parts after that are about memory and about a wrong denial.

- `MemoryShowsTheStores` (`MemoryFollows`), with `HInv`: the history is the
  beginning of the Ref, and of its whole length but for the Decision a handler
  carries through (`Remembered`). This needs that the directories of decided
  Proposals stay (`Directories`) and, for a startup, that what it has read is what
  it has passed (`Reread`): each directory it passes must then be the next
  Decision of the Ref, so no induction over the directories is needed. The
  order is the one of the Ref unless `Shuffled`, which like a wrong denial the property
  leaves aside (`Orderly`). `Behind` is the part about the Accepted revision.
- `DenialNeedsTwoFaults`: `Spec => [](CommittedNeverDenied \/ (faults >= 2 /\
  "repository" \in FaultSites))`, with `DInv`: a handler that calls SynapseGit about a
  decided Proposal, or was refused by it, has found the repository unreadable before,
  and the refusal it needs now is the second error. The property itself is
  false for two errors (run `DeniedDecision`).

`AiAttemptsProofs`: `IInv`, whose part `Owned` says that the generations of the
slots and of the requests are distinct, were given out, and that a slot's is
neither cancelled nor proposed (without it a stale guard could be the holder of
the slot it frees), and `MInv` about the memory of outcomes.

- `TypeCorrect`, `CancelledStaysOut` (`CancelledNeverProposes`),
  `RunsKeepTheirSlot` (`RunKeepsItsSlot`), `EndedAttemptsStayEnded`
  (`EndedStaysEnded`), `OutcomesAreFinal` (`OutcomeIsFinal`),
  `RunsKeepTheirContext` (`RunKeepsItsContext`); `RunsKeepTheirHold` and
  `AttemptsEndOnce` put them together as the properties of the run.

`StateRootProofs`: `RetainedObjectsKept` is far from inductive, because the steps
an operation has left decide what may happen to the objects. `IInv` is

- `SoundDisk`: besides the property itself (`Retained`), a project that does not
  exist has no revision and no Proposal (`Fresh`), so that publishing a tree
  needs no more than its first revision; one migration is open at a time
  (`OneMigration`).
- `Control`, about the queue `todo` as a whole: which steps a phase may have left
  (`Phased`), which step may come directly behind which (`Preceded`), what a
  step waits for although others come first (`Waiting`: `Holds` names its
  condition and `Ahead` the steps that may be ahead of it, none of which
  disturbs it), what the head relies on (`Ready`), and that a start has the end of
  the open migration before it, with the second rename next wherever the name of the
  project is free (`Migrating`).
- `Unneeded`: what is being dropped belongs to nothing that exists, and the step
  behind it publishes nothing. This is where the order of a cleanup matters: the
  objects of a new tree, workspace or revision are written after every sweep.

A step that fails or dies leaves a disk for which an empty queue, or the queue of
its rescue, satisfies `Control` again (`RunKeeps`, `EndedKeeps`), so each action's
lemma has only its effect to look at.

- `RootKeepsObjects` (`RetainedObjectsKept`).
- `RootIsCatalog` (`ImplementsCatalog`): the rename that publishes a tree or a
  workspace, the rename that hides one and the rename of a manifest are the steps of the
  catalog; the two renames of a migration, and everything that is filled, swept,
  removed or resumed, change nothing of it.
- `MigrationsStayReadable` (`MigrationReadable`) and `AnswersOutliveCrashes`
  (`AnswersAreDurable`), from `LInv`. Of the disk it says what the two properties say of
  backups, trees and answers (`Legible`, `Answered`), with the identifiers given out,
  because a project that was deleted must not be created again. Of the queue it says
  what each step will find when its turn comes (`Meets`): now, or once a step ahead of
  it has made it so (`Makers`), and nothing ahead of it can undo it (`Before`). So
  the old tree is set aside only with the backup published, and removed only with the
  new one in its place; and the answer of a deletion waits for the removal of the
  backups and of the tree. `Named` says that the project of a creation under way, and of
  a deletion whose tree is not hidden yet, has no answer that holds.

`TargetRecordsProofs`: `IInv` is `Shape` (the types), `Control` (for each step at
the head of `todo`, what the steps before it have made of the disk),
`ContextsRefer` and `AnsweredRecordsKept`.

- `AnswersOutliveCrashes` (`AnsweredRecordsKept`), `StoreFollowsDisk`
  (`MemoryIsDisk`), `UsedTargetsStay` (`ContextsKeepTheirTarget`) and
  `RecordsImplementShelf` (`ImplementsShelf`): the rename of the journal is the
  exchange, its completion, also the one of a later start, changes nothing of
  `Effective`.
- `RefusalsAreExplained` (`RefusalNeedsLostStaging`), from `RInv`: the records on
  disk are within the limit, or a journal is left that can be completed and then
  they are exactly at it, or its staging is lost (`Fits`); a journal is begun at
  the limit only (`AtLimit`); and past its preflight a start meets no lost staging
  (`Preflighted`).

`GeneratedArtifactsProofs`: `IInv` adds `Control`, `HeadReady` (what the
step at the head relies on: room for one more, or the archive in its final
state) and `Fresh` (an identifier not given out is nowhere).

- `AnswersOutliveCrashes` (`AnsweredArtifactsKept`), `DirectoriesImplementShelf`
  (`ImplementsShelf`).
- `RefusalsAreExplained` (`RefusalNeedsGhost`), from `RInv`: the archives that were
  answered for, with the one a running creation adds, are within both limits
  (`Created`, `CreationFits`), so where the directories exceed one there is an
  archive among them that was not. The total of the bytes is the number of the
  positions in the archives, which makes it monotone and additive by the theorems
  about finite sets.

`ImportReviewProofs`: `IInv` adds `PreviewsAreShown`, `HandsSound` (what a request
carries between its sections is from a preview that was shown) and
`AnsweredIsSpent` (a preview with an answered project is gone).

- `OneProjectPerReview` (`ConfirmedOnce`), `ProjectsAreReviewed`
  (`ImportedIsReviewed`).

`ChangeSetProofs`: `IInv` says by stage what has been checked, which paths the
applied operations have touched (`Touched`) and left alone (`Untouched`), and
what the changes list (`Listed`). Distinct operations claim distinct paths, so
each finds its path as the Accepted site left it.

- `OperationsApplyAsAsked` (`AppliesAsAsked`), `ReviewIsComplete`
  (`ReviewShowsEverything`), `NoReferenceIsBroken` (`ReferencesHold`),
  `ExportsAreTruthful` (`ExportIsTruthful`), for any sites, paths, contents and
  any number of operations. The last two rest on `ResolutionsAgree`: where the ChangeSet
  does not refuse a reference, the export leads it to the same place (or, a query
  alone, to the file itself), and it refuses no other than `Unusual` ones.
  `NoReferenceIsBroken` splits by kind: what is found is met, and a file with
  syntax that cannot be classified is the one of the Accepted site, from which
  nothing was removed. References made at run time are the exception the
  theorem states, not an assumption.
- `NothingNewRuns`: `Spec => [](ScriptsAreNamed => NoNewScripts)`.
  `ScriptsAreNamed` excludes a script whose source is a query alone (`src="?x"`),
  the reference the two resolutions read differently (Observations).

`WebStudioProofs`, about both modules of the web studio. For `StudioPage`, `IInv` is in
layers, because the page may begin a second operation while one is under way, and may
lose answers, and much less is true then.

- `Shape` (the types) and `Known` and `AInv`, always: what the page and each task know of
  an attempt the server cannot take back. Whoever holds a Proposal, an answer about
  one or a projection that names one has an attempt that is `proposal_ready`, a status
  no step leaves (`Sound`, `Known`). A Decision the page has seen confirmed is not under
  review.
- `BInv`, unless `overlapped`: the operation that is shown belongs to one task
  (`Owns`, `Owner`), no two tasks own one (`Apart`), and the others are about the
  context of the run or about a Proposal that is ready (`Beside`). `Orderly` has
  `DecisionLocks` in the form that is kept: a decided or unsure Proposal is locked,
  or offered only during the refresh that removes it. That a task asked before the
  unknown outcome cannot release the lock is `early`, which an owner never has.
- `CInv`, if no answer was lost either: what each task will bring is what the server has
  (`Fresh`), and the page shows the Accepted revision unless a Decision is
  being answered (`Deciding`), and the review or the context it came from (`InStep`).

- `DecisionsAreSingle` (`OneDecision`): two Decisions would be two owners.
- `DecidedStaysLocked` (`DecisionLocks`), from `Orderly`.
- `RestIsCurrent` (`RestShowsProject`): a page at rest has no task, so none decides or
  generates, and `InStep` leaves what the property says.

The proofs are for any number of attempts and tasks, where the run has one attempt and
three tasks; the fairness in `Spec` is not used.

For `NameAutosave`, whose specification is `EditorSpec`, `EInv` says that the numbers of
the save that is out, of those chained behind it and of a draft whose timer runs rise in this order (`Numbered`),
that the save that is out names the confirmed name as the expected one (`Sent`), and
(`Stored`) that the end of the queue is the last name released, while only the save
that is out comes between the page and the stores.

- `NamesAreStored` (`StoredAsShown`): an answer whose number is the present one can
  have nothing behind it.
- `SavesAreSeen` (`NoBlindOverwrite`), from `Sent`.

Only model-checked: the liveness properties `DecisionsComplete`,
`ServedAgain`, `SlotIsFreed`, `AutosaveSettles` and `PageSettles` (liveness
under fairness is out of the prover's reach); the part of `ServedAgain` that startup
never refuses, which holds for a bounded choice of fault sites; and, of `StateRoot`,
`StartupSettles`, which is about the order of the projects in a start and would need
an account of every step that is left of it.
Nothing is proved about what a recursive definition computes for every input:
the cycle check of a ChangeSet is checked by TLC, and the theorems do not depend
on it.

## Observations

Behaviours met while the models were written that have no runs of their own. The
properties above are stated so that they hold in spite of them.

- **Orphan Proposal** (`lib.rs` 4090). create_proposal that fails after the
  directory appeared leaves it unbound; create_proposal can be repeated, and the
  next startup then refuses.
- **Refused reconciliation** (`lib.rs` 4233). After an error past the swap of the
  site tree, the reconciliation the error message asks for is refused by
  verify_project until a restart.
- **Clock** (`lib.rs` 1126). Startup orders Proposals by wall-clock time. With a
  clock set back between two Proposals it may refuse or show the wrong
  review; the stores agree all the same (`StoresFollowTheRef`).
- **Credentials** (`lib.rs` 3181). ADR 0014 says "Credential replacement or
  clearing returns provider_credential_in_use while any claimed attempt
  references the binding"; the code replaces and clears it.
- **Lost staging** (`storage.rs` 1405). When the write of the replacement journal
  reports an error after its rename, the handler removes the staging file that
  the journal on disk names, and every later start refuses
  (`RefusalNeedsLostStaging` says that this is the only way).
- **Another project's temporary** (`storage.rs` 1000). The collection of objects
  takes an orphan temporary of any project for corruption; with a hidden tree
  left to delete, start refuses.
- **Two unfinished deletions** (`storage.rs` 1704). The hidden backup of the
  second makes the recovery of the first refuse.
- **Ghosts** (`lib.rs` 4740, `storage.rs` 477). A creation that fails after its
  rename is on disk and not in the Store, whose limits do not count it, while a
  start counts both and refuses; past eight projects the recovery reader refuses
  too. A failed import leaves its preview, so a retry may make a second project
  (`ConfirmedOnce` allows this after an unanswered one only).
- **Memory behind the disk** (`lib.rs` 3559). persist_target, replace_target and
  the deletion of an archive that report an error after their effect leave the
  Store behind until a restart (`MemoryIsDisk` excludes it by `failed`).
- **Two resolutions** (`change_set.rs` resolve_local_reference, `static_export.rs`
  resolve_reference). `?x` alone is the directory for one and the file itself for
  the other. An adopted site can be refused by the export for a malformed http
  address, for a control character or a backslash in a data, mailto, tel or blob
  address, for a control character in a query or fragment (`static_export.rs` 690),
  and for an unknown scheme that the ChangeSet walks as a segment, so that
  `foo:x/../index.html` is the index (713). `Unusual` is this list, and
  `ExportIsTruthful` says that there is nothing else.
- **What no scan looks for** (`static_export.rs` 458, 500, 532, 591). JavaScript files, inline
  scripts, event handlers and files of other types raise no
  `analysis_incomplete`. A ChangeSet that deletes a file which an unchanged script or
  JSON file fetches carries no blocking warning (`change_set.rs` 276), and a site whose
  script fetches another origin is exported as `OfflineSelfContained` (387, asserted by
  the test dynamic_references_are_reported_as_unchecked_not_as_verified). The
  receipt names the files with scripts as dynamic sources and the limitation at
  440 says that they are not inspected, so this is the documented limit of the
  analysis; a file of an unread type is not named. A new or changed script is a
  blocking warning of its own (`NoNewScripts`).
- **Overlapping operations** (`App.tsx` 3132, 3735, 3541, 4138). The page admits one
  operation by disabling its buttons, and three things end an operation they did not
  start: REVIEW_RESTORED and REVIEW_RECONCILED enable the buttons before the
  refresh that follows them, which then ends whatever was begun meanwhile; a late observation
  of a cancellation; and any FAILED, such as that of the
  preview frame or a credential request. Without `~overlapped` TLC finds two
  Decision requests under way at once, a decided Proposal offered
  again and an old projection at rest. The server decides once all the same
  (`ImplementsHumanDecision`).
- **Late cancellation** (`App.tsx` 3541). PROPOSAL_READY does not end the run number, so a
  cancellation that was refused as too late is still observed while the creator
  decides about the Proposal. The observation loads the project and asks for the
  review; if that is answered before the Decision registers its intent and shown
  after the Decision ended with an unknown outcome, REVIEW_RESTORED
  (`studio-reducer.ts` 247) releases the lock the failure had set. The Proposal is offered
  for a Decision again although its intent is registered. With `MaxFaults = 1`
  TLC finds it in 19 states, as the violation of: a Proposal in `unsure` whose review
  is `unsettled` is locked, or an operation is shown. The fault is the unknown
  outcome itself. `docs/implementation-status.md` 144-147 promises a reload and a
  reconciliation first ("Once a Decision may have run, the UI reports the outcome as
  unknown, warns against blind retry, and requires reload plus Accepted-revision
  reconciliation"), and the text at `App.tsx` 1925 says that all Decision operations are
  locked until then.
- **Status of the name** (`App.tsx` 462, 491, 518). A name typed back to the confirmed one while the
  save of another is out reads as saved, and the other is stored; a save that finds
  its name stored already returns without changing the status, which stays at
  waiting; a failed save that was superseded leaves the
  status to the next one, which may have nothing to do. `docs/user-guide.md` 114-115
  tells the creator to go by the word saved.
- **Late saves** (`lib.rs` 3467). A save of a page that was left may still be run by the
  server, also after a later page has changed the name and changed it back.

The documents these compare with: `docs/adr/0010-fault-migration-retention.md`
("interruption at every publish boundary leaves either the old schema or the
fully validated new schema readable", which `MigrationReadable` states and TLC
confirms) and `docs/implementation-status.md` 166-168 and 475-478 (startup
"fails closed on unknown or inconsistent state instead of deleting it"; "unknown
or shared objects are not removed", which is `RetainedObjectsKept`).

## Abstractions, and what is not modelled

- Authentication, request validation, texts, digests as bytes, HTTP status
  codes, logging.
- Concurrent processes on one state root: `main.rs` 117-165 takes a file lock.
- Corruption by others: files and SQLite are changed by the server alone.
- An unreadable repository (`Fault("repository")`) is the one error the sidecar
  treats as an outcome, not as a failure.
- SynapseGit itself, a dependency, is what the sidecar's calls show of it:
  Refs, parents, grants consumed. ensure_bootstrap is taken as done.
- Directory syncs: a rename that returned is durable, as the code relies on.
- The limits of 128 Proposal directories per project and of approvals and
  sessions: only the limits the run table names are modelled.
- ChangeSet warnings about forms, frames, downloads, analytics, cookies and
  accessibility: further features of the comparison that `NoNewScripts` checks for
  scripts. That comparison counts occurrences and hashes attributes, which a tag's
  identity stands for.
- The scan of markup, CSS and srcset: tables over contents. A scan that fails (a base
  element, text that is not UTF-8) refuses the site in both parts, like a
  `javascript` reference. Scripts that load other scripts are `Runtime`.
- `static_syntax`, `publication`, `ai_provider`, target resolution and context
  assembly: parsers and formatters over bytes, without state.
- The rest of the web studio: the selection of Targets (a sequence number of its
  own), the preview bridge, retention, imports, exports and the publication
  dialog; reviews that failed for good, and more than one project in a page.
- The preview server, the performance probes and the scripts: read-only or
  outside the product.
