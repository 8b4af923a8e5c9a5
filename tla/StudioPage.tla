----------------------------- MODULE StudioPage -----------------------------
(***************************************************************************)
(* The studio page of the browser (apps/web/src/App.tsx and                *)
(* app/studio-reducer.ts) from the review of a context to the end of a     *)
(* Decision, against the server it talks to.  Every click starts a task,   *)
(* an async function that sends requests and dispatches actions to the     *)
(* reducer as answers come; several tasks may be under way at once, and    *)
(* their answers come in any order.  Only the generation and its           *)
(* cancellation compare a run number before they dispatch.                 *)
(*                                                                         *)
(* The server is what DecisionProtocol and AiAttempts show of it: an       *)
(* answer is what the Store says when the request is served.  An attempt   *)
(* and the Proposal it becomes are one identity.  One project, one page;   *)
(* Targets, previews, retention, exports, publications and reviews that    *)
(* failed for good are left out.  The approval and the Decision are one    *)
(* request with the outcomes of the two.                                   *)
(***************************************************************************)
EXTENDS Naturals, FiniteSets

CONSTANTS
    Attempts,       \* AI attempts, and the Proposals they become
    None,           \* no attempt, no review, no operation, no answer
    Tasks,          \* bound: tasks under way at once
    MaxFaults       \* bound: lost requests or answers, failing operations

ASSUME StudioPageAssumption ==
    None \notin Attempts /\ Tasks \subseteq Nat /\ MaxFaults \in Nat

VARIABLES
    \* the server
    revision,       \* how often the Accepted revision has moved
    review,         \* None or [attempt, unsettled]: the Proposal under review
    attempts,       \* what the registry says of each attempt
    decided,        \* per attempt None, or the revision its Decision led to
    \* the page (StudioState, and the refs of StudioApp)
    project,        \* [revision, review] as of the last projection loaded
    context,        \* contextReview
    proposal,       \* proposal: what the review drawer offers
    operation,
    locked,         \* decisionReconciliationRequired
    run,            \* proposalRunSequence
    cancelPending,  \* proposalCancelPending
    tasks,          \* the tasks under way
    faults,
    \* what the page was told, for the properties
    knownDecided,   \* Proposals whose Decision the page has seen confirmed
    unsure,         \* Proposals whose Decision has an unknown outcome
    overlapped      \* an operation was ended by a task that had not started it

serverVars == <<revision, review, attempts, decided>>
pageVars == <<project, context, proposal, operation, locked, run,
              cancelPending>>
told == <<knownDecided, unsure, overlapped>>
vars == <<serverVars, pageVars, tasks, faults, told>>

Operations == {"assembling_context", "generating_proposal", "restoring_review",
               "committing_decision", "refreshing_project",
               "reconciling_review"}
Requests == {"context", "generate", "provider", "cancel", "status", "project",
             "review", "decide", "reconcile"}

Kinds == {"context", "generate", "cancel", "observe", "restore", "after_restore",
          "reconcile", "after_reconcile", "decide", "after_decision"}
Errors == {"refused", "cancelled", "lost", "unknown"}
Reviews == [attempt : Attempts, unsettled : BOOLEAN]
Projections == [revision : Nat, review : Reviews \cup {None}]

\* None is not one of the values it stands for the absence of.
ASSUME NoneAssumption ==
    None \notin Operations \cup Kinds \cup Errors \cup Reviews \cup Projections

Projection == [revision |-> revision, review |-> review]
ReviewOf(a) == IF review # None /\ review.attempt = a THEN review ELSE None

NoTask == [kind |-> None]
Idle == tasks = [t \in Tasks |-> NoTask]
Live(t) == tasks[t] # NoTask

\* A task that sends `wants` about attempt a.  `early` marks requests sent
\* before the outcome of a Decision became unknown.
Task(kind, a, wants) ==
    [kind |-> kind, attempt |-> a, run |-> run, revision |-> project.revision,
     wants |-> wants, error |-> None, status |-> None, project |-> None,
     review |-> None, early |-> FALSE]

Init ==
    /\ revision = 0
    /\ review = None
    /\ attempts = [a \in Attempts |-> "new"]
    /\ decided = [a \in Attempts |-> None]
    /\ project = [revision |-> 0, review |-> None]
    /\ context = None
    /\ proposal = None
    /\ operation = None
    /\ locked = FALSE
    /\ run = 0
    /\ cancelPending = FALSE
    /\ tasks = [t \in Tasks |-> NoTask]
    /\ faults = 0
    /\ knownDecided = {}
    /\ unsure = {}
    /\ overlapped = FALSE

(***************************************************************************)
(* Clicks.  The buttons are disabled while an operation is shown.          *)
(***************************************************************************)
Start(t, kind, a, wants, op) ==
    /\ ~Live(t)
    /\ \A u \in Tasks : u < t => Live(u)
    /\ tasks' = [tasks EXCEPT ![t] = Task(kind, a, wants)]
    /\ operation' = op

ReviewContext(t, a) ==
    /\ operation = None /\ proposal = None /\ context = None
    /\ attempts[a] = "new" /\ \A u \in Tasks : Live(u) => tasks[u].attempt # a
    /\ Start(t, "context", a, {"context"}, "assembling_context")
    /\ UNCHANGED <<serverVars, project, context, proposal, locked, run,
                   cancelPending, faults, told>>

CloseContext ==
    /\ context # None /\ operation = None
    /\ context' = None
    /\ UNCHANGED <<serverVars, project, proposal, operation, locked, run,
                   cancelPending, tasks, faults, told>>

CreateProposal(t) ==
    /\ operation = None /\ context # None
    /\ run' = run + 1
    /\ cancelPending' = FALSE
    /\ ~Live(t) /\ \A u \in Tasks : u < t => Live(u)
    /\ tasks' = [tasks EXCEPT ![t] =
                    [Task("generate", context, {"generate"}) EXCEPT !.run = run + 1]]
    /\ operation' = "generating_proposal"
    /\ UNCHANGED <<serverVars, project, context, proposal, locked, faults, told>>

CancelProposalAttempt(t) ==
    /\ operation = "generating_proposal" /\ context # None
    /\ ~cancelPending
    /\ cancelPending' = TRUE
    /\ Start(t, "cancel", context, {"cancel"}, operation)
    /\ UNCHANGED <<serverVars, project, context, proposal, locked, run, faults, told>>

\* Started by its button, and by loadProject for the review it finds.
RestoreProjectReview(t) ==
    /\ operation = None /\ proposal = None
    /\ project.review # None /\ ~project.review.unsettled
    /\ Start(t, "restore", project.review.attempt, {"review"}, "restoring_review")
    /\ UNCHANGED <<serverVars, project, context, proposal, locked, run,
                   cancelPending, faults, told>>

\* Mutant: the buttons are not disabled during an operation.
DecideProposal_WhileBusy(t) ==
    /\ proposal # None /\ ~locked
    /\ Start(t, "decide", proposal, {"decide"}, "committing_decision")
    /\ UNCHANGED <<serverVars, project, context, proposal, locked, run,
                   cancelPending, faults, told>>

DecideProposal(t) ==
    /\ operation = None /\ proposal # None /\ ~locked
    /\ Start(t, "decide", proposal, {"decide"}, "committing_decision")
    /\ UNCHANGED <<serverVars, project, context, proposal, locked, run,
                   cancelPending, faults, told>>

\* The drawer offers it for the Proposal it shows, the recovery panel for an
\* unsettled review of the projection.
ReconcileActiveReview(t) ==
    /\ operation = None
    /\ \/ proposal # None /\ locked
          /\ Start(t, "reconcile", proposal, {"reconcile"}, "reconciling_review")
       \/ proposal = None /\ project.review # None /\ project.review.unsettled
          /\ Start(t, "reconcile", project.review.attempt, {"reconcile"},
                   "reconciling_review")
    /\ UNCHANGED <<serverVars, project, context, proposal, locked, run,
                   cancelPending, faults, told>>

(***************************************************************************)
(* The server serves a request; the answer waits in the task.              *)
(***************************************************************************)
Answer(t, q, field, value) ==
    tasks' = [tasks EXCEPT ![t].wants = @ \ {q}, ![t][field] = value]
AnswerNothing(t, q) == tasks' = [tasks EXCEPT ![t].wants = @ \ {q}]
Refuse(t, error) == tasks' = [tasks EXCEPT ![t].wants = {}, ![t].error = error]
Asked(t, q) == Live(t) /\ q \in tasks[t].wants

CreateContext(t) ==
    /\ Asked(t, "context")
    /\ IF tasks[t].revision = revision
       THEN /\ attempts' = [attempts EXCEPT ![tasks[t].attempt] = "queued"]
            /\ AnswerNothing(t, "context")
       ELSE Refuse(t, "refused") /\ UNCHANGED attempts
    /\ UNCHANGED <<revision, review, decided, pageVars, faults, told>>

\* The first section of create_proposal: the context's base is the Accepted
\* revision, no Proposal is under review, no other attempt runs.
ClaimAttempt(t) ==
    LET a == tasks[t].attempt
    IN  /\ Asked(t, "generate")
        /\ IF /\ attempts[a] = "queued" /\ review = None
              /\ tasks[t].revision = revision
              /\ \A b \in Attempts : attempts[b] # "running"
           THEN /\ attempts' = [attempts EXCEPT ![a] = "running"]
                /\ tasks' = [tasks EXCEPT ![t].wants = {"provider"}]
           ELSE Refuse(t, "refused") /\ UNCHANGED attempts
        /\ UNCHANGED <<revision, review, decided, pageVars, faults, told>>

\* The second: a cancelled run says so; otherwise the Proposal is under review
\* and the attempt ready in one step, or the provider failed.
FinishAttempt(t) ==
    LET a == tasks[t].attempt
    IN  /\ Asked(t, "provider")
        /\ \/ /\ attempts[a] = "cancelled"
              /\ Refuse(t, "cancelled")
              /\ UNCHANGED <<review, attempts, faults>>
           \/ /\ attempts[a] = "running"
              /\ review' = [attempt |-> a, unsettled |-> FALSE]
              /\ attempts' = [attempts EXCEPT ![a] = "proposal_ready"]
              /\ AnswerNothing(t, "provider")
              /\ UNCHANGED faults
           \/ /\ attempts[a] = "running"
              /\ faults < MaxFaults
              /\ faults' = faults + 1
              /\ attempts' = [attempts EXCEPT ![a] = "provider_failed"]
              /\ Refuse(t, "refused")
              /\ UNCHANGED review
        /\ UNCHANGED <<revision, decided, pageVars, told>>

\* A queued or a running attempt is cancelled, a cancelled one again; anything
\* else conflicts.
CancelAiAttempt(t) ==
    LET a == tasks[t].attempt
    IN  /\ Asked(t, "cancel")
        /\ IF attempts[a] \in {"queued", "running", "cancelled"}
           THEN /\ attempts' = [attempts EXCEPT ![a] = "cancelled"]
                /\ Answer(t, "cancel", "status", "cancelled")
           ELSE Refuse(t, "refused") /\ UNCHANGED attempts
        /\ UNCHANGED <<revision, review, decided, pageVars, faults, told>>

GetAiAttemptStatus(t) ==
    /\ Asked(t, "status")
    /\ IF attempts[tasks[t].attempt] = "released"
       THEN Refuse(t, "refused")
       ELSE Answer(t, "status", "status", attempts[tasks[t].attempt])
    /\ UNCHANGED <<serverVars, pageVars, faults, told>>

GetProject(t) ==
    /\ Asked(t, "project")
    /\ Answer(t, "project", "project", Projection)
    /\ UNCHANGED <<serverVars, pageVars, faults, told>>

GetReview(t) ==
    /\ Asked(t, "review")
    /\ Answer(t, "review", "review", ReviewOf(tasks[t].attempt))
    /\ UNCHANGED <<serverVars, pageVars, faults, told>>

Settle(a) ==
    /\ review' = None
    /\ revision' \in {revision, revision + 1}
    /\ decided' = [decided EXCEPT ![a] = revision']

\* create_approval and create_decision.  An error after the intent was
\* registered leaves the review to a reconciliation, whether or not the
\* Decision is on the Ref.
CreateDecision(t) ==
    LET a == tasks[t].attempt
    IN  /\ Asked(t, "decide")
        /\ IF ReviewOf(a) = None \/ review.unsettled
              \/ tasks[t].revision # revision
           THEN Refuse(t, "refused") /\ UNCHANGED <<serverVars, faults>>
           ELSE \/ Settle(a) /\ AnswerNothing(t, "decide")
                   /\ UNCHANGED <<attempts, faults>>
                \/ /\ faults < MaxFaults
                   /\ faults' = faults + 1
                   /\ review' = [review EXCEPT !.unsettled = TRUE]
                   /\ Refuse(t, "unknown")
                   /\ UNCHANGED <<revision, attempts, decided>>
        /\ UNCHANGED <<pageVars, told>>

\* A registered intent is settled, unless the outcome stays unknown.
ReconcileReview(t) ==
    LET a == tasks[t].attempt
        open == ReviewOf(a)
    IN  /\ Asked(t, "reconcile")
        /\ \/ /\ open # None /\ open.unsettled
              /\ Settle(a)
              /\ Answer(t, "reconcile", "review", None)
              /\ UNCHANGED faults
           \/ /\ open # None /\ open.unsettled
              /\ faults < MaxFaults
              /\ faults' = faults + 1
              /\ Answer(t, "reconcile", "review", open)
              /\ UNCHANGED <<revision, review, decided>>
           \/ /\ open # None => ~open.unsettled
              /\ Answer(t, "reconcile", "review", open)
              /\ UNCHANGED <<revision, review, decided, faults>>
        /\ UNCHANGED <<attempts, pageVars, told>>

\* The connection breaks before a request is served, or after.  A run whose
\* request is dropped gives its slot back and leaves no outcome.
LoseRequest(t) ==
    /\ Live(t) /\ tasks[t].error = None /\ tasks[t].wants # {}
    /\ faults < MaxFaults
    /\ faults' = faults + 1
    /\ \/ Refuse(t, "lost")
       \/ Asked(t, "decide") /\ Refuse(t, "refused")   \* the approval was lost
    /\ attempts' = [attempts EXCEPT ![tasks[t].attempt] =
                      IF @ = "running" /\ Asked(t, "provider") THEN "released" ELSE @]
    /\ UNCHANGED <<revision, review, decided, pageVars, told>>

LoseAnswer(t) ==
    /\ Live(t) /\ tasks[t].error = None /\ tasks[t].wants = {}
    /\ faults < MaxFaults
    /\ faults' = faults + 1
    /\ Refuse(t, "lost")
    /\ UNCHANGED <<serverVars, pageVars, told>>

(***************************************************************************)
(* The page takes what a task brought: an error of any of its requests, or *)
(* the answers to all of them.                                             *)
(***************************************************************************)
Brought(t, kind) ==
    Live(t) /\ tasks[t].kind = kind /\ (tasks[t].wants = {} \/ tasks[t].error # None)
Fine(t, kind) == Brought(t, kind) /\ tasks[t].error = None
Threw(t, kind) == Brought(t, kind) /\ tasks[t].error # None

End(t) == tasks' = [tasks EXCEPT ![t] = NoTask]
\* The task goes on: it sends `wants` and waits as `kind`.
Continue(t, kind, wants) ==
    tasks' = [tasks EXCEPT ![t].kind = kind, ![t].wants = wants,
                           ![t].error = None, ![t].early = FALSE]
Current(t) == tasks[t].run = run

\* FAILED
Fail(clearContext, lock) ==
    /\ operation' = None
    /\ context' = IF clearContext THEN None ELSE context
    /\ locked' = (locked \/ lock)
    /\ UNCHANGED <<project, proposal>>

\* PROPOSAL_ATTEMPT_CLEARED
ClearAttempt ==
    /\ operation' = None
    /\ context' = None
    /\ UNCHANGED <<project, proposal, locked>>

\* REVIEW_RESTORED and REVIEW_RECONCILED
ShowReview(a, r) ==
    /\ proposal' = IF r = None THEN None ELSE a
    /\ operation' = None
    /\ locked' = (r # None /\ r.unsettled)

\* PROJECT_REFRESHED
Refresh(p, afterDecision) ==
    /\ project' = p
    /\ context' = None
    /\ operation' = None
    /\ proposal' = IF afterDecision THEN None ELSE proposal
    /\ locked' = (locked /\ ~afterDecision)

EndRun == run' = run + 1 /\ cancelPending' = FALSE
KeepRun == UNCHANGED <<run, cancelPending>>

\* What an answer about a Decision tells, unless it was asked for too early.
LearnReview(t) ==
    /\ knownDecided' = IF tasks[t].review = None
                       THEN knownDecided \cup {tasks[t].attempt} ELSE knownDecided
    /\ unsure' = IF tasks[t].early THEN unsure ELSE unsure \ {tasks[t].attempt}
    /\ UNCHANGED overlapped
LearnProject(t) ==
    /\ unsure' = IF tasks[t].early THEN unsure ELSE {}
    /\ UNCHANGED knownDecided

\* Mutant: an error is not dispatched.
ContextReady_Silent(t) ==
    /\ Brought(t, "context")
    /\ tasks[t].error = None => context' = tasks[t].attempt /\ operation' = None
    /\ tasks[t].error # None => UNCHANGED <<context, operation>>
    /\ End(t) /\ KeepRun
    /\ UNCHANGED <<serverVars, project, proposal, locked, faults, told>>

ContextReady(t) ==
    /\ Brought(t, "context")
    /\ IF tasks[t].error # None
       THEN Fail(FALSE, FALSE)
       ELSE /\ context' = tasks[t].attempt
            /\ operation' = None
            /\ UNCHANGED <<project, proposal, locked>>
    /\ End(t) /\ KeepRun
    /\ UNCHANGED <<serverVars, faults, told>>

ProposalReady(t) ==
    /\ Fine(t, "generate")
    /\ IF Current(t)
       THEN /\ context' = None
            /\ proposal' = tasks[t].attempt
            /\ operation' = None
            /\ cancelPending' = FALSE
            /\ UNCHANGED <<project, locked, run>>
       ELSE UNCHANGED pageVars
    /\ End(t)
    /\ UNCHANGED <<serverVars, faults, told>>

ProposalFailed(t) ==
    /\ Threw(t, "generate")
    /\ IF ~Current(t) THEN UNCHANGED pageVars
       ELSE /\ EndRun
            /\ IF tasks[t].error = "cancelled" THEN ClearAttempt
               ELSE Fail(TRUE, FALSE)
    /\ End(t)
    /\ UNCHANGED <<serverVars, faults, told>>

\* The cancellation was answered: the run is over, unless it was already.
Cancelled(t) ==
    /\ Fine(t, "cancel")
    /\ IF Current(t)
       THEN EndRun /\ ClearAttempt
       ELSE cancelPending' = FALSE
            /\ UNCHANGED <<project, context, proposal, operation, locked, run>>
    /\ End(t)
    /\ UNCHANGED <<serverVars, faults, told>>

\* Mutant: a refused cancellation is taken for a cancelled attempt.
ObserveAttempt_AssumesCancelled(t) ==
    /\ Threw(t, "cancel")
    /\ IF Current(t) THEN EndRun /\ ClearAttempt ELSE UNCHANGED pageVars
    /\ End(t)
    /\ UNCHANGED <<serverVars, faults, told>>

\* It was refused or lost: what has become of the attempt?
ObserveAttempt(t) ==
    /\ Threw(t, "cancel")
    /\ Continue(t, "observe", {"status", "project"})
    /\ UNCHANGED <<serverVars, pageVars, faults, told>>

\* loadProject: PROJECT_LOADED, then restoreProjectReview in the same turn.
LoadProject(t) ==
    LET p == tasks[t].project
    IN  /\ project' = p
        /\ context' = None
        /\ proposal' = None
        /\ locked' = (p.review # None /\ p.review.unsettled)
        /\ unsure' = IF tasks[t].early THEN unsure ELSE {}
        /\ UNCHANGED knownDecided
        /\ IF p.review = None
           THEN operation' = None /\ End(t)
           ELSE /\ operation' = "restoring_review"
                /\ tasks' = [tasks EXCEPT ![t] =
                    [Task("restore", p.review.attempt, {"review"})
                        EXCEPT !.revision = p.revision, !.run = run + 1]]

\* handleObservedStatus.  PROPOSAL_READY does not end a run, so the run may
\* still be current when its Proposal is shown, or being decided about.
HandleObservedStatus(t) ==
    /\ Brought(t, "observe")
    /\ cancelPending' = FALSE
    /\ IF ~Current(t)
          \/ (tasks[t].error = None /\ tasks[t].status \in {"queued", "running"})
       THEN /\ End(t)
            /\ UNCHANGED <<project, context, proposal, operation, locked, run, told>>
       ELSE /\ run' = run + 1
            /\ overlapped' = (overlapped \/ operation # "generating_proposal")
            /\ \/ /\ tasks[t].error # None \/ tasks[t].status = "provider_failed"
                  /\ Fail(TRUE, FALSE)
                  /\ End(t) /\ UNCHANGED <<knownDecided, unsure>>
               \/ /\ tasks[t].error = None /\ tasks[t].status = "cancelled"
                  /\ ClearAttempt
                  /\ End(t) /\ UNCHANGED <<knownDecided, unsure>>
               \/ /\ tasks[t].error = None /\ tasks[t].status = "proposal_ready"
                  /\ LoadProject(t)
    /\ UNCHANGED <<serverVars, faults>>

ReviewRestored(t) ==
    /\ Fine(t, "restore")
    /\ ShowReview(tasks[t].attempt, tasks[t].review)
    /\ IF tasks[t].review = None THEN Continue(t, "after_restore", {"project"}) ELSE End(t)
    /\ LearnReview(t) /\ KeepRun
    /\ UNCHANGED <<serverVars, project, context, faults>>

ReviewReconciled(t) ==
    /\ Fine(t, "reconcile")
    /\ ShowReview(tasks[t].attempt, tasks[t].review)
    /\ IF locked' THEN End(t) ELSE Continue(t, "after_reconcile", {"project"})
    /\ LearnReview(t) /\ KeepRun
    /\ UNCHANGED <<serverVars, project, context, faults>>

\* The end of a restore or a reconciliation, whose operation ended before this
\* refresh: another may have begun.  Where there was a Decision, the projection
\* must be at its revision.
Refreshed(t) ==
    LET task == tasks[t]
    IN  /\ Fine(t, "after_restore") \/ Fine(t, "after_reconcile")
        /\ overlapped' = (overlapped \/ operation # None)
        /\ IF task.review = None /\ task.project.revision # decided[task.attempt]
           THEN Fail(FALSE, FALSE) /\ UNCHANGED <<knownDecided, unsure>>
           ELSE Refresh(task.project, task.review = None) /\ LearnProject(t)
        /\ End(t) /\ KeepRun
        /\ UNCHANGED <<serverVars, faults>>

ReviewTaskFailed(t) ==
    /\ \E kind \in {"restore", "reconcile", "after_restore", "after_reconcile"} :
            Threw(t, kind)
    /\ overlapped' = (overlapped \/ (operation # None
                        /\ tasks[t].kind \in {"after_restore", "after_reconcile"}))
    /\ Fail(FALSE, FALSE)
    /\ End(t) /\ KeepRun
    /\ UNCHANGED <<serverVars, faults, knownDecided, unsure>>

DecisionCommitted(t) ==
    /\ Fine(t, "decide")
    /\ operation' = "refreshing_project"
    /\ Continue(t, "after_decision", {"project"})
    /\ knownDecided' = knownDecided \cup {tasks[t].attempt}
    /\ UNCHANGED <<serverVars, project, context, proposal, locked, run,
                   cancelPending, faults, unsure, overlapped>>

\* Mutant: every error is shown alike.
DecisionFailed_Unlocked(t) ==
    /\ Threw(t, "decide")
    /\ Fail(FALSE, FALSE)
    /\ unsure' = IF tasks[t].error = "refused" THEN unsure
                 ELSE unsure \cup {tasks[t].attempt}
    /\ End(t) /\ KeepRun
    /\ UNCHANGED <<serverVars, faults, knownDecided, overlapped>>

\* An approval that was refused leaves everything as it was; anything later
\* locks the Decision until it is reconciled.
DecisionFailed(t) ==
    /\ Threw(t, "decide")
    /\ IF tasks[t].error = "refused"
       THEN Fail(FALSE, FALSE) /\ End(t) /\ UNCHANGED unsure
       ELSE /\ Fail(FALSE, TRUE)
            /\ unsure' = unsure \cup {tasks[t].attempt}
            /\ tasks' = [u \in Tasks |->
                  IF u = t \/ ~Live(u) THEN NoTask ELSE [tasks[u] EXCEPT !.early = TRUE]]
    /\ KeepRun
    /\ UNCHANGED <<serverVars, faults, knownDecided, overlapped>>

AfterDecision(t) ==
    /\ Brought(t, "after_decision")
    /\ IF tasks[t].error # None
       THEN Fail(FALSE, TRUE) /\ UNCHANGED told
       ELSE Refresh(tasks[t].project, TRUE) /\ LearnProject(t) /\ UNCHANGED overlapped
    /\ End(t) /\ KeepRun
    /\ UNCHANGED <<serverVars, faults>>

\* Something else on the page fails: the iframe, or a credential request that
\* shows no operation of its own.
OtherFailure ==
    /\ faults < MaxFaults
    /\ faults' = faults + 1
    /\ Fail(FALSE, FALSE)
    /\ overlapped' = (overlapped \/ operation # None)
    /\ KeepRun
    /\ UNCHANGED <<serverVars, tasks, knownDecided, unsure>>

Click(t) ==
    \/ \E a \in Attempts : ReviewContext(t, a)
    \/ CreateProposal(t)
    \/ CancelProposalAttempt(t)
    \/ RestoreProjectReview(t)
    \/ DecideProposal(t)
    \/ ReconcileActiveReview(t)

Serve(t) ==
    \/ CreateContext(t) \/ ClaimAttempt(t) \/ FinishAttempt(t)
    \/ CancelAiAttempt(t) \/ GetAiAttemptStatus(t) \/ GetProject(t)
    \/ GetReview(t) \/ CreateDecision(t) \/ ReconcileReview(t)

Receive(t) ==
    \/ ContextReady(t) \/ ProposalReady(t) \/ ProposalFailed(t)
    \/ Cancelled(t) \/ ObserveAttempt(t) \/ HandleObservedStatus(t)
    \/ ReviewRestored(t) \/ ReviewReconciled(t) \/ Refreshed(t)
    \/ ReviewTaskFailed(t)
    \/ DecisionCommitted(t) \/ DecisionFailed(t) \/ AfterDecision(t)

Next ==
    \/ \E t \in Tasks :
        Click(t) \/ Serve(t) \/ Receive(t) \/ LoseRequest(t) \/ LoseAnswer(t)
    \/ CloseContext
    \/ OtherFailure

\* The server serves every request and the browser runs every continuation.
\* Nobody has to click.
Fairness == \A t \in Tasks : WF_vars(Serve(t)) /\ WF_vars(Receive(t))

Spec == Init /\ [][Next]_vars /\ Fairness

(***************************************************************************)
(* Properties.  `overlapped` says that an observation of a cancelled run,  *)
(* the refresh after a restore or a reconciliation, or a failure of        *)
(* something else, ended an operation it had not started: the three ways   *)
(* in which the page lets a second operation begin while one is under way. *)
(***************************************************************************)
\* Whatever was clicked, the page becomes usable again.
PageSettles == operation # None ~> operation = None

\* A cancellation that loses against the answer of the provider loses nothing:
\* where no answer was lost, the Proposal the server has under review is shown
\* by the page at rest, or offered for restoring.
OpenReviewIsReachable ==
    Idle /\ faults = 0 /\ ~overlapped /\ review # None =>
        \/ proposal = review.attempt
        \/ project.review # None /\ project.review.attempt = review.attempt

\* Where no answer was lost, the page at rest shows the Accepted revision.
RestShowsAccepted ==
    Idle /\ faults = 0 /\ ~overlapped => project.revision = revision

\* A page at rest that missed no answer shows what the server has.
RestShowsProject == OpenReviewIsReachable /\ RestShowsAccepted

\* One Decision is under way at a time, its refresh included.
OneDecision ==
    ~overlapped =>
        Cardinality({t \in Tasks : Live(t) /\ tasks[t].kind \in {"decide", "after_decision"}}) <= 1

\* A Proposal whose Decision the page has seen confirmed is not offered for
\* another one, whatever answers come late or fail to come.
DecidedIsNotOffered ==
    ~overlapped /\ proposal \in knownDecided => locked \/ operation # None

\* While the outcome of a Decision is unknown, its Proposal is not offered for
\* another one before the server has been asked after the fact.
LockHolds ==
    ~overlapped /\ proposal \in unsure => locked \/ operation # None

\* A Proposal is offered for a Decision only while it may have none.
DecisionLocks == DecidedIsNotOffered /\ LockHolds
=============================================================================
