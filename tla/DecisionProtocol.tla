-------------------------- MODULE DecisionProtocol --------------------------
(***************************************************************************)
(* How one project of the local server takes a Human Decision about the     *)
(* AI Proposal under review and makes its outcome durable in three stores   *)
(* that share no transaction:                                               *)
(*                                                                          *)
(*   - the SynapseGit sidecar: the decision Ref (a chain of Human           *)
(*     Decisions), the Proposal Refs, and a SQLite review journal that      *)
(*     registers the intent to decide before the Ref moves;                 *)
(*   - the managed storage: a directory per Proposal with its write-once    *)
(*     files, the pointer to the Accepted revision and the site tree        *)
(*     materialized from it;                                                *)
(*   - the Store in memory, behind one mutex: the Accepted revision, the    *)
(*     Proposal under review, the history and the one-shot approvals.       *)
(*                                                                          *)
(* A handler holds the mutex from its first check to its answer, so at most *)
(* one runs: pc says which durable step it takes next.  Any durable step    *)
(* may fail with an I/O error, before or after its effect, and the process  *)
(* may die between any two of them; at the next start it re-reads the three *)
(* stores and finishes what it finds (recover_persisted_proposals).         *)
(***************************************************************************)
EXTENDS DecisionChain

CONSTANTS
  Tokens,        \* the approval tokens a browser may hold at one time
  Blocked,       \* the Proposals with a blocking validation check
  None,          \* no value
  ClockMayStepBack, \* whether the wall clock may be set back while serving
  FaultSites,    \* the steps at which an I/O error may be injected
  MaxFaults,     \* bound on the number of I/O errors of a behaviour
  MaxCrashes     \* bound on the number of process deaths of a behaviour

ASSUME ConstantsAssumption ==
  /\ None \notin Proposals \cup {Genesis}
  /\ Blocked \subseteq Proposals
  /\ ClockMayStepBack \in BOOLEAN
  /\ MaxFaults \in Nat
  /\ MaxCrashes \in Nat

Bindings ==
  [proposal : Proposals, disposition : Dispositions, revision : Revisions]
Outcomes == {"pending", "retryable", "unknown", "denied"}
ASSUME NoneAssumption ==
  None \notin Outcomes \cup {"committed"} \cup Dispositions

Labels ==
  {"idle", "prepare", "publish", "register", "bind", "intent", "query",
   "call", "requery", "receipt", "materialize", "unlink", "link", "advance",
   "complete", "lineage", "recommit", "completions"}
Kinds == {"none", "create", "decide", "reconcile", "startup"}

VARIABLES
  \* managed storage (disk)
  order,         \* the Proposal directories by recorded_at
  base,          \* base[p]: the Accepted revision p was proposed against
  bound,         \* the Proposals whose review.json exists
  decisionFile,  \* decisionFile[p]: the disposition in decision.json, or None
  completed,     \* the Proposals whose completion.json exists
  pointer,       \* the revision current.json names
  site,          \* the revision the site tree holds; None: no site tree
  txn,           \* transaction.json exists
  retained,      \* the revisions whose manifest is retained
  \* SynapseGit sidecar (disk)
  chain,         \* the decision Ref: the Human Decisions, oldest first
  refs,          \* the published Proposal Refs
  expected,      \* expected[p]: length of chain when p was published
  row,           \* row[p]: state of the review journal row of p, or None
  intent,        \* intent[p]: disposition of the registered intent, or None
  \* the Store (memory)
  revision,      \* the Accepted revision
  active,        \* the Proposal under review, or None
  outcome,       \* review_outcome of the Proposal under review
  history,       \* the decided Proposals, oldest first
  grants,        \* grants[t]: what the approval with token t binds, or None
  \* control
  phase,         \* "up", "down", "starting" or "refused"
  pc,            \* the next step of the handler that holds the mutex
  op,            \* that handler: its kind, Proposal, disposition and error
  index,         \* startup: position in order
  \* bounds
  faults, crashes,
  \* history variable: the approvals consumed so far
  consumed

disk    == <<order, base, bound, decisionFile, completed>>
store   == <<pointer, site, txn, retained>>
sidecar == <<chain, refs, expected, row, intent>>
memory  == <<revision, active, outcome, history, grants>>
control == <<phase, pc, op, index>>
ghosts  == <<crashes, consumed>>
vars    == <<disk, store, sidecar, memory, control, faults, ghosts>>

Handler(k, p, d) == [kind |-> k, proposal |-> p, disposition |-> d, error |-> "none"]
NoOp == Handler("none", None, None)
NoGrants == [t \in Tokens |-> None]

-----------------------------------------------------------------------------
(* What the stores say. *)

Decided == DecidedIn(chain)
OnDisk  == {order[i] : i \in DOMAIN order}

\* verify_project: the pointer is the revision expected, the site tree matches.
Verified == pointer = revision /\ site = pointer

\* Mutant: only Proposals with a journal row are looked at.
ActiveReview_Journalled(p) ==
  \E q \in refs \ {p} : q \notin Decided /\ row[q] \notin {"denied", None}

\* A Proposal Ref outside the decision chain whose journal row does not prove
\* terminal denial blocks every other Proposal.
ActiveReview(p) ==
  \E q \in refs \ {p} : q \notin Decided /\ row[q] # "denied"

\* Mutant: a denied review is reopened by a reconciliation.
Observed_ReopensDenial(p) ==
  IF expected[p] = Len(chain)
  THEN IF row[p] = "denied" THEN "pending" ELSE row[p]
  ELSE IF /\ intent[p] # None
          /\ \E i \in DOMAIN chain :
               i > expected[p] /\ chain[i] = Verdict(p, intent[p])
       THEN "committed"
       ELSE "denied"

\* Mutant: the Ref is compared with the request, not with the intent.
Observed_ByRequest(p) ==
  IF expected[p] = Len(chain) THEN row[p]
  ELSE IF chain[Len(chain)] = Verdict(p, op.disposition) THEN "committed" ELSE "denied"

\* A review re-read against the live Refs (reconcile_parsed_inner).
Observed(p) ==
  IF expected[p] = Len(chain) THEN row[p]
  ELSE IF /\ intent[p] # None
          /\ \E i \in DOMAIN chain :
               i > expected[p] /\ chain[i] = Verdict(p, intent[p])
       THEN "committed"
       ELSE "denied"

\* The adopting Decisions among the first n Proposal directories.
AdoptedUpTo(n) == {j \in 1..n : decisionFile[order[j]] = Adopt}

\* The revision those n Decisions lead to, and the base of the last adoption.
Logical(n) ==
  IF AdoptedUpTo(n) = {} THEN base[order[1]]
  ELSE order[Max(AdoptedUpTo(n))]

-----------------------------------------------------------------------------
(* Control: a step succeeds, or fails and unwinds to the handler's answer. *)

Sound == UNCHANGED faults
Fault(s) ==
  /\ s \in FaultSites
  /\ faults < MaxFaults
  /\ faults' = faults + 1

Goto(l) == pc' = l /\ UNCHANGED <<phase, op, index, memory>>

\* The process is gone, or never came up: nothing of the Store is left.
Halt(p) ==
  /\ phase' = p
  /\ pc' = "idle"
  /\ op' = NoOp
  /\ index' = 0
  /\ revision' = None
  /\ active' = None
  /\ outcome' = "pending"
  /\ history' = <<>>
  /\ grants' = NoGrants

\* The handler answers; o is the review outcome it leaves in memory.
Answer(o) ==
  /\ pc' = "idle"
  /\ op' = NoOp
  /\ outcome' = o
  /\ UNCHANGED <<phase, index, revision, active, history, grants>>

\* An error a retry may not meet again.  A Decision handler leaves the review
\* for reconciliation; startup gives up and may be attempted again.
Abort ==
  IF op.kind = "startup" THEN Halt("down")
  ELSE Answer(IF op.kind = "decide" THEN "unknown" ELSE outcome)

\* A validation error: startup meets it again at every attempt.
Reject == IF op.kind = "startup" THEN Halt("refused") ELSE Abort

\* The review stays open with outcome o.  Startup accepts an open review only
\* as the last Proposal, about the Accepted revision.
Settle(o) ==
  IF op.kind # "startup" THEN Answer(o)
  ELSE IF index # Len(order) \/ base[op.proposal] # revision THEN Halt("refused")
  ELSE /\ pc' = "recommit"
       /\ active' = op.proposal
       /\ outcome' = o
       /\ UNCHANGED <<phase, op, index, revision, history, grants>>

-----------------------------------------------------------------------------
Init ==
  /\ order = <<>>
  /\ base = [p \in Proposals |-> Genesis]
  /\ bound = {}
  /\ decisionFile = [p \in Proposals |-> None]
  /\ completed = {}
  /\ pointer = Genesis
  /\ site = Genesis
  /\ txn = FALSE
  /\ retained = {Genesis}
  /\ chain = <<>>
  /\ refs = {}
  /\ expected = [p \in Proposals |-> 0]
  /\ row = [p \in Proposals |-> None]
  /\ intent = [p \in Proposals |-> None]
  /\ revision = Genesis
  /\ active = None
  /\ outcome = "pending"
  /\ history = <<>>
  /\ grants = NoGrants
  /\ phase = "up"
  /\ pc = "idle"
  /\ op = NoOp
  /\ index = 0
  /\ faults = 0
  /\ crashes = 0
  /\ consumed = {}

-----------------------------------------------------------------------------
(* The handlers enter from "up" and "idle": they hold the mutex. *)

Enter(o, l) ==
  /\ pc' = l
  /\ op' = o
  /\ UNCHANGED <<disk, store, sidecar, phase, index, faults, crashes>>

Serving == phase = "up" /\ pc = "idle"

\* create_proposal once the provider has answered and the ChangeSet applied.
CreateProposal(p) ==
  /\ Serving
  /\ p \notin OnDisk \cup refs
  /\ Verified
  /\ active = None
  /\ Enter(Handler("create", p, None), "prepare")
  /\ UNCHANGED <<memory, consumed>>

\* create_approval: one more outstanding token for the Proposal under review.
CreateApproval(t, d) ==
  /\ Serving
  /\ grants[t] = None
  /\ active # None
  /\ outcome = "pending"
  /\ base[active] = revision
  /\ Verified
  /\ d = Adopt => active \notin Blocked
  /\ grants' = [grants EXCEPT ![t] =
                  [proposal |-> active, disposition |-> d, revision |-> revision]]
  /\ UNCHANGED <<disk, store, sidecar, revision, active, outcome, history,
                 control, faults, ghosts>>

\* An approval outlives its TTL: swept, or refused when it is presented.
ExpireApproval(t) ==
  /\ Serving
  /\ grants[t] # None
  /\ grants' = [grants EXCEPT ![t] = None]
  /\ UNCHANGED <<disk, store, sidecar, revision, active, outcome, history,
                 control, faults, ghosts>>

\* create_decision up to consume_approval: the token is spent before the
\* sidecar is called.
CreateDecision(t) ==
  /\ Serving
  /\ grants[t] # None
  /\ active # None
  /\ grants[t].proposal = active
  /\ grants[t].revision = revision
  /\ outcome = "pending"
  /\ Verified
  /\ grants' = [grants EXCEPT ![t] = None]
  /\ consumed' = consumed \cup {Verdict(active, grants[t].disposition)}
  /\ Enter(Handler("decide", active, grants[t].disposition), "intent")
  /\ UNCHANGED <<revision, active, outcome, history>>

\* Mutant: reconciliation takes a missing Decision itself.
ReconcileReview_Decides ==
  /\ Serving
  /\ active # None
  /\ Verified
  /\ Enter(Handler("reconcile", active, Adopt), "intent")
  /\ UNCHANGED <<memory, consumed>>

\* reconcile_review: resume the review without a token.
ReconcileReview ==
  /\ Serving
  /\ active # None
  /\ Verified
  /\ Enter(Handler("reconcile", active, None), "query")
  /\ UNCHANGED <<memory, consumed>>

\* Mutant: any review that is not open for a Decision can be deleted.
CleanupFailedProposal_Unsettled ==
  /\ Serving
  /\ outcome # "pending"
  /\ \E k \in DOMAIN order : order[k] = active /\ order' = RemoveAt(order, k)
  /\ bound' = bound \ {active}
  /\ Sound
  /\ active' = None
  /\ outcome' = "pending"
  /\ grants' = NoGrants
  /\ UNCHANGED <<base, decisionFile, completed, store, sidecar, revision,
                 history, control, ghosts>>

\* cleanup_retention of a failed Proposal: its directory goes, its Ref and its
\* journal row stay.  After an error past the rename memory still shows it.
CleanupFailedProposal ==
  /\ Serving
  /\ outcome = "denied"
  /\ \E k \in DOMAIN order : order[k] = active /\ order' = RemoveAt(order, k)
  /\ bound' = bound \ {active}
  /\ \/ /\ Sound
        /\ active' = None
        /\ outcome' = "pending"
        /\ grants' = [t \in Tokens |->
             IF grants[t] # None /\ grants[t].proposal = active
             THEN None ELSE grants[t]]
     \/ Fault("cleanup") /\ UNCHANGED <<active, outcome, grants>>
  /\ UNCHANGED <<base, decisionFile, completed, store, sidecar, revision,
                 history, control, ghosts>>

-----------------------------------------------------------------------------
(* create_proposal, durable steps; startup repeats the last three for a     *)
(* Proposal that has no binding.                                            *)

\* Where recorded_at, a wall-clock time, places a new Proposal among the others.
Recorded(p) ==
  IF ClockMayStepBack
  THEN {InsertAt(order, k, p) : k \in 1..Len(order) + 1}
  ELSE {Append(order, p)}

\* prepare_proposal: the directory appears in one rename.
PrepareProposal ==
  /\ pc = "prepare"
  /\ \/ /\ Sound
        /\ order' \in Recorded(op.proposal)
        /\ Goto("publish")
     \/ /\ Fault("prepare")
        /\ order' \in {order} \cup Recorded(op.proposal)
        /\ Abort
  /\ base' = [base EXCEPT ![op.proposal] = revision]
  /\ UNCHANGED <<bound, decisionFile, completed, store, sidecar, ghosts>>

\* begin_proposal up to the Proposal Ref: a Ref of the same operation key is
\* replayed, any other open review refuses.
PublishProposal ==
  /\ pc = "publish"
  /\ IF \/ op.proposal \in refs /\ expected[op.proposal] # Len(chain)
        \/ HeadRevision(chain) # revision
        \/ op.proposal \notin refs /\ ActiveReview(op.proposal)
     THEN Sound /\ Reject /\ UNCHANGED <<refs, expected>>
     ELSE \/ /\ Sound
             /\ refs' = refs \cup {op.proposal}
             /\ expected' = [expected EXCEPT ![op.proposal] = Len(chain)]
             /\ Goto("register")
          \/ /\ Fault("publish")
             /\ \/ UNCHANGED <<refs, expected>>
                \/ /\ refs' = refs \cup {op.proposal}
                   /\ expected' = [expected EXCEPT ![op.proposal] = Len(chain)]
             /\ Abort
  /\ UNCHANGED <<disk, store, chain, row, intent, ghosts>>

\* create_or_get_review: the journal row of the published binding.
RegisterReview ==
  /\ pc = "register"
  /\ LET registered == IF row[op.proposal] = None
                       THEN [row EXCEPT ![op.proposal] = "pending"] ELSE row
     IN  \/ Sound /\ row' = registered /\ Goto("bind")
         \/ Fault("register") /\ row' \in {row, registered} /\ Abort
  /\ UNCHANGED <<disk, store, chain, refs, expected, intent, ghosts>>

\* persist_proposal_binding; only now is the Proposal under review.
BindProposal ==
  /\ pc = "bind"
  /\ \/ /\ Sound
        /\ bound' = bound \cup {op.proposal}
        /\ IF op.kind = "startup" THEN Goto("query")
           ELSE /\ pc' = "idle"
                /\ op' = NoOp
                /\ active' = op.proposal
                /\ outcome' = "pending"
                /\ UNCHANGED <<phase, index, revision, history, grants>>
     \/ /\ Fault("bind")
        /\ bound' \in {bound, bound \cup {op.proposal}}
        /\ Abort
  /\ UNCHANGED <<order, base, decisionFile, completed, store, sidecar, ghosts>>

-----------------------------------------------------------------------------
(* SynapseSidecar::decide and ::resume. *)

\* create_decision_intent, which re-reads the live Refs, or the intent already
\* registered: another disposition conflicts with it.
RegisterIntent ==
  /\ pc = "intent"
  /\ IF \/ intent[op.proposal] \notin {None, op.disposition}
        \/ intent[op.proposal] = None /\ expected[op.proposal] # Len(chain)
     THEN Sound /\ Abort /\ UNCHANGED intent
     ELSE LET registered == [intent EXCEPT ![op.proposal] = op.disposition]
          IN  \/ Sound /\ intent' = registered /\ Goto("query")
              \/ Fault("intent") /\ intent' \in {intent, registered} /\ Abort
  /\ UNCHANGED <<disk, store, chain, refs, expected, row, ghosts>>

\* A decision.json without a committed Decision is refused at startup.
Open(o) ==
  IF op.kind = "startup" /\ decisionFile[op.proposal] # None
  THEN Halt("refused") ELSE Settle(o)

\* The Ref holds the Decision of a review whose row already denies it:
\* transition_committed finds the denial and fails (Integrity).
Contradicted(p) == row[p] = "denied" /\ Observed(p) = "committed"

\* The first reconcile_parsed.  decide stops at an unknown outcome; resume
\* publishes whatever intent is registered, and stops where there is none.
QueryReview ==
  /\ pc = "query"
  /\ LET p == op.proposal
         o == Observed(p)
     IN \/ /\ ~Contradicted(p)
           /\ Sound
           /\ row' = [row EXCEPT ![p] = o]
           /\ IF o = "committed" THEN Goto("receipt")
              ELSE IF o = "denied" \/ intent[p] = None
                      \/ (op.kind = "decide" /\ o = "unknown") THEN Open(o)
              ELSE Goto("call")
        \/ Contradicted(p) /\ Sound /\ Reject /\ UNCHANGED row
        \/ /\ Fault("query")
           /\ row' \in {row, [row EXCEPT ![p] = IF Contradicted(p) THEN "denied" ELSE o]}
           /\ Abort
        \/ /\ Fault("repository")
           /\ IF intent[p] = None \/ row[p] = "committed"
              THEN Abort /\ UNCHANGED row
              ELSE LET u == IF row[p] = "denied" THEN "denied" ELSE "unknown"
                   IN  /\ row' = [row EXCEPT ![p] = u]
                       /\ IF u = "denied" \/ op.kind = "decide"
                          THEN Open(u) ELSE Goto("call")
  /\ UNCHANGED <<disk, store, chain, refs, expected, intent, ghosts>>

Called(e) ==
  /\ pc' = "requery"
  /\ op' = [op EXCEPT !.error = e]
  /\ UNCHANGED <<phase, index, memory>>

\* Mutant: the Ref is written without comparing its head.
CallSynapse_NoCompare ==
  /\ pc = "call"
  /\ Sound
  /\ chain' = Append(chain, Verdict(op.proposal, intent[op.proposal]))
  /\ Called("none")
  /\ UNCHANGED <<disk, store, refs, expected, row, intent, ghosts>>

\* call_synapse: the decision Ref moves from the expected head, or it fails
\* with a storage error on either side of that, or Core refuses the Decision.
CallSynapse ==
  /\ pc = "call"
  /\ LET p == op.proposal
         published == Append(chain, Verdict(p, intent[p]))
     IN IF expected[p] # Len(chain) THEN Sound /\ Called("refused") /\ UNCHANGED chain
        ELSE \/ Sound /\ chain' = published /\ Called("none")
             \/ Fault("call") /\ chain' \in {chain, published} /\ Called("storage")
             \/ Fault("core") /\ UNCHANGED chain /\ Called("refused")
  /\ UNCHANGED <<disk, store, refs, expected, row, intent, ghosts>>

\* What the outcome observed after the call becomes in the journal.
Resolve(o) ==
  IF o \in {"committed", "denied"} \/ op.error = "none" THEN o
  ELSE IF op.error = "storage" THEN IF o = "pending" THEN "retryable" ELSE o
  ELSE IF op.kind = "decide" /\ o # "pending" THEN o
  ELSE "denied"

\* The second reconcile_parsed and the journal transition that follows it.
RequeryReview ==
  /\ pc = "requery"
  /\ LET p == op.proposal
         o == Resolve(Observed(p))
     IN \/ /\ Sound
           /\ row' = [row EXCEPT ![p] = o]
           /\ IF o = "committed" THEN Goto("receipt") ELSE Open(o)
        \/ /\ Fault("query")
           /\ row' \in {row, [row EXCEPT ![p] = Observed(p)]}
           /\ Abort
        \/ /\ Fault("repository")
           /\ row' = [row EXCEPT ![p] = Resolve("unknown")]
           /\ Open(Resolve("unknown"))
  /\ UNCHANGED <<disk, store, chain, refs, expected, intent, ghosts>>

-----------------------------------------------------------------------------
(* The durable tail of a committed Decision, run by create_decision, by     *)
(* finalize_reconciled_decision and by startup.                             *)

\* Mutant: reconciliation leaves the revision to the original request.
AfterDecision_NotByReconcile(p) ==
  IF intent[p] = Adopt /\ revision # p /\ op.kind = "decide"
  THEN "materialize" ELSE "complete"

\* What follows decision.json: commit_revision unless Accepted stays or is
\* already there.
AfterDecision(p) ==
  IF intent[p] = Adopt /\ revision # p THEN "materialize" ELSE "complete"

\* persist_decision_metadata, after the receipt was checked against the
\* Proposal and the Accepted revision in memory.
PersistDecision ==
  /\ pc = "receipt"
  /\ LET p == op.proposal
         d == intent[p]
         written == [decisionFile EXCEPT ![p] = d]
     IN IF decisionFile[p] \notin {None, d}
        THEN Sound /\ Reject /\ UNCHANGED decisionFile
        ELSE IF \/ op.kind = "decide" /\ op.disposition # d
                \/ /\ op.kind = "reconcile"
                   /\ revision # base[p]
                   /\ ~(d = Adopt /\ revision = p)
        THEN Sound /\ Abort /\ UNCHANGED decisionFile
        ELSE \/ /\ Sound
                /\ decisionFile' = written
                /\ IF op.kind = "startup"
                   THEN /\ pc' = IF index = Len(order) THEN "recommit" ELSE "lineage"
                        /\ index' = IF index = Len(order) THEN index ELSE index + 1
                        /\ history' = Append(history, p)
                        /\ UNCHANGED <<phase, op, revision, active, outcome, grants>>
                   ELSE Goto(AfterDecision(p))
             \/ /\ Fault("receipt")
                /\ decisionFile' \in {decisionFile, written}
                /\ Abort
  /\ UNCHANGED <<order, base, bound, completed, store, sidecar, ghosts>>

\* commit_revision_at: objects and revision manifest, then transaction.json.
MaterializeRevision ==
  /\ pc = "materialize"
  /\ \/ /\ Sound
        /\ retained' = retained \cup {op.proposal}
        /\ txn' = TRUE
        /\ Goto("unlink")
     \/ /\ Fault("materialize")
        /\ retained' \in {retained, retained \cup {op.proposal}}
        /\ txn' \in {txn, op.proposal \in retained'}
        /\ Abort
  /\ UNCHANGED <<disk, pointer, site, sidecar, ghosts>>

\* The site tree is renamed away, then the staged tree takes its place; if
\* that rename fails the former tree is put back.
UnlinkSite ==
  /\ pc = "unlink"
  /\ \/ Sound /\ site' = None /\ Goto("link")
     \/ Fault("unlink") /\ site' \in {site, None} /\ Abort
  /\ UNCHANGED <<disk, pointer, txn, retained, sidecar, ghosts>>

LinkSite ==
  /\ pc = "link"
  /\ \/ Sound /\ site' = op.proposal /\ Goto("advance")
     \/ Fault("link") /\ site' \in {None, pointer, op.proposal} /\ Abort
  /\ UNCHANGED <<disk, pointer, txn, retained, sidecar, ghosts>>

\* current.json moves, transaction.json goes, and only then the Store follows.
AdvancePointer ==
  /\ pc = "advance"
  /\ \/ /\ Sound
        /\ pointer' = op.proposal
        /\ txn' = FALSE
        /\ revision' = op.proposal
        /\ pc' = IF op.kind = "startup" THEN "completions" ELSE "complete"
        /\ UNCHANGED <<phase, op, index, active, outcome, history, grants>>
     \/ /\ Fault("advance")
        /\ pointer' \in {pointer, op.proposal}
        /\ UNCHANGED txn
        /\ Abort
  /\ UNCHANGED <<disk, site, retained, sidecar, ghosts>>

\* persist_decision_completion; the review leaves the Store for the history.
CompleteDecision ==
  /\ pc = "complete"
  /\ \/ /\ Sound
        /\ completed' = completed \cup {op.proposal}
        /\ history' = Append(history, op.proposal)
        /\ active' = None
        /\ outcome' = "pending"
        /\ pc' = "idle"
        /\ op' = NoOp
        /\ UNCHANGED <<phase, index, revision, grants>>
     \/ /\ Fault("complete")
        /\ completed' \in {completed, completed \cup {op.proposal}}
        /\ Abort
  /\ UNCHANGED <<order, base, bound, decisionFile, store, sidecar, ghosts>>

-----------------------------------------------------------------------------
(* Process death, and startup: StudioState::new.                            *)

Crash ==
  /\ phase \in {"up", "starting"}
  /\ crashes < MaxCrashes
  /\ crashes' = crashes + 1
  /\ Halt("down")
  /\ UNCHANGED <<disk, store, sidecar, faults, consumed>>

\* Graceful shutdown waits for the handler in flight.
Stop ==
  /\ Serving
  /\ Halt("down")
  /\ UNCHANGED <<disk, store, sidecar, faults, ghosts>>

\* ManagedStorage::open finishes or rolls back the transaction, and the
\* Accepted state must then validate.
Start ==
  /\ phase \in {"down", "refused"}
  /\ site' = IF txn THEN pointer ELSE site
  /\ txn' = FALSE
  /\ IF site' # pointer THEN Halt("refused")
     ELSE /\ revision' = pointer
          /\ phase' = IF order = <<>> THEN "up" ELSE "starting"
          /\ pc' = IF order = <<>> THEN "idle" ELSE "lineage"
          /\ op' = IF order = <<>> THEN NoOp ELSE Handler("startup", None, None)
          /\ index' = IF order = <<>> THEN 0 ELSE 1
          /\ UNCHANGED <<active, outcome, history, grants>>
  /\ UNCHANGED <<disk, pointer, retained, sidecar, faults, ghosts>>

\* One Proposal directory: its base must be where the Decisions before it
\* lead, and SynapseGit must know a bound Proposal (inspect_proposal).
RecoverProposal ==
  /\ pc = "lineage"
  /\ LET p == order[index]
         inspected == p \in refs /\ row[p] # None /\ expected[p] <= Len(chain)
     IN IF \/ base[p] # Logical(index - 1)
           \/ p \notin bound /\ revision # base[p]
           \/ p \in bound /\ ~inspected
        THEN Halt("refused")
        ELSE /\ op' = [op EXCEPT !.proposal = p]
             /\ pc' = IF p \in bound THEN "query" ELSE "publish"
             /\ UNCHANGED <<phase, index, memory>>
  /\ UNCHANGED <<disk, store, sidecar, faults, ghosts>>

\* Mutant: an adoption Accepted has not followed is refused.
RecoverAccepted_Strict ==
  /\ pc = "recommit"
  /\ IF revision = Logical(Len(order)) THEN Goto("completions") ELSE Halt("refused")
  /\ UNCHANGED <<disk, store, sidecar, faults, ghosts>>

\* Mutant: an adoption Accepted has not followed is left alone.
RecoverAccepted_Skips ==
  /\ pc = "recommit"
  /\ Goto("completions")
  /\ UNCHANGED <<disk, store, sidecar, faults, ghosts>>

\* Accepted must be where the Decisions lead, or one adoption behind it: then
\* that adoption is applied.
RecoverAccepted ==
  /\ pc = "recommit"
  /\ LET target == Logical(Len(order))
     IN IF revision = target THEN Goto("completions")
        ELSE IF target \notin {order[i] : i \in AdoptedUpTo(Len(order))}
        THEN Halt("refused")
        ELSE IF base[target] # revision THEN Halt("refused")
        ELSE /\ op' = [op EXCEPT !.proposal = target]
             /\ pc' = "materialize"
             /\ UNCHANGED <<phase, index, memory>>
  /\ UNCHANGED <<disk, store, sidecar, faults, ghosts>>

Resulting(p) == IF decisionFile[p] = Adopt THEN p ELSE base[p]

\* The missing completions, each of a Decision whose revision is retained;
\* then the project is served.
RecoverCompletions ==
  /\ pc = "completions"
  /\ LET decided == {i \in DOMAIN order : decisionFile[order[i]] # None}
         missing == {i \in decided : order[i] \notin completed}
         first   == order[Min(missing)]
     IN IF \E i \in decided : Resulting(order[i]) \notin retained
        THEN Sound /\ Halt("refused") /\ UNCHANGED completed
        ELSE IF missing # {}
        THEN \/ /\ Sound
                /\ completed' = completed \cup {first}
                /\ Goto("completions")
             \/ /\ Fault("complete")
                /\ completed' \in {completed, completed \cup {first}}
                /\ Abort
        ELSE /\ Sound
             /\ phase' = "up"
             /\ pc' = "idle"
             /\ op' = NoOp
             /\ index' = 0
             /\ UNCHANGED <<completed, memory>>
  /\ UNCHANGED <<order, base, bound, decisionFile, store, sidecar, ghosts>>

-----------------------------------------------------------------------------

\* The next step of the handler, or of the startup, in flight.
Step ==
  \/ PrepareProposal \/ PublishProposal \/ RegisterReview \/ BindProposal
  \/ RegisterIntent \/ QueryReview \/ CallSynapse \/ RequeryReview
  \/ PersistDecision \/ MaterializeRevision \/ UnlinkSite \/ LinkSite
  \/ AdvancePointer \/ CompleteDecision
  \/ RecoverProposal \/ RecoverAccepted \/ RecoverCompletions

Request ==
  \/ \E p \in Proposals : CreateProposal(p)
  \/ \E t \in Tokens, d \in Dispositions : CreateApproval(t, d)
  \/ \E t \in Tokens : ExpireApproval(t)
  \/ \E t \in Tokens : CreateDecision(t)
  \/ ReconcileReview
  \/ CleanupFailedProposal

Next == Request \/ Step \/ Crash \/ Stop \/ Start

Spec == Init /\ [][Next]_vars

\* A handler that holds the mutex runs to its answer, a launched process
\* starts, and a server that stays up is restarted some time.
FairSpec ==
  /\ Spec
  /\ WF_vars(Step)
  /\ WF_vars(Start)
  /\ SF_vars(Stop)

-----------------------------------------------------------------------------
(* Properties. *)

DiskOK ==
  /\ order \in Seq(Proposals)
  /\ base \in [Proposals -> Revisions]
  /\ bound \subseteq Proposals
  /\ decisionFile \in [Proposals -> Dispositions \cup {None}]
  /\ completed \subseteq Proposals

StoreOK ==
  /\ pointer \in Revisions
  /\ site \in Revisions \cup {None}
  /\ txn \in BOOLEAN
  /\ retained \subseteq Revisions

SidecarOK ==
  /\ chain \in Seq(Verdicts)
  /\ refs \subseteq Proposals
  /\ expected \in [Proposals -> Nat]
  /\ row \in [Proposals -> Outcomes \cup {"committed", None}]
  /\ intent \in [Proposals -> Dispositions \cup {None}]

MemoryOK ==
  /\ revision \in Revisions \cup {None}
  /\ active \in Proposals \cup {None}
  /\ outcome \in Outcomes
  /\ history \in Seq(Proposals)
  /\ grants \in [Tokens -> Bindings \cup {None}]

ControlOK ==
  /\ phase \in {"up", "down", "starting", "refused"}
  /\ pc \in Labels
  /\ op \in [kind : Kinds, proposal : Proposals \cup {None},
             disposition : Dispositions \cup {None},
             error : {"none", "storage", "refused"}]
  /\ index \in Nat

BoundsOK ==
  /\ faults \in 0..MaxFaults
  /\ crashes \in 0..MaxCrashes
  /\ consumed \subseteq Verdicts

\* The state of the protocol is well formed: every file, Ref, journal row and
\* Store field holds a value the code can write there.
TypeOK == DiskOK /\ StoreOK /\ SidecarOK /\ MemoryOK /\ ControlOK /\ BoundsOK

\* Human authority: every Decision on the decision Ref is one for which a
\* one-shot approval of the same Proposal and disposition was consumed,
\* whichever of create_decision, reconcile_review and startup published it.
CommittedWasApproved == \A i \in DOMAIN chain : chain[i] \in consumed

\* A Proposal with a blocking validation check is never adopted, although only
\* create_approval looks at the checks.
BlockedNeverAdopted ==
  \A i \in DOMAIN chain : chain[i].disposition = Adopt => chain[i].proposal \notin Blocked

\* What the decision Ref holds was approved with a token that was spent, after
\* create_approval had seen no blocking check; a reconciliation, a repetition or
\* a startup adds no verdict of its own.
DecidedAsApproved == CommittedWasApproved /\ BlockedNeverAdopted

\* The durable Accepted pointer is where the decision Ref leads or exactly one
\* adoption behind, and then that adoption is not marked complete.
AcceptedFollowsDecisions ==
  \/ pointer = HeadRevision(chain)
  \/ /\ chain # <<>>
     /\ chain[Len(chain)].disposition = Adopt
     /\ chain[Len(chain)].proposal \notin completed
     /\ pointer = HeadRevision(SubSeq(chain, 1, Len(chain) - 1))

\* decision.json and completion.json never run ahead of SynapseGit, nor
\* completion.json of the Accepted pointer (no split brain).
FilesFollowSidecar ==
  /\ \A p \in Proposals :
       decisionFile[p] # None =>
         \E i \in DOMAIN chain : chain[i] = Verdict(p, decisionFile[p])
  /\ \A p \in completed : decisionFile[p] # None
  /\ \A i \in DOMAIN chain :
       /\ chain[i].proposal \in completed
       /\ chain[i].disposition = Adopt
       => \/ pointer = chain[i].proposal
          \/ \E j \in i+1..Len(chain) :
               chain[j].disposition = Adopt

\* The three durable stores agree: the decision Ref leads, the Accepted pointer
\* and the files of the Proposals follow it in this order, whatever failed.
StoresAgree == AcceptedFollowsDecisions /\ FilesFollowSidecar

\* A review that memory shows as open for a Decision has no intent in the
\* journal: a handler that failed after registering one left it to
\* reconciliation, so no other disposition can be asked for.
OpenReviewHasNoIntent ==
  Serving /\ active # None /\ outcome = "pending" => intent[active] = None

\* A review the journal has denied for good was not decided: its directory may
\* be deleted and another Proposal take its place.
CommittedNeverDenied == \A p \in Decided : row[p] # "denied"

\* The proposals are ordered by a wall clock that was set back.
Disordered ==
  \E i, j \in DOMAIN order : i < j /\ expected[order[i]] > expected[order[j]]

\* The history a served project shows is the decision Ref, short of at most
\* the Decision still under reconciliation: nothing decided is lost by a
\* crash, nothing is shown that SynapseGit does not have.  A Decision that was
\* wrongly denied may be cleaned up, and a clock that was set back shuffles what
\* the next start reads; both are left aside here.
HistoryIsDecisionChain ==
  Serving /\ CommittedNeverDenied /\ ~Disordered =>
    LET decided == [i \in DOMAIN chain |-> chain[i].proposal]
    IN  \/ history = decided
        \/ active # None /\ outcome # "pending" /\ Append(history, active) = decided

\* Memory runs behind the Accepted pointer only while the review says that
\* its outcome is not settled.
MemoryBehindOnlyWhileUnsettled ==
  Serving /\ revision # pointer =>
    active = pointer /\ outcome \in {"unknown", "retryable"}

\* What the served project shows agrees with the stores, or says that its
\* outcome is not settled.
MemoryFollows ==
  OpenReviewHasNoIntent /\ HistoryIsDecisionChain /\ MemoryBehindOnlyWhileUnsettled

\* SynapseGit has at most one Proposal waiting for a Decision, also when
\* create_proposal failed half way and was repeated.
OneOpenReview ==
  \A p, q \in refs :
    p # q => \E r \in {p, q} : r \in Decided \/ row[r] = "denied"

\* Startup never refuses the state a crash or an I/O error left: the project
\* does not end in read-only recovery.
StartupNeverRefuses == [][phase' # "refused"]_vars

\* What SynapseGit has recorded stays: the decision chain only grows, an
\* intent never changes its disposition, a denial is final.
RecordsAreFinal ==
  [][/\ Len(chain) <= Len(chain')
     /\ \A i \in DOMAIN chain : chain'[i] = chain[i]
     /\ \A p \in Proposals :
          /\ intent[p] # None => intent'[p] = intent[p]
          /\ row[p] \in {"denied", "committed"} => row'[p] = row[p]]_vars

\* Whatever the three stores, the failures and the restarts do, a project
\* behaves as HumanDecision says.
Abstract == INSTANCE HumanDecision
              WITH accepted <- pointer, log <- chain, authorised <- consumed
ImplementsHumanDecision == Abstract!HSpec
AcceptedFollows == Abstract!HFairSpec

\* A registered intent is settled: the Decision is complete and Accepted
\* follows it, or SynapseGit has denied it for good.
IntentSettles ==
  \A p \in Proposals :
    intent[p] # None ~>
      \/ row[p] = "denied" /\ p \notin Decided
      \/ p \in Decided /\ p \in completed /\ (intent[p] = Adopt => p \in retained)

\* However often it fails or dies, a Decision is carried through: Accepted
\* follows the decision Ref in the end, and so do the files of the Proposal.
DecisionsComplete == AcceptedFollows /\ IntentSettles

\* Decisions reach users: startup accepts what a crash or an I/O error left,
\* and the project is always served again.
ServedAgain == StartupNeverRefuses /\ []<>(phase = "up")
=============================================================================
