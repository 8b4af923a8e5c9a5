----------------------------- MODULE AiAttempts -----------------------------
(***************************************************************************)
(* AI generation: how create_proposal runs a provider without holding the   *)
(* Store mutex, and what AiAttempts does to keep one run per project, to    *)
(* cancel it, and to keep a late answer out.                                *)
(*                                                                          *)
(* A creator reviews a context (create_context queues its attempt), then    *)
(* create_proposal claims the attempt, releases the mutex, awaits the       *)
(* provider, takes the mutex again and makes the answer a Proposal.  While  *)
(* it waits, other requests cancel the attempt, start another one, clear    *)
(* contexts, delete the project or change the credential; the browser may   *)
(* disconnect.  A drop guard releases the slot on every other way out.  The *)
(* registry is process-local, and it remembers only the last MaxTerminal    *)
(* outcomes of all projects together, so an attempt may run again once its  *)
(* outcome is forgotten.                                                    *)
(***************************************************************************)
EXTENDS Integers, Sequences, FiniteSets

CONSTANTS
  Projects,      \* the projects (prj_...)
  Attempts,      \* the attempts: pairs of a project and a public attempt ID
  ProjectOf,     \* ProjectOf[a]: the project of attempt a
  Requests,      \* the create_proposal requests in flight at one time
  Bindings,      \* the credential bindings a session may be given (pcb_...)
  None,          \* no value
  MaxTerminal,   \* MAX_TERMINAL_ATTEMPTS
  MaxContexts,   \* MAX_CONTEXTS_PER_PROJECT
  MaxGeneration, \* the largest generation (u64::MAX)
  MaxRevision    \* bound on the number of adoptions in a project

ASSUME AttemptsAssumption ==
  /\ ProjectOf \in [Attempts -> Projects]
  /\ MaxTerminal \in Nat \ {0}
  /\ MaxContexts \in Nat
  /\ MaxGeneration \in Nat
  /\ MaxRevision \in Nat

Terminal ==
  {"cancelled", "timed_out", "provider_failed", "validation_failed",
   "proposal_ready"}
Generations == 1..MaxGeneration
Contexts ==
  [attempt : Attempts, revision : 0..MaxRevision, binding : Bindings \cup {None}]
Runs == [attempt : Attempts, generation : Generations]

Handlers ==
  [context : Contexts, generation : Generations,
   stage : {"calling", "answered", "unwinding"}, status : Terminal \cup {None}]

ASSUME NoneAssumption ==
  /\ None \notin Bindings \cup Terminal
  /\ None \notin Runs
  /\ None \notin Handlers

VARIABLES
  \* the Store
  exists,        \* the projects
  revision,      \* revision[j]: the Accepted revision of project j
  proposal,      \* proposal[j]: base of the Proposal under review, or None
  contexts,      \* the reviewed contexts
  credential,    \* the credential binding of the Editor session, or None
  issued,        \* the bindings given out so far
  \* AiAttempts
  active,        \* active[j]: the run that holds project j's slot, or None
  queued,        \* the attempts that may be claimed
  terminal,      \* the outcomes remembered, oldest first
  next,          \* next_generation
  cancelled,     \* the generations whose watch channel says cancelled
  \* create_proposal
  request,       \* request[r]: the run of request r, or None
  \* history variable: the generations whose answer became a Proposal
  proposed

attempts == <<active, queued, terminal, next, cancelled>>
project  == <<exists, revision, proposal>>
session  == <<credential, issued>>
vars     == <<project, contexts, session, attempts, request, proposed>>

Init ==
  /\ exists = Projects
  /\ revision = [j \in Projects |-> 0]
  /\ proposal = [j \in Projects |-> None]
  /\ contexts = {}
  /\ credential = None
  /\ issued = {}
  /\ active = [j \in Projects |-> None]
  /\ queued = {}
  /\ terminal = <<>>
  /\ next = 0
  /\ cancelled = {}
  /\ request = [r \in Requests |-> None]
  /\ proposed = {}

-----------------------------------------------------------------------------
(* AiAttempts. *)

Of(j) == {a \in Attempts : ProjectOf[a] = j}
Remembered == {terminal[i].attempt : i \in DOMAIN terminal}
Outcome(a, s) == [attempt |-> a, status |-> s]

\* record_terminal: the outcome replaces an earlier one in place, or joins at
\* the end, where a full memory forgets its oldest.
RecordTerminal(a, s) ==
  /\ queued' = queued \ {a}
  /\ terminal' = IF a \in Remembered
                 THEN [i \in DOMAIN terminal |->
                         IF terminal[i].attempt = a THEN Outcome(a, s) ELSE terminal[i]]
                 ELSE Append(IF Len(terminal) = MaxTerminal THEN Tail(terminal)
                             ELSE terminal,
                             Outcome(a, s))

Run(a, g) == [attempt |-> a, generation |-> g]

\* Mutant: the generation is not compared.
Holds_ByAttempt(a, g) ==
  active[ProjectOf[a]] # None /\ active[ProjectOf[a]].attempt = a

\* is_active_generation
Holds(a, g) == active[ProjectOf[a]] = Run(a, g)

FreeSlot(a) == active' = [active EXCEPT ![ProjectOf[a]] = None]

\* complete; a run that lost its slot changes nothing.
Complete(a, g, s) ==
  IF Holds(a, g)
  THEN FreeSlot(a) /\ RecordTerminal(a, s)
  ELSE UNCHANGED <<active, queued, terminal>>

\* release: the run ended without an outcome and the attempt may be claimed
\* again.
Release(a, g) ==
  IF Holds(a, g)
  THEN FreeSlot(a) /\ queued' = queued \cup {a} /\ UNCHANGED terminal
  ELSE UNCHANGED <<active, queued, terminal>>

-----------------------------------------------------------------------------
(* Requests that hold the mutex from beginning to end. *)

\* create_context.  The credential is read under an earlier lock, so the
\* context may bind one that was replaced since.
CreateContext(a, b) ==
  LET j == ProjectOf[a]
  IN  /\ j \in exists
      /\ b \in issued \cup {None}
      /\ Cardinality({c \in contexts : ProjectOf[c.attempt] = j}) < MaxContexts
      /\ a \notin Remembered
      /\ contexts' = contexts \cup
           {[attempt |-> a, revision |-> revision[j], binding |-> b]}
      /\ queued' = queued \cup {a}
      /\ UNCHANGED <<project, session, active, terminal, next, cancelled, request, proposed>>

\* cancel_ai_attempt of a running attempt: the channel is signalled, the slot
\* freed and the outcome recorded at once.
CancelRunning(a) ==
  LET run == active[ProjectOf[a]]
  IN  /\ run # None
      /\ run.attempt = a
      /\ cancelled' = cancelled \cup {run.generation}
      /\ FreeSlot(a)
      /\ RecordTerminal(a, "cancelled")
      /\ UNCHANGED <<project, contexts, session, next, request, proposed>>

\* cancel_ai_attempt of an attempt nobody has claimed.
CancelQueued(a) ==
  /\ ProjectOf[a] \in exists
  /\ a \in queued \ Remembered
  /\ active[ProjectOf[a]] # None => active[ProjectOf[a]].attempt # a
  /\ RecordTerminal(a, "cancelled")
  /\ UNCHANGED <<project, contexts, session, active, next, cancelled, request, proposed>>

\* put_session_openai_credential: a fresh binding, also in place of another.
PutCredential(b) ==
  /\ b \in Bindings \ issued
  /\ credential' = b
  /\ issued' = issued \cup {b}
  /\ UNCHANGED <<project, contexts, attempts, request, proposed>>

\* delete_session_openai_credential, or the session expires.
ClearCredential ==
  /\ credential # None
  /\ credential' = None
  /\ UNCHANGED <<project, contexts, issued, attempts, request, proposed>>

\* The Proposal under review is decided, or deleted after a denial; an
\* adoption moves the Accepted revision (DecisionProtocol has the steps).
EndReview(j) ==
  /\ proposal[j] # None
  /\ proposal' = [proposal EXCEPT ![j] = None]
  /\ \/ UNCHANGED revision
     \/ /\ revision[j] < MaxRevision
        /\ revision' = [revision EXCEPT ![j] = @ + 1]
  /\ UNCHANGED <<exists, contexts, session, attempts, request, proposed>>

\* cleanup_retention of the conversation contexts.
ClearContexts(j) ==
  /\ j \in exists
  /\ active[j] = None
  /\ queued' = queued \ Of(j)
  /\ contexts' = {c \in contexts : ProjectOf[c.attempt] # j}
  /\ UNCHANGED <<project, session, active, terminal, next, cancelled, request, proposed>>

\* retain: the outcomes of the other projects, in their order.
OutcomesWithout(j) ==
  LET kept == {i \in DOMAIN terminal : ProjectOf[terminal[i].attempt] # j}
      size == Cardinality(kept)
      inOrder == {f \in [1..size -> kept] : \A m, n \in 1..size : m < n => f[m] < f[n]}
  IN  {[n \in 1..size |-> terminal[f[n]]] : f \in inOrder}

\* cleanup_retention of the project.
DeleteProject(j) ==
  /\ j \in exists
  /\ active[j] = None
  /\ exists' = exists \ {j}
  /\ proposal' = [proposal EXCEPT ![j] = None]
  /\ contexts' = {c \in contexts : ProjectOf[c.attempt] # j}
  /\ queued' = queued \ Of(j)
  /\ terminal' \in OutcomesWithout(j)
  /\ UNCHANGED <<revision, session, active, next, cancelled, request, proposed>>

\* The process is restarted: only projects and Proposals come back.
Restart ==
  /\ contexts' = {}
  /\ credential' = None
  /\ active' = [j \in Projects |-> None]
  /\ queued' = {}
  /\ terminal' = <<>>
  /\ next' = 0
  /\ cancelled' = {}
  /\ request' = [r \in Requests |-> None]
  /\ proposed' = {}
  /\ UNCHANGED <<project, issued>>

-----------------------------------------------------------------------------
(* create_proposal.                                                         *)

Stage(r, s) == request' = [request EXCEPT ![r].stage = s]
At(r, s) == request[r] # None /\ request[r].stage = s
Attempt(r) == request[r].context.attempt

\* The context is still there and still about the Accepted revision.
Usable(c) == c \in contexts /\ c.revision = revision[ProjectOf[c.attempt]]

\* Mutant: an attempt that has an outcome is claimed again.
Claim_Finished(r, c) ==
  LET a == c.attempt
      j == ProjectOf[a]
  IN  /\ request[r] = None
      /\ j \in exists
      /\ proposal[j] = None
      /\ Usable(c)
      /\ c.binding \in {None, credential}
      /\ active[j] = None
      /\ next < MaxGeneration
      /\ next' = next + 1
      /\ active' = [active EXCEPT ![j] = Run(a, next')]
      /\ queued' = queued \ {a}
      /\ request' = [request EXCEPT ![r] =
           [context |-> c, generation |-> next', stage |-> "calling", status |-> None]]
      /\ UNCHANGED <<project, contexts, session, terminal, cancelled, proposed>>

\* The first section under the mutex, up to claim_ai_attempt.
Claim(r, c) ==
  LET a == c.attempt
      j == ProjectOf[a]
  IN  /\ request[r] = None
      /\ j \in exists
      /\ proposal[j] = None
      /\ Usable(c)
      /\ c.binding \in {None, credential}
      /\ a \notin Remembered
      /\ active[j] = None
      /\ next < MaxGeneration
      /\ next' = next + 1
      /\ active' = [active EXCEPT ![j] = Run(a, next')]
      /\ queued' = queued \ {a}
      /\ request' = [request EXCEPT ![r] =
           [context |-> c, generation |-> next', stage |-> "calling", status |-> None]]
      /\ UNCHANGED <<project, contexts, session, terminal, cancelled, proposed>>

\* The provider's answer wins the select and passes the check that follows it,
\* which a cancellation may still overtake.  Every later error is a validation
\* failure to the drop guard.
ProviderAnswers(r) ==
  /\ At(r, "calling")
  /\ request' = [request EXCEPT ![r].stage = "answered", ![r].status = "validation_failed"]
  /\ UNCHANGED <<project, contexts, session, attempts, proposed>>

\* The provider fails, or its own timeout fires.
ProviderFails(r) ==
  /\ At(r, "calling")
  /\ \E s \in {"timed_out", "provider_failed"} :
       request' = [request EXCEPT ![r].stage = "unwinding", ![r].status = s]
  /\ UNCHANGED <<project, contexts, session, attempts, proposed>>

\* The select, or the check after it, sees the cancellation.
ObserveCancel(r) ==
  /\ At(r, "calling")
  /\ request[r].generation \in cancelled
  /\ Stage(r, "unwinding")
  /\ UNCHANGED <<project, contexts, session, attempts, proposed>>

\* The browser disconnects: the future is dropped where it awaits.
Disconnect(r) ==
  /\ At(r, "calling")
  /\ Stage(r, "unwinding")
  /\ UNCHANGED <<project, contexts, session, attempts, proposed>>

\* Mutant: cancellation is checked only before the mutex is taken.
MaterializeProposal_NoRecheck(r) ==
  LET j == ProjectOf[Attempt(r)]
  IN  /\ At(r, "answered")
      /\ j \in exists
      /\ proposal[j] = None
      /\ Usable(request[r].context)
      /\ proposal' = [proposal EXCEPT ![j] = revision[j]]
      /\ Complete(Attempt(r), request[r].generation, "proposal_ready")
      /\ proposed' = proposed \cup {request[r].generation}
      /\ request' = [request EXCEPT ![r] = None]
      /\ UNCHANGED <<exists, revision, contexts, session, next, cancelled>>

\* The second section under the mutex succeeds.
MaterializeProposal(r) ==
  LET j == ProjectOf[Attempt(r)]
  IN  /\ At(r, "answered")
      /\ request[r].generation \notin cancelled
      /\ Holds(Attempt(r), request[r].generation)
      /\ j \in exists
      /\ proposal[j] = None
      /\ Usable(request[r].context)
      /\ proposal' = [proposal EXCEPT ![j] = revision[j]]
      /\ Complete(Attempt(r), request[r].generation, "proposal_ready")
      /\ proposed' = proposed \cup {request[r].generation}
      /\ request' = [request EXCEPT ![r] = None]
      /\ UNCHANGED <<exists, revision, contexts, session, next, cancelled>>

\* It fails, on one of its checks or because the ChangeSet, the storage or the
\* sidecar refuses; the mutex is released before the guard is dropped.
RejectAnswer(r) ==
  /\ At(r, "answered")
  /\ Stage(r, "unwinding")
  /\ UNCHANGED <<project, contexts, session, attempts, proposed>>

\* Mutant: the guard is disarmed before the slot is free.
Unwind_Disarmed(r) ==
  /\ At(r, "unwinding")
  /\ IF request[r].status = None
     THEN UNCHANGED <<active, queued, terminal>>
     ELSE Complete(Attempt(r), request[r].generation, request[r].status)
  /\ request' = [request EXCEPT ![r] = None]
  /\ UNCHANGED <<project, contexts, session, next, cancelled, proposed>>

\* ActiveAttemptGuard::drop takes the mutex again.
Unwind(r) ==
  /\ At(r, "unwinding")
  /\ IF request[r].status = None
     THEN Release(Attempt(r), request[r].generation)
     ELSE Complete(Attempt(r), request[r].generation, request[r].status)
  /\ request' = [request EXCEPT ![r] = None]
  /\ UNCHANGED <<project, contexts, session, next, cancelled, proposed>>

-----------------------------------------------------------------------------

Generate(r) ==
  \/ ProviderAnswers(r) \/ ProviderFails(r) \/ ObserveCancel(r)
  \/ MaterializeProposal(r) \/ RejectAnswer(r) \/ Unwind(r)

Next ==
  \/ \E a \in Attempts, b \in Bindings \cup {None} : CreateContext(a, b)
  \/ \E a \in Attempts : CancelRunning(a) \/ CancelQueued(a)
  \/ \E b \in Bindings : PutCredential(b)
  \/ ClearCredential
  \/ \E j \in Projects : EndReview(j) \/ ClearContexts(j) \/ DeleteProject(j)
  \/ \E r \in Requests, c \in contexts : Claim(r, c)
  \/ \E r \in Requests : Generate(r) \/ Disconnect(r)
  \/ Restart

Spec == Init /\ [][Next]_vars

\* The provider answers, fails or times out, and a request that is not
\* waiting for it runs on.
FairSpec == Spec /\ \A r \in Requests : WF_vars(Generate(r))

-----------------------------------------------------------------------------
(* Properties. *)

StoreOK ==
  /\ exists \subseteq Projects
  /\ revision \in [Projects -> 0..MaxRevision]
  /\ proposal \in [Projects -> 0..MaxRevision \cup {None}]
  /\ contexts \subseteq Contexts
  /\ issued \subseteq Bindings
  /\ credential \in issued \cup {None}

RunsOK ==
  /\ active \in [Projects -> Runs \cup {None}]
  /\ request \in [Requests -> Handlers \cup {None}]
  /\ next \in 0..MaxGeneration
  /\ cancelled \subseteq 1..next
  /\ proposed \subseteq 1..next

\* One outcome at most is remembered of an attempt.
OutcomesOK ==
  /\ queued \subseteq Attempts
  /\ terminal \in Seq([attempt : Attempts, status : Terminal])
  /\ Len(terminal) <= MaxTerminal
  /\ \A i, k \in DOMAIN terminal : i # k => terminal[i].attempt # terminal[k].attempt

\* The registry, the Store and the requests are well formed.
TypeOK == StoreOK /\ RunsOK /\ OutcomesOK

\* An attempt that has ended is neither running nor queued: a guard that is
\* dropped late does not bring a cancelled attempt back into the queue, and
\* the status shown to the browser is the one that decides whether it may run.
EndedStaysEnded ==
  /\ queued \cap Remembered = {}
  /\ \A j \in Projects : active[j] # None => active[j].attempt \notin Remembered

Uncancelled(r) == request[r] # None /\ request[r].generation \notin cancelled

\* Until it is cancelled or gives it up, a run keeps its project's slot,
\* whatever stale guards of earlier runs of the same attempt do; so at most one
\* uncancelled run per project is anywhere between its claim and its end.
RunKeepsItsSlot ==
  /\ \A r \in Requests :
       Uncancelled(r) => Holds(Attempt(r), request[r].generation)
  /\ \A r, s \in Requests :
       Uncancelled(r) /\ Uncancelled(s) /\ r # s =>
         ProjectOf[Attempt(r)] # ProjectOf[Attempt(s)]

\* What the provider was asked stays until it has answered: no cleanup removes
\* the project or the context of a run that still holds its slot, and the
\* Accepted revision does not move under it.
RunKeepsItsContext ==
  \A r \in Requests :
    Uncancelled(r) =>
      /\ ProjectOf[Attempt(r)] \in exists
      /\ proposal[ProjectOf[Attempt(r)]] = None
      /\ request[r].context \in contexts
      /\ request[r].context.revision = revision[ProjectOf[Attempt(r)]]

\* A run that was not cancelled keeps what it was started for, however other
\* requests, guards and cleanups come between the two times it holds the mutex.
RunKeepsItsHold == RunKeepsItsSlot /\ RunKeepsItsContext

\* The answer of a cancelled run never becomes a Proposal, however late it is
\* and whatever the registry has forgotten by then.
CancelledNeverProposes == proposed \cap cancelled = {}

\* An outcome does not change while it is remembered: an attempt that was
\* cancelled, failed or became a Proposal does not run again.
OutcomeIsFinal ==
  [][\A i \in DOMAIN terminal :
       \A k \in DOMAIN terminal' :
         terminal'[k].attempt = terminal[i].attempt => terminal'[k] = terminal[i]]_vars

\* An attempt ends once: it neither runs again nor changes its outcome.
EndedIsFinal == [][EndedStaysEnded']_vars /\ OutcomeIsFinal

\* A run does not keep the slot: its project can generate again, or be
\* cleaned up, without a restart.
SlotIsFreed == \A j \in Projects : active[j] # None ~> active[j] = None

=============================================================================
