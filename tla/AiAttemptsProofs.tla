-------------------------- MODULE AiAttemptsProofs --------------------------
(***************************************************************************)
(* Theorems about AiAttempts, for every number of projects, attempts,       *)
(* requests and credentials and every size of the memory of outcomes.  What *)
(* the registry remembers plays no part in who holds a slot: a run is told   *)
(* from a stale one by its generation alone.  On that rest the theorems about *)
(* what is remembered and about what a run relies on.                       *)
(***************************************************************************)
EXTENDS AiAttempts, FiniteSetTheorems, TLAPS

\* Every generation belongs to one run: the run that holds a project's slot is
\* not one that was cancelled or has proposed, and no two runs share it.
Owned ==
  /\ \A j \in Projects : active[j] # None =>
       /\ ProjectOf[active[j].attempt] = j
       /\ active[j].generation \in 1..next
       /\ active[j].generation \notin cancelled \cup proposed
  /\ \A j, k \in Projects :
       active[j] # None /\ active[k] # None /\ j # k =>
         active[j].generation # active[k].generation
  /\ \A r \in Requests : request[r] # None =>
       /\ request[r].generation \in 1..next
       /\ Uncancelled(r) => Holds(Attempt(r), request[r].generation)
  /\ \A r, s \in Requests :
       request[r] # None /\ request[s] # None /\ r # s =>
         request[r].generation # request[s].generation

IInv == StoreOK /\ RunsOK /\ Owned /\ CancelledNeverProposes

-----------------------------------------------------------------------------
(* The shape of runs and handlers.                                          *)

LEMMA AttemptProject ==
  ASSUME NEW a \in Attempts
  PROVE  ProjectOf[a] \in Projects
BY AttemptsAssumption

LEMMA HandlerShape ==
  ASSUME RunsOK, NEW r \in Requests, request[r] # None
  PROVE  /\ request[r] \in Handlers
         /\ request[r].context \in Contexts
         /\ Attempt(r) \in Attempts
         /\ ProjectOf[Attempt(r)] \in Projects
         /\ request[r].generation \in Generations
         /\ request[r].status \in Terminal \cup {None}
<1>1. request[r] \in Handlers
  BY DEF RunsOK
<1>2. request[r].context \in Contexts /\ request[r].generation \in Generations
      /\ request[r].status \in Terminal \cup {None}
  BY <1>1 DEF Handlers
<1>3. Attempt(r) \in Attempts
  BY <1>2 DEF Contexts, Attempt
<1> QED BY <1>1, <1>2, <1>3, AttemptProject

LEMMA RunShape ==
  ASSUME RunsOK, NEW j \in Projects, active[j] # None
  PROVE  /\ active[j] \in Runs
         /\ active[j].attempt \in Attempts
         /\ active[j].generation \in Generations
BY DEF RunsOK, Runs

\* A step that changes no slot, no generation, and moves handlers only from
\* one stage to another, or out.
LEMMA StageKept ==
  ASSUME IInv, StoreOK', UNCHANGED <<active, next, cancelled, proposed>>,
         request' \in [Requests -> Handlers \cup {None}],
         \A r \in Requests : request'[r] # None =>
           /\ request[r] # None
           /\ request'[r].context = request[r].context
           /\ request'[r].generation = request[r].generation
  PROVE  IInv'
<1>1. RunsOK'
  BY DEF IInv, RunsOK
<1>2. Owned'
  BY DEF IInv, Owned, Uncancelled, Holds, Attempt, Run
<1>3. CancelledNeverProposes'
  BY DEF IInv, CancelledNeverProposes
<1> QED BY <1>1, <1>2, <1>3 DEF IInv

\* A handler that is only moved to another stage.
LEMMA StageType ==
  ASSUME IInv, NEW r \in Requests, request[r] # None,
         NEW s \in {"calling", "answered", "unwinding"}, NEW o \in Terminal \cup {None},
         request' = [request EXCEPT ![r].stage = s, ![r].status = o]
  PROVE  /\ request' \in [Requests -> Handlers \cup {None}]
         /\ \A q \in Requests : request'[q] # None =>
              /\ request[q] # None
              /\ request'[q].context = request[q].context
              /\ request'[q].generation = request[q].generation
<1>1. request[r] \in Handlers /\ request \in [Requests -> Handlers \cup {None}]
  BY HandlerShape DEF IInv, RunsOK
<1>2. [[request[r] EXCEPT !.stage = s] EXCEPT !.status = o] \in Handlers
  BY <1>1 DEF Handlers
<1>3. request' = [request EXCEPT ![r] = [[request[r] EXCEPT !.stage = s] EXCEPT !.status = o]]
  BY <1>1
<1>4. /\ request'[r].context = request[r].context
      /\ request'[r].generation = request[r].generation
  BY <1>1, <1>3 DEF Handlers
<1> QED BY <1>1, <1>2, <1>3, <1>4

LEMMA StageOnlyType ==
  ASSUME IInv, NEW r \in Requests, request[r] # None,
         NEW s \in {"calling", "answered", "unwinding"}, Stage(r, s)
  PROVE  /\ request' \in [Requests -> Handlers \cup {None}]
         /\ \A q \in Requests : request'[q] # None =>
              /\ request[q] # None
              /\ request'[q].context = request[q].context
              /\ request'[q].generation = request[q].generation
<1>1. request[r] \in Handlers /\ request \in [Requests -> Handlers \cup {None}]
  BY HandlerShape DEF IInv, RunsOK
<1>2. [request[r] EXCEPT !.stage = s] \in Handlers
  BY <1>1 DEF Handlers
<1>3. request' = [request EXCEPT ![r] = [request[r] EXCEPT !.stage = s]]
  BY <1>1 DEF Stage
<1>4. /\ request'[r].context = request[r].context
      /\ request'[r].generation = request[r].generation
  BY <1>1, <1>3 DEF Handlers
<1> QED BY <1>1, <1>2, <1>3, <1>4

\* A run that ends: its handler is gone and, if it still had it, its slot.
LEMMA RunEnds ==
  ASSUME IInv, StoreOK', NEW r \in Requests, request[r] # None,
         request' = [request EXCEPT ![r] = None],
         \/ UNCHANGED active /\ ~Holds(Attempt(r), request[r].generation)
         \/ Holds(Attempt(r), request[r].generation) /\ FreeSlot(Attempt(r)),
         UNCHANGED <<next, cancelled>>,
         \/ UNCHANGED proposed
         \/ /\ Holds(Attempt(r), request[r].generation)
            /\ proposed' = proposed \cup {request[r].generation}
  PROVE  IInv'
<1> DEFINE j == ProjectOf[Attempt(r)]
           g == request[r].generation
<1>1. j \in Projects /\ g \in Generations /\ Attempt(r) \in Attempts
  BY HandlerShape DEF IInv
<1>2. active \in [Projects -> Runs \cup {None}] /\ request \in [Requests -> Handlers \cup {None}]
  BY DEF IInv, RunsOK
<1>3. \A k \in Projects : active'[k] # None => active'[k] = active[k] /\ active[k] # None
  BY <1>1, <1>2 DEF FreeSlot
<1>4. \A q \in Requests : request'[q] # None => request'[q] = request[q] /\ q # r
  BY <1>2
<1>5. g \in 1..next
  BY DEF IInv, Owned
<1>6. RunsOK'
  BY <1>1, <1>2, <1>5 DEF IInv, RunsOK, FreeSlot
<1>7. Run(Attempt(r), g) # None
  BY <1>1, NoneAssumption DEF Run, Runs
<1>8. \A q \in Requests : request'[q] # None /\ request'[q].generation \notin cancelled' =>
        active'[ProjectOf[request'[q].context.attempt]]
          = Run(request'[q].context.attempt, request'[q].generation)
  <2> SUFFICES ASSUME NEW q \in Requests, request'[q] # None,
                      request'[q].generation \notin cancelled'
               PROVE  active'[ProjectOf[request'[q].context.attempt]]
                        = Run(request'[q].context.attempt, request'[q].generation)
    OBVIOUS
  <2>1. request'[q] = request[q] /\ q # r /\ request[q] # None
    BY <1>4
  <2>2. active[ProjectOf[Attempt(q)]] = Run(Attempt(q), request[q].generation)
    BY <2>1 DEF IInv, Owned, Uncancelled, Holds
  <2>3. request[q].generation # g
    BY <2>1 DEF IInv, Owned
  <2>4. active[j] = Run(Attempt(r), g) => ProjectOf[Attempt(q)] # j
    BY <2>2, <2>3 DEF Run
  <2>5. ProjectOf[Attempt(q)] \in Projects
    BY <2>1, HandlerShape DEF IInv
  <2>6. active'[ProjectOf[Attempt(q)]] = active[ProjectOf[Attempt(q)]]
    BY <1>2, <2>4, <2>5 DEF FreeSlot, Holds
  <2> QED BY <2>1, <2>2, <2>6 DEF Attempt
<1>9. \A k \in Projects : active'[k] # None => active'[k].generation \notin proposed'
  <2> SUFFICES ASSUME NEW k \in Projects, active'[k] # None
               PROVE  active'[k].generation \notin proposed'
    OBVIOUS
  <2>1. active'[k] = active[k] /\ active[k] # None /\ active[k].generation \notin proposed
    BY <1>3 DEF IInv, Owned
  <2>2. CASE UNCHANGED proposed
    BY <2>1, <2>2
  <2>3. CASE /\ Holds(Attempt(r), g)
             /\ proposed' = proposed \cup {g}
    <3>1. active'[j] = None /\ active[j].generation = g /\ active[j] # None
      BY <1>1, <1>2, <1>7, <2>3 DEF FreeSlot, Holds, Run
    <3>2. k # j
      BY <3>1
    <3>3. active[k].generation # g
      BY <1>1, <2>1, <3>1, <3>2 DEF IInv, Owned
    <3> QED BY <2>1, <2>3, <3>3
  <2> QED BY <2>2, <2>3
<1>10. Owned'
  BY <1>3, <1>4, <1>8, <1>9 DEF IInv, Owned, Uncancelled, Holds, Attempt
<1>11. CancelledNeverProposes'
  <2>1. CASE UNCHANGED proposed
    BY <2>1 DEF IInv, CancelledNeverProposes
  <2>2. CASE /\ Holds(Attempt(r), g)
             /\ proposed' = proposed \cup {g}
    <3>1. g \notin cancelled
      BY <1>1, <1>7, <2>2 DEF IInv, Owned, Holds, Run
    <3> QED BY <2>2, <3>1 DEF IInv, CancelledNeverProposes
  <2> QED BY <2>1, <2>2
<1> QED BY <1>6, <1>10, <1>11 DEF IInv
-----------------------------------------------------------------------------
(* The steps.                                                               *)

\* The Store changes, the registry and the requests do not.
LEMMA StoreStep ==
  ASSUME IInv, StoreOK', UNCHANGED <<active, next, cancelled, request, proposed>>
  PROVE  IInv'
BY StageKept DEF IInv, RunsOK

LEMMA CreateContextInv ==
  ASSUME IInv, NEW a \in Attempts, NEW b \in Bindings \cup {None}, CreateContext(a, b)
  PROVE  IInv'
<1>1. revision[ProjectOf[a]] \in 0..MaxRevision
  BY AttemptProject DEF IInv, StoreOK
<1>2. [attempt |-> a, revision |-> revision[ProjectOf[a]], binding |-> b] \in Contexts
  BY <1>1 DEF Contexts
<1>3. StoreOK'
  BY <1>2 DEF CreateContext, IInv, StoreOK, project, session
<1> QED BY <1>3, StoreStep DEF CreateContext

LEMMA CancelRunningInv ==
  ASSUME IInv, NEW a \in Attempts, CancelRunning(a)
  PROVE  IInv'
<1> DEFINE j == ProjectOf[a]
           g == active[j].generation
<1>1. j \in Projects /\ active[j] # None /\ active[j].attempt = a
  BY AttemptProject DEF CancelRunning
<1>2. active \in [Projects -> Runs \cup {None}]
  BY DEF IInv, RunsOK
<1>3. g \in 1..next /\ g \notin proposed
  BY <1>1 DEF IInv, Owned
<1>4. active' = [active EXCEPT ![j] = None] /\ cancelled' = cancelled \cup {g}
      /\ UNCHANGED <<next, request, proposed>>
  BY DEF CancelRunning, FreeSlot
<1>5. StoreOK'
  BY DEF CancelRunning, IInv, StoreOK, project, session
<1>6. RunsOK'
  BY <1>2, <1>3, <1>4 DEF IInv, RunsOK
<1>7. \A k \in Projects : active'[k] # None =>
        active'[k] = active[k] /\ active[k] # None /\ k # j
  BY <1>1, <1>2, <1>4
<1>8. \A k \in Projects : active'[k] # None => active'[k].generation \notin cancelled'
  BY <1>1, <1>4, <1>7 DEF IInv, Owned
<1>9. \A r \in Requests : request'[r] # None /\ request'[r].generation \notin cancelled' =>
        active'[ProjectOf[request'[r].context.attempt]]
          = Run(request'[r].context.attempt, request'[r].generation)
  <2> SUFFICES ASSUME NEW r \in Requests, request[r] # None,
                      request[r].generation \notin cancelled'
               PROVE  active'[ProjectOf[Attempt(r)]] = Run(Attempt(r), request[r].generation)
    BY <1>4 DEF Attempt
  <2>1. active[ProjectOf[Attempt(r)]] = Run(Attempt(r), request[r].generation)
    BY <1>4 DEF IInv, Owned, Uncancelled, Holds
  <2>2. request[r].generation # g
    BY <1>4
  <2>3. ProjectOf[Attempt(r)] # j /\ ProjectOf[Attempt(r)] \in Projects
    BY <2>1, <2>2, HandlerShape DEF Run, IInv
  <2> QED BY <1>2, <1>4, <2>1, <2>3
<1>10. Owned'
  BY <1>4, <1>7, <1>8, <1>9 DEF IInv, Owned, Uncancelled, Holds, Attempt
<1>11. CancelledNeverProposes'
  BY <1>3, <1>4 DEF IInv, CancelledNeverProposes
<1> QED BY <1>5, <1>6, <1>10, <1>11 DEF IInv

LEMMA ClaimInv ==
  ASSUME IInv, NEW r \in Requests, NEW c \in contexts, Claim(r, c)
  PROVE  IInv'
<1> DEFINE a == c.attempt
           j == ProjectOf[a]
           g == next + 1
           h == [context |-> c, generation |-> g, stage |-> "calling", status |-> None]
<1>1. c \in Contexts /\ a \in Attempts /\ j \in Projects
  BY AttemptProject DEF IInv, StoreOK, Contexts
<1>2. next \in Nat /\ g \in Generations /\ g \notin 1..next
  BY AttemptsAssumption DEF Claim, IInv, RunsOK, Generations
<1>3. /\ next' = g
      /\ active' = [active EXCEPT ![j] = Run(a, g)]
      /\ request' = [request EXCEPT ![r] = h]
      /\ UNCHANGED <<cancelled, proposed>>
  BY DEF Claim
<1>4. Run(a, g) \in Runs /\ h \in Handlers
  BY <1>1, <1>2 DEF Run, Runs, Handlers
<1>5. active \in [Projects -> Runs \cup {None}] /\ request \in [Requests -> Handlers \cup {None}]
      /\ cancelled \subseteq 1..next /\ proposed \subseteq 1..next
  BY DEF IInv, RunsOK
<1>6. StoreOK'
  BY DEF Claim, IInv, StoreOK, project, session
<1>7. 1..next \subseteq 1..next'
  BY <1>2, <1>3
<1>8. RunsOK'
  <2>1. active' \in [Projects -> Runs \cup {None}]
    BY <1>1, <1>3, <1>4, <1>5
  <2>2. request' \in [Requests -> Handlers \cup {None}]
    BY <1>3, <1>4, <1>5
  <2>3. next' \in 0..MaxGeneration
    BY <1>2, <1>3, AttemptsAssumption DEF Generations
  <2>4. cancelled' \subseteq 1..next' /\ proposed' \subseteq 1..next'
    BY <1>3, <1>5, <1>7
  <2> QED BY <2>1, <2>2, <2>3, <2>4 DEF RunsOK
<1>9. active'[j] = Run(a, g) /\ \A k \in Projects \ {j} : active'[k] = active[k]
  BY <1>1, <1>3, <1>5
<1>10. request'[r] = h /\ \A q \in Requests \ {r} : request'[q] = request[q]
  BY <1>3, <1>5
<1>11. \A k \in Projects : active'[k] # None =>
         /\ ProjectOf[active'[k].attempt] = k
         /\ active'[k].generation \in 1..next'
         /\ active'[k].generation \notin cancelled' \cup proposed'
  BY <1>2, <1>3, <1>5, <1>7, <1>9 DEF IInv, Owned, Run
<1>12. \A k, l \in Projects :
         active'[k] # None /\ active'[l] # None /\ k # l =>
           active'[k].generation # active'[l].generation
  BY <1>2, <1>9 DEF IInv, Owned, Run
<1>13. \A q \in Requests : request'[q] # None => request'[q].generation \in 1..next'
  BY <1>2, <1>3, <1>7, <1>10 DEF IInv, Owned
<1>14. \A q \in Requests : Uncancelled(q)' => Holds(Attempt(q), request[q].generation)'
  <2> SUFFICES ASSUME NEW q \in Requests, Uncancelled(q)'
               PROVE  Holds(Attempt(q), request[q].generation)'
    OBVIOUS
  <2>1. CASE q = r
    BY <1>9, <1>10, <2>1 DEF Holds, Attempt
  <2>2. CASE q # r
    <3>1. request'[q] = request[q] /\ Uncancelled(q)
      BY <1>3, <1>10, <2>2 DEF Uncancelled
    <3>2. active[ProjectOf[Attempt(q)]] = Run(Attempt(q), request[q].generation)
      BY <3>1 DEF IInv, Owned, Uncancelled, Holds
    <3>3. Run(Attempt(q), request[q].generation) \in Runs
      BY <3>1, HandlerShape DEF Uncancelled, IInv, Run, Runs
    <3>4. ProjectOf[Attempt(q)] # j /\ ProjectOf[Attempt(q)] \in Projects
      BY <3>1, <3>2, <3>3, HandlerShape, NoneAssumption DEF Claim, Uncancelled, IInv
    <3> QED BY <1>9, <3>1, <3>2, <3>4 DEF Holds, Attempt
  <2> QED BY <2>1, <2>2
<1>15. \A q, s \in Requests :
         request'[q] # None /\ request'[s] # None /\ q # s =>
           request'[q].generation # request'[s].generation
  BY <1>2, <1>10 DEF IInv, Owned
<1>16. Owned'
  BY <1>11, <1>12, <1>13, <1>14, <1>15 DEF Owned
<1>17. CancelledNeverProposes'
  BY <1>3 DEF IInv, CancelledNeverProposes
<1> QED BY <1>6, <1>8, <1>16, <1>17 DEF IInv

LEMMA GenerateInv ==
  ASSUME IInv, NEW r \in Requests, Generate(r) \/ Disconnect(r)
  PROVE  IInv'
<1>1. ASSUME UNCHANGED <<project, contexts, session>> PROVE StoreOK'
  BY <1>1 DEF IInv, StoreOK, project, session
<1>2. CASE ProviderAnswers(r)
  <2>1. request[r] # None
    BY <1>2 DEF ProviderAnswers, At
  <2>2. "validation_failed" \in Terminal \cup {None}
    BY DEF Terminal
  <2> QED BY <1>1, <1>2, <2>1, <2>2, StageType, StageKept DEF ProviderAnswers, attempts
<1>3. CASE ProviderFails(r)
  <2>1. request[r] # None
    BY <1>3 DEF ProviderFails, At
  <2>2. PICK o \in {"timed_out", "provider_failed"} :
          request' = [request EXCEPT ![r].stage = "unwinding", ![r].status = o]
    BY <1>3 DEF ProviderFails
  <2>3. o \in Terminal \cup {None}
    BY DEF Terminal
  <2> QED BY <1>1, <1>3, <2>1, <2>2, <2>3, StageType, StageKept DEF ProviderFails, attempts
<1>4. CASE ObserveCancel(r) \/ RejectAnswer(r) \/ Disconnect(r)
  <2>1. request[r] # None /\ Stage(r, "unwinding")
        /\ UNCHANGED <<project, contexts, session, attempts, proposed>>
    BY <1>4 DEF ObserveCancel, RejectAnswer, Disconnect, At
  <2> QED BY <1>1, <2>1, StageOnlyType, StageKept DEF attempts
<1>5. CASE MaterializeProposal(r)
  <2>1. request[r] # None
    BY <1>5 DEF MaterializeProposal, At
  <2>2. StoreOK'
    <3>1. revision[ProjectOf[Attempt(r)]] \in 0..MaxRevision
      BY <2>1, HandlerShape DEF IInv, StoreOK
    <3> QED BY <1>5, <3>1 DEF MaterializeProposal, IInv, StoreOK, session
  <2> QED BY <1>5, <2>1, <2>2, RunEnds DEF MaterializeProposal, Complete
<1>6. CASE Unwind(r)
  <2>1. request[r] # None
    BY <1>6 DEF Unwind, At
  <2> QED BY <1>1, <1>6, <2>1, RunEnds DEF Unwind, Complete, Release
<1> QED BY <1>2, <1>3, <1>4, <1>5, <1>6 DEF Generate

LEMMA EndReviewInv ==
  ASSUME IInv, NEW j \in Projects, EndReview(j)
  PROVE  IInv'
<1>1. revision' \in [Projects -> 0..MaxRevision]
  BY AttemptsAssumption DEF EndReview, IInv, StoreOK
<1>2. StoreOK'
  BY <1>1 DEF EndReview, IInv, StoreOK, session
<1> QED BY <1>2, StoreStep DEF EndReview, attempts

LEMMA RestartInv ==
  ASSUME IInv, Restart
  PROVE  IInv'
<1>1. StoreOK'
  BY DEF Restart, IInv, StoreOK, project
<1>2. RunsOK'
  BY AttemptsAssumption DEF Restart, RunsOK
<1>3. Owned'
  BY DEF Restart, Owned, Uncancelled
<1>4. CancelledNeverProposes'
  BY DEF Restart, CancelledNeverProposes
<1> QED BY <1>1, <1>2, <1>3, <1>4 DEF IInv

LEMMA InitInv == Init => IInv
<1> SUFFICES ASSUME Init PROVE IInv
  OBVIOUS
<1>1. StoreOK
  BY AttemptsAssumption DEF Init, StoreOK
<1>2. RunsOK
  BY AttemptsAssumption DEF Init, RunsOK
<1>3. Owned /\ CancelledNeverProposes
  BY DEF Init, Owned, Uncancelled, CancelledNeverProposes
<1> QED BY <1>1, <1>2, <1>3 DEF IInv

LEMMA NextInv == IInv /\ [Next]_vars => IInv'
<1> SUFFICES ASSUME IInv, [Next]_vars PROVE IInv'
  OBVIOUS
<1>1. ASSUME NEW a \in Attempts, CancelQueued(a) PROVE IInv'
  <2>1. StoreOK'
    BY <1>1 DEF CancelQueued, IInv, StoreOK, project, session
  <2> QED BY <1>1, <2>1, StoreStep DEF CancelQueued
<1>2. ASSUME NEW b \in Bindings, PutCredential(b) PROVE IInv'
  <2>1. StoreOK'
    BY <1>2 DEF PutCredential, IInv, StoreOK, project
  <2> QED BY <1>2, <2>1, StoreStep DEF PutCredential, attempts
<1>3. ASSUME ClearCredential PROVE IInv'
  <2>1. StoreOK'
    BY <1>3 DEF ClearCredential, IInv, StoreOK, project
  <2> QED BY <1>3, <2>1, StoreStep DEF ClearCredential, attempts
<1>4. ASSUME NEW j \in Projects, ClearContexts(j) PROVE IInv'
  <2>1. StoreOK'
    BY <1>4 DEF ClearContexts, IInv, StoreOK, project, session
  <2> QED BY <1>4, <2>1, StoreStep DEF ClearContexts
<1>5. ASSUME NEW j \in Projects, DeleteProject(j) PROVE IInv'
  <2>1. StoreOK'
    BY <1>5 DEF DeleteProject, IInv, StoreOK, session
  <2> QED BY <1>5, <2>1, StoreStep DEF DeleteProject
<1>6. CASE UNCHANGED vars
  <2>1. StoreOK'
    BY <1>6 DEF vars, project, session, IInv, StoreOK
  <2> QED BY <1>6, <2>1, StoreStep DEF vars, attempts
<1> QED BY <1>1, <1>2, <1>3, <1>4, <1>5, <1>6, CreateContextInv, CancelRunningInv,
           EndReviewInv, ClaimInv, GenerateInv, RestartInv DEF Next

LEMMA Invariance == Spec => []IInv
BY InitInv, NextInv, PTL DEF Spec

-----------------------------------------------------------------------------
(* Theorems about slots.                                                    *)

\* The answer of a cancelled run never becomes a Proposal: the handler checks
\* its generation again, under the mutex, after the provider has answered.
THEOREM CancelledStaysOut == Spec => []CancelledNeverProposes
<1>1. IInv => CancelledNeverProposes
  BY DEF IInv
<1> QED BY <1>1, Invariance, PTL

LEMMA SlotsKept ==
  ASSUME IInv
  PROVE  RunKeepsItsSlot
<1>1. \A r \in Requests : Uncancelled(r) => Holds(Attempt(r), request[r].generation)
  BY DEF IInv, Owned, Uncancelled
<1>2. ASSUME NEW r \in Requests, NEW s \in Requests,
             Uncancelled(r), Uncancelled(s), r # s
      PROVE  ProjectOf[Attempt(r)] # ProjectOf[Attempt(s)]
  <2>1. active[ProjectOf[Attempt(r)]] = Run(Attempt(r), request[r].generation)
        /\ active[ProjectOf[Attempt(s)]] = Run(Attempt(s), request[s].generation)
    BY <1>1, <1>2 DEF Holds
  <2>2. request[r].generation # request[s].generation
    BY <1>2 DEF IInv, Owned, Uncancelled
  <2>3. Run(Attempt(r), request[r].generation) # Run(Attempt(s), request[s].generation)
    BY <2>2 DEF Run
  <2> QED BY <2>1, <2>3
<1> QED BY <1>1, <1>2 DEF RunKeepsItsSlot

\* Until it is cancelled or gives it up, a run keeps its project's slot, and no
\* other uncancelled run of that project exists, although the registry forgets
\* outcomes and an attempt may be claimed again while a stale guard of its
\* earlier run is still to be dropped.
THEOREM RunsKeepTheirSlot == Spec => []RunKeepsItsSlot
BY SlotsKept, Invariance, PTL

-----------------------------------------------------------------------------
(* What the registry remembers.                                             *)

Outcomes == [attempt : Attempts, status : Terminal]

\* An outcome of the next state that is about an attempt of this one is the same.
OutcomesKept ==
  \A i \in DOMAIN terminal : \A k \in DOMAIN terminal' :
    terminal'[k].attempt = terminal[i].attempt => terminal'[k] = terminal[i]

MInv == OutcomesOK /\ EndedStaysEnded

LEMMA TailEntries ==
  ASSUME NEW S, NEW t \in Seq(S), t # << >>
  PROVE  /\ Tail(t) \in Seq(S) /\ Len(Tail(t)) = Len(t) - 1
         /\ \A i \in DOMAIN Tail(t) : i + 1 \in DOMAIN t /\ Tail(t)[i] = t[i + 1]
OBVIOUS

LEMMA AppendEntries ==
  ASSUME NEW S, NEW t \in Seq(S), NEW e \in S
  PROVE  /\ Append(t, e) \in Seq(S) /\ Len(Append(t, e)) = Len(t) + 1
         /\ DOMAIN Append(t, e) = DOMAIN t \cup {Len(t) + 1}
         /\ \A i \in DOMAIN t : Append(t, e)[i] = t[i]
         /\ Append(t, e)[Len(t) + 1] = e
         /\ Len(t) + 1 \notin DOMAIN t
OBVIOUS

\* The outcome of an attempt that had none joins the others, of which the
\* oldest may be forgotten.
LEMMA RecordKeeps ==
  ASSUME OutcomesOK, NEW a \in Attempts, a \notin Remembered, NEW s \in Terminal,
         RecordTerminal(a, s)
  PROVE  /\ OutcomesOK' /\ OutcomesKept
         /\ queued' = queued \ {a} /\ Remembered' \subseteq Remembered \cup {a}
<1> DEFINE rest == IF Len(terminal) = MaxTerminal THEN Tail(terminal) ELSE terminal
           e == Outcome(a, s)
<1>1. terminal \in Seq(Outcomes) /\ Len(terminal) \in Nat /\ Len(terminal) <= MaxTerminal
      /\ MaxTerminal \in Nat \ {0}
  BY AttemptsAssumption DEF OutcomesOK, Outcomes
<1>2. e \in Outcomes
  BY DEF Outcome, Outcomes
<1>3. terminal' = Append(rest, e) /\ queued' = queued \ {a}
  BY DEF RecordTerminal
<1>4. /\ rest \in Seq(Outcomes) /\ Len(rest) \in Nat /\ Len(rest) < MaxTerminal
      /\ \A i \in DOMAIN rest : \E n \in DOMAIN terminal : rest[i] = terminal[n]
      /\ \A i, k \in DOMAIN rest : i # k => rest[i].attempt # rest[k].attempt
  <2>1. CASE Len(terminal) = MaxTerminal
    <3>1. rest = Tail(terminal) /\ terminal # << >>
      BY <1>1, <2>1
    <3>2. /\ rest \in Seq(Outcomes) /\ Len(rest) = Len(terminal) - 1
          /\ \A i \in DOMAIN rest : i + 1 \in DOMAIN terminal /\ rest[i] = terminal[i + 1]
      BY <1>1, <3>1, TailEntries
    <3>3. \A i, k \in DOMAIN rest : i # k => i + 1 # k + 1
      BY <3>2
    <3> HIDE DEF rest
    <3>4. \A i, k \in DOMAIN rest : i # k => rest[i].attempt # rest[k].attempt
      BY <3>2, <3>3 DEF OutcomesOK
    <3> QED BY <1>1, <3>2, <3>4
  <2>2. CASE Len(terminal) # MaxTerminal
    <3>1. rest = terminal
      BY <2>2
    <3> HIDE DEF rest
    <3> QED BY <1>1, <2>2, <3>1 DEF OutcomesOK
  <2> QED BY <2>1, <2>2
<1> HIDE DEF rest
<1>5. \A i \in DOMAIN rest : rest[i].attempt \in Remembered
  BY <1>4 DEF Remembered
<1>6. /\ terminal' \in Seq(Outcomes) /\ Len(terminal') = Len(rest) + 1
      /\ DOMAIN terminal' = DOMAIN rest \cup {Len(rest) + 1}
      /\ \A i \in DOMAIN rest : terminal'[i] = rest[i]
      /\ terminal'[Len(rest) + 1] = e
  BY <1>2, <1>3, <1>4, AppendEntries
<1>7. e.attempt = a
  BY DEF Outcome
<1> HIDE DEF e
<1>8. \A i, k \in DOMAIN terminal' : i # k => terminal'[i].attempt # terminal'[k].attempt
  BY <1>4, <1>5, <1>6, <1>7
<1>9. OutcomesOK'
  BY <1>1, <1>3, <1>4, <1>6, <1>8 DEF OutcomesOK, Outcomes
<1>10. \A i \in DOMAIN terminal : terminal[i].attempt \in Remembered
  BY DEF Remembered
<1>11. OutcomesKept
  <2> SUFFICES ASSUME NEW i \in DOMAIN terminal, NEW k \in DOMAIN terminal',
                      terminal'[k].attempt = terminal[i].attempt
               PROVE  terminal'[k] = terminal[i]
    BY DEF OutcomesKept
  <2>1. k \in DOMAIN rest
    BY <1>6, <1>7, <1>10
  <2>2. PICK n \in DOMAIN terminal : rest[k] = terminal[n]
    BY <1>4, <2>1
  <2>3. n = i
    BY <1>6, <2>1, <2>2 DEF OutcomesOK
  <2> QED BY <1>6, <2>1, <2>2, <2>3
<1>12. Remembered' \subseteq Remembered \cup {a}
  BY <1>5, <1>6, <1>7 DEF Remembered
<1> QED BY <1>3, <1>9, <1>11, <1>12

\* Forgetting the outcomes of a project.
LEMMA WithoutKeeps ==
  ASSUME OutcomesOK, NEW j \in Projects, terminal' \in OutcomesWithout(j),
         queued' \subseteq queued
  PROVE  OutcomesOK' /\ OutcomesKept /\ Remembered' \subseteq Remembered
<1> DEFINE kept == {i \in DOMAIN terminal : ProjectOf[terminal[i].attempt] # j}
           size == Cardinality(kept)
<1>1. terminal \in Seq(Outcomes) /\ Len(terminal) \in Nat /\ DOMAIN terminal = 1..Len(terminal)
  BY DEF OutcomesOK, Outcomes
<1>2. IsFiniteSet(1..Len(terminal)) /\ Cardinality(1..Len(terminal)) = Len(terminal)
  BY <1>1, FS_Interval
<1>3. IsFiniteSet(kept) /\ size <= Len(terminal) /\ size \in Nat
  BY <1>1, <1>2, FS_Subset, FS_CardinalityType
<1>4. PICK f \in [1..size -> kept] :
        /\ \A m, n \in 1..size : m < n => f[m] < f[n]
        /\ terminal' = [n \in 1..size |-> terminal[f[n]]]
  BY DEF OutcomesWithout
<1>5. \A n \in 1..size : f[n] \in DOMAIN terminal /\ terminal[f[n]] \in Outcomes
  BY <1>1, <1>4
<1>6. \A m, n \in 1..size : m # n => f[m] # f[n]
  <2> SUFFICES ASSUME NEW m \in 1..size, NEW n \in 1..size, m # n PROVE f[m] # f[n]
    OBVIOUS
  <2>1. f[m] \in Nat /\ f[n] \in Nat
    BY <1>1, <1>5
  <2>2. m < n \/ n < m
    BY <1>3
  <2> QED BY <1>4, <2>1, <2>2
<1> HIDE DEF size
<1>7. /\ terminal' \in Seq(Outcomes) /\ Len(terminal') = size /\ DOMAIN terminal' = 1..size
      /\ \A n \in 1..size : terminal'[n] = terminal[f[n]]
  BY <1>3, <1>4, <1>5
<1>8. \A m, n \in DOMAIN terminal' : m # n => terminal'[m].attempt # terminal'[n].attempt
  BY <1>5, <1>6, <1>7 DEF OutcomesOK
<1>9. OutcomesOK'
  BY <1>1, <1>3, <1>7, <1>8, AttemptsAssumption DEF OutcomesOK, Outcomes
<1>10. OutcomesKept
  BY <1>5, <1>7 DEF OutcomesKept, OutcomesOK
<1>11. Remembered' \subseteq Remembered
  BY <1>5, <1>7 DEF Remembered
<1> QED BY <1>9, <1>10, <1>11

LEMMA SameOutcomes ==
  ASSUME OutcomesOK, UNCHANGED terminal, queued' \subseteq Attempts
  PROVE  OutcomesOK' /\ OutcomesKept /\ Remembered' = Remembered
<1>1. \A i, k \in DOMAIN terminal :
        terminal[i].attempt = terminal[k].attempt => terminal[i] = terminal[k]
  BY DEF OutcomesOK
<1> QED BY <1>1 DEF OutcomesOK, OutcomesKept, Remembered

\* The run that holds a slot has no outcome yet, and is of that project.
LEMMA HolderUnfinished ==
  ASSUME IInv, MInv, NEW j \in Projects, active[j] # None
  PROVE  active[j].attempt \in Attempts \ Remembered /\ ProjectOf[active[j].attempt] = j
BY RunShape DEF IInv, Owned, MInv, EndedStaysEnded

\* The holder ends with an outcome.
LEMMA HolderEnds ==
  ASSUME IInv, MInv, NEW j \in Projects, active[j] # None,
         active' = [active EXCEPT ![j] = None],
         NEW s \in Terminal, RecordTerminal(active[j].attempt, s)
  PROVE  MInv' /\ OutcomesKept
<1> DEFINE a == active[j].attempt
<1>1. a \in Attempts \ Remembered
  BY HolderUnfinished
<1>2. /\ OutcomesOK' /\ OutcomesKept
      /\ queued' = queued \ {a} /\ Remembered' \subseteq Remembered \cup {a}
  BY <1>1, RecordKeeps DEF MInv
<1>3. active \in [Projects -> Runs \cup {None}]
  BY DEF IInv, RunsOK
<1>4. ASSUME NEW k \in Projects, active'[k] # None
      PROVE  active'[k] = active[k] /\ active[k].attempt \notin Remembered \cup {a}
  <2>1. active'[k] = active[k] /\ active[k] # None /\ k # j
    BY <1>3, <1>4
  <2> QED BY <2>1, HolderUnfinished
<1>5. EndedStaysEnded'
  BY <1>2, <1>4 DEF MInv, EndedStaysEnded
<1> QED BY <1>2, <1>5 DEF MInv

\* The slot is given back and the attempt may be claimed again.
LEMMA HolderReleased ==
  ASSUME IInv, MInv, NEW j \in Projects, active[j] # None,
         active' = [active EXCEPT ![j] = None],
         queued' = queued \cup {active[j].attempt}, UNCHANGED terminal
  PROVE  MInv' /\ OutcomesKept
<1>1. active[j].attempt \in Attempts \ Remembered
  BY HolderUnfinished
<1>2. OutcomesOK' /\ OutcomesKept /\ Remembered' = Remembered
  BY <1>1, SameOutcomes DEF MInv, OutcomesOK
<1>3. \A k \in Projects : active'[k] # None => active'[k] = active[k] /\ active[k] # None
  BY DEF IInv, RunsOK
<1>4. EndedStaysEnded'
  BY <1>1, <1>2, <1>3 DEF MInv, EndedStaysEnded
<1> QED BY <1>2, <1>4 DEF MInv

\* Nothing of the registry changes but that attempts leave the queue.
LEMMA RegistryKept ==
  ASSUME MInv, UNCHANGED <<active, terminal>>, queued' \subseteq queued
  PROVE  MInv' /\ OutcomesKept
<1>1. OutcomesOK' /\ OutcomesKept /\ Remembered' = Remembered
  BY SameOutcomes DEF MInv, OutcomesOK
<1> QED BY <1>1 DEF MInv, EndedStaysEnded

LEMMA MemoryStep == IInv /\ MInv /\ [Next]_vars => MInv' /\ OutcomesKept
<1> SUFFICES ASSUME IInv, MInv, [Next]_vars PROVE MInv' /\ OutcomesKept
  OBVIOUS
<1>1. ASSUME NEW a \in Attempts, NEW b \in Bindings \cup {None}, CreateContext(a, b)
      PROVE  MInv' /\ OutcomesKept
  <2>1. queued' = queued \cup {a} /\ a \notin Remembered /\ UNCHANGED <<active, terminal>>
    BY <1>1 DEF CreateContext
  <2>2. OutcomesOK' /\ OutcomesKept /\ Remembered' = Remembered
    BY <2>1, SameOutcomes DEF MInv, OutcomesOK
  <2> QED BY <2>1, <2>2 DEF MInv, EndedStaysEnded
<1>2. ASSUME NEW a \in Attempts, CancelRunning(a) PROVE MInv' /\ OutcomesKept
  <2>1. /\ ProjectOf[a] \in Projects /\ active[ProjectOf[a]] # None
        /\ active[ProjectOf[a]].attempt = a
        /\ active' = [active EXCEPT ![ProjectOf[a]] = None]
        /\ RecordTerminal(a, "cancelled")
    BY <1>2, AttemptProject DEF CancelRunning, FreeSlot
  <2> QED BY <2>1, HolderEnds DEF Terminal
<1>3. ASSUME NEW a \in Attempts, CancelQueued(a) PROVE MInv' /\ OutcomesKept
  <2>1. /\ a \notin Remembered /\ RecordTerminal(a, "cancelled") /\ UNCHANGED active
        /\ active[ProjectOf[a]] # None => active[ProjectOf[a]].attempt # a
    BY <1>3 DEF CancelQueued
  <2>2. /\ OutcomesOK' /\ OutcomesKept
        /\ queued' = queued \ {a} /\ Remembered' \subseteq Remembered \cup {a}
    BY <2>1, RecordKeeps DEF MInv, Terminal
  <2>3. \A j \in Projects : active[j] # None => active[j].attempt \notin Remembered \cup {a}
    BY <2>1, HolderUnfinished
  <2>4. EndedStaysEnded'
    BY <2>1, <2>2, <2>3 DEF MInv, EndedStaysEnded
  <2> QED BY <2>2, <2>4 DEF MInv
<1>4. ASSUME NEW j \in Projects, EndReview(j) \/ ClearContexts(j)
      PROVE  MInv' /\ OutcomesKept
  <2>1. UNCHANGED <<active, terminal>> /\ queued' \subseteq queued
    BY <1>4 DEF EndReview, ClearContexts, attempts
  <2> QED BY <2>1, RegistryKept
<1>5. ASSUME NEW j \in Projects, DeleteProject(j) PROVE MInv' /\ OutcomesKept
  <2>1. terminal' \in OutcomesWithout(j) /\ queued' \subseteq queued /\ UNCHANGED active
    BY <1>5 DEF DeleteProject
  <2>2. OutcomesOK' /\ OutcomesKept /\ Remembered' \subseteq Remembered
    BY <2>1, WithoutKeeps DEF MInv
  <2>3. EndedStaysEnded'
    BY <2>1, <2>2 DEF MInv, EndedStaysEnded
  <2> QED BY <2>2, <2>3 DEF MInv
<1>6. ASSUME NEW r \in Requests, NEW c \in contexts, Claim(r, c) PROVE MInv' /\ OutcomesKept
  <2> DEFINE j == ProjectOf[c.attempt]
  <2>1. /\ c.attempt \notin Remembered /\ queued' \subseteq queued /\ UNCHANGED terminal
        /\ active' = [active EXCEPT ![j] = Run(c.attempt, next')]
    BY <1>6 DEF Claim
  <2>2. OutcomesOK' /\ OutcomesKept /\ Remembered' = Remembered
    BY <2>1, SameOutcomes DEF MInv, OutcomesOK
  <2>3. \A k \in Projects : active'[k] # None =>
          active'[k] = active[k] \/ active'[k] = Run(c.attempt, next')
    BY <2>1 DEF IInv, RunsOK
  <2>4. EndedStaysEnded'
    BY <2>1, <2>2, <2>3 DEF MInv, EndedStaysEnded, Run
  <2> QED BY <2>2, <2>4 DEF MInv
<1>7. ASSUME NEW r \in Requests, Generate(r) \/ Disconnect(r) PROVE MInv' /\ OutcomesKept
  <2>1. CASE UNCHANGED <<active, queued, terminal>>
    BY <2>1, RegistryKept
  <2>2. ASSUME request[r] # None, NEW s \in Terminal,
               Complete(Attempt(r), request[r].generation, s)
        PROVE  MInv' /\ OutcomesKept
    <3> DEFINE j == ProjectOf[Attempt(r)]
    <3>1. j \in Projects
      BY <2>2, HandlerShape DEF IInv
    <3>2. CASE Holds(Attempt(r), request[r].generation)
      <4>1. active[j] # None /\ active[j].attempt = Attempt(r)
        BY <2>2, <3>2, HandlerShape, NoneAssumption DEF Holds, Run, Runs, IInv
      <4> QED BY <2>2, <3>1, <3>2, <4>1, HolderEnds DEF Complete, FreeSlot
    <3>3. CASE ~Holds(Attempt(r), request[r].generation)
      BY <2>1, <2>2, <3>3 DEF Complete
    <3> QED BY <3>2, <3>3
  <2>3. ASSUME request[r] # None, Release(Attempt(r), request[r].generation)
        PROVE  MInv' /\ OutcomesKept
    <3> DEFINE j == ProjectOf[Attempt(r)]
    <3>1. j \in Projects
      BY <2>3, HandlerShape DEF IInv
    <3>2. CASE Holds(Attempt(r), request[r].generation)
      <4>1. active[j] # None /\ active[j].attempt = Attempt(r)
        BY <2>3, <3>2, HandlerShape, NoneAssumption DEF Holds, Run, Runs, IInv
      <4> QED BY <2>3, <3>1, <3>2, <4>1, HolderReleased DEF Release, FreeSlot
    <3>3. CASE ~Holds(Attempt(r), request[r].generation)
      BY <2>1, <2>3, <3>3 DEF Release
    <3> QED BY <3>2, <3>3
  <2>4. CASE MaterializeProposal(r)
    BY <2>2, <2>4 DEF MaterializeProposal, At, Terminal
  <2>5. CASE Unwind(r)
    <3>1. request[r] # None /\ request[r].status \in Terminal \cup {None}
      BY <2>5, HandlerShape DEF Unwind, At, IInv
    <3> QED BY <2>2, <2>3, <2>5, <3>1 DEF Unwind
  <2>6. CASE ProviderAnswers(r) \/ ProviderFails(r) \/ ObserveCancel(r) \/ RejectAnswer(r)
             \/ Disconnect(r)
    BY <2>1, <2>6 DEF ProviderAnswers, ProviderFails, ObserveCancel, RejectAnswer, Disconnect,
       attempts
  <2> QED BY <1>7, <2>4, <2>5, <2>6 DEF Generate
<1>8. CASE Restart
  <2>1. terminal' = << >> /\ queued' = {} /\ \A j \in Projects : active'[j] = None
    BY <1>8 DEF Restart
  <2>2. Remembered' = {}
    BY <2>1 DEF Remembered
  <2> QED BY <2>1, <2>2, AttemptsAssumption DEF MInv, OutcomesOK, EndedStaysEnded, OutcomesKept
<1>9. ASSUME NEW b \in Bindings, PutCredential(b) PROVE MInv' /\ OutcomesKept
  BY <1>9, RegistryKept DEF PutCredential, attempts
<1>10. CASE ClearCredential
  BY <1>10, RegistryKept DEF ClearCredential, attempts
<1>11. CASE UNCHANGED vars
  BY <1>11, RegistryKept DEF vars, attempts
<1> QED BY <1>1, <1>2, <1>3, <1>4, <1>5, <1>6, <1>7, <1>8, <1>9, <1>10, <1>11 DEF Next

LEMMA MemoryInvariance == Spec => [](IInv /\ MInv)
<1>1. Init => MInv
  BY AttemptsAssumption DEF Init, MInv, OutcomesOK, EndedStaysEnded, Remembered
<1> QED BY <1>1, InitInv, NextInv, MemoryStep, PTL DEF Spec

-----------------------------------------------------------------------------
(* Theorems about what is remembered.                                       *)

\* Every reachable state of the registry, the Store and the requests is well
\* formed, with one outcome per attempt and no more than the memory holds.
THEOREM TypeCorrect == Spec => []TypeOK
<1>1. IInv /\ MInv => TypeOK
  BY DEF IInv, MInv, TypeOK
<1> QED BY <1>1, MemoryInvariance, PTL

\* An attempt with an outcome is neither running nor queued, although a guard
\* that is dropped late releases and completes by the attempt's name.
THEOREM EndedAttemptsStayEnded == Spec => []EndedStaysEnded
<1>1. MInv => EndedStaysEnded
  BY DEF MInv
<1> QED BY <1>1, MemoryInvariance, PTL

\* While it is remembered an outcome never changes.
THEOREM OutcomesAreFinal == Spec => OutcomeIsFinal
<1>1. IInv /\ MInv /\ [Next]_vars =>
        [\A i \in DOMAIN terminal :
           \A k \in DOMAIN terminal' :
             terminal'[k].attempt = terminal[i].attempt => terminal'[k] = terminal[i]]_vars
  BY MemoryStep DEF OutcomesKept
<1> QED BY <1>1, MemoryInvariance, PTL DEF Spec, OutcomeIsFinal

-----------------------------------------------------------------------------
(* What a run relies on while its provider works.                           *)

\* What request r relies on, about its project and its context.
Relies(r) ==
  /\ ProjectOf[Attempt(r)] \in exists
  /\ proposal[ProjectOf[Attempt(r)]] = None
  /\ request[r].context \in contexts
  /\ request[r].context.revision = revision[ProjectOf[Attempt(r)]]

\* The project of an uncancelled run has its slot taken.
LEMMA SlotTaken ==
  ASSUME IInv, NEW r \in Requests, Uncancelled(r)
  PROVE  active[ProjectOf[Attempt(r)]] # None
<1>1. Run(Attempt(r), request[r].generation) \in Runs
  BY HandlerShape DEF Uncancelled, IInv, Run, Runs
<1> QED BY <1>1, NoneAssumption DEF IInv, Owned, Holds, Uncancelled

\* A step that leaves every project with a taken slot, and its contexts, alone.
LEMMA ReliesKept ==
  ASSUME IInv, RunKeepsItsContext,
         \A r \in Requests : Uncancelled(r)' =>
           Uncancelled(r) /\ request'[r].context = request[r].context,
         \A j \in Projects : active[j] # None /\ j \in exists /\ proposal[j] = None =>
           /\ j \in exists' /\ proposal'[j] = None /\ revision'[j] = revision[j]
           /\ \A c \in contexts : ProjectOf[c.attempt] = j => c \in contexts'
  PROVE  RunKeepsItsContext'
<1> SUFFICES ASSUME NEW r \in Requests, Uncancelled(r)'
             PROVE  Relies(r)'
  BY DEF RunKeepsItsContext, Relies
<1>1. Uncancelled(r) /\ request'[r].context = request[r].context
  OBVIOUS
<1>2. active[ProjectOf[Attempt(r)]] # None /\ ProjectOf[Attempt(r)] \in Projects
  BY <1>1, SlotTaken, HandlerShape DEF Uncancelled, IInv
<1>3. Relies(r)
  BY <1>1 DEF RunKeepsItsContext, Relies
<1> QED BY <1>1, <1>2, <1>3 DEF Relies, Attempt

\* Requests that end, move to another stage or are cancelled rely on nothing new.
LEMMA HandlersOnly ==
  ASSUME IInv, RunKeepsItsContext, UNCHANGED <<exists, proposal, revision>>,
         contexts \subseteq contexts', cancelled \subseteq cancelled',
         \A r \in Requests : request'[r] # None =>
           /\ request[r] # None
           /\ request'[r].context = request[r].context
           /\ request'[r].generation = request[r].generation
  PROVE  RunKeepsItsContext'
BY ReliesKept DEF Uncancelled

LEMMA ContextStep == IInv /\ RunKeepsItsContext /\ [Next]_vars => RunKeepsItsContext'
<1> SUFFICES ASSUME IInv, RunKeepsItsContext, [Next]_vars PROVE RunKeepsItsContext'
  OBVIOUS
<1>0. request \in [Requests -> Handlers \cup {None}]
  BY DEF IInv, RunsOK
<1>1. ASSUME NEW a \in Attempts, NEW b \in Bindings \cup {None}, CreateContext(a, b)
      PROVE  RunKeepsItsContext'
  BY <1>1, HandlersOnly DEF CreateContext, project
<1>2. ASSUME NEW a \in Attempts, CancelRunning(a) \/ CancelQueued(a)
      PROVE  RunKeepsItsContext'
  BY <1>2, HandlersOnly DEF CancelRunning, CancelQueued, project
<1>3. ASSUME NEW b \in Bindings, PutCredential(b) PROVE RunKeepsItsContext'
  BY <1>3, HandlersOnly DEF PutCredential, project, attempts
<1>4. CASE ClearCredential
  BY <1>4, HandlersOnly DEF ClearCredential, project, attempts
<1>5. ASSUME NEW j \in Projects, EndReview(j) PROVE RunKeepsItsContext'
  <2>1. proposal[j] # None /\ UNCHANGED <<exists, contexts, request, cancelled>>
    BY <1>5 DEF EndReview, attempts
  <2>2. \A k \in Projects : k # j => proposal'[k] = proposal[k] /\ revision'[k] = revision[k]
    BY <1>5 DEF EndReview, IInv, StoreOK
  <2> QED BY <2>1, <2>2, ReliesKept DEF Uncancelled
<1>6. ASSUME NEW j \in Projects, ClearContexts(j) PROVE RunKeepsItsContext'
  BY <1>6, ReliesKept DEF ClearContexts, project, Uncancelled
<1>7. ASSUME NEW j \in Projects, DeleteProject(j) PROVE RunKeepsItsContext'
  <2>1. active[j] = None /\ UNCHANGED <<revision, request, cancelled>> /\ exists' = exists \ {j}
        /\ contexts' = {c \in contexts : ProjectOf[c.attempt] # j}
    BY <1>7 DEF DeleteProject
  <2>2. \A k \in Projects : k # j => proposal'[k] = proposal[k]
    BY <1>7 DEF DeleteProject, IInv, StoreOK
  <2> QED BY <2>1, <2>2, ReliesKept DEF Uncancelled
<1>8. ASSUME NEW r \in Requests, NEW c \in contexts, Claim(r, c) PROVE RunKeepsItsContext'
  <2>1. UNCHANGED <<exists, proposal, revision, contexts, cancelled>>
    BY <1>8 DEF Claim, project
  <2> SUFFICES ASSUME NEW q \in Requests, Uncancelled(q)' PROVE Relies(q)'
    BY DEF RunKeepsItsContext, Relies
  <2>2. CASE q = r
    <3>1. request'[q].context = c
      BY <1>0, <1>8, <2>2 DEF Claim
    <3> QED BY <1>8, <2>1, <3>1 DEF Claim, Usable, Relies, Attempt
  <2>3. CASE q # r
    <3>1. request'[q] = request[q]
      BY <1>0, <1>8, <2>3 DEF Claim
    <3> QED BY <2>1, <3>1 DEF Uncancelled, RunKeepsItsContext, Relies, Attempt
  <2> QED BY <2>2, <2>3
<1>9. ASSUME NEW r \in Requests, MaterializeProposal(r) PROVE RunKeepsItsContext'
  <2>1. /\ UNCHANGED <<exists, revision, contexts, cancelled>> /\ Uncancelled(r)
        /\ request' = [request EXCEPT ![r] = None]
        /\ proposal' = [proposal EXCEPT ![ProjectOf[Attempt(r)]] = revision[ProjectOf[Attempt(r)]]]
    BY <1>9 DEF MaterializeProposal, At, Uncancelled
  <2> SUFFICES ASSUME NEW q \in Requests, Uncancelled(q)' PROVE Relies(q)'
    BY DEF RunKeepsItsContext, Relies
  <2>2. q # r /\ request'[q] = request[q] /\ Uncancelled(q)
    BY <1>0, <2>1 DEF Uncancelled
  <2>3. ProjectOf[Attempt(q)] # ProjectOf[Attempt(r)] /\ ProjectOf[Attempt(q)] \in Projects
    BY <2>1, <2>2, SlotsKept, HandlerShape DEF RunKeepsItsSlot, Uncancelled, IInv
  <2>4. proposal'[ProjectOf[Attempt(q)]] = proposal[ProjectOf[Attempt(q)]]
    BY <2>1, <2>3 DEF IInv, StoreOK
  <2> QED BY <2>1, <2>2, <2>4 DEF RunKeepsItsContext, Relies, Attempt
<1>10. ASSUME NEW r \in Requests, Unwind(r) PROVE RunKeepsItsContext'
  <2>1. request' = [request EXCEPT ![r] = None]
        /\ UNCHANGED <<exists, proposal, revision, contexts, cancelled>>
    BY <1>10 DEF Unwind, project
  <2>2. \A q \in Requests : request'[q] # None => request'[q] = request[q]
    BY <1>0, <2>1
  <2> QED BY <2>1, <2>2, HandlersOnly
<1>11. ASSUME NEW r \in Requests, ProviderAnswers(r) \/ ProviderFails(r) PROVE RunKeepsItsContext'
  <2>1. request[r] # None /\ UNCHANGED <<exists, proposal, revision, contexts, cancelled>>
    BY <1>11 DEF ProviderAnswers, ProviderFails, At, project, attempts
  <2>2. PICK s \in {"answered", "unwinding"}, o \in Terminal :
          request' = [request EXCEPT ![r].stage = s, ![r].status = o]
    BY <1>11 DEF ProviderAnswers, ProviderFails, Terminal
  <2> QED BY <2>1, <2>2, StageType, HandlersOnly
<1>12. ASSUME NEW r \in Requests, ObserveCancel(r) \/ RejectAnswer(r) \/ Disconnect(r)
       PROVE  RunKeepsItsContext'
  <2>1. request[r] # None /\ Stage(r, "unwinding")
        /\ UNCHANGED <<exists, proposal, revision, contexts, cancelled>>
    BY <1>12 DEF ObserveCancel, RejectAnswer, Disconnect, At, project, attempts
  <2> QED BY <2>1, StageOnlyType, HandlersOnly
<1>13. CASE Restart
  BY <1>13 DEF Restart, RunKeepsItsContext, Uncancelled
<1>14. CASE UNCHANGED vars
  BY <1>14, HandlersOnly DEF vars, project, attempts
<1> QED BY <1>1, <1>2, <1>3, <1>4, <1>5, <1>6, <1>7, <1>8, <1>9, <1>10, <1>11, <1>12, <1>13, <1>14
        DEF Next, Generate

\* While a provider works for a run that was not cancelled, its project, its
\* context and the Accepted revision it was asked about stay as they are.
THEOREM RunsKeepTheirContext == Spec => []RunKeepsItsContext
<1>1. Init => RunKeepsItsContext
  BY DEF Init, RunKeepsItsContext, Uncancelled
<1> QED BY <1>1, Invariance, ContextStep, PTL DEF Spec

\* A run that was not cancelled keeps its slot, its project, its context and the
\* Accepted revision it was claimed for, whatever comes between its two
\* critical sections.
THEOREM RunsKeepTheirHold == Spec => []RunKeepsItsHold
<1>1. RunKeepsItsSlot /\ RunKeepsItsContext => RunKeepsItsHold
  BY DEF RunKeepsItsHold
<1> QED BY <1>1, RunsKeepTheirSlot, RunsKeepTheirContext, PTL

\* An attempt ends once: it is neither queued nor running again, and its
\* outcome stays what it was while it is remembered.
THEOREM AttemptsEndOnce == Spec => EndedIsFinal
BY EndedAttemptsStayEnded, OutcomesAreFinal, PTL DEF EndedIsFinal
=============================================================================
