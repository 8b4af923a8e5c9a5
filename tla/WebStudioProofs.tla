---------------------------- MODULE WebStudioProofs ----------------------------
(***************************************************************************)
(* Theorems about the web studio.  StudioPage, for any attempts, any number *)
(* of tasks under way and any number of faults: what the page at rest       *)
(* shows, that one Decision is under way at a time, and that a Proposal     *)
(* that may have been decided is not offered again.  At the end             *)
(* NameAutosave: the name shown is stored, and no save is blind.            *)
(***************************************************************************)
EXTENDS StudioPage, NameAutosave, FiniteSetTheorems, SequenceTheorems,
        WellFoundedInduction, TLAPS

-----------------------------------------------------------------------------
(* The inductive invariant, in parts.  First the types. *)

Statuses == {"new", "queued", "running", "cancelled", "proposal_ready", "provider_failed",
             "released"}
AllTasks ==
  [kind : Kinds, attempt : Attempts, run : Nat, revision : Nat, wants : SUBSET Requests,
   error : Errors \cup {None}, status : Statuses \cup {None},
   project : Projections \cup {None}, review : Reviews \cup {None}, early : BOOLEAN]

Shape ==
  /\ revision \in Nat /\ review \in Reviews \cup {None} /\ attempts \in [Attempts -> Statuses]
  /\ project \in Projections /\ context \in Attempts \cup {None}
  /\ proposal \in Attempts \cup {None} /\ operation \in Operations \cup {None}
  /\ locked \in BOOLEAN /\ run \in Nat /\ faults \in Nat
  /\ knownDecided \subseteq Attempts /\ unsure \subseteq Attempts /\ overlapped \in BOOLEAN
  /\ tasks \in [Tasks -> AllTasks \cup {NoTask}]

\* Then what holds whatever begins while something else is under way.
Ready(a) == attempts[a] = "proposal_ready"

\* The requests of a task.
Sends(kind, q) ==
  \/ kind = "context" /\ q = "context"
  \/ kind = "generate" /\ q \in {"generate", "provider"}
  \/ kind = "cancel" /\ q = "cancel"
  \/ kind = "observe" /\ q \in {"status", "project"}
  \/ kind = "restore" /\ q = "review"
  \/ kind = "reconcile" /\ q = "reconcile"
  \/ kind = "decide" /\ q = "decide"
  \/ kind \in {"after_restore", "after_reconcile", "after_decision"} /\ q = "project"

Answered(k) == k.wants = {} /\ k.error = None

\* What a task k knows of its attempt.
Sound(k) ==
  /\ \A q \in k.wants : Sends(k.kind, q)
  /\ "generate" \notin k.wants \/ "provider" \notin k.wants
  /\ k.run <= run
  /\ k.error # None => k.wants = {}
  /\ k.kind \in {"observe", "after_restore", "after_reconcile", "after_decision"} =>
       k.error # None \/ "project" \in k.wants \/ k.project # None
  /\ k.kind \in {"restore", "after_restore", "reconcile", "after_reconcile", "decide",
                 "after_decision"} => Ready(k.attempt)
  /\ IF k.kind = "context" /\ k.wants # {} THEN attempts[k.attempt] = "new"
     ELSE k.kind # "context" \/ Answered(k) => attempts[k.attempt] # "new"
  /\ k.kind = "generate" /\ Answered(k) => Ready(k.attempt)
  /\ k.kind = "cancel" /\ Answered(k) => attempts[k.attempt] = "cancelled"
  /\ k.project # None /\ k.project.review # None => Ready(k.project.review.attempt)
  /\ Answered(k) /\ (k.kind = "decide" \/ (k.kind \in {"restore", "reconcile"} /\ k.review = None))
       => review = None \/ review.attempt # k.attempt

Known ==
  /\ \A a, b \in Attempts : attempts[a] = "running" /\ attempts[b] = "running" => a = b
  /\ \A a \in Attempts : attempts[a] = "running" => review = None
  /\ review # None => Ready(review.attempt)
  /\ proposal # None => Ready(proposal)
  /\ context # None => attempts[context] # "new"
  /\ project.review # None => Ready(project.review.attempt)
  /\ \A a \in unsure : Ready(a)
  /\ \A a \in knownDecided : Ready(a) /\ (review = None \/ review.attempt # a)

\* Unless a second operation has begun while one was under way: the operation that is
\* shown is that of one task,
Owner(k) ==
  \/ k.kind \in {"context", "restore", "reconcile", "decide", "after_decision"}
  \/ k.kind = "generate" /\ k.run = run

Owns(k) ==
  /\ k.kind = "context" => operation = "assembling_context"
  /\ k.kind = "generate" /\ k.run = run => operation = "generating_proposal"
  /\ k.kind = "restore" => operation = "restoring_review"
  /\ k.kind = "reconcile" => operation = "reconciling_review"
  /\ k.kind = "decide" => operation = "committing_decision"
  /\ k.kind = "after_decision" => operation = "refreshing_project"
  /\ Owner(k) => ~k.early

\* and the tasks that wait beside it are about the context of the run, or over.
Beside(k) ==
  /\ k.kind = "generate" /\ k.run = run => k.attempt = context
  /\ k.kind \in {"cancel", "observe"} /\ k.run = run =>
       IF operation = "generating_proposal" THEN k.attempt = context ELSE Ready(k.attempt)
  /\ operation # "generating_proposal" => k.attempt # context
  /\ k.kind = "context" /\ Answered(k) => attempts[k.attempt] = "queued"
  /\ k.kind \in {"restore", "reconcile"} /\ k.review # None => k.attempt \notin knownDecided

Apart(k, l) ==
  /\ ~(Owner(k) /\ Owner(l))
  /\ k.kind = "context" => l.attempt # k.attempt
  /\ k.kind = "generate" /\ l.kind = "generate" => l.attempt # k.attempt

Orderly ==
  /\ context # None =>
       /\ context \notin knownDecided \cup unsure
       /\ operation # "generating_proposal" => attempts[context] = "queued"
  /\ operation = "generating_proposal" =>
       /\ context # None
       /\ \E t \in Tasks : Live(t) /\ tasks[t].kind = "generate" /\ tasks[t].run = run
  /\ proposal \in knownDecided \cup unsure => locked \/ operation = "refreshing_project"

\* Unless an answer was lost too: what the answers of a task say of the server,
Fresh(k) ==
  /\ k.kind \notin {"after_restore", "reconcile", "after_reconcile"}
  /\ k.error \in {None, "refused", "cancelled"}
  /\ k.kind = "restore" =>
       /\ k.error = None /\ review # None /\ review.attempt = k.attempt
       /\ k.wants = {} => k.review = review
  /\ k.kind = "after_decision" => k.error = None /\ (k.wants = {} => k.project = Projection)
  /\ k.kind = "decide" => k.error \in {None, "refused"}
  /\ k.kind = "cancel" /\ k.error # None => Ready(k.attempt)
  /\ k.kind = "observe" =>
       /\ k.error = None /\ Ready(k.attempt)
       /\ "status" \notin k.wants => k.status = "proposal_ready"
       /\ k.run = run /\ operation = "generating_proposal" /\ "project" \notin k.wants =>
            k.project = Projection
  /\ k.kind = "generate" /\ k.run # run => attempts[k.attempt] \notin {"queued", "running"}
  /\ k.kind = "generate" /\ k.run = run /\ (k.error # None \/ "generate" \in k.wants) =>
       ~Ready(k.attempt)

\* and what the page shows of it.
Deciding(t) ==
  Live(t) /\ (tasks[t].kind = "after_decision" \/ (tasks[t].kind = "decide" /\ Answered(tasks[t])))

InStep ==
  /\ ~locked
  /\ \A a \in Attempts : attempts[a] \notin {"provider_failed", "released"}
  /\ review # None => ~review.unsettled
  /\ project.review # None => ~project.review.unsettled
  /\ \/ \E t \in Tasks : Deciding(t)
     \/ /\ project.revision = revision
        /\ project.review # None => review # None /\ review.attempt = project.review.attempt
  /\ operation = "generating_proposal" /\ Ready(context) =>
       review # None /\ review.attempt = context
  /\ review # None =>
       \/ proposal = review.attempt
       \/ project.review # None /\ project.review.attempt = review.attempt
       \/ operation = "generating_proposal" /\ context = review.attempt

AInv ==
  /\ \A t \in Tasks : Live(t) => Sound(tasks[t])
  /\ \A t, u \in Tasks :
       /\ Live(t) /\ Live(u) /\ t # u
       /\ tasks[t].kind = "context" /\ tasks[u].kind = "context"
       => tasks[t].attempt # tasks[u].attempt
BInv ==
  ~overlapped =>
    /\ Orderly
    /\ \A t \in Tasks : Live(t) => Owns(tasks[t]) /\ Beside(tasks[t])
    /\ \A t, u \in Tasks : Live(t) /\ Live(u) /\ t # u => Apart(tasks[t], tasks[u])
CInv ==
  ~overlapped /\ faults = 0 => InStep /\ \A t \in Tasks : Live(t) => Fresh(tasks[t])

IInv == Shape /\ Known /\ AInv /\ BInv /\ CInv

-----------------------------------------------------------------------------
(* How the tasks change: task t becomes k. *)

Turn(t, k) == tasks'[t] = k /\ \A u \in Tasks : u # t => tasks'[u] = tasks[u]

\* Serving a request changes what is wanted and what was answered.
Same(t, k) ==
  /\ k \in AllTasks /\ k.kind = tasks[t].kind /\ k.attempt = tasks[t].attempt
  /\ k.run = tasks[t].run /\ k.revision = tasks[t].revision /\ k.early = tasks[t].early
SameAnswers(t, k) ==
  k.status = tasks[t].status /\ k.project = tasks[t].project /\ k.review = tasks[t].review

TasksOK == tasks \in [Tasks -> AllTasks \cup {NoTask}]

LEMMA TaskFacts ==
  ASSUME NEW k \in AllTasks
  PROVE  /\ k # NoTask /\ k.kind \in Kinds /\ k.attempt \in Attempts /\ k.run \in Nat
         /\ k.revision \in Nat /\ k.wants \subseteq Requests /\ k.error \in Errors \cup {None}
         /\ k.project \in Projections \cup {None} /\ k.review \in Reviews \cup {None}
  <1>1. k.kind \in Kinds
    BY DEF AllTasks
  <1>2. NoTask.kind = None
    BY DEF NoTask
  <1> QED
    BY <1>1, <1>2, NoneAssumption DEF AllTasks

LEMMA LiveTask ==
  ASSUME TasksOK, NEW t \in Tasks
  PROVE  Live(t) <=> tasks[t] \in AllTasks
  BY TaskFacts DEF TasksOK, Live

LEMMA NewTask ==
  ASSUME TasksOK, NEW t \in Tasks, NEW k \in AllTasks \cup {NoTask},
         tasks' = [tasks EXCEPT ![t] = k]
  PROVE  Turn(t, k) /\ TasksOK'
  BY DEF TasksOK, Turn

LEMMA ServingNothing ==
  ASSUME TasksOK, NEW t \in Tasks, Live(t), NEW q, AnswerNothing(t, q)
  PROVE  \E k : /\ Turn(t, k) /\ TasksOK' /\ Same(t, k)
                /\ SameAnswers(t, k)
                /\ k.wants = tasks[t].wants \ {q} /\ k.error = tasks[t].error
  <1> DEFINE k == [tasks[t] EXCEPT !.wants = @ \ {q}]
  <1>1. tasks' = [tasks EXCEPT ![t] = k]
    BY DEF AnswerNothing
  <1>2. tasks[t] \in AllTasks
    BY LiveTask
  <1>3. /\ Same(t, k)
        /\ SameAnswers(t, k)
        /\ k.wants = tasks[t].wants \ {q} /\ k.error = tasks[t].error
    BY <1>2 DEF AllTasks, Same, SameAnswers
  <1> HIDE DEF k
  <1> QED
    BY <1>1, <1>3, NewTask DEF Same

LEMMA ServingStatus ==
  ASSUME TasksOK, NEW t \in Tasks, Live(t), NEW q, NEW v \in Statuses, Answer(t, q, "status", v)
  PROVE  \E k : /\ Turn(t, k) /\ TasksOK' /\ Same(t, k)
                /\ k.status = v /\ k.project = tasks[t].project /\ k.review = tasks[t].review
                /\ k.wants = tasks[t].wants \ {q} /\ k.error = tasks[t].error
  <1> DEFINE k == [tasks[t] EXCEPT !.wants = @ \ {q}, !.status = v]
  <1>1. tasks' = [tasks EXCEPT ![t] = k]
    BY DEF Answer
  <1>2. tasks[t] \in AllTasks
    BY LiveTask
  <1>3. /\ Same(t, k)
        /\ k.status = v /\ k.project = tasks[t].project /\ k.review = tasks[t].review
        /\ k.wants = tasks[t].wants \ {q} /\ k.error = tasks[t].error
    BY <1>2 DEF AllTasks, Same
  <1> HIDE DEF k
  <1> QED
    BY <1>1, <1>3, NewTask DEF Same

LEMMA ServingProject ==
  ASSUME TasksOK, NEW t \in Tasks, Live(t), NEW q, NEW v \in Projections, Answer(t, q, "project", v)
  PROVE  \E k : /\ Turn(t, k) /\ TasksOK' /\ Same(t, k)
                /\ k.project = v /\ k.status = tasks[t].status /\ k.review = tasks[t].review
                /\ k.wants = tasks[t].wants \ {q} /\ k.error = tasks[t].error
  <1> DEFINE k == [tasks[t] EXCEPT !.wants = @ \ {q}, !.project = v]
  <1>1. tasks' = [tasks EXCEPT ![t] = k]
    BY DEF Answer
  <1>2. tasks[t] \in AllTasks
    BY LiveTask
  <1>3. /\ Same(t, k)
        /\ k.project = v /\ k.status = tasks[t].status /\ k.review = tasks[t].review
        /\ k.wants = tasks[t].wants \ {q} /\ k.error = tasks[t].error
    BY <1>2 DEF AllTasks, Same
  <1> HIDE DEF k
  <1> QED
    BY <1>1, <1>3, NewTask DEF Same

LEMMA ServingReview ==
  ASSUME TasksOK, NEW t \in Tasks, Live(t), NEW q, NEW v \in Reviews \cup {None}, Answer(t, q, "review", v)
  PROVE  \E k : /\ Turn(t, k) /\ TasksOK' /\ Same(t, k)
                /\ k.review = v /\ k.status = tasks[t].status /\ k.project = tasks[t].project
                /\ k.wants = tasks[t].wants \ {q} /\ k.error = tasks[t].error
  <1> DEFINE k == [tasks[t] EXCEPT !.wants = @ \ {q}, !.review = v]
  <1>1. tasks' = [tasks EXCEPT ![t] = k]
    BY DEF Answer
  <1>2. tasks[t] \in AllTasks
    BY LiveTask
  <1>3. /\ Same(t, k)
        /\ k.review = v /\ k.status = tasks[t].status /\ k.project = tasks[t].project
        /\ k.wants = tasks[t].wants \ {q} /\ k.error = tasks[t].error
    BY <1>2 DEF AllTasks, Same
  <1> HIDE DEF k
  <1> QED
    BY <1>1, <1>3, NewTask DEF Same

LEMMA Refusing ==
  ASSUME TasksOK, NEW t \in Tasks, Live(t), NEW e \in Errors, Refuse(t, e)
  PROVE  \E k : /\ Turn(t, k) /\ TasksOK' /\ Same(t, k)
                /\ SameAnswers(t, k) /\ k.wants = {} /\ k.error = e
  <1> DEFINE k == [tasks[t] EXCEPT !.wants = {}, !.error = e]
  <1>1. tasks' = [tasks EXCEPT ![t] = k]
    BY DEF Refuse
  <1>2. tasks[t] \in AllTasks
    BY LiveTask
  <1>3. /\ Same(t, k)
        /\ SameAnswers(t, k) /\ k.wants = {} /\ k.error = e
    BY <1>2 DEF AllTasks, Same, SameAnswers
  <1> HIDE DEF k
  <1> QED
    BY <1>1, <1>3, NewTask DEF Same

LEMMA Ending ==
  ASSUME TasksOK, NEW t \in Tasks, End(t)
  PROVE  Turn(t, NoTask) /\ TasksOK'
  BY NewTask DEF End

\* A task that goes on as `kind`.
Goes(t, k, kind, wants) ==
  /\ k \in AllTasks /\ SameAnswers(t, k)
  /\ k.kind = kind /\ k.attempt = tasks[t].attempt /\ k.run = tasks[t].run
  /\ k.wants = wants /\ k.error = None /\ k.early = FALSE

LEMMA Continuing ==
  ASSUME TasksOK, NEW t \in Tasks, Live(t), NEW kind \in Kinds, NEW wants \in SUBSET Requests,
         Continue(t, kind, wants)
  PROVE  \E k : Turn(t, k) /\ TasksOK' /\ Goes(t, k, kind, wants)
  <1> DEFINE k == [tasks[t] EXCEPT !.kind = kind, !.wants = wants, !.error = None, !.early = FALSE]
  <1>1. tasks' = [tasks EXCEPT ![t] = k]
    BY DEF Continue
  <1>2. tasks[t] \in AllTasks
    BY LiveTask
  <1>3. k \in AllTasks /\ Goes(t, k, kind, wants)
    BY <1>2 DEF AllTasks, SameAnswers, Goes
  <1> HIDE DEF k
  <1> QED
    BY <1>1, <1>3, NewTask

\* A task just begun.
New(k, kind, a, wants) ==
  /\ k \in AllTasks /\ k.kind = kind /\ k.attempt = a /\ k.wants = wants
  /\ k.error = None /\ k.project = None /\ k.review = None /\ k.early = FALSE

LEMMA NewTasks ==
  ASSUME Shape, NEW kind \in Kinds, NEW a \in Attempts, NEW wants \in SUBSET Requests
  PROVE  New(Task(kind, a, wants), kind, a, wants) /\ Task(kind, a, wants).run = run
  <1>1. project.revision \in Nat /\ run \in Nat
    BY DEF Shape, Projections
  <1>2. Task(kind, a, wants) \in AllTasks
    BY <1>1 DEF Task, AllTasks
  <1>3. /\ Task(kind, a, wants).kind = kind /\ Task(kind, a, wants).attempt = a
        /\ Task(kind, a, wants).wants = wants /\ Task(kind, a, wants).error = None
        /\ Task(kind, a, wants).project = None /\ Task(kind, a, wants).review = None
        /\ Task(kind, a, wants).early = FALSE /\ Task(kind, a, wants).run = run
    BY DEF Task
  <1> QED
    BY <1>2, <1>3 DEF New

LEMMA Starting ==
  ASSUME Shape, NEW t \in Tasks, NEW kind \in Kinds, NEW a \in Attempts,
         NEW wants \in SUBSET Requests, NEW op, Start(t, kind, a, wants, op)
  PROVE  \E k : /\ Turn(t, k) /\ TasksOK' /\ New(k, kind, a, wants) /\ k.run = run
                /\ ~Live(t) /\ operation' = op
  <1> DEFINE k == Task(kind, a, wants)
  <1>1. New(k, kind, a, wants) /\ k.run = run /\ k \in AllTasks
    <2>1. New(k, kind, a, wants) /\ k.run = run
      BY NewTasks
    <2> QED
      BY <2>1 DEF New
  <1>2. tasks' = [tasks EXCEPT ![t] = k] /\ ~Live(t) /\ operation' = op /\ TasksOK
    BY DEF Start, Shape, TasksOK
  <1>3. Turn(t, k) /\ TasksOK'
    <2> HIDE DEF k
    <2> QED
      BY <1>1, <1>2, NewTask
  <1> QED
    BY <1>1, <1>2, <1>3

-----------------------------------------------------------------------------
(* What the server did stays done. *)

Later ==
  /\ run \in Nat /\ run' \in Nat /\ run <= run'
  /\ \A a \in Attempts : Ready(a) =>
       Ready(a)' /\ (review = None \/ review.attempt # a => review' = None \/ review'.attempt # a)
  /\ \A a \in Attempts : attempts[a] = "cancelled" => attempts'[a] = "cancelled"
  /\ \A a \in Attempts : attempts[a] # "new" => attempts'[a] # "new"

LEMMA SoundLater ==
  ASSUME Later, NEW k \in AllTasks, Sound(k),
         k.kind = "context" /\ attempts[k.attempt] = "new" => attempts'[k.attempt] = "new"
  PROVE  Sound(k)'
  <1>1. /\ k.attempt \in Attempts /\ k.run \in Nat
        /\ k.project # None /\ k.project.review # None => k.project.review.attempt \in Attempts
    BY TaskFacts DEF Projections, Reviews
  <1>2. (\A q \in k.wants : Sends(k.kind, q))'
    BY DEF Sound, Sends
  <1>3. Answered(k)' <=> Answered(k)
    BY DEF Answered
  <1> QED
    BY <1>1, <1>2, <1>3 DEF Later, Sound, Ready

LEMMA AllSound ==
  ASSUME TasksOK, TasksOK', AInv, Later, NEW t \in Tasks, NEW k, Turn(t, k),
         k # NoTask => Sound(k)',
         k # NoTask /\ k.kind = "context" =>
           IF Live(t) THEN tasks[t].kind = "context" /\ tasks[t].attempt = k.attempt
           ELSE \A u \in Tasks : Live(u) => tasks[u].attempt # k.attempt,
         \A a \in Attempts : attempts[a] = "new" /\ attempts'[a] # "new" =>
           Live(t) /\ tasks[t].kind = "context" /\ tasks[t].attempt = a
  PROVE  AInv'
  <1>1. ASSUME NEW u \in Tasks, Live(u)' PROVE Sound(tasks[u])'
    <2>1. PICK j : j = tasks'[u]
      OBVIOUS
    <2>2. Sound(j)'
      <3>1. CASE u = t
        BY <2>1, <3>1, <1>1 DEF Turn, Live
      <3>2. CASE u # t
        <4>1. tasks[u] = j /\ Live(u)
          BY <2>1, <3>2, <1>1 DEF Turn, Live
        <4>2. j \in AllTasks /\ j.attempt \in Attempts
          BY <4>1, LiveTask, TaskFacts
        <4>3. Sound(j)
          BY <4>1 DEF AInv
        <4>4. j.kind = "context" /\ attempts[j.attempt] = "new" => attempts'[j.attempt] = "new"
          BY <4>1, <4>2, <3>2 DEF AInv
        <4> QED
          BY <4>2, <4>3, <4>4, SoundLater
      <3> QED
        BY <3>1, <3>2
    <2> QED
      BY <2>1, <2>2 DEF Sound, Answered, Sends, Ready
  <1>2. ASSUME NEW u \in Tasks, NEW v \in Tasks, Live(u)', Live(v)', u # v,
               tasks'[u].kind = "context", tasks'[v].kind = "context"
        PROVE  tasks'[u].attempt # tasks'[v].attempt
    <2>1. /\ u # t => tasks'[u] = tasks[u] /\ Live(u)
          /\ v # t => tasks'[v] = tasks[v] /\ Live(v)
      BY <1>2 DEF Turn, Live
    <2>2. CASE u = t
      BY <2>1, <2>2, <1>2 DEF Turn, Live, AInv
    <2>3. CASE v = t
      BY <2>1, <2>3, <1>2 DEF Turn, Live, AInv
    <2>4. CASE u # t /\ v # t
      BY <2>1, <2>4, <1>2 DEF AInv
    <2> QED
      BY <2>2, <2>3, <2>4
  <1> QED
    BY <1>1, <1>2 DEF AInv

-----------------------------------------------------------------------------
(* One operation at a time: t becomes k, and j is another task. *)

Other(t, j) == \E u \in Tasks : u # t /\ Live(u) /\ tasks[u] = j

LEMMA Others ==
  ASSUME IInv, NEW t \in Tasks, NEW j, Other(t, j)
  PROVE  /\ j \in AllTasks /\ Sound(j) /\ j.run \in Nat /\ j.attempt \in Attempts
         /\ ~overlapped => /\ Owns(j) /\ Beside(j)
                           /\ Live(t) => Apart(j, tasks[t]) /\ Apart(tasks[t], j)
         /\ ~overlapped /\ faults = 0 => Fresh(j)
  <1>1. PICK u \in Tasks : u # t /\ Live(u) /\ tasks[u] = j
    BY DEF Other
  <1>2. TasksOK
    BY DEF IInv, Shape, TasksOK
  <1> QED
    BY <1>1, <1>2, LiveTask, TaskFacts DEF IInv, AInv, BInv, CInv

LEMMA OrderKeeps ==
  ASSUME IInv, ~overlapped, NEW t \in Tasks, NEW k, Turn(t, k), Later, Orderly',
         k # NoTask => /\ Owns(k)' /\ Beside(k)'
                       /\ \A j : Other(t, j) => Apart(j, k)' /\ Apart(k, j)',
         \A j : Other(t, j) => Owns(j)' /\ Beside(j)'
  PROVE  BInv'
  <1>1. ASSUME NEW u \in Tasks, Live(u)', NEW j, j = tasks'[u]
        PROVE  (u = t /\ j = k /\ k # NoTask) \/ (u # t /\ Live(u) /\ j = tasks[u] /\ Other(t, j))
    BY <1>1 DEF Turn, Live, Other
  <1>2. ASSUME NEW u \in Tasks, Live(u)' PROVE (Owns(tasks[u]) /\ Beside(tasks[u]))'
    <2>1. PICK j : j = tasks'[u]
      OBVIOUS
    <2>2. Owns(j)' /\ Beside(j)'
      BY <1>1, <1>2, <2>1
    <2> QED
      BY <2>1, <2>2 DEF Owns, Beside, Owner, Answered, Ready
  <1>3. ASSUME NEW u \in Tasks, NEW v \in Tasks, Live(u)', Live(v)', u # v
        PROVE  Apart(tasks[u], tasks[v])'
    <2>1. PICK j : j = tasks'[u]
      OBVIOUS
    <2>2. PICK l : l = tasks'[v]
      OBVIOUS
    <2>3. /\ (u = t /\ j = k /\ k # NoTask) \/ (u # t /\ Live(u) /\ j = tasks[u] /\ Other(t, j))
          /\ (v = t /\ l = k /\ k # NoTask) \/ (v # t /\ Live(v) /\ l = tasks[v] /\ Other(t, l))
      BY <1>1, <1>3, <2>1, <2>2
    <2>4. Apart(j, l)'
      <3>1. CASE u = t
        BY <2>3, <3>1, <1>3
      <3>2. CASE v = t
        BY <2>3, <3>2, <1>3
      <3>3. CASE u # t /\ v # t
        <4>1. Apart(j, l)
          BY <2>3, <3>3, <1>3 DEF IInv, BInv
        <4>2. j.run <= run /\ l.run <= run /\ j.run \in Nat /\ l.run \in Nat
          BY <2>3, <3>3, Others DEF Sound
        <4> QED
          BY <4>1, <4>2 DEF Apart, Owner, Later
      <3> QED
        BY <3>1, <3>2, <3>3
    <2> QED
      BY <2>1, <2>2, <2>4 DEF Apart, Owner
  <1> QED
    BY <1>2, <1>3 DEF BInv

\* Nobody else has the operation.
Alone(t) == \A j : Other(t, j) => ~Owner(j)

LEMMA OwnersAlone ==
  ASSUME IInv, ~overlapped, NEW t \in Tasks, operation = None \/ (Live(t) /\ Owner(tasks[t]))
  PROVE  Alone(t)
  <1> SUFFICES ASSUME NEW j, Other(t, j), Owner(j) PROVE FALSE
    BY DEF Alone
  <1>1. Owns(j) /\ (Live(t) => Apart(j, tasks[t]))
    BY Others
  <1>2. operation # None
    BY <1>1, NoneAssumption DEF Owns, Owner, Operations
  <1> QED
    BY <1>1, <1>2 DEF Apart

-----------------------------------------------------------------------------
(* The server serves a request of t, whose task becomes k. *)

Served(t, k) ==
  /\ t \in Tasks /\ Live(t) /\ Turn(t, k) /\ TasksOK' /\ Same(t, k)
  /\ UNCHANGED <<pageVars, told>>
  /\ faults' \in Nat /\ faults <= faults'
  /\ \A a \in Attempts : attempts'[a] = attempts[a] \/ (a = tasks[t].attempt /\ attempts'[a] # "new")

LEMMA ServedFacts ==
  ASSUME IInv, NEW t, NEW k, Served(t, k)
  PROVE  /\ tasks[t] \in AllTasks /\ k \in AllTasks /\ k # NoTask /\ k.attempt \in Attempts
         /\ k.run \in Nat /\ Sound(tasks[t])
         /\ ~overlapped => Owns(tasks[t]) /\ Beside(tasks[t])
         /\ ~overlapped /\ faults = 0 => Fresh(tasks[t])
  <1>1. TasksOK
    BY DEF IInv, Shape, TasksOK
  <1> QED
    BY <1>1, LiveTask, TaskFacts DEF Served, Same, IInv, AInv, BInv, CInv

LEMMA ServedShape ==
  ASSUME IInv, NEW t, NEW k, Served(t, k), revision' \in Nat, review' \in Reviews \cup {None},
         attempts' \in [Attempts -> Statuses]
  PROVE  Shape'
  BY DEF IInv, Shape, Served, TasksOK, pageVars, told

LEMMA ServedSound ==
  ASSUME IInv, NEW t, NEW k, Served(t, k), Later, Sound(k)',
         tasks[t].kind # "context" => \A a \in Attempts : attempts[a] = "new" => attempts'[a] = "new"
  PROVE  AInv'
  <1>1. TasksOK /\ TasksOK' /\ AInv
    BY DEF IInv, Shape, TasksOK, Served
  <1>2. t \in Tasks /\ Live(t) /\ k.kind = tasks[t].kind /\ k.attempt = tasks[t].attempt /\ Turn(t, k)
    BY DEF Served, Same
  <1>3. \A a \in Attempts : attempts[a] = "new" /\ attempts'[a] # "new" =>
           Live(t) /\ tasks[t].kind = "context" /\ tasks[t].attempt = a
    BY <1>2 DEF Served
  <1> QED
    BY <1>1, <1>2, <1>3, AllSound

LEMMA ServedOrder ==
  ASSUME IInv, NEW t, NEW k, Served(t, k), Later,
         ~overlapped /\ k.kind = "context" /\ Answered(k) => attempts'[k.attempt] = "queued",
         ~overlapped /\ k.kind \in {"restore", "reconcile"} /\ k.review # None =>
           k.attempt \notin knownDecided
  PROVE  BInv'
  <1> SUFFICES ASSUME ~overlapped PROVE BInv'
    BY DEF BInv, Served, told
  <1>1. /\ Owns(tasks[t]) /\ Beside(tasks[t]) /\ tasks[t] \in AllTasks /\ k.attempt \in Attempts
        /\ k.run \in Nat
    BY ServedFacts
  <1>2. /\ run' = run /\ operation' = operation /\ context' = context /\ locked' = locked
        /\ proposal' = proposal /\ knownDecided' = knownDecided /\ unsure' = unsure
    BY DEF Served, pageVars, told
  <1>3. Owns(k)' /\ Beside(k)'
    <2>1. Owns(k)'
      BY <1>1, <1>2 DEF Owns, Owner, Served, Same
    <2>2. Beside(k)'
      BY <1>1, <1>2 DEF Beside, Served, Same, Later, Ready, Answered
    <2> QED
      BY <2>1, <2>2
  <1>4. ASSUME NEW j, Other(t, j) PROVE Owns(j)' /\ Beside(j)' /\ Apart(j, k)' /\ Apart(k, j)'
    <2>1. Owns(j) /\ Beside(j) /\ Apart(j, tasks[t]) /\ Apart(tasks[t], j) /\ j.attempt \in Attempts
      BY <1>4, Others DEF Served
    <2>2. Owns(j)' /\ Apart(j, k)' /\ Apart(k, j)'
      BY <2>1, <1>1, <1>2 DEF Owns, Owner, Apart, Served, Same
    <2>3. Beside(j)'
      BY <2>1, <1>1, <1>2 DEF Beside, Served, Same, Later, Ready, Answered, Apart
    <2> QED
      BY <2>2, <2>3
  <1>5. Orderly'
    <2>1. Orderly /\ context \in Attempts \cup {None}
      BY DEF IInv, BInv, Shape
    <2>2. context # None /\ operation # "generating_proposal" => attempts'[context] = "queued"
      BY <2>1, <1>1 DEF Orderly, Served, Beside
    <2>3. ASSUME operation = "generating_proposal"
          PROVE  \E u \in Tasks : Live(u)' /\ tasks'[u].kind = "generate" /\ tasks'[u].run = run
      <3>1. PICK u \in Tasks : Live(u) /\ tasks[u].kind = "generate" /\ tasks[u].run = run
        BY <2>1, <2>3 DEF Orderly
      <3>2. tasks'[u] # NoTask /\ tasks'[u].kind = "generate" /\ tasks'[u].run = run
        BY <3>1, ServedFacts DEF Served, Same, Turn, Live
      <3> QED
        BY <3>2 DEF Live
    <2> QED
      BY <2>1, <2>2, <2>3, <1>2 DEF Orderly
  <1>6. Turn(t, k) /\ t \in Tasks
    BY DEF Served
  <1> QED
    BY <1>3, <1>4, <1>5, <1>6, OrderKeeps

LEMMA FreshTasks ==
  ASSUME IInv, TasksOK', NEW t \in Tasks, NEW k, Turn(t, k), InStep', k # NoTask => Fresh(k)',
         \A j : Other(t, j) => Fresh(j)'
  PROVE  CInv'
  <1> SUFFICES ASSUME NEW u \in Tasks, Live(u)' PROVE Fresh(tasks[u])'
    BY DEF CInv
  <1>1. PICK j : j = tasks'[u]
    OBVIOUS
  <1>2. Fresh(j)'
    BY <1>1 DEF Turn, Live, Other
  <1> QED
    BY <1>1, <1>2 DEF Fresh, Projection, Ready

LEMMA ServedFresh ==
  ASSUME IInv, NEW t, NEW k, Served(t, k),
         ~overlapped /\ faults = 0 /\ faults' = 0 =>
            InStep' /\ Fresh(k)' /\ \A j : Other(t, j) => Fresh(j)'
  PROVE  CInv'
  <1> SUFFICES ASSUME ~overlapped, faults' = 0 PROVE CInv'
    BY DEF CInv, Served, told
  <1>1. faults = 0
    BY DEF IInv, Shape, Served
  <1> QED
    BY <1>1, FreshTasks DEF Served

LEMMA DecidingKeeps ==
  ASSUME IInv, NEW t, NEW k, Served(t, k),
         k.kind = "decide" /\ Answered(tasks[t]) => Answered(k)
  PROVE  \A u \in Tasks : Deciding(u) => Deciding(u)'
  <1> SUFFICES ASSUME NEW u \in Tasks, Deciding(u) PROVE Deciding(u)'
    OBVIOUS
  <1>1. CASE u = t
    BY <1>1, ServedFacts DEF Deciding, Served, Same, Turn, Live, Answered
  <1>2. CASE u # t
    BY <1>2 DEF Deciding, Served, Turn, Live, Answered
  <1> QED
    BY <1>1, <1>2

\* A request that is only read for.
LEMMA QuietStep ==
  ASSUME IInv, NEW t, NEW k, Served(t, k), UNCHANGED serverVars, Sound(k)',
         ~overlapped /\ k.kind = "context" /\ Answered(k) => attempts[k.attempt] = "queued",
         ~overlapped /\ k.kind \in {"restore", "reconcile"} /\ k.review # None =>
           k.attempt \notin knownDecided,
         ~overlapped /\ faults = 0 /\ faults' = 0 =>
           Fresh(k)' /\ (k.kind = "decide" /\ Answered(tasks[t]) => Answered(k))
  PROVE  IInv'
  <1>1. Later
    BY DEF Later, Ready, serverVars, Served, pageVars, IInv, Shape
  <1>2. /\ run' = run /\ operation' = operation /\ context' = context /\ locked' = locked
        /\ proposal' = proposal /\ knownDecided' = knownDecided /\ unsure' = unsure
        /\ project' = project /\ attempts' = attempts /\ review' = review /\ revision' = revision
        /\ overlapped' = overlapped
    BY DEF Served, pageVars, told, serverVars
  <1>3. Shape'
    BY <1>2, ServedShape DEF IInv, Shape
  <1>4. Known'
    BY <1>2 DEF IInv, Known, Ready
  <1>5. AInv'
    BY <1>1, <1>2, ServedSound
  <1>6. BInv'
    BY <1>1, <1>2, ServedOrder
  <1>7. CInv'
    <2> SUFFICES ASSUME ~overlapped, faults = 0, faults' = 0
                 PROVE  InStep' /\ Fresh(k)' /\ \A j : Other(t, j) => Fresh(j)'
      BY ServedFresh
    <2>1. ASSUME NEW j, Other(t, j) PROVE Fresh(j)'
      <3>1. Fresh(j)
        BY <2>1, Others DEF Served
      <3> QED
        BY <3>1, <1>2 DEF Fresh, Projection, Ready
    <2>2. \A u \in Tasks : Deciding(u) => Deciding(u)'
      BY DecidingKeeps
    <2>3. InStep
      BY DEF IInv, CInv
    <2>4. InStep'
      BY <1>2, <2>2, <2>3 DEF InStep, Ready
    <2> QED
      BY <2>1, <2>4
  <1> QED
    BY <1>3, <1>4, <1>5, <1>6, <1>7 DEF IInv

LEMMA AskedFacts ==
  ASSUME IInv, NEW t \in Tasks, NEW q, Asked(t, q)
  PROVE  /\ Live(t) /\ TasksOK /\ tasks[t] \in AllTasks /\ tasks[t].attempt \in Attempts
         /\ q \in tasks[t].wants /\ Sends(tasks[t].kind, q) /\ tasks[t].error = None
         /\ Sound(tasks[t])
         /\ ~overlapped => Owns(tasks[t]) /\ Beside(tasks[t])
         /\ ~overlapped /\ faults = 0 => Fresh(tasks[t])
  <1>1. TasksOK /\ Live(t) /\ q \in tasks[t].wants
    BY DEF IInv, Shape, TasksOK, Asked
  <1>2. Sound(tasks[t])
    BY <1>1 DEF IInv, AInv
  <1> QED
    BY <1>1, <1>2, LiveTask, TaskFacts DEF Sound, IInv, BInv, CInv

LEMMA ServedBy ==
  ASSUME IInv, NEW t \in Tasks, Live(t), NEW k, Turn(t, k), TasksOK', Same(t, k),
         UNCHANGED <<pageVars, told>>, faults' \in {faults, faults + 1},
         \/ UNCHANGED attempts
         \/ \E v : v # "new" /\ attempts' = [attempts EXCEPT ![tasks[t].attempt] = v]
  PROVE  Served(t, k)
  BY DEF Served, IInv, Shape

LEMMA RefusedSound ==
  ASSUME IInv, NEW t, NEW k, Served(t, k), Later, SameAnswers(t, k), k.wants = {}, k.error # None
  PROVE  Sound(k)'
  <1>1. Sound(tasks[t]) /\ k.attempt \in Attempts /\ tasks[t] \in AllTasks
    BY ServedFacts
  <1>2. tasks[t].project # None /\ tasks[t].project.review # None =>
          tasks[t].project.review.attempt \in Attempts
    BY <1>1, TaskFacts DEF Projections, Reviews
  <1> QED
    BY <1>1, <1>2 DEF Sound, Served, Same, SameAnswers, Later, Ready, Answered, pageVars

LEMMA StillSends ==
  ASSUME IInv, NEW t, NEW k, Served(t, k), k.wants \subseteq tasks[t].wants
  PROVE  (\A q \in k.wants : Sends(k.kind, q))'
  BY ServedFacts DEF Sound, Sends, Served, Same

LEMMA GetAiAttemptStatusKeeps ==
  ASSUME IInv, NEW t \in Tasks, GetAiAttemptStatus(t)
  PROVE  IInv'
  <1>1. Asked(t, "status") /\ UNCHANGED <<serverVars, pageVars, told>> /\ faults' = faults
    BY DEF GetAiAttemptStatus
  <1>2. /\ Live(t) /\ TasksOK /\ tasks[t] \in AllTasks /\ tasks[t].attempt \in Attempts
        /\ tasks[t].kind = "observe" /\ tasks[t].error = None /\ Sound(tasks[t])
        /\ ~overlapped /\ faults = 0 => Fresh(tasks[t])
    BY <1>1, AskedFacts DEF Sends
  <1>3. attempts[tasks[t].attempt] \in Statuses
    BY <1>2 DEF IInv, Shape
  <1>4. PICK k : /\ Turn(t, k) /\ TasksOK' /\ Same(t, k)
                 /\ \/ /\ k.error = "refused" /\ k.wants = {} /\ SameAnswers(t, k)
                       /\ attempts[tasks[t].attempt] = "released"
                    \/ /\ k.error = None /\ k.wants = tasks[t].wants \ {"status"}
                       /\ k.project = tasks[t].project /\ k.review = tasks[t].review
                       /\ k.status = attempts[tasks[t].attempt]
    <2>1. CASE attempts[tasks[t].attempt] = "released"
      BY <1>2, <2>1, Refusing DEF GetAiAttemptStatus, Errors
    <2>2. CASE attempts[tasks[t].attempt] # "released"
      BY <1>2, <1>3, <2>2, ServingStatus DEF GetAiAttemptStatus
    <2> QED
      BY <2>1, <2>2
  <1>5. Served(t, k)
    BY <1>1, <1>2, <1>4, ServedBy DEF serverVars
  <1>6. Later
    BY <1>1 DEF Later, Ready, serverVars, pageVars, IInv, Shape
  <1>7. Sound(k)'
    <2>1. CASE k.error = None
      BY <1>1, <1>2, <1>4, <1>5, <2>1, StillSends, NoneAssumption
      DEF Sound, Same, Ready, Answered, serverVars, pageVars, Errors
    <2>2. CASE k.error # None
      BY <1>4, <1>5, <1>6, <2>2, RefusedSound
    <2> QED
      BY <2>1, <2>2
  <1>8. ~overlapped /\ faults = 0 => Fresh(k)'
    BY <1>1, <1>2, <1>4 DEF Fresh, Same, SameAnswers, Ready, Projection, serverVars, pageVars
  <1>9. k.kind = "observe"
    BY <1>2, <1>4 DEF Same
  <1> QED
    BY <1>1, <1>5, <1>7, <1>8, <1>9, QuietStep

LEMMA GetProjectKeeps ==
  ASSUME IInv, NEW t \in Tasks, GetProject(t)
  PROVE  IInv'
  <1>1. Asked(t, "project") /\ UNCHANGED <<serverVars, pageVars, told>> /\ faults' = faults
    BY DEF GetProject
  <1>2. /\ Live(t) /\ TasksOK /\ tasks[t] \in AllTasks /\ tasks[t].attempt \in Attempts
        /\ tasks[t].kind \in {"observe", "after_restore", "after_reconcile", "after_decision"}
        /\ tasks[t].error = None /\ Sound(tasks[t])
        /\ ~overlapped /\ faults = 0 => Fresh(tasks[t])
    BY <1>1, AskedFacts DEF Sends
  <1>3. Projection \in Projections /\ Projection.review = review
    BY DEF IInv, Shape, Projection, Projections
  <1>4. PICK k : /\ Turn(t, k) /\ TasksOK' /\ Same(t, k) /\ k.project = Projection
                 /\ k.error = None /\ k.wants = tasks[t].wants \ {"project"}
                 /\ k.status = tasks[t].status /\ k.review = tasks[t].review
    BY <1>2, <1>3, ServingProject DEF GetProject
  <1>5. Served(t, k)
    BY <1>1, <1>2, <1>4, ServedBy DEF serverVars
  <1>6. Sound(k)'
    <2>1. k.project # None /\ (k.project.review # None => Ready(k.project.review.attempt))
      BY <1>3, <1>4, NoneAssumption DEF IInv, Known
    <2> QED
      BY <1>1, <1>2, <1>4, <1>5, <2>1, StillSends
      DEF Sound, Same, Ready, Answered, serverVars, pageVars
  <1>7. ~overlapped /\ faults = 0 => Fresh(k)'
    BY <1>1, <1>2, <1>4 DEF Fresh, Same, Ready, Projection, serverVars, pageVars
  <1>8. k.kind \in {"observe", "after_restore", "after_reconcile", "after_decision"}
    BY <1>2, <1>4 DEF Same
  <1> QED
    BY <1>1, <1>5, <1>6, <1>7, <1>8, QuietStep

LEMMA GetReviewKeeps ==
  ASSUME IInv, NEW t \in Tasks, GetReview(t)
  PROVE  IInv'
  <1>1. Asked(t, "review") /\ UNCHANGED <<serverVars, pageVars, told>> /\ faults' = faults
    BY DEF GetReview
  <1>2. /\ Live(t) /\ TasksOK /\ tasks[t] \in AllTasks /\ tasks[t].attempt \in Attempts
        /\ tasks[t].kind = "restore" /\ tasks[t].error = None /\ Sound(tasks[t])
        /\ ~overlapped /\ faults = 0 => Fresh(tasks[t])
    BY <1>1, AskedFacts DEF Sends
  <1>3. ReviewOf(tasks[t].attempt) \in Reviews \cup {None}
    BY DEF IInv, Shape, ReviewOf
  <1>4. PICK k : /\ Turn(t, k) /\ TasksOK' /\ Same(t, k) /\ k.review = ReviewOf(tasks[t].attempt)
                 /\ k.error = None /\ k.wants = tasks[t].wants \ {"review"}
                 /\ k.status = tasks[t].status /\ k.project = tasks[t].project
    BY <1>2, <1>3, ServingReview DEF GetReview
  <1>5. Served(t, k)
    BY <1>1, <1>2, <1>4, ServedBy DEF serverVars
  <1>6. Sound(k)'
    BY <1>1, <1>2, <1>4, <1>5, StillSends
    DEF Sound, Same, Ready, Answered, serverVars, pageVars, ReviewOf
  <1>7. ~overlapped /\ faults = 0 => Fresh(k)'
    BY <1>1, <1>2, <1>4 DEF Fresh, Same, Ready, Projection, serverVars, pageVars, ReviewOf
  <1>8. k.kind = "restore" /\ (k.review # None => k.attempt \notin knownDecided)
    BY <1>2, <1>4 DEF Same, ReviewOf, IInv, Known
  <1> QED
    BY <1>1, <1>5, <1>6, <1>7, <1>8, QuietStep

\* A request that is refused, or an answer that is lost.
LEMMA RefusedKeeps ==
  ASSUME IInv, NEW t \in Tasks, Live(t), NEW e \in Errors, Refuse(t, e),
         UNCHANGED <<serverVars, pageVars, told>>, faults' \in {faults, faults + 1},
         ~overlapped /\ faults = 0 /\ faults' = 0 =>
           /\ ~(tasks[t].kind = "decide" /\ Answered(tasks[t]))
           /\ \A k : Same(t, k) /\ SameAnswers(t, k) /\ k.wants = {} /\ k.error = e => Fresh(k)'
  PROVE  IInv'
  <1>1. TasksOK /\ (~overlapped => Beside(tasks[t]))
    BY DEF IInv, Shape, TasksOK, BInv
  <1>2. PICK k : Turn(t, k) /\ TasksOK' /\ Same(t, k) /\ SameAnswers(t, k) /\ k.wants = {} /\ k.error = e
    BY <1>1, Refusing
  <1>3. Served(t, k)
    BY <1>2, ServedBy DEF serverVars
  <1>4. Later
    BY DEF Later, Ready, serverVars, pageVars, IInv, Shape
  <1>5. k.error # None
    BY <1>2, NoneAssumption DEF Errors
  <1>6. Sound(k)'
    BY <1>2, <1>3, <1>4, <1>5, RefusedSound
  <1>7. /\ ~Answered(k)
        /\ ~overlapped /\ k.kind \in {"restore", "reconcile"} /\ k.review # None => k.attempt \notin knownDecided
    BY <1>1, <1>2, <1>5 DEF Same, SameAnswers, Beside, Answered
  <1>8. ~overlapped /\ faults = 0 /\ faults' = 0 =>
          Fresh(k)' /\ (k.kind = "decide" /\ Answered(tasks[t]) => Answered(k))
    BY <1>2 DEF Same
  <1>9. UNCHANGED serverVars
    OBVIOUS
  <1> QED
    BY <1>3, <1>6, <1>7, <1>8, <1>9, QuietStep

LEMMA LoseAnswerKeeps ==
  ASSUME IInv, NEW t \in Tasks, LoseAnswer(t)
  PROVE  IInv'
  <1>1. Live(t) /\ UNCHANGED <<serverVars, pageVars, told>> /\ faults' = faults + 1
        /\ Refuse(t, "lost") /\ faults \in Nat
    BY DEF LoseAnswer, IInv, Shape
  <1>2. ~(faults = 0 /\ faults' = 0) /\ faults' \in {faults, faults + 1} /\ "lost" \in Errors
    BY <1>1 DEF Errors
  <1> QED
    BY <1>1, <1>2, RefusedKeeps

LEMMA CreateContextKeeps ==
  ASSUME IInv, NEW t \in Tasks, CreateContext(t)
  PROVE  IInv'
  <1>1. Asked(t, "context") /\ UNCHANGED <<revision, review, decided, pageVars, faults, told>>
    BY DEF CreateContext
  <1>2. /\ Live(t) /\ TasksOK /\ tasks[t] \in AllTasks /\ tasks[t].attempt \in Attempts
        /\ tasks[t].kind = "context" /\ tasks[t].error = None /\ Sound(tasks[t])
        /\ "context" \in tasks[t].wants /\ attempts[tasks[t].attempt] = "new"
        /\ ~overlapped => Beside(tasks[t])
        /\ ~overlapped /\ faults = 0 => Fresh(tasks[t])
    <2>1. Sound(tasks[t]) /\ tasks[t].kind = "context" /\ "context" \in tasks[t].wants
      BY <1>1, AskedFacts DEF Sends
    <2> QED
      BY <1>1, <2>1, AskedFacts DEF Sound
  <1>3. CASE tasks[t].revision # revision
    <2>1. /\ Refuse(t, "refused") /\ UNCHANGED <<serverVars, pageVars, told>>
          /\ faults' \in {faults, faults + 1} /\ "refused" \in Errors
      BY <1>1, <1>3 DEF CreateContext, serverVars, Errors
    <2>2. ASSUME ~overlapped, faults = 0, NEW k, Same(t, k), k.error = "refused"
          PROVE  Fresh(k)'
      BY <1>2, <2>2 DEF Fresh, Same
    <2> QED
      BY <1>2, <2>1, <2>2, RefusedKeeps
  <1>4. CASE tasks[t].revision = revision
    <2>1. /\ attempts' = [attempts EXCEPT ![tasks[t].attempt] = "queued"]
          /\ AnswerNothing(t, "context")
      BY <1>4 DEF CreateContext
    <2>2. PICK k : /\ Turn(t, k) /\ TasksOK' /\ Same(t, k) /\ SameAnswers(t, k)
                   /\ k.wants = tasks[t].wants \ {"context"} /\ k.error = tasks[t].error
      BY <1>2, <2>1, ServingNothing
    <2>3. Served(t, k)
      BY <1>1, <1>2, <2>1, <2>2, ServedBy
    <2>4. /\ run' = run /\ operation' = operation /\ context' = context /\ locked' = locked
          /\ proposal' = proposal /\ knownDecided' = knownDecided /\ unsure' = unsure
          /\ project' = project /\ review' = review /\ revision' = revision
          /\ overlapped' = overlapped
      BY <1>1 DEF pageVars, told
    <2>5. /\ attempts \in [Attempts -> Statuses] /\ attempts' \in [Attempts -> Statuses]
          /\ attempts'[tasks[t].attempt] = "queued"
          /\ \A a \in Attempts : a # tasks[t].attempt => attempts'[a] = attempts[a]
      BY <1>2, <2>1 DEF IInv, Shape, Statuses
    <2>6. Later
      BY <1>2, <2>4, <2>5 DEF Later, Ready, IInv, Shape
    <2>7. k.wants = {} /\ k.kind = "context" /\ k.error = None /\ k.attempt = tasks[t].attempt
      BY <1>2, <2>2 DEF Sound, Sends, Same
    <2>8. Sound(k)'
      BY <1>2, <2>2, <2>4, <2>5, <2>7, TaskFacts
      DEF Sound, Same, SameAnswers, Ready, Answered, Projections, Reviews
    <2>9. Shape'
      BY <2>3, <2>4, <2>5, ServedShape DEF IInv, Shape
    <2>10. Known'
      BY <1>2, <2>4, <2>5 DEF IInv, Known, Ready, Shape, Reviews, Projections
    <2>11. AInv'
      BY <1>2, <2>3, <2>6, <2>8, ServedSound
    <2>12. BInv'
      BY <2>3, <2>5, <2>6, <2>7, ServedOrder
    <2>13. CInv'
      <3> SUFFICES ASSUME ~overlapped, faults = 0, faults' = 0
                   PROVE  InStep' /\ Fresh(k)' /\ \A j : Other(t, j) => Fresh(j)'
        BY <2>3, ServedFresh
      <3>1. Fresh(k)'
        BY <2>7, NoneAssumption DEF Fresh
      <3>2. ASSUME NEW j, Other(t, j) PROVE Fresh(j)'
        <4>1. Fresh(j) /\ Apart(tasks[t], j) /\ j.attempt \in Attempts
          BY <3>2, <1>2, Others
        <4> QED
          BY <4>1, <1>2, <2>4, <2>5 DEF Fresh, Projection, Ready, Apart
      <3>3. InStep /\ context \in Attempts \cup {None} /\ (operation = "generating_proposal" => context # None)
        BY DEF IInv, CInv, Shape, BInv, Orderly
      <3>4. InStep'
        BY <2>3, <2>4, <2>5, <2>7, <3>3, DecidingKeeps DEF InStep, Ready
      <3> QED
        BY <3>1, <3>2, <3>4
    <2> QED
      BY <2>9, <2>10, <2>11, <2>12, <2>13 DEF IInv
  <1> QED
    BY <1>3, <1>4

LEMMA ClaimAttemptKeeps ==
  ASSUME IInv, NEW t \in Tasks, ClaimAttempt(t)
  PROVE  IInv'
  <1> DEFINE a == tasks[t].attempt
  <1>1. Asked(t, "generate") /\ UNCHANGED <<revision, review, decided, pageVars, faults, told>>
    BY DEF ClaimAttempt
  <1>2. /\ Live(t) /\ TasksOK /\ tasks[t] \in AllTasks /\ a \in Attempts
        /\ tasks[t].kind = "generate" /\ tasks[t].error = None /\ Sound(tasks[t])
        /\ "generate" \in tasks[t].wants
        /\ ~overlapped => Owns(tasks[t]) /\ Beside(tasks[t])
        /\ ~overlapped /\ faults = 0 => Fresh(tasks[t])
    BY <1>1, AskedFacts DEF Sends
  <1>3. CASE Refuse(t, "refused") /\ UNCHANGED attempts
    <2>1. UNCHANGED <<serverVars, pageVars, told>> /\ faults' \in {faults, faults + 1} /\ "refused" \in Errors
      BY <1>1, <1>3 DEF serverVars, Errors
    <2>2. ASSUME ~overlapped, faults = 0, NEW k, Same(t, k), k.wants = {}, k.error = "refused"
          PROVE  Fresh(k)'
      BY <1>1, <1>2, <1>3, <2>2 DEF Fresh, Same, pageVars, Ready
    <2> QED
      BY <1>2, <1>3, <2>1, <2>2, RefusedKeeps
  <1>4. CASE /\ attempts[a] = "queued" /\ review = None /\ \A b \in Attempts : attempts[b] # "running"
             /\ attempts' = [attempts EXCEPT ![a] = "running"]
             /\ tasks' = [tasks EXCEPT ![t].wants = {"provider"}]
    <2>1. PICK k : /\ Turn(t, k) /\ TasksOK' /\ Same(t, k) /\ SameAnswers(t, k)
                   /\ k.wants = {"provider"} /\ k.error = None
      <3> DEFINE k == [tasks[t] EXCEPT !.wants = {"provider"}]
      <3>1. tasks' = [tasks EXCEPT ![t] = k]
        BY <1>4
      <3>2. Same(t, k) /\ SameAnswers(t, k) /\ k.wants = {"provider"} /\ k.error = None
        BY <1>2 DEF AllTasks, Same, SameAnswers, Requests
      <3> HIDE DEF k
      <3> QED
        BY <1>2, <3>1, <3>2, NewTask DEF Same
    <2>2. Served(t, k) /\ k.kind = "generate" /\ k.attempt = a /\ k.run = tasks[t].run
      BY <1>1, <1>2, <1>4, <2>1, ServedBy DEF Same
    <2>3. /\ run' = run /\ operation' = operation /\ context' = context /\ locked' = locked
          /\ proposal' = proposal /\ knownDecided' = knownDecided /\ unsure' = unsure
          /\ project' = project /\ review' = review /\ revision' = revision
          /\ overlapped' = overlapped
      BY <1>1 DEF pageVars, told
    <2>4. /\ attempts \in [Attempts -> Statuses] /\ attempts' \in [Attempts -> Statuses]
          /\ attempts'[a] = "running"
          /\ \A b \in Attempts : b # a => attempts'[b] = attempts[b]
      BY <1>2, <1>4 DEF IInv, Shape, Statuses
    <2> HIDE DEF a
    <2>5. Later
      BY <1>2, <1>4, <2>3, <2>4 DEF Later, Ready, IInv, Shape
    <2>6. Sound(k)'
      <3>1. (\A q \in k.wants : Sends(k.kind, q))'
        BY <2>1, <2>2 DEF Sends
      <3>2. Sound(tasks[t])
        BY <1>2
      <3> QED
        BY <3>1, <3>2, <1>2, <1>4, <2>1, <2>2, <2>3, <2>4, TaskFacts
        DEF Sound, SameAnswers, Ready, Answered, Projections, Reviews
    <2>7. Shape'
      BY <2>2, <2>3, <2>4, ServedShape DEF IInv, Shape
    <2>8. Known'
      BY <1>2, <1>4, <2>3, <2>4 DEF IInv, Known, Ready, Shape, Reviews, Projections
    <2>9. AInv'
      BY <1>2, <1>4, <2>2, <2>4, <2>5, <2>6, ServedSound
    <2>10. BInv'
      BY <2>2, <2>5, ServedOrder
    <2>11. CInv'
      <3> SUFFICES ASSUME ~overlapped, faults = 0, faults' = 0
                   PROVE  InStep' /\ Fresh(k)' /\ \A j : Other(t, j) => Fresh(j)'
        BY <2>2, ServedFresh
      <3>1. Fresh(k)'
        BY <1>2, <1>4, <2>1, <2>2, <2>3 DEF Fresh, a
      <3>2. ASSUME NEW j, Other(t, j) PROVE Fresh(j)'
        <4>1. Fresh(j) /\ Apart(tasks[t], j) /\ j.attempt \in Attempts
          BY <3>2, <1>2, Others
        <4> QED
          BY <4>1, <1>2, <1>4, <2>3, <2>4 DEF Fresh, Projection, Ready, Apart, a
      <3>3. InStep /\ context \in Attempts \cup {None} /\ (operation = "generating_proposal" => context # None)
        BY DEF IInv, CInv, Shape, BInv, Orderly
      <3>4. InStep'
        BY <1>4, <2>2, <2>3, <2>4, <3>3, DecidingKeeps DEF InStep, Ready
      <3> QED
        BY <3>1, <3>2, <3>4
    <2> QED
      BY <2>7, <2>8, <2>9, <2>10, <2>11 DEF IInv
  <1> QED
    BY <1>3, <1>4 DEF ClaimAttempt

LEMMA FinishAttemptKeeps ==
  ASSUME IInv, NEW t \in Tasks, FinishAttempt(t)
  PROVE  IInv'
  <1> DEFINE a == tasks[t].attempt
  <1>1. Asked(t, "provider") /\ UNCHANGED <<revision, decided, pageVars, told>>
    BY DEF FinishAttempt
  <1>2. /\ Live(t) /\ TasksOK /\ tasks[t] \in AllTasks /\ a \in Attempts
        /\ tasks[t].kind = "generate" /\ tasks[t].error = None /\ Sound(tasks[t])
        /\ "provider" \in tasks[t].wants
        /\ ~overlapped => Owns(tasks[t]) /\ Beside(tasks[t])
        /\ ~overlapped /\ faults = 0 => Fresh(tasks[t])
    BY <1>1, AskedFacts DEF Sends
  <1>3. CASE attempts[a] = "cancelled" /\ Refuse(t, "cancelled") /\ UNCHANGED <<review, attempts, faults>>
    <2>1. UNCHANGED <<serverVars, pageVars, told>> /\ faults' \in {faults, faults + 1} /\ "cancelled" \in Errors
      BY <1>1, <1>3 DEF serverVars, Errors
    <2>2. ASSUME ~overlapped, faults = 0, NEW k, Same(t, k), k.wants = {}, k.error = "cancelled"
          PROVE  Fresh(k)'
      BY <1>1, <1>2, <1>3, <2>2 DEF Fresh, Same, pageVars, Ready
    <2> QED
      BY <1>2, <1>3, <2>1, <2>2, RefusedKeeps
  <1>4. ASSUME attempts[a] = "running",
               NEW v, v \in {"proposal_ready", "provider_failed"},
               attempts' = [attempts EXCEPT ![a] = v],
               \/ /\ v = "proposal_ready" /\ review' = [attempt |-> a, unsettled |-> FALSE]
                  /\ AnswerNothing(t, "provider") /\ faults' = faults
               \/ v = "provider_failed" /\ Refuse(t, "refused") /\ faults' = faults + 1 /\ review' = review
        PROVE  IInv'
    <2>1. PICK k : /\ Turn(t, k) /\ TasksOK' /\ Same(t, k) /\ SameAnswers(t, k) /\ k.wants = {}
                   /\ IF v = "proposal_ready" THEN k.error = None ELSE k.error = "refused"
      <3>1. CASE v = "proposal_ready"
        <4>1. PICK k : /\ Turn(t, k) /\ TasksOK' /\ Same(t, k) /\ SameAnswers(t, k)
                       /\ k.wants = tasks[t].wants \ {"provider"} /\ k.error = tasks[t].error
          BY <1>2, <1>4, <3>1, ServingNothing
        <4>2. tasks[t].wants \ {"provider"} = {}
          BY <1>2 DEF Sound, Sends
        <4> QED
          BY <1>2, <3>1, <4>1, <4>2
      <3>2. CASE v = "provider_failed"
        BY <1>2, <1>4, <3>2, Refusing DEF Errors
      <3> QED
        BY <1>4, <3>1, <3>2
    <2>2. Served(t, k) /\ k.kind = "generate" /\ k.attempt = a /\ k.run = tasks[t].run
      BY <1>1, <1>2, <1>4, <2>1, ServedBy DEF Same
    <2>3. /\ run' = run /\ operation' = operation /\ context' = context /\ locked' = locked
          /\ proposal' = proposal /\ knownDecided' = knownDecided /\ unsure' = unsure
          /\ project' = project /\ revision' = revision /\ overlapped' = overlapped
      BY <1>1 DEF pageVars, told
    <2>4. /\ attempts \in [Attempts -> Statuses] /\ attempts' \in [Attempts -> Statuses]
          /\ attempts'[a] = v
          /\ \A b \in Attempts : b # a => attempts'[b] = attempts[b]
      BY <1>2, <1>4 DEF IInv, Shape, Statuses
    <2>5. /\ review = None
          /\ v = "proposal_ready" => /\ review' \in Reviews /\ review' # None /\ review'.attempt = a
                                     /\ ~review'.unsettled /\ faults' = faults
          /\ v # "proposal_ready" => review' = None /\ faults' = faults + 1
      <3>1. review = None
        BY <1>2, <1>4 DEF IInv, Known
      <3>2. [attempt |-> a, unsettled |-> FALSE] \in Reviews
        BY <1>2 DEF Reviews
      <3>3. None \notin Reviews
        BY NoneAssumption
      <3>4. ASSUME v = "proposal_ready" PROVE review'.attempt = a /\ ~review'.unsettled /\ faults' = faults
        BY <1>4, <3>4
      <3>5. ASSUME v = "proposal_ready" PROVE review' = [attempt |-> a, unsettled |-> FALSE]
        BY <1>4, <3>5
      <3>6. ASSUME v # "proposal_ready" PROVE review' = None /\ faults' = faults + 1
        BY <1>4, <3>1, <3>6
      <3> HIDE DEF a
      <3> QED
        BY <3>1, <3>2, <3>3, <3>4, <3>5, <3>6
    <2>6. \A b \in Attempts : attempts[b] = "running" => b = a
      BY <1>2, <1>4 DEF IInv, Known
    <2> HIDE DEF a
    <2>7. Later
      BY <1>2, <1>4, <2>3, <2>4, <2>5 DEF Later, Ready, IInv, Shape
    <2>8. Sound(k)'
      <3>1. CASE v = "proposal_ready"
        <4>1. (\A q \in k.wants : Sends(k.kind, q))'
          BY <2>1 DEF Sends
        <4>2. Sound(tasks[t])
          BY <1>2
        <4> QED
          BY <4>1, <4>2, <1>2, <1>4, <2>1, <2>2, <2>3, <2>4, <3>1, TaskFacts
          DEF Sound, SameAnswers, Ready, Answered, Projections, Reviews
      <3>2. CASE v # "proposal_ready"
        BY <2>1, <2>2, <2>7, <3>2, RefusedSound, NoneAssumption DEF Errors
      <3> QED
        BY <3>1, <3>2
    <2>9. Shape'
      BY <2>2, <2>3, <2>4, <2>5, ServedShape DEF IInv, Shape
    <2>10. Known'
      <3>1. \A b \in Attempts : attempts'[b] # "running"
        BY <1>4, <2>4, <2>6
      <3>2. \A b \in Attempts : Ready(b) => Ready(b)' /\ b # a
        BY <1>4, <2>4 DEF Ready
      <3>3. review' # None => attempts'[review'.attempt] = "proposal_ready"
        BY <1>2, <1>4, <2>4, <2>5
      <3>4. context' # None => attempts'[context'] # "new"
        BY <1>4, <2>3, <2>4 DEF IInv, Known, Shape
      <3> QED
        BY <3>1, <3>2, <3>3, <3>4, <2>3, <2>5 DEF IInv, Known, Ready, Shape, Reviews, Projections
    <2>11. AInv'
      BY <1>2, <1>4, <2>2, <2>4, <2>7, <2>8, ServedSound
    <2>12. BInv'
      BY <2>2, <2>7, ServedOrder
    <2>13. CInv'
      <3> SUFFICES ASSUME ~overlapped, faults = 0, faults' = 0
                   PROVE  InStep' /\ Fresh(k)' /\ \A j : Other(t, j) => Fresh(j)'
        BY <2>2, ServedFresh
      <3>1. v = "proposal_ready"
        BY <2>5
      <3>2. tasks[t].run = run /\ operation = "generating_proposal" /\ a = context /\ Owner(tasks[t])
        BY <1>2, <1>4 DEF Fresh, Owns, Beside, Owner, a
      <3>3. Fresh(k)'
        BY <1>2, <2>1, <2>2, <2>3, <3>1, <3>2 DEF Fresh
      <3>4. ASSUME NEW j, Other(t, j) PROVE Fresh(j)' /\ ~Owner(j)
        <4>1. Fresh(j) /\ Apart(tasks[t], j) /\ j.attempt \in Attempts /\ Beside(j)
          BY <3>4, <1>2, Others
        <4>2. ~Owner(j)
          BY <4>1, <3>2 DEF Apart
        <4>3. ~(j.kind = "observe" /\ j.run = run)
          BY <4>1, <3>2, <1>4 DEF Fresh, Beside, Ready
        <4> QED
          BY <4>1, <4>2, <4>3, <1>2, <1>4, <2>3, <2>4, <3>1
          DEF Fresh, Projection, Ready, Apart, Owner, a
      <3>5. InStep
        BY DEF IInv, CInv
      <3>6. ~\E u \in Tasks : Deciding(u)
        BY <3>4, <1>2 DEF Deciding, Other, Owner
      <3>7. project.revision = revision /\ project.review = None
        BY <2>5, <3>5, <3>6 DEF InStep
      <3>8. InStep'
        BY <2>3, <2>4, <2>5, <3>1, <3>2, <3>5, <3>7 DEF InStep, Ready
      <3> QED
        BY <3>3, <3>4, <3>8
    <2> QED
      BY <2>9, <2>10, <2>11, <2>12, <2>13 DEF IInv
  <1>5. CASE /\ attempts[a] = "running"
             /\ review' = [attempt |-> a, unsettled |-> FALSE]
             /\ attempts' = [attempts EXCEPT ![a] = "proposal_ready"]
             /\ AnswerNothing(t, "provider")
             /\ UNCHANGED faults
    BY <1>4, <1>5
  <1>6. CASE /\ attempts[a] = "running"
             /\ faults < MaxFaults
             /\ faults' = faults + 1
             /\ attempts' = [attempts EXCEPT ![a] = "provider_failed"]
             /\ Refuse(t, "refused")
             /\ UNCHANGED review
    BY <1>4, <1>6
  <1> QED
    BY <1>3, <1>5, <1>6 DEF FinishAttempt

LEMMA CancelAiAttemptKeeps ==
  ASSUME IInv, NEW t \in Tasks, CancelAiAttempt(t)
  PROVE  IInv'
  <1> DEFINE a == tasks[t].attempt
  <1>1. Asked(t, "cancel") /\ UNCHANGED <<revision, review, decided, pageVars, faults, told>>
    BY DEF CancelAiAttempt
  <1>2. /\ Live(t) /\ TasksOK /\ tasks[t] \in AllTasks /\ a \in Attempts
        /\ tasks[t].kind = "cancel" /\ tasks[t].error = None /\ Sound(tasks[t])
        /\ "cancel" \in tasks[t].wants
        /\ ~overlapped => Owns(tasks[t]) /\ Beside(tasks[t])
        /\ ~overlapped /\ faults = 0 => Fresh(tasks[t])
    BY <1>1, AskedFacts DEF Sends
  <1>3. CASE /\ attempts[a] \notin {"queued", "running", "cancelled"}
             /\ Refuse(t, "refused") /\ UNCHANGED attempts
    <2>1. UNCHANGED <<serverVars, pageVars, told>> /\ faults' \in {faults, faults + 1} /\ "refused" \in Errors
      BY <1>1, <1>3 DEF serverVars, Errors
    <2>2. ASSUME ~overlapped, faults = 0, NEW k, Same(t, k), k.wants = {}, k.error = "refused"
          PROVE  Fresh(k)'
      <3>1. attempts[a] \in Statuses \ {"provider_failed", "released"}
        BY <1>2, <2>2 DEF IInv, CInv, InStep, Shape
      <3>2. attempts[a] # "new"
        BY <1>2 DEF Sound
      <3>3. Ready(a)
        BY <1>3, <3>1, <3>2 DEF Ready, Statuses
      <3> QED
        BY <1>1, <1>2, <1>3, <2>2, <3>3 DEF Fresh, Same, pageVars, Ready
    <2> QED
      BY <1>2, <1>3, <2>1, <2>2, RefusedKeeps
  <1>4. CASE /\ attempts[a] \in {"queued", "running", "cancelled"}
             /\ attempts' = [attempts EXCEPT ![a] = "cancelled"]
             /\ Answer(t, "cancel", "status", "cancelled")
    <2>1. PICK k : /\ Turn(t, k) /\ TasksOK' /\ Same(t, k)
                   /\ k.project = tasks[t].project /\ k.review = tasks[t].review
                   /\ k.wants = tasks[t].wants \ {"cancel"} /\ k.error = None
      BY <1>2, <1>4, ServingStatus DEF Statuses
    <2>2. Served(t, k) /\ k.kind = "cancel" /\ k.attempt = a /\ k.run = tasks[t].run
      BY <1>1, <1>2, <1>4, <2>1, ServedBy DEF Same
    <2>3. /\ run' = run /\ operation' = operation /\ context' = context /\ locked' = locked
          /\ proposal' = proposal /\ knownDecided' = knownDecided /\ unsure' = unsure
          /\ project' = project /\ review' = review /\ revision' = revision
          /\ overlapped' = overlapped /\ faults' = faults
      BY <1>1 DEF pageVars, told
    <2>4. /\ attempts \in [Attempts -> Statuses] /\ attempts' \in [Attempts -> Statuses]
          /\ attempts'[a] = "cancelled"
          /\ \A b \in Attempts : b # a => attempts'[b] = attempts[b]
      BY <1>2, <1>4 DEF IInv, Shape, Statuses
    <2> HIDE DEF a
    <2>5. Later
      BY <1>2, <1>4, <2>3, <2>4 DEF Later, Ready, IInv, Shape
    <2>6. Sound(k)'
      <3>1. (\A q \in k.wants : Sends(k.kind, q))'
        BY <2>1, <2>2, StillSends
      <3>2. Sound(tasks[t])
        BY <1>2
      <3> QED
        BY <3>1, <3>2, <1>2, <1>4, <2>1, <2>2, <2>3, <2>4, TaskFacts
        DEF Sound, Ready, Answered, Projections, Reviews
    <2>7. Shape'
      BY <2>2, <2>3, <2>4, ServedShape DEF IInv, Shape
    <2>8. Known'
      BY <1>2, <1>4, <2>3, <2>4 DEF IInv, Known, Ready, Shape, Reviews, Projections
    <2>9. AInv'
      BY <1>2, <1>4, <2>2, <2>4, <2>5, <2>6, ServedSound
    <2>10. BInv'
      BY <2>2, <2>5, ServedOrder
    <2>11. CInv'
      <3> SUFFICES ASSUME ~overlapped, faults = 0, faults' = 0
                   PROVE  InStep' /\ Fresh(k)' /\ \A j : Other(t, j) => Fresh(j)'
        BY <2>2, ServedFresh
      <3>1. Fresh(k)'
        BY <2>1, <2>2 DEF Fresh
      <3>2. ASSUME NEW j, Other(t, j) PROVE Fresh(j)'
        <4>1. Fresh(j) /\ j.attempt \in Attempts
          BY <3>2, <1>2, Others
        <4> QED
          BY <4>1, <1>2, <1>4, <2>3, <2>4 DEF Fresh, Projection, Ready
      <3>3. InStep /\ context \in Attempts \cup {None} /\ (operation = "generating_proposal" => context # None)
        BY DEF IInv, CInv, Shape, BInv, Orderly
      <3>4. InStep'
        BY <1>4, <2>2, <2>3, <2>4, <3>3, DecidingKeeps DEF InStep, Ready
      <3> QED
        BY <3>1, <3>2, <3>4
    <2> QED
      BY <2>7, <2>8, <2>9, <2>10, <2>11 DEF IInv
  <1> QED
    BY <1>3, <1>4 DEF CancelAiAttempt

LEMMA LoseRequestKeeps ==
  ASSUME IInv, NEW t \in Tasks, LoseRequest(t)
  PROVE  IInv'
  <1> DEFINE a == tasks[t].attempt
  <1>1. Live(t) /\ UNCHANGED <<revision, review, decided, pageVars, told>> /\ faults' = faults + 1
    BY DEF LoseRequest
  <1>2. /\ TasksOK /\ tasks[t] \in AllTasks /\ a \in Attempts /\ Sound(tasks[t])
        /\ faults \in Nat
    BY <1>1, LiveTask, TaskFacts DEF IInv, Shape, TasksOK, AInv, BInv
  <1>3. PICK k : /\ Turn(t, k) /\ TasksOK' /\ Same(t, k) /\ SameAnswers(t, k)
                 /\ k.wants = {} /\ k.error \in {"lost", "refused"}
    BY <1>1, <1>2, Refusing DEF LoseRequest, Errors
  <1>4. /\ attempts \in [Attempts -> Statuses] /\ attempts' \in [Attempts -> Statuses]
        /\ \/ attempts' = attempts
           \/ attempts[a] = "running" /\ attempts' = [attempts EXCEPT ![a] = "released"]
        /\ attempts'[a] = attempts[a] \/ (attempts[a] = "running" /\ attempts'[a] = "released")
        /\ \A b \in Attempts : b # a => attempts'[b] = attempts[b]
    BY <1>2 DEF LoseRequest, IInv, Shape, Statuses
  <1>5. Served(t, k) /\ k.kind = tasks[t].kind /\ k.attempt = a
    BY <1>1, <1>2, <1>3, <1>4, ServedBy DEF Same
  <1>6. /\ run' = run /\ operation' = operation /\ context' = context /\ locked' = locked
        /\ proposal' = proposal /\ knownDecided' = knownDecided /\ unsure' = unsure
        /\ project' = project /\ review' = review /\ revision' = revision
    BY <1>1 DEF pageVars, told
  <1> HIDE DEF a
  <1>7. Later
    BY <1>4, <1>6 DEF Later, Ready, IInv, Shape
  <1>8. k.error # None
    BY <1>3, NoneAssumption DEF Errors
  <1>9. Sound(k)'
    BY <1>3, <1>5, <1>7, <1>8, RefusedSound
  <1>10. Shape'
    BY <1>4, <1>5, <1>6, ServedShape DEF IInv, Shape
  <1>11. Known'
    BY <1>4, <1>6 DEF IInv, Known, Ready, Shape, Reviews, Projections
  <1>12. AInv'
    BY <1>4, <1>5, <1>7, <1>9, ServedSound
  <1>13. BInv'
    <2>1. ~Answered(k) /\ (~overlapped => Beside(tasks[t]))
      BY <1>1, <1>2, <1>8 DEF Answered, IInv, BInv
    <2>2. ~overlapped /\ k.kind \in {"restore", "reconcile"} /\ k.review # None => k.attempt \notin knownDecided
      BY <1>3, <2>1 DEF Same, SameAnswers, Beside
    <2> QED
      BY <1>5, <1>7, <2>1, <2>2, ServedOrder
  <1>14. CInv'
    <2>1. faults' # 0
      BY <1>1, <1>2
    <2> QED
      BY <2>1 DEF CInv
  <1> QED
    BY <1>10, <1>11, <1>12, <1>13, <1>14 DEF IInv

\* The review of t's attempt is settled, or its settlement is left to a reconciliation.
LEMMA SettlingKeeps ==
  ASSUME IInv, NEW t, NEW k, Served(t, k), k.kind \in {"decide", "reconcile"},
         UNCHANGED attempts, review # None, review.attempt = k.attempt,
         \/ review' = None /\ revision' \in Nat
         \/ /\ review' \in Reviews /\ review' # None /\ review'.attempt = k.attempt
            /\ revision' = revision /\ faults' # 0,
         Sound(k)',
         k.kind = "decide" \/ k.review = None \/ k.review.attempt = review.attempt,
         ~overlapped /\ faults = 0 /\ faults' = 0 => k.kind = "decide" /\ Answered(k)
  PROVE  IInv'
  <1>1. /\ run' = run /\ operation' = operation /\ context' = context /\ locked' = locked
        /\ proposal' = proposal /\ knownDecided' = knownDecided /\ unsure' = unsure
        /\ project' = project /\ overlapped' = overlapped /\ attempts' = attempts /\ t \in Tasks /\ Live(t)
        /\ k.kind = tasks[t].kind /\ tasks'[t] = k
    BY DEF pageVars, told, Served, Same, Turn
  <1>2. Later
    BY <1>1 DEF Later, Ready, IInv, Shape
  <1>3. Shape'
    BY <1>1, ServedShape DEF IInv, Shape
  <1>4. Known'
    BY <1>1 DEF IInv, Known, Ready
  <1>5. AInv'
    BY <1>1, <1>2, ServedSound
  <1>6. BInv'
    <2>1. k.attempt \notin knownDecided
      BY DEF IInv, Known
    <2> QED
      BY <1>1, <1>2, <2>1, ServedOrder
  <1>7. CInv'
    <2> SUFFICES ASSUME ~overlapped, faults = 0, faults' = 0
                 PROVE  InStep' /\ Fresh(k)' /\ \A j : Other(t, j) => Fresh(j)'
      BY ServedFresh
    <2>1. k.kind = "decide" /\ Answered(k) /\ review' = None /\ k # NoTask
      BY ServedFacts
    <2>2. Fresh(k)'
      BY <2>1 DEF Fresh, Answered
    <2>3. Owner(tasks[t]) /\ operation = "committing_decision"
      BY <1>1, <2>1 DEF Owner, Owns, IInv, BInv
    <2>4. ASSUME NEW j, Other(t, j) PROVE Fresh(j)'
      <3>1. Fresh(j) /\ Apart(tasks[t], j)
        BY <2>4, <1>1, Others
      <3> QED
        BY <3>1, <1>1, <2>3 DEF Fresh, Projection, Ready, Apart, Owner
    <2>5. Deciding(t)'
      BY <1>1, <2>1 DEF Deciding, Live, Answered
    <2>6. InStep
      BY DEF IInv, CInv
    <2>7. InStep'
      BY <1>1, <2>1, <2>3, <2>5, <2>6 DEF InStep, Ready
    <2> QED
      BY <2>2, <2>4, <2>7
  <1> QED
    BY <1>3, <1>4, <1>5, <1>6, <1>7 DEF IInv

LEMMA CreateDecisionKeeps ==
  ASSUME IInv, NEW t \in Tasks, CreateDecision(t)
  PROVE  IInv'
  <1> DEFINE a == tasks[t].attempt
  <1>1. Asked(t, "decide") /\ UNCHANGED <<pageVars, told>>
    BY DEF CreateDecision
  <1>2. /\ Live(t) /\ TasksOK /\ tasks[t] \in AllTasks /\ a \in Attempts
        /\ tasks[t].kind = "decide" /\ tasks[t].error = None /\ Sound(tasks[t])
        /\ "decide" \in tasks[t].wants
        /\ ~overlapped => Owns(tasks[t]) /\ Beside(tasks[t])
        /\ ~overlapped /\ faults = 0 => Fresh(tasks[t])
    BY <1>1, AskedFacts DEF Sends
  <1>3. CASE Refuse(t, "refused") /\ UNCHANGED <<serverVars, faults>>
    <2>1. UNCHANGED <<serverVars, pageVars, told>> /\ faults' \in {faults, faults + 1} /\ "refused" \in Errors
      BY <1>1, <1>3 DEF Errors
    <2>2. ASSUME ~overlapped, faults = 0, NEW k, Same(t, k), k.wants = {}, k.error = "refused"
          PROVE  Fresh(k)'
      BY <1>2, <2>2 DEF Fresh, Same
    <2>3. ~Answered(tasks[t])
      BY <1>2 DEF Answered
    <2> QED
      BY <1>2, <1>3, <2>1, <2>2, <2>3, RefusedKeeps
  <1>4. CASE /\ ReviewOf(a) # None
             /\ Settle(a) /\ AnswerNothing(t, "decide") /\ UNCHANGED <<attempts, faults>>
    <2>1. PICK k : /\ Turn(t, k) /\ TasksOK' /\ Same(t, k) /\ SameAnswers(t, k)
                   /\ k.wants = tasks[t].wants \ {"decide"} /\ k.error = tasks[t].error
      BY <1>2, <1>4, ServingNothing
    <2>2. Served(t, k) /\ k.kind = "decide" /\ k.attempt = a /\ k.run = tasks[t].run
      BY <1>1, <1>2, <1>4, <2>1, ServedBy DEF Same
    <2>3. Answered(k)
      BY <1>2, <2>1 DEF Answered, Sound, Sends
    <2>4. review # None /\ review.attempt = a /\ review' = None /\ revision' \in Nat
      BY <1>4 DEF ReviewOf, Settle, IInv, Shape
    <2>5. Sound(k)'
      <3>1. (\A q \in k.wants : Sends(k.kind, q))'
        BY <2>1, <2>2, StillSends
      <3>2. Sound(tasks[t]) /\ run' = run /\ attempts' = attempts
        BY <1>1, <1>2, <1>4 DEF pageVars
      <3> QED
        BY <3>1, <3>2, <1>2, <2>1, <2>2, <2>3, <2>4
        DEF Sound, SameAnswers, Ready, Answered
    <2> QED
      BY <1>4, <2>2, <2>3, <2>4, <2>5, SettlingKeeps
  <1>5. CASE /\ ReviewOf(a) # None /\ faults' = faults + 1
             /\ review' = [review EXCEPT !.unsettled = TRUE]
             /\ Refuse(t, "unknown") /\ UNCHANGED <<revision, attempts, decided>>
    <2>1. PICK k : /\ Turn(t, k) /\ TasksOK' /\ Same(t, k) /\ SameAnswers(t, k)
                   /\ k.wants = {} /\ k.error = "unknown"
      BY <1>2, <1>5, Refusing DEF Errors
    <2>2. Served(t, k) /\ k.kind = "decide" /\ k.attempt = a /\ k.run = tasks[t].run
      BY <1>1, <1>2, <1>5, <2>1, ServedBy DEF Same
    <2>3. review # None /\ review.attempt = a /\ review \in Reviews /\ faults' # 0
      BY <1>5 DEF ReviewOf, IInv, Shape
    <2>4. review' \in Reviews /\ review'.attempt = a /\ revision' = revision
      BY <1>5, <2>3 DEF Reviews
    <2>5. review' # None
      BY <2>4, NoneAssumption
    <2>6. k.error # None
      BY <2>1, NoneAssumption DEF Errors
    <2>7. Later
      BY <1>1, <1>5, <2>3, <2>4 DEF Later, Ready, pageVars, IInv, Shape
    <2>8. Sound(k)'
      BY <2>1, <2>2, <2>6, <2>7, RefusedSound
    <2> QED
      BY <1>5, <2>2, <2>3, <2>4, <2>5, <2>8, SettlingKeeps
  <1> QED
    BY <1>3, <1>4, <1>5 DEF CreateDecision

LEMMA ReconcileReviewKeeps ==
  ASSUME IInv, NEW t \in Tasks, ReconcileReview(t)
  PROVE  IInv'
  <1> DEFINE a == tasks[t].attempt
             open == ReviewOf(a)
  <1>1. Asked(t, "reconcile") /\ UNCHANGED <<attempts, pageVars, told>>
    BY DEF ReconcileReview
  <1>2. /\ Live(t) /\ TasksOK /\ tasks[t] \in AllTasks /\ a \in Attempts
        /\ tasks[t].kind = "reconcile" /\ tasks[t].error = None /\ Sound(tasks[t])
        /\ ~overlapped /\ faults = 0 => Fresh(tasks[t])
    BY <1>1, AskedFacts DEF Sends
  <1>3. open \in Reviews \cup {None} /\ (open # None => open = review /\ review.attempt = a)
        /\ (open = None => review = None \/ review.attempt # a)
    BY DEF ReviewOf, IInv, Shape
  <1>4. overlapped \/ faults # 0
    BY <1>2 DEF Fresh
  <1>5. ASSUME NEW v \in Reviews \cup {None}, Answer(t, "reconcile", "review", v),
               v = None => review' = None \/ review'.attempt # a,
               Later
        PROVE  \E k : /\ Turn(t, k) /\ TasksOK' /\ Same(t, k) /\ k.review = v
                      /\ k.kind = "reconcile" /\ k.attempt = a /\ (Served(t, k) => Sound(k)')
    <2>1. PICK k : /\ Turn(t, k) /\ TasksOK' /\ Same(t, k) /\ k.review = v
                   /\ k.status = tasks[t].status /\ k.project = tasks[t].project
                   /\ k.wants = tasks[t].wants \ {"reconcile"} /\ k.error = tasks[t].error
      BY <1>2, <1>5, ServingReview
    <2>2. k.kind = "reconcile" /\ k.attempt = a /\ k.run = tasks[t].run
      BY <1>2, <2>1 DEF Same
    <2>3. ASSUME Served(t, k) PROVE Sound(k)'
      <3>1. (\A q \in k.wants : Sends(k.kind, q))'
        BY <2>1, <2>3, StillSends
      <3>2. Sound(tasks[t]) /\ run' = run /\ attempts' = attempts
        BY <1>1, <1>2 DEF pageVars
      <3> QED
        BY <3>1, <3>2, <1>2, <1>5, <2>1, <2>2, NoneAssumption DEF Sound, Ready, Answered
    <2> QED
      BY <2>1, <2>2, <2>3
  <1>6. CASE open # None /\ Settle(a) /\ Answer(t, "reconcile", "review", None) /\ UNCHANGED faults
    <2>1. review # None /\ review.attempt = a /\ review' = None /\ revision' \in Nat
      BY <1>3, <1>6 DEF Settle, IInv, Shape
    <2>2. Later
      BY <1>1, <2>1 DEF Later, Ready, pageVars, IInv, Shape
    <2>3. PICK k : /\ Turn(t, k) /\ TasksOK' /\ Same(t, k) /\ k.review = None
                   /\ k.kind = "reconcile" /\ k.attempt = a /\ (Served(t, k) => Sound(k)')
      BY <1>5, <1>6, <2>1, <2>2
    <2>4. Served(t, k)
      BY <1>1, <1>2, <1>6, <2>3, ServedBy
    <2> QED
      BY <1>1, <1>4, <1>6, <2>1, <2>3, <2>4, SettlingKeeps
  <1>7. CASE /\ Answer(t, "reconcile", "review", open) /\ faults' \in {faults, faults + 1}
             /\ UNCHANGED <<revision, review, decided>>
    <2>1. Later
      BY <1>1, <1>7 DEF Later, Ready, pageVars, IInv, Shape
    <2>2. PICK k : /\ Turn(t, k) /\ TasksOK' /\ Same(t, k) /\ k.review = open
                   /\ k.kind = "reconcile" /\ k.attempt = a /\ (Served(t, k) => Sound(k)')
      BY <1>3, <1>5, <1>7, <2>1
    <2>3. Served(t, k) /\ UNCHANGED serverVars
      BY <1>1, <1>2, <1>7, <2>2, ServedBy DEF serverVars
    <2>4. k.review # None => k.attempt \notin knownDecided
      BY <1>3, <2>2 DEF IInv, Known
    <2> QED
      BY <1>4, <2>2, <2>3, <2>4, QuietStep
  <1> QED
    BY <1>6, <1>7 DEF ReconcileReview

-----------------------------------------------------------------------------
(* The page: the server's state stays, the task of t becomes k. *)

Paged(t, k) ==
  /\ t \in Tasks /\ Turn(t, k) /\ TasksOK' /\ UNCHANGED serverVars
  /\ run' \in {run, run + 1} /\ faults' = faults

LEMMA PagedLater ==
  ASSUME IInv, UNCHANGED serverVars, run' \in {run, run + 1}
  PROVE  Later
  BY DEF Later, Ready, IInv, Shape, serverVars

LEMMA PagedSound ==
  ASSUME IInv, NEW t, NEW k, Paged(t, k), k # NoTask => Sound(k)',
         k # NoTask /\ k.kind = "context" =>
           ~Live(t) /\ \A u \in Tasks : Live(u) => tasks[u].attempt # k.attempt
  PROVE  AInv'
  <1>1. TasksOK /\ TasksOK' /\ AInv /\ t \in Tasks /\ Turn(t, k)
    BY DEF IInv, Shape, TasksOK, Paged
  <1>2. Later /\ attempts' = attempts
    BY PagedLater DEF Paged, serverVars
  <1> QED
    BY <1>1, <1>2, AllSound

\* No other task has an operation after the step.
Unowned(t) == \A j : Other(t, j) => ~Owner(j)'

LEMMA EndsUnowned ==
  ASSUME IInv, ~overlapped, NEW t \in Tasks, run' \in {run, run + 1},
         \/ operation = None \/ (Live(t) /\ Owner(tasks[t]))
         \/ operation = "generating_proposal" /\ run' = run + 1
  PROVE  Unowned(t)
  <1> SUFFICES ASSUME NEW j, Other(t, j) PROVE ~Owner(j)'
    BY DEF Unowned
  <1>1. Owns(j) /\ j.run <= run /\ j.run \in Nat /\ run \in Nat
    BY Others DEF Sound, IInv, Shape
  <1>2. ~Owner(j) => ~Owner(j)'
    BY <1>1 DEF Owner
  <1>3. CASE operation = None \/ (Live(t) /\ Owner(tasks[t]))
    BY <1>2, <1>3, OwnersAlone DEF Alone
  <1>4. CASE operation = "generating_proposal" /\ run' = run + 1
    BY <1>1, <1>4 DEF Owns, Owner
  <1> QED
    BY <1>3, <1>4

LEMMA UnownedOrder ==
  ASSUME IInv, ~overlapped, NEW t, NEW k, Paged(t, k), Unowned(t), Orderly',
         run' = run => /\ operation' # "generating_proposal"
                       /\ operation = "generating_proposal" => Ready(context),
         operation' # "generating_proposal" =>
           \/ context' = None
           \/ context' = context /\ operation # "generating_proposal"
           \/ \A j : Other(t, j) => j.attempt # context',
         k # NoTask => /\ Owns(k)' /\ Beside(k)'
                       /\ k.kind = "context" => \A j : Other(t, j) => j.attempt # k.attempt
                       /\ k.kind = "generate" => \A j : Other(t, j) /\ j.kind = "generate" => j.attempt # k.attempt
  PROVE  BInv'
  <1>1. t \in Tasks /\ Turn(t, k) /\ attempts' = attempts /\ run' \in {run, run + 1}
    BY DEF Paged, serverVars
  <1>2. ASSUME NEW j, Other(t, j) PROVE Owns(j)' /\ Beside(j)' /\ ~Owner(j)'
    <2>1. Beside(j) /\ Owns(j) /\ j.attempt \in Attempts /\ j.run <= run /\ j.run \in Nat /\ run \in Nat
      BY <1>1, <1>2, Others DEF Sound, IInv, Shape
    <2>2. ~Owner(j)'
      BY <1>2 DEF Unowned
    <2>3. Owns(j)'
      BY <2>2 DEF Owns, Owner
    <2>4. operation' # "generating_proposal" => j.attempt # context'
      BY <1>2, <2>1, NoneAssumption, StudioPageAssumption DEF Beside
    <2>5. j.kind \in {"cancel", "observe"} /\ j.run = run' =>
            operation' # "generating_proposal" /\ Ready(j.attempt)
      BY <1>1, <2>1 DEF Beside
    <2> QED
      BY <1>1, <2>1, <2>2, <2>3, <2>4, <2>5 DEF Beside, Owner, Answered, Ready
  <1>3. ASSUME k # NoTask, NEW j, Other(t, j) PROVE Apart(j, k)' /\ Apart(k, j)'
    BY <1>2, <1>3 DEF Apart, Owner
  <1>4. Later
    BY PagedLater DEF Paged
  <1> QED
    BY <1>1, <1>2, <1>3, <1>4, OrderKeeps

LEMMA PagedFresh ==
  ASSUME IInv, NEW t, NEW k, Paged(t, k),
         ~overlapped' /\ faults = 0 =>
           /\ ~overlapped /\ InStep' /\ (k # NoTask => Fresh(k)')
           /\ IF run' = run
              THEN operation' = "generating_proposal" => operation = "generating_proposal"
              ELSE \A j : Other(t, j) /\ j.kind = "generate" /\ j.run = run =>
                      attempts[j.attempt] \notin {"queued", "running"}
  PROVE  CInv'
  <1> SUFFICES ASSUME ~overlapped', faults = 0 PROVE CInv'
    BY DEF CInv, Paged
  <1>1. ASSUME NEW j, Other(t, j) PROVE Fresh(j)'
    <2>1. Fresh(j) /\ j.run <= run /\ j.run \in Nat /\ run \in Nat
      BY <1>1, Others DEF Sound, IInv, Shape, Paged
    <2>2. /\ attempts' = attempts /\ review' = review /\ revision' = revision
          /\ run' \in {run, run + 1}
      BY DEF Paged, serverVars
    <2>3. CASE run' = run
      BY <2>1, <2>2, <2>3 DEF Fresh, Ready, Projection
    <2>4. CASE run' = run + 1
      BY <1>1, <2>1, <2>2, <2>4 DEF Fresh, Ready, Projection
    <2> QED
      BY <2>2, <2>3, <2>4
  <1> QED
    BY <1>1, FreshTasks DEF Paged

\* A click that begins an operation other than a generation.
LEMMA ClickKeeps ==
  ASSUME IInv, NEW t \in Tasks, NEW kind \in Kinds, NEW a \in Attempts, NEW q \in Requests, NEW op,
         operation = None, Start(t, kind, a, {q}, op),
         UNCHANGED <<serverVars, project, context, proposal, locked, run, cancelPending, faults, told>>,
         Sends(kind, q),
         \/ /\ kind = "context" /\ op = "assembling_context" /\ context = None /\ attempts[a] = "new"
            /\ \A u \in Tasks : Live(u) => tasks[u].attempt # a
         \/ kind = "restore" /\ op = "restoring_review" /\ Ready(a)
         \/ kind = "reconcile" /\ op = "reconciling_review" /\ Ready(a)
         \/ kind = "decide" /\ op = "committing_decision" /\ Ready(a),
         ~overlapped /\ faults = 0 =>
           /\ kind # "reconcile"
           /\ kind = "restore" => review # None /\ review.attempt = a
  PROVE  IInv'
  <1>1. PICK k : /\ Turn(t, k) /\ TasksOK' /\ New(k, kind, a, {q}) /\ k.run = run
                 /\ ~Live(t) /\ operation' = op
    BY Starting DEF IInv
  <1>2. /\ run' = run /\ context' = context /\ locked' = locked /\ faults' = faults
        /\ proposal' = proposal /\ knownDecided' = knownDecided /\ unsure' = unsure
        /\ project' = project /\ attempts' = attempts /\ review' = review /\ revision' = revision
        /\ overlapped' = overlapped
    BY DEF told, serverVars
  <1>3. Paged(t, k) /\ ~Live(t) /\ k.wants = {q}
    BY <1>1, <1>2 DEF Paged, New
  <1>4. k # NoTask /\ k.kind = kind /\ k.attempt = a /\ k.error = None /\ k.review = None /\ k.project = None
        /\ ~k.early /\ k.run = run
    BY <1>1, TaskFacts DEF New
  <1>5. Sound(k)'
    <2>1. (\A x \in k.wants : Sends(k.kind, x))'
      BY <1>3, <1>4 DEF Sends
    <2>2. run \in Nat
      BY DEF IInv, Shape
    <2> QED
      BY <1>2, <1>3, <1>4, <2>1, <2>2 DEF Sound, Ready, Answered
  <1>6. Shape'
    BY <1>1, <1>2 DEF IInv, Shape, TasksOK, Operations
  <1>7. Known'
    BY <1>2 DEF IInv, Known, Ready
  <1>8. AInv'
    BY <1>3, <1>4, <1>5, PagedSound
  <1>9. BInv'
    <2> SUFFICES ASSUME ~overlapped PROVE BInv'
      BY <1>2 DEF BInv
    <2>1. Unowned(t)
      BY <1>2, EndsUnowned
    <2>2. operation' # "generating_proposal" /\ operation # "generating_proposal"
      BY <1>1, NoneAssumption DEF Operations
    <2>3. Orderly /\ operation # "refreshing_project"
      BY NoneAssumption DEF IInv, BInv, Operations
    <2>4. Orderly'
      BY <1>2, <2>2, <2>3 DEF Orderly
    <2>5. Owns(k)'
      BY <1>1, <1>4 DEF Owns, Owner
    <2>6. context # None => attempts[context] = "queued"
      BY <2>2, <2>3 DEF Orderly
    <2>7. a # context
      BY <2>6, StudioPageAssumption DEF Ready
    <2>8. Beside(k)'
      BY <1>2, <1>3, <1>4, <2>2, <2>7 DEF Beside, Answered
    <2>9. k.kind = "context" => \A j : Other(t, j) => j.attempt # k.attempt
      BY <1>4 DEF Other
    <2> QED
      BY <1>2, <1>3, <1>4, <2>1, <2>2, <2>4, <2>5, <2>8, <2>9, UnownedOrder
  <1>10. CInv'
    <2> SUFFICES ASSUME ~overlapped, faults = 0
                 PROVE  InStep' /\ Fresh(k)' /\ operation' # "generating_proposal"
      BY <1>2, <1>3, PagedFresh
    <2>1. operation' # "generating_proposal"
      BY <1>1, NoneAssumption DEF Operations
    <2>2. Fresh(k)'
      BY <1>2, <1>3, <1>4 DEF Fresh
    <2>3. InStep /\ operation # "generating_proposal"
      BY NoneAssumption DEF IInv, CInv, Operations
    <2>4. \A u \in Tasks : Deciding(u) => Deciding(u)'
      BY <1>1, <1>3 DEF Turn, Deciding, Live, Answered
    <2>5. InStep'
      BY <1>2, <2>1, <2>3, <2>4 DEF InStep, Ready
    <2> QED
      BY <2>1, <2>2, <2>5
  <1> QED
    BY <1>6, <1>7, <1>8, <1>9, <1>10 DEF IInv

LEMMA ReviewContextKeeps ==
  ASSUME IInv, NEW t \in Tasks, NEW a \in Attempts, ReviewContext(t, a)
  PROVE  IInv'
  <1>1. "context" \in Kinds /\ "context" \in Requests /\ Sends("context", "context")
    BY DEF Kinds, Requests, Sends
  <1> QED
    BY <1>1, ClickKeeps DEF ReviewContext

\* While an operation can begin, no Decision is under way.
LEMMA NoneDeciding ==
  ASSUME IInv, ~overlapped, operation = None
  PROVE  ~\E u \in Tasks : Deciding(u)
  <1>1. operation \notin {"committing_decision", "refreshing_project"}
    BY NoneAssumption DEF Operations
  <1> QED
    BY <1>1 DEF IInv, BInv, Deciding, Owns

LEMMA RestoreProjectReviewKeeps ==
  ASSUME IInv, NEW t \in Tasks, RestoreProjectReview(t)
  PROVE  IInv'
  <1>1. "restore" \in Kinds /\ "review" \in Requests /\ Sends("restore", "review")
    BY DEF Kinds, Requests, Sends
  <1>2. project.review # None /\ project.review.attempt \in Attempts /\ Ready(project.review.attempt)
    BY DEF RestoreProjectReview, IInv, Shape, Known, Projections, Reviews
  <1>3. ~overlapped /\ faults = 0 => review # None /\ review.attempt = project.review.attempt
    BY <1>2, NoneDeciding DEF RestoreProjectReview, IInv, CInv, InStep
  <1> QED
    BY <1>1, <1>2, <1>3, ClickKeeps DEF RestoreProjectReview

LEMMA DecideProposalKeeps ==
  ASSUME IInv, NEW t \in Tasks, DecideProposal(t)
  PROVE  IInv'
  <1>1. "decide" \in Kinds /\ "decide" \in Requests /\ Sends("decide", "decide")
    BY DEF Kinds, Requests, Sends
  <1>2. proposal \in Attempts /\ Ready(proposal)
    BY DEF DecideProposal, IInv, Shape, Known
  <1> QED
    BY <1>1, <1>2, ClickKeeps DEF DecideProposal

LEMMA ReconcileActiveReviewKeeps ==
  ASSUME IInv, NEW t \in Tasks, ReconcileActiveReview(t)
  PROVE  IInv'
  <1>1. "reconcile" \in Kinds /\ "reconcile" \in Requests /\ Sends("reconcile", "reconcile")
    BY DEF Kinds, Requests, Sends
  <1>2. PICK a \in Attempts : /\ Ready(a) /\ Start(t, "reconcile", a, {"reconcile"}, "reconciling_review")
                              /\ locked \/ (project.review # None /\ project.review.unsettled)
    <2>1. CASE proposal # None /\ locked
               /\ Start(t, "reconcile", proposal, {"reconcile"}, "reconciling_review")
      BY <2>1 DEF IInv, Shape, Known
    <2>2. CASE project.review # None /\ project.review.unsettled
               /\ Start(t, "reconcile", project.review.attempt, {"reconcile"}, "reconciling_review")
      <3>1. project.review.attempt \in Attempts /\ Ready(project.review.attempt)
        BY <2>2 DEF IInv, Shape, Known, Projections, Reviews
      <3> QED
        BY <2>2, <3>1
    <2> QED
      BY <2>1, <2>2 DEF ReconcileActiveReview
  <1>3. overlapped \/ faults # 0
    BY <1>2 DEF IInv, CInv, InStep
  <1> QED
    BY <1>1, <1>2, <1>3, ClickKeeps DEF ReconcileActiveReview

\* A step of no task: the context is closed, something else fails, nothing happens.
LEMMA StillKeeps ==
  ASSUME IInv,
         UNCHANGED <<serverVars, tasks, run, project, proposal, locked, knownDecided, unsure>>,
         operation' \in Operations \cup {None}, overlapped' \in BOOLEAN, faults' \in Nat,
         context' = context \/ (context' = None /\ operation # "generating_proposal"),
         ~overlapped' => ~overlapped /\ operation' = operation,
         faults' = 0 => faults = 0
  PROVE  IInv'
  <1>1. /\ run' = run /\ locked' = locked
        /\ proposal' = proposal /\ knownDecided' = knownDecided /\ unsure' = unsure
        /\ project' = project /\ attempts' = attempts /\ review' = review /\ revision' = revision
        /\ tasks' = tasks
    BY DEF serverVars
  <1>3. Shape'
    BY <1>1 DEF IInv, Shape
  <1>4. Known'
    BY <1>1 DEF IInv, Known, Ready
  <1>5. ASSUME NEW u \in Tasks, Live(u), NEW j, j = tasks[u]
        PROVE  /\ Sound(j)'
               /\ ~overlapped' => Owns(j)' /\ Beside(j)'
               /\ ~overlapped' /\ faults' = 0 => Fresh(j)'
    <2>1. /\ Sound(j) /\ j.attempt # None
          /\ ~overlapped => Owns(j) /\ Beside(j)
          /\ ~overlapped /\ faults = 0 => Fresh(j)
      BY <1>5, LiveTask, TaskFacts, StudioPageAssumption DEF IInv, Shape, TasksOK, AInv, BInv, CInv
    <2>2. Sound(j)'
      BY <1>1, <2>1 DEF Sound, Sends, Answered, Ready
    <2>3. ~overlapped' => Owns(j)' /\ Beside(j)'
      BY <1>1, <2>1 DEF Owns, Beside, Owner, Answered, Ready
    <2>4. ~overlapped' /\ faults' = 0 => Fresh(j)'
      BY <1>1, <2>1 DEF Fresh, Ready, Projection
    <2> QED
      BY <2>2, <2>3, <2>4
  <1>6. AInv'
    BY <1>1, <1>5 DEF IInv, AInv, Live, Sound, Sends, Answered, Ready
  <1>7. BInv'
    <2> SUFFICES ASSUME ~overlapped' PROVE BInv'
      BY DEF BInv
    <2>1. Orderly /\ \A u, v \in Tasks : Live(u) /\ Live(v) /\ u # v => Apart(tasks[u], tasks[v])
      BY DEF IInv, BInv
    <2>2. Orderly'
      BY <1>1, <2>1 DEF Orderly, Live
    <2>3. \A u \in Tasks : Live(u)' => (Owns(tasks[u]) /\ Beside(tasks[u]))'
      BY <1>1, <1>5 DEF Live, Owns, Beside, Owner, Answered, Ready
    <2>4. \A u, v \in Tasks : Live(u)' /\ Live(v)' /\ u # v => Apart(tasks[u], tasks[v])'
      BY <1>1, <2>1 DEF Live, Apart, Owner
    <2> QED
      BY <2>2, <2>3, <2>4 DEF BInv
  <1>8. CInv'
    <2> SUFFICES ASSUME ~overlapped', faults' = 0 PROVE CInv'
      BY DEF CInv
    <2>1. InStep
      BY DEF IInv, CInv
    <2>2. InStep'
      BY <1>1, <2>1 DEF InStep, Ready, Deciding, Live, Answered
    <2>3. \A u \in Tasks : Live(u)' => Fresh(tasks[u])'
      BY <1>1, <1>5 DEF Live, Fresh, Ready, Projection
    <2> QED
      BY <2>2, <2>3 DEF CInv
  <1> QED
    BY <1>3, <1>4, <1>6, <1>7, <1>8 DEF IInv

LEMMA CloseContextKeeps ==
  ASSUME IInv, CloseContext
  PROVE  IInv'
  <1>1. operation # "generating_proposal"
    BY NoneAssumption DEF Operations, CloseContext
  <1>2. operation \in Operations \cup {None} /\ overlapped \in BOOLEAN /\ faults \in Nat
    BY DEF IInv, Shape
  <1> QED
    BY <1>1, <1>2, StillKeeps DEF CloseContext, told

LEMMA OtherFailureKeeps ==
  ASSUME IInv, OtherFailure
  PROVE  IInv'
  <1>1. locked \in BOOLEAN /\ overlapped \in BOOLEAN /\ faults \in Nat
    BY DEF IInv, Shape
  <1>2. UNCHANGED <<serverVars, tasks, run, project, proposal, locked, knownDecided, unsure>>
    BY <1>1 DEF OtherFailure, Fail, KeepRun
  <1>3. operation' = None /\ overlapped' = (overlapped \/ operation # None) /\ context' = context
        /\ faults' = faults + 1
    BY DEF OtherFailure, Fail
  <1>4. operation' \in Operations \cup {None} /\ overlapped' \in BOOLEAN /\ faults' \in Nat
        /\ (~overlapped' => ~overlapped /\ operation' = operation) /\ faults' # 0
    <2>1. operation' \in Operations \cup {None} /\ faults' \in Nat /\ faults' # 0
      BY <1>1, <1>3
    <2>2. ~overlapped' => ~overlapped /\ operation' = operation
      BY <1>3, Zenon
    <2>3. overlapped' \in BOOLEAN
      BY <1>3, Zenon
    <2> QED
      BY <2>1, <2>2, <2>3
  <1> QED
    BY <1>2, <1>3, <1>4, StillKeeps

LEMMA StutterKeeps ==
  ASSUME IInv, UNCHANGED vars
  PROVE  IInv'
  <1>1. operation \in Operations \cup {None} /\ overlapped \in BOOLEAN /\ faults \in Nat
    BY DEF IInv, Shape
  <1> QED
    BY <1>1, StillKeeps DEF vars, pageVars, told

\* A task that has no operation begins, goes on or ends beside it.
LEMMA BackOrder ==
  ASSUME IInv, ~overlapped, NEW t, NEW k, Paged(t, k), run' = run,
         UNCHANGED <<operation, context, locked, proposal, knownDecided, unsure>>,
         Live(t) => ~Owner(tasks[t]),
         k # NoTask => /\ ~Owner(k) /\ Beside(k)
                       /\ \A j : Other(t, j) /\ j.kind = "context" => k.attempt # j.attempt
                       /\ k.kind # "generate"
  PROVE  BInv'
  <1>1. t \in Tasks /\ Turn(t, k) /\ attempts' = attempts
    BY DEF Paged, serverVars
  <1>2. ASSUME NEW j, Other(t, j) PROVE Owns(j)' /\ Beside(j)'
    <2>1. Owns(j) /\ Beside(j)
      BY <1>1, <1>2, Others
    <2> QED
      BY <1>1, <2>1 DEF Owns, Beside, Owner, Answered, Ready
  <1>3. ASSUME k # NoTask
        PROVE  /\ Owns(k)' /\ Beside(k)'
               /\ \A j : Other(t, j) => Apart(j, k)' /\ Apart(k, j)'
    <2>1. Owns(k)' /\ Beside(k)'
      BY <1>1, <1>3 DEF Owns, Beside, Owner, Answered, Ready
    <2>2. ASSUME NEW j, Other(t, j) PROVE Apart(j, k)' /\ Apart(k, j)'
      BY <1>3, <2>2 DEF Apart, Owner
    <2> QED
      BY <2>1, <2>2
  <1>4. Later
    BY PagedLater DEF Paged
  <1>5. Orderly'
    <2>1. Orderly
      BY DEF IInv, BInv
    <2>2. ASSUME operation = "generating_proposal"
          PROVE  \E u \in Tasks : Live(u)' /\ tasks'[u].kind = "generate" /\ tasks'[u].run = run
      <3>1. PICK u \in Tasks : Live(u) /\ tasks[u].kind = "generate" /\ tasks[u].run = run
        BY <2>1, <2>2 DEF Orderly
      <3>2. u # t
        BY <3>1 DEF Owner
      <3> QED
        BY <1>1, <3>1, <3>2 DEF Turn, Live
    <2> QED
      BY <1>1, <2>1, <2>2 DEF Orderly
  <1> QED
    BY <1>1, <1>2, <1>3, <1>4, <1>5, OrderKeeps

\* and leaves what the page shows as it is.
LEMMA BackInStep ==
  ASSUME IInv, ~overlapped, faults = 0, NEW t, NEW k, Paged(t, k), run' = run,
         UNCHANGED <<operation, context, locked, proposal, project>>,
         ~Deciding(t)
  PROVE  InStep'
  <1>1. \A u \in Tasks : Deciding(u) => Deciding(u)'
    BY DEF Paged, Turn, Deciding, Live, Answered
  <1>2. InStep /\ review' = review /\ revision' = revision /\ attempts' = attempts
    BY DEF IInv, CInv, Paged, serverVars
  <1> QED
    BY <1>1, <1>2 DEF InStep, Ready

LEMMA CreateProposalKeeps ==
  ASSUME IInv, NEW t \in Tasks, CreateProposal(t)
  PROVE  IInv'
  <1>1. /\ run' = run + 1 /\ context' = context /\ locked' = locked /\ faults' = faults
        /\ proposal' = proposal /\ knownDecided' = knownDecided /\ unsure' = unsure
        /\ project' = project /\ attempts' = attempts /\ review' = review /\ revision' = revision
        /\ overlapped' = overlapped /\ operation = None /\ operation' = "generating_proposal"
        /\ context # None /\ ~Live(t) /\ UNCHANGED serverVars
    BY DEF CreateProposal, told, serverVars
  <1>2. context \in Attempts /\ run \in Nat /\ TasksOK
    BY <1>1 DEF IInv, Shape, TasksOK
  <1>3. PICK k : /\ Turn(t, k) /\ TasksOK' /\ New(k, "generate", context, {"generate"}) /\ k.run = run + 1
    <2> DEFINE n == Task("generate", context, {"generate"})
               k == [n EXCEPT !.run = run + 1]
    <2>1. New(n, "generate", context, {"generate"})
      BY <1>2, NewTasks DEF IInv, Kinds, Requests
    <2>2. tasks' = [tasks EXCEPT ![t] = k]
      BY DEF CreateProposal
    <2> HIDE DEF n
    <2>3. New(k, "generate", context, {"generate"}) /\ k.run = run + 1
      BY <1>2, <2>1 DEF New, AllTasks
    <2> HIDE DEF k
    <2>4. k \in AllTasks
      BY <2>3 DEF New
    <2> QED
      BY <1>2, <2>2, <2>3, <2>4, NewTask
  <1>4. Paged(t, k)
    BY <1>1, <1>3 DEF Paged
  <1>5. k # NoTask /\ k.kind = "generate" /\ k.attempt = context /\ k.error = None /\ k.review = None
        /\ k.project = None /\ k.wants = {"generate"} /\ ~k.early /\ k.run = run'
    BY <1>1, <1>3, TaskFacts DEF New
  <1>6. Sound(k)'
    <2>1. (\A x \in k.wants : Sends(k.kind, x))'
      BY <1>5 DEF Sends
    <2>2. attempts[context] # "new" /\ k.run <= run'
      BY <1>1, <1>2, <1>5 DEF IInv, Known
    <2> QED
      BY <1>1, <1>5, <2>1, <2>2 DEF Sound, Ready, Answered
  <1>7. Shape'
    BY <1>1, <1>2, <1>3 DEF IInv, Shape, TasksOK, Operations
  <1>8. Known'
    BY <1>1 DEF IInv, Known, Ready
  <1>9. AInv'
    BY <1>4, <1>5, <1>6, PagedSound
  <1>10. operation \notin {"generating_proposal", "refreshing_project"}
    BY <1>1, NoneAssumption DEF Operations
  <1>11. BInv'
    <2> SUFFICES ASSUME ~overlapped PROVE BInv'
      BY <1>1 DEF BInv
    <2>1. Unowned(t)
      BY <1>1, EndsUnowned
    <2>2. Orderly
      BY DEF IInv, BInv
    <2>3. Live(t)' /\ tasks'[t] = k
      BY <1>3, <1>5 DEF Turn, Live
    <2>4. Orderly'
      BY <1>1, <1>5, <1>10, <2>2, <2>3 DEF Orderly
    <2>5. Owns(k)' /\ Beside(k)'
      BY <1>1, <1>5 DEF Owns, Owner, Beside, Answered
    <2>6. \A j : Other(t, j) => j.attempt # k.attempt
      BY <1>5, <1>10, Others DEF Beside
    <2> QED
      BY <1>1, <1>2, <1>4, <1>5, <2>1, <2>4, <2>5, <2>6, UnownedOrder
  <1>12. CInv'
    <2> SUFFICES ASSUME ~overlapped, faults = 0
                 PROVE  /\ InStep' /\ Fresh(k)'
                        /\ \A j : Other(t, j) => ~(j.kind = "generate" /\ j.run = run)
      BY <1>1, <1>2, <1>4, PagedFresh
    <2>1. attempts[context] = "queued"
      BY <1>1, <1>10 DEF IInv, BInv, Orderly
    <2>2. Fresh(k)'
      BY <1>1, <1>5, <2>1 DEF Fresh, Ready
    <2>3. InStep
      BY DEF IInv, CInv
    <2>4. \A u \in Tasks : Deciding(u) => Deciding(u)'
      BY <1>1, <1>3 DEF Turn, Deciding, Live, Answered
    <2>5. InStep'
      BY <1>1, <1>10, <2>1, <2>3, <2>4 DEF InStep, Ready
    <2>6. \A j : Other(t, j) => ~(j.kind = "generate" /\ j.run = run)
      BY <1>1, OwnersAlone DEF Alone, Owner
    <2> QED
      BY <2>2, <2>5, <2>6
  <1> QED
    BY <1>7, <1>8, <1>9, <1>11, <1>12 DEF IInv

LEMMA CancelProposalAttemptKeeps ==
  ASSUME IInv, NEW t \in Tasks, CancelProposalAttempt(t)
  PROVE  IInv'
  <1>1. /\ run' = run /\ context' = context /\ locked' = locked /\ faults' = faults
        /\ proposal' = proposal /\ knownDecided' = knownDecided /\ unsure' = unsure
        /\ project' = project /\ attempts' = attempts /\ review' = review /\ revision' = revision
        /\ overlapped' = overlapped /\ operation = "generating_proposal" /\ operation' = operation
        /\ context # None /\ UNCHANGED serverVars
    BY DEF CancelProposalAttempt, Start, told, serverVars
  <1>2. context \in Attempts /\ run \in Nat
    BY <1>1 DEF IInv, Shape
  <1>3. PICK k : /\ Turn(t, k) /\ TasksOK' /\ New(k, "cancel", context, {"cancel"}) /\ k.run = run
                 /\ ~Live(t)
    BY <1>2, Starting DEF CancelProposalAttempt, IInv, Kinds, Requests
  <1>4. Paged(t, k)
    BY <1>1, <1>3 DEF Paged
  <1>5. k # NoTask /\ k.kind = "cancel" /\ k.attempt = context /\ k.error = None /\ k.review = None
        /\ k.project = None /\ k.wants = {"cancel"} /\ ~k.early /\ k.run = run
    BY <1>3, TaskFacts DEF New
  <1>6. Sound(k)'
    <2>1. (\A x \in k.wants : Sends(k.kind, x))'
      BY <1>5 DEF Sends
    <2>2. attempts[context] # "new" /\ k.run <= run'
      BY <1>1, <1>2, <1>5 DEF IInv, Known
    <2> QED
      BY <1>1, <1>5, <2>1, <2>2 DEF Sound, Ready, Answered
  <1>7. Shape'
    BY <1>1, <1>3 DEF IInv, Shape, TasksOK
  <1>8. Known'
    BY <1>1 DEF IInv, Known, Ready
  <1>9. AInv'
    BY <1>4, <1>5, <1>6, PagedSound
  <1>10. BInv'
    <2> SUFFICES ASSUME ~overlapped PROVE BInv'
      BY <1>1 DEF BInv
    <2>1. Beside(k) /\ ~Owner(k)
      BY <1>1, <1>5 DEF Beside, Owner, Answered
    <2>2. \A j : Other(t, j) => j.kind # "context"
      BY <1>1, Others DEF Owns
    <2> QED
      BY <1>1, <1>3, <1>4, <1>5, <2>1, <2>2, BackOrder
  <1>11. CInv'
    <2> SUFFICES ASSUME ~overlapped, faults = 0 PROVE InStep' /\ Fresh(k)'
      BY <1>1, <1>4, PagedFresh
    <2>1. Fresh(k)'
      BY <1>5 DEF Fresh
    <2>2. ~Deciding(t)
      BY <1>3 DEF Deciding
    <2> QED
      BY <1>1, <1>4, <2>1, <2>2, BackInStep
  <1> QED
    BY <1>7, <1>8, <1>9, <1>10, <1>11 DEF IInv

-----------------------------------------------------------------------------
(* The page takes what a task brought. *)

LEMMA BroughtFacts ==
  ASSUME IInv, NEW t \in Tasks, NEW kind, Brought(t, kind)
  PROVE  /\ Live(t) /\ TasksOK /\ tasks[t] \in AllTasks /\ tasks[t].attempt \in Attempts
         /\ tasks[t].kind = kind /\ Sound(tasks[t])
         /\ tasks[t].error = None => Answered(tasks[t])
         /\ tasks[t].project \in Projections \cup {None} /\ tasks[t].review \in Reviews \cup {None}
         /\ ~overlapped => Owns(tasks[t]) /\ Beside(tasks[t])
         /\ ~overlapped /\ faults = 0 => Fresh(tasks[t])
  <1>1. TasksOK /\ Live(t) /\ tasks[t].kind = kind /\ (tasks[t].error = None => Answered(tasks[t]))
    BY DEF IInv, Shape, TasksOK, Brought, Answered
  <1> QED
    BY <1>1, LiveTask, TaskFacts DEF IInv, AInv, BInv, CInv

\* A task ends, and its operation with it.
LEMMA EndOrder ==
  ASSUME IInv, Known', ~overlapped, NEW t, Paged(t, NoTask), Unowned(t), operation' = None,
         run' = run => (operation = "generating_proposal" => Ready(context)),
         \/ context' = None
         \/ context' = context /\ operation # "generating_proposal"
         \/ attempts[context'] = "queued" /\ \A j : Other(t, j) => j.attempt # context',
         proposal' \in knownDecided' \cup unsure' => locked'
  PROVE  BInv'
  <1>1. operation' # "generating_proposal"
    BY NoneAssumption DEF Operations
  <1>2. ASSUME context' # None
        PROVE  attempts'[context'] = "queued" /\ context' \notin knownDecided' \cup unsure'
    <2>1. attempts' = attempts
      BY DEF Paged, serverVars
    <2>2. attempts[context'] = "queued"
      BY <1>2 DEF IInv, BInv, Orderly
    <2> QED
      BY <2>1, <2>2 DEF Known, Ready
  <1>3. Orderly'
    BY <1>1, <1>2 DEF Orderly
  <1> QED
    BY <1>1, <1>3, UnownedOrder

LEMMA EndSound ==
  ASSUME IInv, NEW t, Paged(t, NoTask)
  PROVE  AInv'
  BY PagedSound

LEMMA EndPaged ==
  ASSUME IInv, NEW t \in Tasks, End(t), UNCHANGED <<serverVars, faults>>, run' \in {run, run + 1}
  PROVE  Paged(t, NoTask)
  <1>1. TasksOK
    BY DEF IInv, Shape, TasksOK
  <1> QED
    BY <1>1, Ending DEF Paged

\* Another task's end, which the page does not show.
LEMMA BackEnds ==
  ASSUME IInv, NEW t \in Tasks, Live(t), End(t),
         UNCHANGED <<serverVars, project, context, proposal, operation, locked, run, faults, told>>,
         ~Owner(tasks[t])
  PROVE  IInv'
  <1>1. Paged(t, NoTask)
    BY EndPaged
  <1>2. /\ run' = run /\ context' = context /\ locked' = locked /\ faults' = faults
        /\ proposal' = proposal /\ knownDecided' = knownDecided /\ unsure' = unsure
        /\ project' = project /\ attempts' = attempts /\ review' = review /\ revision' = revision
        /\ overlapped' = overlapped /\ operation' = operation
    BY DEF told, serverVars
  <1>3. Shape'
    BY <1>1, <1>2 DEF IInv, Shape, Paged, TasksOK
  <1>4. Known'
    BY <1>2 DEF IInv, Known, Ready
  <1>5. AInv'
    BY <1>1, EndSound
  <1>6. BInv'
    <2> SUFFICES ASSUME ~overlapped PROVE BInv'
      BY <1>2 DEF BInv
    <2> QED
      BY <1>1, <1>2, BackOrder
  <1>7. CInv'
    <2> SUFFICES ASSUME ~overlapped, faults = 0 PROVE InStep'
      BY <1>1, <1>2, PagedFresh
    <2>1. ~Deciding(t)
      BY DEF Deciding, Owner
    <2> QED
      BY <1>1, <1>2, <2>1, BackInStep
  <1> QED
    BY <1>3, <1>4, <1>5, <1>6, <1>7 DEF IInv

LEMMA ContextReadyKeeps ==
  ASSUME IInv, NEW t \in Tasks, ContextReady(t)
  PROVE  IInv'
  <1> DEFINE a == tasks[t].attempt
  <1>1. /\ run' = run /\ locked' = locked /\ faults' = faults /\ operation' = None
        /\ proposal' = proposal /\ knownDecided' = knownDecided /\ unsure' = unsure
        /\ project' = project /\ attempts' = attempts /\ review' = review /\ revision' = revision
        /\ overlapped' = overlapped /\ UNCHANGED serverVars
        /\ context' = IF tasks[t].error # None THEN context ELSE a
    BY DEF ContextReady, Fail, KeepRun, told, serverVars, IInv, Shape
  <1>2. /\ Live(t) /\ tasks[t] \in AllTasks /\ a \in Attempts /\ tasks[t].kind = "context"
        /\ Sound(tasks[t]) /\ (tasks[t].error = None => Answered(tasks[t]))
        /\ ~overlapped => Owns(tasks[t]) /\ Beside(tasks[t])
    BY BroughtFacts DEF ContextReady
  <1>3. Paged(t, NoTask)
    BY <1>1, EndPaged DEF ContextReady
  <1>4. Shape'
    BY <1>1, <1>2, <1>3 DEF IInv, Shape, Paged, TasksOK
  <1>5. Known'
    <2>1. context' # None => attempts[context'] # "new"
      BY <1>1, <1>2 DEF IInv, Known, Sound, Answered
    <2> HIDE DEF a
    <2> QED
      BY <1>1, <2>1 DEF IInv, Known, Ready
  <1>6. AInv'
    BY <1>3, EndSound
  <1>7. ~overlapped => operation = "assembling_context" /\ Owner(tasks[t])
    BY <1>2 DEF Owns, Owner
  <1>8. BInv'
    <2> SUFFICES ASSUME ~overlapped PROVE BInv'
      BY <1>1 DEF BInv
    <2>1. Unowned(t)
      BY <1>1, <1>2, <1>7, EndsUnowned
    <2>2. proposal \in knownDecided \cup unsure => locked
      BY <1>7 DEF IInv, BInv, Orderly
    <2>3. tasks[t].error = None => attempts[a] = "queued" /\ \A j : Other(t, j) => j.attempt # a
      BY <1>2, Others DEF Beside, Apart
    <2> QED
      BY <1>1, <1>3, <1>5, <1>7, <2>1, <2>2, <2>3, EndOrder
  <1>9. CInv'
    <2> SUFFICES ASSUME ~overlapped, faults = 0 PROVE InStep'
      BY <1>1, <1>3, NoneAssumption, PagedFresh DEF Operations
    <2>1. InStep /\ operation = "assembling_context" /\ operation' # "generating_proposal"
      BY <1>1, <1>7, NoneAssumption DEF IInv, CInv, Operations
    <2>2. \A u \in Tasks : Deciding(u) => Deciding(u)'
      BY <1>2, <1>3 DEF Paged, Turn, Deciding, Live, Answered
    <2> QED
      BY <1>1, <2>1, <2>2 DEF InStep, Ready
  <1> QED
    BY <1>4, <1>5, <1>6, <1>8, <1>9 DEF IInv

LEMMA ProposalReadyKeeps ==
  ASSUME IInv, NEW t \in Tasks, ProposalReady(t)
  PROVE  IInv'
  <1> DEFINE a == tasks[t].attempt
  <1>1. /\ Live(t) /\ tasks[t] \in AllTasks /\ a \in Attempts /\ tasks[t].kind = "generate"
        /\ Sound(tasks[t]) /\ Answered(tasks[t]) /\ Ready(a)
        /\ ~overlapped => Owns(tasks[t]) /\ Beside(tasks[t])
    <2>1. Sound(tasks[t]) /\ Answered(tasks[t]) /\ tasks[t].kind = "generate"
      BY BroughtFacts DEF ProposalReady, Fine
    <2> QED
      BY <2>1, BroughtFacts DEF ProposalReady, Fine, Sound
  <1>2. CASE ~Current(t)
    <2>1. ~Owner(tasks[t])
      BY <1>1, <1>2 DEF Owner, Current
    <2> QED
      BY <1>1, <1>2, <2>1, BackEnds DEF ProposalReady, pageVars
  <1>3. CASE Current(t)
    <2>1. /\ run' = run /\ locked' = locked /\ faults' = faults /\ operation' = None
          /\ proposal' = a /\ knownDecided' = knownDecided /\ unsure' = unsure
          /\ project' = project /\ attempts' = attempts /\ review' = review /\ revision' = revision
          /\ overlapped' = overlapped /\ UNCHANGED serverVars /\ context' = None
      BY <1>3 DEF ProposalReady, told, serverVars
    <2>2. Paged(t, NoTask)
      BY <2>1, EndPaged DEF ProposalReady
    <2>3. Shape'
      BY <1>1, <2>1, <2>2 DEF IInv, Shape, Paged, TasksOK
    <2>4. Known'
      BY <1>1, <2>1 DEF IInv, Known, Ready
    <2>5. AInv'
      BY <2>2, EndSound
    <2>6. ~overlapped => operation = "generating_proposal" /\ Owner(tasks[t]) /\ a = context
      BY <1>1, <1>3 DEF Owns, Owner, Beside, Current
    <2>7. BInv'
      <3> SUFFICES ASSUME ~overlapped PROVE BInv'
        BY <2>1 DEF BInv
      <3>1. Unowned(t)
        BY <1>1, <2>1, <2>6, EndsUnowned
      <3>2. a \notin knownDecided \cup unsure
        BY <1>1, <2>6, StudioPageAssumption DEF IInv, BInv, Orderly
      <3> QED
        BY <1>1, <2>1, <2>2, <2>4, <2>6, <3>1, <3>2, EndOrder
    <2>8. CInv'
      <3> SUFFICES ASSUME ~overlapped, faults = 0 PROVE InStep'
        BY <2>1, <2>2, NoneAssumption, PagedFresh DEF Operations
      <3>1. InStep /\ operation' # "generating_proposal"
        BY <2>1, NoneAssumption DEF IInv, CInv, Operations
      <3>2. \A u \in Tasks : Deciding(u) => Deciding(u)'
        BY <1>1, <2>2 DEF Paged, Turn, Deciding, Live, Answered
      <3> QED
        BY <1>1, <2>1, <2>6, <3>1, <3>2 DEF InStep, Ready
    <2> QED
      BY <2>3, <2>4, <2>5, <2>7, <2>8 DEF IInv
  <1> QED
    BY <1>2, <1>3

\* The run of a task is over: nothing is shown any more.
LEMMA RunEnds ==
  ASSUME IInv, NEW t \in Tasks, Live(t), End(t), tasks[t].kind \in {"generate", "cancel", "observe"},
         UNCHANGED <<serverVars, project, proposal, locked, faults, knownDecided, unsure>>,
         run' = run + 1, operation' = None, context' = None, overlapped' \in BOOLEAN,
         ~overlapped' => ~overlapped /\ operation = "generating_proposal",
         ~overlapped' /\ faults = 0 =>
           /\ ~Ready(context)
           /\ \/ tasks[t].kind = "generate" /\ tasks[t].run = run
              \/ attempts[context] \notin {"queued", "running"}
  PROVE  IInv'
  <1>1. /\ attempts' = attempts /\ review' = review /\ revision' = revision /\ run \in Nat
    BY DEF serverVars, IInv, Shape
  <1>2. Paged(t, NoTask)
    BY EndPaged
  <1>3. Shape'
    BY <1>1, <1>2 DEF IInv, Shape, Paged, TasksOK
  <1>4. Known'
    BY <1>1 DEF IInv, Known, Ready
  <1>5. AInv'
    BY <1>2, EndSound
  <1>6. BInv'
    <2> SUFFICES ASSUME ~overlapped' PROVE BInv'
      BY DEF BInv
    <2>1. Unowned(t)
      BY EndsUnowned
    <2>2. proposal \in knownDecided \cup unsure => locked
      BY DEF IInv, BInv, Orderly
    <2>3. run' # run
      BY <1>1
    <2> QED
      BY <1>2, <1>4, <2>1, <2>2, <2>3, EndOrder
  <1>7. CInv'
    <2> SUFFICES ASSUME ~overlapped', faults = 0
                 PROVE  /\ InStep'
                        /\ \A j : Other(t, j) /\ j.kind = "generate" /\ j.run = run =>
                             attempts[j.attempt] \notin {"queued", "running"}
      <3>1. run' # run
        BY <1>1
      <3> QED
        BY <1>2, <3>1, PagedFresh
    <2>1. InStep /\ operation' # "generating_proposal"
      BY NoneAssumption DEF IInv, CInv, Operations
    <2>2. \A u \in Tasks : Deciding(u) => Deciding(u)'
      BY <1>2 DEF Paged, Turn, Deciding, Live, Answered
    <2>3. review # None => Ready(review.attempt)
      BY DEF IInv, Known
    <2>4. InStep'
      BY <1>1, <2>1, <2>2, <2>3 DEF InStep, Ready
    <2>5. ASSUME NEW j, Other(t, j), j.kind = "generate", j.run = run
          PROVE  attempts[j.attempt] \notin {"queued", "running"}
      <3>1. Beside(j) /\ Apart(tasks[t], j)
        BY <2>5, Others
      <3> QED
        BY <2>5, <3>1 DEF Beside, Apart, Owner
    <2> QED
      BY <2>4, <2>5
  <1> QED
    BY <1>3, <1>4, <1>5, <1>6, <1>7 DEF IInv

LEMMA ProposalFailedKeeps ==
  ASSUME IInv, NEW t \in Tasks, ProposalFailed(t)
  PROVE  IInv'
  <1>1. /\ Live(t) /\ tasks[t].kind = "generate" /\ tasks[t].error # None /\ End(t)
        /\ ~overlapped => Owns(tasks[t]) /\ Beside(tasks[t])
        /\ ~overlapped /\ faults = 0 => Fresh(tasks[t])
    BY BroughtFacts DEF ProposalFailed, Threw
  <1>2. CASE ~Current(t)
    <2>1. ~Owner(tasks[t])
      BY <1>1, <1>2 DEF Owner, Current
    <2> QED
      BY <1>1, <1>2, <2>1, BackEnds DEF ProposalFailed, pageVars
  <1>3. CASE Current(t)
    <2>1. /\ run' = run + 1 /\ operation' = None /\ context' = None /\ locked' = locked
          /\ UNCHANGED <<serverVars, project, proposal, faults, knownDecided, unsure>>
          /\ overlapped' = overlapped
      BY <1>3 DEF ProposalFailed, Fail, ClearAttempt, EndRun, told, IInv, Shape
    <2>2. ~overlapped => operation = "generating_proposal" /\ tasks[t].run = run /\ tasks[t].attempt = context
      BY <1>1, <1>3 DEF Owns, Beside, Current
    <2>3. ~overlapped /\ faults = 0 => ~Ready(context)
      BY <1>1, <2>2 DEF Fresh
    <2>4. overlapped' \in BOOLEAN
      BY <2>1 DEF IInv, Shape
    <2> QED
      BY <1>1, <2>1, <2>2, <2>3, <2>4, RunEnds
  <1> QED
    BY <1>2, <1>3

LEMMA CancelledKeeps ==
  ASSUME IInv, NEW t \in Tasks, Cancelled(t)
  PROVE  IInv'
  <1>1. /\ Live(t) /\ tasks[t].kind = "cancel" /\ End(t)
        /\ attempts[tasks[t].attempt] = "cancelled"
        /\ ~overlapped => Owns(tasks[t]) /\ Beside(tasks[t])
    <2>1. Sound(tasks[t]) /\ Answered(tasks[t]) /\ tasks[t].kind = "cancel"
      BY BroughtFacts DEF Cancelled, Fine
    <2> QED
      BY <2>1, BroughtFacts DEF Cancelled, Fine, Sound
  <1>2. CASE ~Current(t)
    <2>1. ~Owner(tasks[t])
      BY <1>1, <1>2 DEF Owner
    <2> QED
      BY <1>1, <1>2, <2>1, BackEnds DEF Cancelled
  <1>3. CASE Current(t)
    <2>1. /\ run' = run + 1 /\ operation' = None /\ context' = None /\ locked' = locked
          /\ UNCHANGED <<serverVars, project, proposal, faults, knownDecided, unsure>>
          /\ overlapped' = overlapped
      BY <1>3 DEF Cancelled, ClearAttempt, EndRun, told
    <2>2. ~overlapped => operation = "generating_proposal" /\ tasks[t].attempt = context
      BY <1>1, <1>3 DEF Beside, Current, Ready
    <2>3. ~overlapped => ~Ready(context) /\ attempts[context] \notin {"queued", "running"}
      BY <1>1, <2>2 DEF Ready
    <2>4. overlapped' \in BOOLEAN
      BY <2>1 DEF IInv, Shape
    <2> QED
      BY <1>1, <2>1, <2>2, <2>3, <2>4, RunEnds
  <1> QED
    BY <1>2, <1>3

LEMMA ObserveAttemptKeeps ==
  ASSUME IInv, NEW t \in Tasks, ObserveAttempt(t)
  PROVE  IInv'
  <1>1. /\ run' = run /\ context' = context /\ locked' = locked /\ faults' = faults
        /\ proposal' = proposal /\ knownDecided' = knownDecided /\ unsure' = unsure
        /\ project' = project /\ attempts' = attempts /\ review' = review /\ revision' = revision
        /\ overlapped' = overlapped /\ operation' = operation /\ UNCHANGED serverVars
    BY DEF ObserveAttempt, pageVars, told, serverVars
  <1>2. /\ Live(t) /\ TasksOK /\ tasks[t] \in AllTasks /\ tasks[t].attempt \in Attempts
        /\ tasks[t].kind = "cancel" /\ tasks[t].error # None /\ Sound(tasks[t])
        /\ ~overlapped => Owns(tasks[t]) /\ Beside(tasks[t])
        /\ ~overlapped /\ faults = 0 => Fresh(tasks[t])
    BY BroughtFacts DEF ObserveAttempt, Threw
  <1>3. PICK k : /\ Turn(t, k) /\ TasksOK' /\ k \in AllTasks /\ SameAnswers(t, k)
                 /\ k.kind = "observe" /\ k.attempt = tasks[t].attempt /\ k.run = tasks[t].run
                 /\ k.wants = {"status", "project"} /\ k.error = None
    <2>1. "observe" \in Kinds /\ {"status", "project"} \in SUBSET Requests
      BY DEF Kinds, Requests
    <2>2. Continue(t, "observe", {"status", "project"})
      BY DEF ObserveAttempt
    <2>3. \E k : Turn(t, k) /\ TasksOK' /\ Goes(t, k, "observe", {"status", "project"})
      BY <1>2, <2>1, <2>2, Continuing
    <2> QED
      BY <2>3 DEF Goes
  <1>4. Paged(t, k) /\ k # NoTask
    BY <1>1, <1>3, TaskFacts DEF Paged
  <1>5. Sound(k)'
    <2>1. (\A x \in k.wants : Sends(k.kind, x))'
      BY <1>3 DEF Sends
    <2>2. Sound(tasks[t])
      BY <1>2
    <2> QED
      BY <1>1, <1>2, <1>3, <2>1, <2>2 DEF Sound, SameAnswers, Ready, Answered
  <1>6. Shape'
    BY <1>1, <1>3 DEF IInv, Shape, TasksOK
  <1>7. Known'
    BY <1>1 DEF IInv, Known, Ready
  <1>8. AInv'
    BY <1>3, <1>4, <1>5, PagedSound
  <1>9. BInv'
    <2> SUFFICES ASSUME ~overlapped PROVE BInv'
      BY <1>1 DEF BInv
    <2>1. Beside(k) /\ ~Owner(k) /\ ~Owner(tasks[t])
      BY <1>2, <1>3 DEF Beside, Owner, Answered
    <2>2. \A j : Other(t, j) /\ j.kind = "context" => k.attempt # j.attempt
      BY <1>2, <1>3, Others DEF Apart
    <2> QED
      BY <1>1, <1>3, <1>4, <2>1, <2>2, BackOrder
  <1>10. CInv'
    <2> SUFFICES ASSUME ~overlapped, faults = 0 PROVE InStep' /\ Fresh(k)'
      BY <1>1, <1>4, PagedFresh
    <2>1. Fresh(k)'
      BY <1>1, <1>2, <1>3 DEF Fresh, Ready
    <2>2. ~Deciding(t)
      BY <1>2 DEF Deciding
    <2> QED
      BY <1>1, <1>4, <2>1, <2>2, BackInStep
  <1> QED
    BY <1>6, <1>7, <1>8, <1>9, <1>10 DEF IInv

LEMMA HandleObservedStatusKeeps ==
  ASSUME IInv, NEW t \in Tasks, HandleObservedStatus(t)
  PROVE  IInv'
  <1>1. /\ Live(t) /\ TasksOK /\ tasks[t] \in AllTasks /\ tasks[t].attempt \in Attempts
        /\ tasks[t].kind = "observe" /\ Sound(tasks[t])
        /\ tasks[t].error = None => Answered(tasks[t])
        /\ tasks[t].project \in Projections \cup {None}
        /\ ~overlapped => Owns(tasks[t]) /\ Beside(tasks[t])
        /\ ~overlapped /\ faults = 0 => Fresh(tasks[t])
    BY BroughtFacts DEF HandleObservedStatus
  <1>2. CASE /\ End(t)
             /\ UNCHANGED <<project, context, proposal, operation, locked, run, told>>
    <2>1. ~Owner(tasks[t])
      BY <1>1 DEF Owner
    <2> QED
      BY <1>1, <1>2, <2>1, BackEnds DEF HandleObservedStatus
  <1>3. ASSUME Current(t), run' = run + 1,
               overlapped' = (overlapped \/ operation # "generating_proposal")
        PROVE  /\ overlapped' \in BOOLEAN
               /\ ~overlapped' => /\ ~overlapped /\ operation = "generating_proposal"
                                  /\ tasks[t].attempt = context
    <2>1. overlapped' \in BOOLEAN
      BY <1>3, Zenon
    <2>2. ~overlapped' => ~overlapped /\ operation = "generating_proposal"
      BY <1>3, Zenon
    <2> QED
      BY <1>1, <1>3, <2>1, <2>2 DEF Beside, Current
  <1>4. CASE /\ Current(t) /\ run' = run + 1
             /\ overlapped' = (overlapped \/ operation # "generating_proposal")
             /\ \/ /\ tasks[t].error # None \/ tasks[t].status = "provider_failed"
                   /\ Fail(TRUE, FALSE)
                \/ tasks[t].error = None /\ tasks[t].status = "cancelled" /\ ClearAttempt
             /\ End(t) /\ UNCHANGED <<knownDecided, unsure>>
    <2>1. /\ operation' = None /\ context' = None /\ locked' = locked
          /\ UNCHANGED <<serverVars, project, proposal, faults, knownDecided, unsure>>
      BY <1>4 DEF HandleObservedStatus, Fail, ClearAttempt, IInv, Shape
    <2>2. ~overlapped' => ~overlapped /\ operation = "generating_proposal"
      BY <1>3, <1>4
    <2>3. ~(~overlapped' /\ faults = 0)
      BY <1>1, <1>4, <2>2 DEF Fresh, Answered
    <2>4. overlapped' \in BOOLEAN
      BY <1>3, <1>4
    <2> QED
      BY <1>1, <1>4, <2>1, <2>2, <2>3, <2>4, RunEnds
  <1>5. CASE /\ Current(t) /\ run' = run + 1
             /\ overlapped' = (overlapped \/ operation # "generating_proposal")
             /\ tasks[t].error = None /\ LoadProject(t)
    <2> DEFINE p == tasks[t].project
               b == p.review.attempt
    <2>1. /\ project' = p /\ context' = None /\ proposal' = None
          /\ locked' = (p.review # None /\ p.review.unsettled)
          /\ unsure' = IF tasks[t].early THEN unsure ELSE {}
          /\ knownDecided' = knownDecided /\ faults' = faults /\ UNCHANGED serverVars
          /\ attempts' = attempts /\ review' = review /\ revision' = revision
          /\ run \in Nat /\ run' = run + 1
      BY <1>5 DEF LoadProject, HandleObservedStatus, serverVars, IInv, Shape
    <2>2. /\ p \in Projections /\ p.revision \in Nat /\ p.review \in Reviews \cup {None}
          /\ p.review # None => b \in Attempts /\ Ready(b)
      BY <1>1, <1>5 DEF Sound, Answered, Projections, Reviews
    <2>3. PICK k : /\ Turn(t, k) /\ TasksOK'
                   /\ \/ k = NoTask /\ p.review = None /\ operation' = None
                      \/ /\ p.review # None /\ operation' = "restoring_review"
                         /\ New(k, "restore", b, {"review"}) /\ k.run = run'
      <3>1. CASE p.review = None
        BY <1>1, <1>5, <3>1, Ending DEF LoadProject
      <3>2. CASE p.review # None
        <4> DEFINE n == Task("restore", b, {"review"})
                   k == [n EXCEPT !.revision = p.revision, !.run = run + 1]
        <4>1. "restore" \in Kinds /\ {"review"} \in SUBSET Requests
          BY DEF Kinds, Requests
        <4>2. New(n, "restore", b, {"review"})
          BY <2>2, <3>2, <4>1, NewTasks DEF IInv
        <4>3. tasks' = [tasks EXCEPT ![t] = k] /\ operation' = "restoring_review"
          BY <1>5, <3>2 DEF LoadProject
        <4> DEFINE r == p.revision
                   m == run + 1
        <4>4. k = [n EXCEPT !.revision = r, !.run = m] /\ r \in Nat /\ m \in Nat
          BY <2>1, <2>2
        <4> HIDE DEF k, n, p, b, r, m
        <4>5. New(k, "restore", b, {"review"}) /\ k.run = m
          BY <4>2, <4>4 DEF New, AllTasks
        <4>6. k \in AllTasks
          BY <4>5 DEF New
        <4> QED
          BY <1>1, <2>1, <3>2, <4>3, <4>5, <4>6, NewTask DEF m
      <3> QED
        BY <3>1, <3>2
    <2>4. Paged(t, k)
      BY <2>1, <2>3 DEF Paged
    <2>5. k # NoTask =>
            /\ p.review # None /\ operation' = "restoring_review" /\ k.kind = "restore" /\ k.attempt = b
            /\ k.error = None /\ k.review = None /\ k.project = None /\ k.wants = {"review"}
            /\ ~k.early /\ k.run = run'
      BY <2>3 DEF New
    <2>6. operation' \in {None, "restoring_review"} /\ operation' # "generating_proposal"
      BY <2>3, NoneAssumption DEF Operations
    <2>7. ~overlapped' => ~overlapped /\ operation = "generating_proposal" /\ tasks[t].attempt = context
      BY <1>3, <1>5
    <2>8. Shape'
      <3>1. overlapped' \in BOOLEAN
        BY <1>3, <1>5
      <3>2. locked' \in BOOLEAN
        BY <2>1, Zenon
      <3> QED
        BY <2>1, <2>2, <2>3, <2>6, <3>1, <3>2 DEF IInv, Shape, TasksOK, Operations
    <2> HIDE DEF b
    <2>9. Known'
      <3>1. project'.review # None => Ready(project'.review.attempt)
        BY <2>1, <2>2 DEF b
      <3> QED
        BY <2>1, <3>1 DEF IInv, Known, Ready
    <2> HIDE DEF p
    <2>10. k # NoTask => Sound(k)'
      <3>1. ASSUME k # NoTask PROVE (\A x \in k.wants : Sends(k.kind, x))'
        BY <2>5, <3>1 DEF Sends
      <3> QED
        BY <2>1, <2>2, <2>5, <3>1 DEF Sound, Ready, Answered
    <2>11. AInv'
      BY <2>4, <2>5, <2>10, PagedSound
    <2>12. BInv'
      <3> SUFFICES ASSUME ~overlapped' PROVE BInv'
        BY DEF BInv
      <3>1. Unowned(t)
        BY <2>1, <2>7, EndsUnowned
      <3>2. Orderly'
        BY <2>1, <2>6, StudioPageAssumption DEF Orderly, IInv, Shape
      <3>3. k # NoTask => Owns(k)' /\ Beside(k)'
        BY <2>1, <2>2, <2>5, <2>6, StudioPageAssumption DEF Owns, Owner, Beside, Answered
      <3> QED
        BY <2>1, <2>4, <2>5, <2>7, <3>1, <3>2, <3>3, UnownedOrder
    <2>13. CInv'
      <3> SUFFICES ASSUME ~overlapped', faults = 0
                   PROVE  /\ InStep' /\ (k # NoTask => Fresh(k)')
                          /\ \A j : Other(t, j) /\ j.kind = "generate" /\ j.run = run =>
                               attempts[j.attempt] \notin {"queued", "running"}
        BY <2>1, <2>4, <2>7, PagedFresh
      <3>1. p = Projection /\ Ready(context)
        BY <1>1, <1>5, <2>7 DEF Fresh, Answered, Current, p
      <3>2. p.revision = revision /\ p.review = review
        BY <3>1 DEF Projection
      <3>3. InStep
        BY <2>7 DEF IInv, CInv
      <3>4. InStep'
        BY <2>1, <2>6, <3>2, <3>3 DEF InStep
      <3>5. k # NoTask => Fresh(k)'
        BY <2>1, <2>5, <3>2 DEF Fresh, b
      <3>6. ASSUME NEW j, Other(t, j), j.kind = "generate", j.run = run
            PROVE  attempts[j.attempt] \notin {"queued", "running"}
        BY <2>7, <3>1, <3>6, Others DEF Beside, Ready
      <3> QED
        BY <3>4, <3>5, <3>6
    <2> QED
      BY <2>8, <2>9, <2>11, <2>12, <2>13 DEF IInv
  <1> QED
    BY <1>2, <1>4, <1>5 DEF HandleObservedStatus

\* REVIEW_RESTORED and REVIEW_RECONCILED.
LEMMA ReviewShownKeeps ==
  ASSUME IInv, NEW t \in Tasks, NEW kind, kind \in {"restore", "reconcile"}, Fine(t, kind),
         ShowReview(tasks[t].attempt, tasks[t].review), LearnReview(t), KeepRun,
         UNCHANGED <<serverVars, project, context, faults>>,
         \/ End(t)
         \/ \E after \in {"after_restore", "after_reconcile"} : Continue(t, after, {"project"}),
         kind = "restore" => (tasks[t].review # None => End(t))
  PROVE  IInv'
  <1> DEFINE a == tasks[t].attempt
             r == tasks[t].review
  <1>1. /\ Live(t) /\ TasksOK /\ tasks[t] \in AllTasks /\ a \in Attempts
        /\ tasks[t].kind = kind /\ Sound(tasks[t]) /\ tasks[t].error = None
        /\ Answered(tasks[t]) /\ r \in Reviews \cup {None}
        /\ ~overlapped => Owns(tasks[t]) /\ Beside(tasks[t])
        /\ ~overlapped /\ faults = 0 => Fresh(tasks[t])
    BY BroughtFacts DEF Fine
  <1>2. /\ run' = run /\ context' = context /\ project' = project /\ faults' = faults
        /\ attempts' = attempts /\ review' = review /\ revision' = revision
        /\ overlapped' = overlapped /\ operation' = None /\ UNCHANGED serverVars
        /\ proposal' = IF r = None THEN None ELSE a
        /\ locked' = (r # None /\ r.unsettled)
        /\ knownDecided' = IF r = None THEN knownDecided \cup {a} ELSE knownDecided
        /\ unsure' = IF tasks[t].early THEN unsure ELSE unsure \ {a}
    BY DEF ShowReview, LearnReview, KeepRun, serverVars
  <1>3. Ready(a) /\ (r = None => review = None \/ review.attempt # a)
    BY <1>1 DEF Sound
  <1>4. PICK k : /\ Turn(t, k) /\ TasksOK'
                 /\ \/ k = NoTask
                    \/ /\ Goes(t, k, "after_restore", {"project"}) \/ Goes(t, k, "after_reconcile", {"project"})
                       /\ ~End(t)
    <2>1. CASE End(t)
      BY <1>1, <2>1, Ending
    <2>2. ASSUME NEW after \in {"after_restore", "after_reconcile"}, Continue(t, after, {"project"}), ~End(t)
          PROVE  \E k : Turn(t, k) /\ TasksOK' /\ Goes(t, k, after, {"project"})
      <3>1. after \in Kinds /\ {"project"} \in SUBSET Requests
        BY DEF Kinds, Requests
      <3> QED
        BY <1>1, <2>2, <3>1, Continuing
    <2>3. CASE ~End(t)
      <3>1. PICK after \in {"after_restore", "after_reconcile"} : Continue(t, after, {"project"})
        BY <2>3
      <3>2. PICK k : Turn(t, k) /\ TasksOK' /\ Goes(t, k, after, {"project"})
        BY <2>2, <2>3, <3>1
      <3> QED
        BY <2>3, <3>1, <3>2
    <2> QED
      BY <2>1, <2>3
  <1>5. Paged(t, k)
    BY <1>2, <1>4 DEF Paged
  <1>6. k # NoTask =>
          /\ k.kind \in {"after_restore", "after_reconcile"} /\ k.attempt = a /\ k.run = tasks[t].run
          /\ k.wants = {"project"} /\ k.error = None /\ k.early = FALSE
          /\ k.project = tasks[t].project
    BY <1>4 DEF Goes, SameAnswers
  <1>7. Shape'
    <2>1. locked' \in BOOLEAN
      BY <1>2, Zenon
    <2>2. operation' \in Operations \cup {None} /\ overlapped' \in BOOLEAN /\ TasksOK'
      BY <1>2, <1>4 DEF IInv, Shape
    <2>3. proposal' \in Attempts \cup {None} /\ knownDecided' \subseteq Attempts /\ unsure' \subseteq Attempts
      BY <1>1, <1>2 DEF IInv, Shape
    <2> QED
      BY <1>2, <2>1, <2>2, <2>3 DEF IInv, Shape, TasksOK
  <1> HIDE DEF a, r
  <1>8. Known'
    <2>1. \A b \in knownDecided' : Ready(b) /\ (review = None \/ review.attempt # b)
      BY <1>2, <1>3 DEF IInv, Known
    <2>2. \A b \in unsure' : Ready(b)
      BY <1>2 DEF IInv, Known
    <2> QED
      BY <1>2, <1>3, <2>1, <2>2 DEF IInv, Known, Ready
  <1>9. k # NoTask => Sound(k)'
    <2>1. ASSUME k # NoTask PROVE (\A x \in k.wants : Sends(k.kind, x))'
      BY <1>6, <2>1 DEF Sends
    <2> QED
      BY <1>1, <1>2, <1>3, <1>6, <2>1 DEF Sound, Ready, Answered
  <1>10. AInv'
    BY <1>5, <1>6, <1>9, PagedSound
  <1>11. ~overlapped => /\ operation \in {"restoring_review", "reconciling_review"} /\ Owner(tasks[t])
                        /\ ~tasks[t].early /\ a # context /\ (r # None => a \notin knownDecided)
    BY <1>1 DEF Owns, Owner, Beside, a, r
  <1>12. operation' # "generating_proposal"
    BY <1>2, NoneAssumption DEF Operations
  <1>13. BInv'
    <2> SUFFICES ASSUME ~overlapped PROVE BInv'
      BY <1>2 DEF BInv
    <2>1. Unowned(t)
      BY <1>1, <1>2, <1>11, EndsUnowned
    <2>2. r # None => proposal' \notin knownDecided' \cup unsure'
      BY <1>2, <1>11
    <2>3. r = None => proposal' \notin knownDecided' \cup unsure'
      BY <1>2, <1>7, StudioPageAssumption DEF Shape
    <2>4. context # None => attempts[context] = "queued"
      BY <1>11 DEF IInv, BInv, Orderly
    <2>5. context # None => context \notin knownDecided' \cup unsure'
      BY <1>2, <1>8, <2>4 DEF Known, Ready
    <2>6. Orderly'
      BY <1>2, <1>12, <2>2, <2>3, <2>4, <2>5 DEF Orderly
    <2>7. k # NoTask => Owns(k)' /\ Beside(k)'
      BY <1>2, <1>6, <1>11 DEF Owns, Owner, Beside, Answered
    <2> QED
      BY <1>2, <1>5, <1>6, <1>11, <1>12, <2>1, <2>6, <2>7, UnownedOrder
  <1>14. CInv'
    <2> SUFFICES ASSUME ~overlapped, faults = 0 PROVE InStep' /\ k = NoTask
      BY <1>2, <1>5, <1>12, PagedFresh
    <2>1. /\ kind = "restore" /\ review # None /\ review.attempt = a /\ r = review
      BY <1>1 DEF Fresh, Answered, a, r
    <2>2. k = NoTask
      BY <1>4, <2>1 DEF r
    <2>3. InStep
      BY DEF IInv, CInv
    <2>4. \A u \in Tasks : Deciding(u) => Deciding(u)'
      BY <1>1, <1>5, <2>1 DEF Paged, Turn, Deciding, Live, Answered
    <2>5. ~locked' /\ proposal' = a
      BY <1>2, <2>1, <2>3 DEF InStep
    <2> QED
      BY <1>2, <1>12, <2>1, <2>2, <2>3, <2>4, <2>5 DEF InStep, Ready
  <1> QED
    BY <1>7, <1>8, <1>10, <1>13, <1>14 DEF IInv

LEMMA ReviewRestoredKeeps ==
  ASSUME IInv, NEW t \in Tasks, ReviewRestored(t)
  PROVE  IInv'
  BY ReviewShownKeeps DEF ReviewRestored

LEMMA ReviewReconciledKeeps ==
  ASSUME IInv, NEW t \in Tasks, ReviewReconciled(t)
  PROVE  IInv'
  BY ReviewShownKeeps DEF ReviewReconciled

\* FAILED or PROJECT_REFRESHED, at the end of a task that has the operation or while there is none.
LEMMA TaskEnds ==
  ASSUME IInv, NEW t \in Tasks, Live(t), End(t), tasks[t].kind # "generate",
         UNCHANGED <<serverVars, run, faults, knownDecided>>,
         operation' = None, overlapped' \in BOOLEAN, unsure' \subseteq unsure, locked' \in BOOLEAN,
         context' \in {context, None}, project' = project \/ project' = tasks[t].project,
         tasks[t].project \in Projections \/ project' = project,
         proposal' \in {proposal, None},
         ~overlapped' => ~overlapped /\ (operation = None \/ Owner(tasks[t])),
         ~overlapped' => proposal' = None \/ locked' \/ (operation # "refreshing_project" /\ locked' = locked),
         ~overlapped' /\ faults = 0 => InStep'
  PROVE  IInv'
  <1>1. /\ attempts' = attempts /\ review' = review /\ revision' = revision /\ run \in Nat
    BY DEF serverVars, IInv, Shape
  <1>2. Paged(t, NoTask)
    BY EndPaged
  <1>3. Shape'
    BY <1>1, <1>2 DEF IInv, Shape, Paged, TasksOK
  <1>4. Known'
    <2>1. Sound(tasks[t])
      BY DEF IInv, AInv
    <2>2. project'.review # None => attempts[project'.review.attempt] = "proposal_ready"
      BY <2>1, NoneAssumption DEF IInv, Known, Ready, Sound
    <2> QED
      BY <1>1, <2>2 DEF IInv, Known, Ready
  <1>5. AInv'
    BY <1>2, EndSound
  <1>6. operation' # "generating_proposal"
    BY NoneAssumption DEF Operations
  <1>7. BInv'
    <2> SUFFICES ASSUME ~overlapped' PROVE BInv'
      BY DEF BInv
    <2>1. Unowned(t)
      BY <1>1, EndsUnowned
    <2>2. operation # "generating_proposal"
      BY NoneAssumption DEF IInv, BInv, Owner, Owns, Operations
    <2>3. proposal' \in knownDecided' \cup unsure' => locked'
      BY StudioPageAssumption DEF IInv, BInv, Orderly, Shape
    <2> QED
      BY <1>1, <1>2, <1>4, <2>1, <2>2, <2>3, EndOrder
  <1>8. CInv'
    <2> SUFFICES ASSUME ~overlapped', faults = 0 PROVE InStep'
      BY <1>1, <1>2, <1>6, PagedFresh
    <2> QED
      OBVIOUS
  <1> QED
    BY <1>3, <1>4, <1>5, <1>7, <1>8 DEF IInv

LEMMA RefreshedKeeps ==
  ASSUME IInv, NEW t \in Tasks, Refreshed(t)
  PROVE  IInv'
  <1>1. /\ Live(t) /\ tasks[t].kind \in {"after_restore", "after_reconcile"} /\ Sound(tasks[t])
        /\ Answered(tasks[t]) /\ tasks[t].project \in Projections \cup {None}
        /\ ~overlapped /\ faults = 0 => Fresh(tasks[t])
    BY BroughtFacts DEF Refreshed, Fine
  <1>2. tasks[t].project \in Projections
    BY <1>1 DEF Sound, Answered
  <1>3. overlapped' = (overlapped \/ operation # None) /\ End(t) /\ UNCHANGED <<serverVars, run, faults>>
    BY DEF Refreshed, KeepRun
  <1>4. overlapped' \in BOOLEAN /\ (~overlapped' => ~overlapped /\ operation = None)
    <2>1. overlapped' \in BOOLEAN
      BY <1>3, Zenon
    <2>2. ~overlapped' => ~overlapped /\ operation = None
      BY <1>3, Zenon
    <2> QED
      BY <2>1, <2>2
  <1>5. ~(~overlapped' /\ faults = 0)
    BY <1>1, <1>4 DEF Fresh
  <1>6. None # "refreshing_project"
    BY NoneAssumption DEF Operations
  <1>7. CASE Fail(FALSE, FALSE) /\ UNCHANGED <<knownDecided, unsure>>
    <2>1. /\ operation' = None /\ context' = context /\ project' = project /\ proposal' = proposal
          /\ locked' = locked /\ locked' \in BOOLEAN /\ unsure' \subseteq unsure /\ knownDecided' = knownDecided
      BY <1>7 DEF Fail, IInv, Shape
    <2> QED
      BY <1>1, <1>2, <1>3, <1>4, <1>5, <1>6, <2>1, TaskEnds
  <1>8. CASE Refresh(tasks[t].project, tasks[t].review = None) /\ LearnProject(t)
    <2>1. /\ operation' = None /\ context' = None /\ project' = tasks[t].project
          /\ unsure' \subseteq unsure /\ knownDecided' = knownDecided
      BY <1>8 DEF Refresh, LearnProject
    <2>2. CASE tasks[t].review = None
      <3>1. proposal' = None /\ locked' = FALSE
        BY <1>8, <2>2 DEF Refresh
      <3> QED
        BY <1>1, <1>2, <1>3, <1>4, <1>5, <2>1, <3>1, TaskEnds
    <2>3. CASE tasks[t].review # None
      <3>1. proposal' = proposal /\ locked' = locked /\ locked' \in BOOLEAN
        BY <1>8, <2>3 DEF Refresh, IInv, Shape
      <3> QED
        BY <1>1, <1>2, <1>3, <1>4, <1>5, <1>6, <2>1, <3>1, TaskEnds
    <2> QED
      BY <2>2, <2>3
  <1> QED
    BY <1>7, <1>8 DEF Refreshed

LEMMA ReviewTaskFailedKeeps ==
  ASSUME IInv, NEW t \in Tasks, ReviewTaskFailed(t)
  PROVE  IInv'
  <1>1. PICK kind \in {"restore", "reconcile", "after_restore", "after_reconcile"} : Threw(t, kind)
    BY DEF ReviewTaskFailed
  <1>2. /\ Live(t) /\ tasks[t].kind = kind /\ tasks[t].error # None
        /\ ~overlapped => Owns(tasks[t])
        /\ ~overlapped /\ faults = 0 => Fresh(tasks[t])
    BY <1>1, BroughtFacts DEF Threw
  <1>3. /\ overlapped' = (overlapped \/ (operation # None
                            /\ tasks[t].kind \in {"after_restore", "after_reconcile"}))
        /\ End(t) /\ UNCHANGED <<serverVars, run, faults, knownDecided, unsure>>
        /\ operation' = None /\ context' = context /\ project' = project /\ proposal' = proposal
        /\ locked' = locked /\ locked' \in BOOLEAN
    BY DEF ReviewTaskFailed, KeepRun, Fail, IInv, Shape
  <1>4. /\ overlapped' \in BOOLEAN
        /\ ~overlapped' => /\ ~overlapped
                           /\ operation = None \/ tasks[t].kind \notin {"after_restore", "after_reconcile"}
    <2>1. overlapped' \in BOOLEAN
      BY <1>3, Zenon
    <2>2. ~overlapped' => /\ ~overlapped
                          /\ operation = None \/ tasks[t].kind \notin {"after_restore", "after_reconcile"}
      BY <1>3, Zenon
    <2> QED
      BY <2>1, <2>2
  <1>5. ~overlapped' => operation # "refreshing_project" /\ (operation = None \/ Owner(tasks[t]))
    BY <1>2, <1>4, NoneAssumption DEF Owns, Owner, Operations
  <1>6. ~(~overlapped' /\ faults = 0)
    BY <1>2, <1>4 DEF Fresh
  <1> QED
    BY <1>2, <1>3, <1>4, <1>5, <1>6, TaskEnds

LEMMA AfterDecisionKeeps ==
  ASSUME IInv, NEW t \in Tasks, AfterDecision(t)
  PROVE  IInv'
  <1>1. /\ Live(t) /\ tasks[t].kind = "after_decision" /\ Owner(tasks[t])
        /\ tasks[t].error = None => tasks[t].project \in Projections /\ Answered(tasks[t])
        /\ ~overlapped /\ faults = 0 => Fresh(tasks[t])
    <2>1. Brought(t, "after_decision")
      BY DEF AfterDecision
    <2> QED
      BY <2>1, BroughtFacts DEF Owner, Sound, Answered
  <1>2. End(t) /\ UNCHANGED <<serverVars, run, faults>>
    BY DEF AfterDecision, KeepRun
  <1>3. CASE tasks[t].error # None
    <2>1. /\ operation' = None /\ context' = context /\ project' = project /\ proposal' = proposal
          /\ locked' = TRUE /\ knownDecided' = knownDecided /\ unsure' = unsure /\ overlapped' = overlapped
          /\ overlapped' \in BOOLEAN
      BY <1>3 DEF AfterDecision, Fail, told, IInv, Shape
    <2>2. ~(~overlapped' /\ faults = 0)
      BY <1>1, <1>3, <2>1 DEF Fresh
    <2> QED
      BY <1>1, <1>2, <2>1, <2>2, TaskEnds
  <1>4. CASE tasks[t].error = None
    <2>1. /\ operation' = None /\ context' = None /\ project' = tasks[t].project /\ proposal' = None
          /\ locked' = FALSE /\ knownDecided' = knownDecided /\ unsure' \subseteq unsure
          /\ overlapped' = overlapped /\ overlapped' \in BOOLEAN
      BY <1>4 DEF AfterDecision, Refresh, LearnProject, IInv, Shape
    <2>2. ASSUME ~overlapped', faults = 0 PROVE InStep'
      <3>1. tasks[t].project = Projection
        BY <1>1, <1>4, <2>1, <2>2 DEF Fresh, Answered
      <3>2. project'.revision = revision /\ project'.review = review
        BY <2>1, <3>1 DEF Projection
      <3>3. InStep /\ review' = review /\ revision' = revision /\ attempts' = attempts
        BY <1>2, <2>1, <2>2 DEF IInv, CInv, serverVars
      <3>4. operation' # "generating_proposal"
        BY <2>1, NoneAssumption DEF Operations
      <3> QED
        BY <2>1, <3>2, <3>3, <3>4 DEF InStep
    <2> QED
      BY <1>1, <1>2, <1>4, <2>1, <2>2, TaskEnds
  <1> QED
    BY <1>3, <1>4

LEMMA DecisionCommittedKeeps ==
  ASSUME IInv, NEW t \in Tasks, DecisionCommitted(t)
  PROVE  IInv'
  <1> DEFINE a == tasks[t].attempt
  <1>1. /\ run' = run /\ context' = context /\ project' = project /\ faults' = faults
        /\ attempts' = attempts /\ review' = review /\ revision' = revision
        /\ overlapped' = overlapped /\ operation' = "refreshing_project" /\ UNCHANGED serverVars
        /\ proposal' = proposal /\ locked' = locked /\ unsure' = unsure
        /\ knownDecided' = knownDecided \cup {a}
    BY DEF DecisionCommitted, serverVars
  <1>2. /\ Live(t) /\ TasksOK /\ tasks[t] \in AllTasks /\ a \in Attempts
        /\ tasks[t].kind = "decide" /\ Sound(tasks[t]) /\ tasks[t].error = None
        /\ Answered(tasks[t])
        /\ ~overlapped => Owns(tasks[t]) /\ Beside(tasks[t])
    BY BroughtFacts DEF Fine, DecisionCommitted
  <1>3. Ready(a) /\ (review = None \/ review.attempt # a)
    BY <1>2 DEF Sound
  <1>4. PICK k : Turn(t, k) /\ TasksOK' /\ Goes(t, k, "after_decision", {"project"})
    <2>1. "after_decision" \in Kinds /\ {"project"} \in SUBSET Requests
      BY DEF Kinds, Requests
    <2>2. Continue(t, "after_decision", {"project"})
      BY DEF DecisionCommitted
    <2> QED
      BY <1>2, <2>1, <2>2, Continuing
  <1>5. Paged(t, k)
    BY <1>1, <1>4 DEF Paged
  <1>6. /\ k # NoTask /\ k.kind = "after_decision" /\ k.attempt = a /\ k.run = tasks[t].run
        /\ k.wants = {"project"} /\ k.error = None /\ k.early = FALSE
        /\ k.project = tasks[t].project
    BY <1>4, TaskFacts DEF Goes, SameAnswers
  <1>7. operation' # "generating_proposal" /\ operation' \in Operations
    BY <1>1 DEF Operations
  <1>8. Shape'
    BY <1>1, <1>2, <1>4, <1>7 DEF IInv, Shape, TasksOK
  <1> HIDE DEF a
  <1>9. Known'
    BY <1>1, <1>2, <1>3 DEF IInv, Known, Ready
  <1>10. Sound(k)'
    <2>1. (\A x \in k.wants : Sends(k.kind, x))'
      BY <1>6 DEF Sends
    <2> QED
      BY <1>1, <1>2, <1>3, <1>6, <2>1 DEF Sound, Ready, Answered
  <1>11. AInv'
    BY <1>5, <1>6, <1>10, PagedSound
  <1>12. ~overlapped => operation = "committing_decision" /\ Owner(tasks[t]) /\ a # context
    BY <1>2 DEF Owns, Owner, Beside, a
  <1>13. BInv'
    <2> SUFFICES ASSUME ~overlapped PROVE BInv'
      BY <1>1 DEF BInv
    <2>1. Unowned(t)
      BY <1>1, <1>2, <1>12, EndsUnowned
    <2>2. Orderly'
      BY <1>1, <1>7, <1>12 DEF Orderly, IInv, BInv
    <2>3. Owns(k)' /\ Beside(k)'
      BY <1>1, <1>6, <1>7, <1>12 DEF Owns, Owner, Beside, Answered
    <2> QED
      BY <1>1, <1>5, <1>6, <1>7, <1>12, <2>1, <2>2, <2>3, UnownedOrder
  <1>14. CInv'
    <2> SUFFICES ASSUME ~overlapped, faults = 0 PROVE InStep' /\ Fresh(k)'
      BY <1>1, <1>5, <1>7, PagedFresh
    <2>1. Fresh(k)'
      BY <1>6 DEF Fresh
    <2>2. Deciding(t)'
      BY <1>4, <1>6 DEF Deciding, Turn, Live
    <2>3. InStep /\ operation # "generating_proposal" /\ t \in Tasks
      BY <1>12 DEF IInv, CInv
    <2> QED
      BY <1>1, <1>7, <2>1, <2>2, <2>3 DEF InStep, Ready
  <1> QED
    BY <1>8, <1>9, <1>11, <1>13, <1>14 DEF IInv

\* A refused approval leaves the page as it was.
LEMMA DecisionRefusedKeeps ==
  ASSUME IInv, NEW t \in Tasks, Threw(t, "decide"), Fail(FALSE, FALSE), End(t), KeepRun,
         UNCHANGED <<serverVars, faults, told>>
  PROVE  IInv'
  <1>1. /\ Live(t) /\ tasks[t].kind = "decide" /\ Owner(tasks[t]) /\ tasks[t].error # None
        /\ ~overlapped => Owns(tasks[t])
    BY BroughtFacts DEF Threw, Owner
  <1>2. /\ operation' = None /\ context' = context /\ project' = project /\ proposal' = proposal
        /\ locked' = locked /\ knownDecided' = knownDecided /\ unsure' = unsure /\ overlapped' = overlapped
        /\ overlapped' \in BOOLEAN /\ run' = run /\ locked' \in BOOLEAN
        /\ attempts' = attempts /\ review' = review /\ revision' = revision
    BY DEF Fail, KeepRun, told, serverVars, IInv, Shape
  <1>3. ~overlapped' => operation = "committing_decision"
    BY <1>1, <1>2 DEF Owns
  <1>4. ASSUME ~overlapped', faults = 0 PROVE InStep'
    <2>1. InStep /\ operation # "generating_proposal" /\ operation' # "generating_proposal"
      BY <1>2, <1>3, <1>4, NoneAssumption DEF IInv, CInv, Operations
    <2>2. \A u \in Tasks : Deciding(u) => Deciding(u)'
      <3>1. Turn(t, NoTask)
        BY Ending DEF IInv, Shape, TasksOK
      <3> QED
        BY <1>1, <3>1 DEF Turn, Deciding, Live, Answered
    <2> QED
      BY <1>2, <2>1, <2>2 DEF InStep, Ready
  <1> QED
    BY <1>1, <1>2, <1>3, <1>4, TaskEnds

LEMMA SoundWhole ==
  ASSUME NEW u, NEW l, l = tasks'[u], Sound(l)'
  PROVE  Sound(tasks[u])'
  BY DEF Sound, Sends, Answered, Ready

\* An unknown outcome locks the Decision, and what is under way was sent before it.
LEMMA DecisionUnknownKeeps ==
  ASSUME IInv, NEW t \in Tasks, Threw(t, "decide"), tasks[t].error # "refused", Fail(FALSE, TRUE),
         unsure' = unsure \cup {tasks[t].attempt},
         tasks' = [u \in Tasks |->
            IF u = t \/ ~Live(u) THEN NoTask ELSE [tasks[u] EXCEPT !.early = TRUE]],
         KeepRun, UNCHANGED <<serverVars, faults, knownDecided, overlapped>>
  PROVE  IInv'
  <1> DEFINE a == tasks[t].attempt
  <1>1. /\ Live(t) /\ TasksOK /\ tasks[t] \in AllTasks /\ a \in Attempts
        /\ tasks[t].kind = "decide" /\ Owner(tasks[t]) /\ tasks[t].error # None /\ Ready(a)
        /\ ~overlapped => Owns(tasks[t])
        /\ ~overlapped /\ faults = 0 => Fresh(tasks[t])
    BY BroughtFacts DEF Threw, Owner, Sound
  <1>2. /\ operation' = None /\ context' = context /\ project' = project /\ proposal' = proposal
        /\ locked' = TRUE /\ knownDecided' = knownDecided /\ overlapped' = overlapped
        /\ run' = run /\ faults' = faults
        /\ attempts' = attempts /\ review' = review /\ revision' = revision
    BY DEF Fail, KeepRun, serverVars
  <1>3. operation' # "generating_proposal"
    BY <1>2, NoneAssumption DEF Operations
  <1>4. ASSUME NEW u \in Tasks, Live(u)'
        PROVE  \E j, l : /\ tasks'[u] = l /\ tasks[u] = j /\ Other(t, j) /\ Live(u) /\ u # t
                         /\ j \in AllTasks /\ l \in AllTasks
                         /\ l.kind = j.kind /\ l.attempt = j.attempt /\ l.run = j.run /\ l.wants = j.wants
                         /\ l.error = j.error /\ l.project = j.project /\ l.review = j.review
    <2>1. u # t /\ Live(u) /\ tasks'[u] = [tasks[u] EXCEPT !.early = TRUE]
      BY <1>4 DEF Live
    <2>2. Other(t, tasks[u]) /\ tasks[u] \in AllTasks
      BY <1>1, <2>1, LiveTask DEF Other
    <2>3. [tasks[u] EXCEPT !.early = TRUE] \in AllTasks
      BY <2>2 DEF AllTasks
    <2> QED
      BY <2>1, <2>2, <2>3 DEF AllTasks
  <1>5. Shape'
    <2>1. tasks' \in [Tasks -> AllTasks \cup {NoTask}]
      <3> SUFFICES ASSUME NEW u \in Tasks PROVE tasks'[u] \in AllTasks \cup {NoTask}
        OBVIOUS
      <3> QED
        BY <1>4 DEF Live
    <2> QED
      BY <1>1, <1>2, <2>1 DEF IInv, Shape
  <1>6. Known'
    BY <1>1, <1>2 DEF IInv, Known, Ready
  <1>7. AInv'
    <2>1. ASSUME NEW u \in Tasks, Live(u)' PROVE Sound(tasks[u])'
      <3>1. PICK j, l : /\ tasks'[u] = l /\ Other(t, j)
                        /\ l.kind = j.kind /\ l.attempt = j.attempt /\ l.run = j.run /\ l.wants = j.wants
                        /\ l.error = j.error /\ l.project = j.project /\ l.review = j.review
        BY <1>4, <2>1
      <3>2. Sound(j)
        BY <3>1, Others
      <3>3. Sound(l)'
        BY <1>2, <3>1, <3>2 DEF Sound, Sends, Answered, Ready
      <3>4. l = tasks'[u]
        BY <3>1
      <3> QED
        BY <3>3, <3>4, SoundWhole
    <2>2. ASSUME NEW u \in Tasks, NEW v \in Tasks, Live(u)', Live(v)', u # v,
                 tasks'[u].kind = "context", tasks'[v].kind = "context"
          PROVE  tasks'[u].attempt # tasks'[v].attempt
      <3>1. /\ Live(u) /\ tasks[u].kind = "context" /\ tasks[u].attempt = tasks'[u].attempt
            /\ Live(v) /\ tasks[v].kind = "context" /\ tasks[v].attempt = tasks'[v].attempt
        BY <1>4, <2>2
      <3> QED
        BY <2>2, <3>1 DEF IInv, AInv
    <2> QED
      BY <2>1, <2>2 DEF AInv
  <1>8. BInv'
    <2> SUFFICES ASSUME ~overlapped PROVE BInv'
      BY <1>2 DEF BInv
    <2>1. Alone(t) /\ operation = "committing_decision"
      BY <1>1, OwnersAlone DEF Owns
    <2>2. Orderly'
      <3>1. context # None => attempts[context] = "queued" /\ context \notin knownDecided \cup unsure
        BY <2>1 DEF IInv, BInv, Orderly
      <3>2. context # a
        BY <1>1, <3>1, StudioPageAssumption DEF Ready
      <3> QED
        BY <1>2, <1>3, <3>1, <3>2 DEF Orderly
    <2>3. ASSUME NEW u \in Tasks, Live(u)' PROVE (Owns(tasks[u]) /\ Beside(tasks[u]))'
      <3>1. PICK j, l : /\ tasks'[u] = l /\ Other(t, j)
                        /\ l.kind = j.kind /\ l.attempt = j.attempt /\ l.run = j.run /\ l.wants = j.wants
                        /\ l.error = j.error /\ l.project = j.project /\ l.review = j.review
        BY <1>4, <2>3
      <3>2. Beside(j) /\ ~Owner(j)
        BY <2>1, <3>1, Others DEF Alone
      <3>3. Owns(l)' /\ Beside(l)'
        BY <1>2, <1>3, <2>1, <3>1, <3>2 DEF Owns, Owner, Beside, Answered, Ready
      <3> QED
        BY <3>1, <3>3 DEF Owns, Owner, Beside, Answered, Ready
    <2>4. ASSUME NEW u \in Tasks, NEW v \in Tasks, Live(u)', Live(v)', u # v
          PROVE  Apart(tasks[u], tasks[v])'
      <3>1. /\ Live(u) /\ tasks[u].kind = tasks'[u].kind /\ tasks[u].attempt = tasks'[u].attempt
            /\ tasks[u].run = tasks'[u].run
            /\ Live(v) /\ tasks[v].kind = tasks'[v].kind /\ tasks[v].attempt = tasks'[v].attempt
            /\ tasks[v].run = tasks'[v].run
        BY <1>4, <2>4
      <3>2. Apart(tasks[u], tasks[v])
        BY <2>4, <3>1 DEF IInv, BInv
      <3> QED
        BY <1>2, <3>1, <3>2 DEF Apart, Owner
    <2> QED
      BY <2>2, <2>3, <2>4 DEF BInv
  <1>9. CInv'
    <2> SUFFICES ASSUME ~overlapped, faults = 0 PROVE FALSE
      BY <1>2 DEF CInv
    <2> QED
      BY <1>1 DEF Fresh
  <1> QED
    BY <1>5, <1>6, <1>7, <1>8, <1>9 DEF IInv

LEMMA DecisionFailedKeeps ==
  ASSUME IInv, NEW t \in Tasks, DecisionFailed(t)
  PROVE  IInv'
  <1>1. CASE tasks[t].error = "refused"
    BY <1>1, DecisionRefusedKeeps DEF DecisionFailed, told
  <1>2. CASE tasks[t].error # "refused"
    BY <1>2, DecisionUnknownKeeps DEF DecisionFailed
  <1> QED
    BY <1>1, <1>2

-----------------------------------------------------------------------------
(* The invariant holds in every reachable state. *)

LEMMA Initially ==
  ASSUME Init
  PROVE  IInv
  <1>1. \A t \in Tasks : ~Live(t)
    BY DEF Init, Live
  <1>2. operation = None /\ context = None /\ proposal = None /\ review = None
        /\ project.review = None /\ project.revision = revision /\ knownDecided = {} /\ unsure = {}
        /\ attempts = [a \in Attempts |-> "new"] /\ locked = FALSE /\ faults = 0
    BY DEF Init
  <1>3. Shape
    BY DEF Init, Shape, Projections, Statuses
  <1>4. Known
    BY <1>2 DEF Known
  <1>5. AInv
    BY <1>1 DEF AInv
  <1>6. BInv
    <2>1. Orderly
      BY <1>2, NoneAssumption DEF Orderly, Operations
    <2> QED
      BY <1>1, <2>1 DEF BInv
  <1>7. CInv
    <2>1. InStep
      BY <1>2, NoneAssumption DEF InStep, Operations
    <2> QED
      BY <1>1, <2>1 DEF CInv
  <1> QED
    BY <1>3, <1>4, <1>5, <1>6, <1>7 DEF IInv

LEMMA ClicksKeep ==
  ASSUME IInv, NEW t \in Tasks, Click(t)
  PROVE  IInv'
  <1>1. CASE \E a \in Attempts : ReviewContext(t, a)
    BY <1>1, ReviewContextKeeps
  <1>2. CASE CreateProposal(t)
    BY <1>2, CreateProposalKeeps
  <1>3. CASE CancelProposalAttempt(t)
    BY <1>3, CancelProposalAttemptKeeps
  <1>4. CASE RestoreProjectReview(t)
    BY <1>4, RestoreProjectReviewKeeps
  <1>5. CASE DecideProposal(t)
    BY <1>5, DecideProposalKeeps
  <1>6. CASE ReconcileActiveReview(t)
    BY <1>6, ReconcileActiveReviewKeeps
  <1> QED
    BY <1>1, <1>2, <1>3, <1>4, <1>5, <1>6 DEF Click

LEMMA ServingKeeps ==
  ASSUME IInv, NEW t \in Tasks, Serve(t)
  PROVE  IInv'
  <1>1. CASE CreateContext(t)
    BY <1>1, CreateContextKeeps
  <1>2. CASE ClaimAttempt(t)
    BY <1>2, ClaimAttemptKeeps
  <1>3. CASE FinishAttempt(t)
    BY <1>3, FinishAttemptKeeps
  <1>4. CASE CancelAiAttempt(t)
    BY <1>4, CancelAiAttemptKeeps
  <1>5. CASE GetAiAttemptStatus(t)
    BY <1>5, GetAiAttemptStatusKeeps
  <1>6. CASE GetProject(t)
    BY <1>6, GetProjectKeeps
  <1>7. CASE GetReview(t)
    BY <1>7, GetReviewKeeps
  <1>8. CASE CreateDecision(t)
    BY <1>8, CreateDecisionKeeps
  <1>9. CASE ReconcileReview(t)
    BY <1>9, ReconcileReviewKeeps
  <1> QED
    BY <1>1, <1>2, <1>3, <1>4, <1>5, <1>6, <1>7, <1>8, <1>9 DEF Serve

LEMMA ReceivingKeeps ==
  ASSUME IInv, NEW t \in Tasks, Receive(t)
  PROVE  IInv'
  <1>1. CASE ContextReady(t)
    BY <1>1, ContextReadyKeeps
  <1>2. CASE ProposalReady(t)
    BY <1>2, ProposalReadyKeeps
  <1>3. CASE ProposalFailed(t)
    BY <1>3, ProposalFailedKeeps
  <1>4. CASE Cancelled(t)
    BY <1>4, CancelledKeeps
  <1>5. CASE ObserveAttempt(t)
    BY <1>5, ObserveAttemptKeeps
  <1>6. CASE HandleObservedStatus(t)
    BY <1>6, HandleObservedStatusKeeps
  <1>7. CASE ReviewRestored(t)
    BY <1>7, ReviewRestoredKeeps
  <1>8. CASE ReviewReconciled(t)
    BY <1>8, ReviewReconciledKeeps
  <1>9. CASE Refreshed(t)
    BY <1>9, RefreshedKeeps
  <1>10. CASE ReviewTaskFailed(t)
    BY <1>10, ReviewTaskFailedKeeps
  <1>11. CASE DecisionCommitted(t)
    BY <1>11, DecisionCommittedKeeps
  <1>12. CASE DecisionFailed(t)
    BY <1>12, DecisionFailedKeeps
  <1>13. CASE AfterDecision(t)
    BY <1>13, AfterDecisionKeeps
  <1> QED
    BY <1>1, <1>2, <1>3, <1>4, <1>5, <1>6, <1>7, <1>8, <1>9, <1>10, <1>11, <1>12, <1>13 DEF Receive

LEMMA NextKeeps ==
  ASSUME IInv, [Next]_vars
  PROVE  IInv'
  <1>1. ASSUME NEW t \in Tasks, Click(t) PROVE IInv'
    BY <1>1, ClicksKeep
  <1>2. ASSUME NEW t \in Tasks, Serve(t) PROVE IInv'
    BY <1>2, ServingKeeps
  <1>3. ASSUME NEW t \in Tasks, Receive(t) PROVE IInv'
    BY <1>3, ReceivingKeeps
  <1>4. ASSUME NEW t \in Tasks, LoseRequest(t) PROVE IInv'
    BY <1>4, LoseRequestKeeps
  <1>5. ASSUME NEW t \in Tasks, LoseAnswer(t) PROVE IInv'
    BY <1>5, LoseAnswerKeeps
  <1>6. CASE CloseContext
    BY <1>6, CloseContextKeeps
  <1>7. CASE OtherFailure
    BY <1>7, OtherFailureKeeps
  <1>8. CASE UNCHANGED vars
    BY <1>8, StutterKeeps
  <1> QED
    BY <1>1, <1>2, <1>3, <1>4, <1>5, <1>6, <1>7, <1>8 DEF Next

\* Every reachable state satisfies the inductive invariant: the page's state,
\* the tasks under way and the answers they hold fit what the server has, as
\* far as no second operation has begun and no answer was lost.
THEOREM Invariance == Spec => []IInv
  <1>1. Init => IInv
    BY Initially
  <1>2. IInv /\ [Next]_vars => IInv'
    BY NextKeeps
  <1> QED
    BY <1>1, <1>2, PTL DEF Spec

\* One Decision is under way at a time, from the click on approval
\* (handleProposalDecision) to the end of the refresh that follows it, whatever
\* other tasks of the page are under way or answered late.
THEOREM DecisionsAreSingle == Spec => []OneDecision
  <1>1. ASSUME IInv PROVE OneDecision
    <2> SUFFICES ASSUME ~overlapped
                 PROVE Cardinality({t \in Tasks : Live(t) /\ tasks[t].kind \in {"decide", "after_decision"}}) <= 1
      BY DEF OneDecision
    <2> DEFINE D == {t \in Tasks : Live(t) /\ tasks[t].kind \in {"decide", "after_decision"}}
    <2>1. ASSUME NEW t \in D, NEW u \in D PROVE t = u
      <3>1. Owner(tasks[t]) /\ Owner(tasks[u]) /\ Live(t) /\ Live(u) /\ t \in Tasks /\ u \in Tasks
        BY DEF Owner
      <3>2. t # u => Apart(tasks[t], tasks[u])
        BY <1>1, <3>1 DEF IInv, BInv
      <3>3. ~Apart(tasks[t], tasks[u])
        BY <3>1 DEF Apart
      <3> QED
        BY <3>2, <3>3
    <2> HIDE DEF D
    <2>2. Cardinality(D) <= 1
      <3>1. CASE D = {}
        BY <3>1, FS_EmptySet
      <3>2. ASSUME NEW t \in D PROVE Cardinality(D) <= 1
        <4>1. D = {t}
          BY <2>1
        <4> QED
          BY <4>1, FS_Singleton
      <3> QED
        BY <3>1, <3>2
    <2> QED
      BY <2>2 DEF D
  <1> QED
    BY <1>1, Invariance, PTL

\* A Proposal is not offered for a second Decision: not once the page has seen
\* its Decision confirmed, and not while the outcome is unknown and the server
\* was not asked after the fact (decisionReconciliationRequired).
THEOREM DecidedStaysLocked == Spec => []DecisionLocks
  <1>1. ASSUME IInv PROVE DecisionLocks
    <2> SUFFICES ASSUME ~overlapped, proposal \in knownDecided \cup unsure
                 PROVE locked \/ operation # None
      BY DEF DecisionLocks, DecidedIsNotOffered, LockHolds
    <2>1. locked \/ operation = "refreshing_project"
      BY <1>1 DEF IInv, BInv, Orderly
    <2> QED
      BY <2>1, NoneAssumption DEF Operations
  <1> QED
    BY <1>1, Invariance, PTL

\* The page at rest that lost no answer, and in which no operation ended
\* another, shows the Accepted revision, and shows the Proposal under review or
\* offers to restore it: a cancellation, a late answer of the provider and a
\* Decision leave nothing out of reach.
THEOREM RestIsCurrent == Spec => []RestShowsProject
  <1>1. ASSUME IInv PROVE RestShowsProject
    <2> SUFFICES ASSUME Idle, faults = 0, ~overlapped
                 PROVE /\ project.revision = revision
                       /\ review # None =>
                            \/ proposal = review.attempt
                            \/ project.review # None /\ project.review.attempt = review.attempt
      BY DEF RestShowsProject, OpenReviewIsReachable, RestShowsAccepted
    <2>1. \A t \in Tasks : ~Live(t)
      BY DEF Idle, Live
    <2>2. operation # "generating_proposal"
      BY <1>1, <2>1 DEF IInv, BInv, Orderly
    <2>3. InStep
      BY <1>1 DEF IInv, CInv
    <2> QED
      BY <2>1, <2>2, <2>3 DEF InStep, Deciding
  <1> QED
    BY <1>1, Invariance, PTL

-----------------------------------------------------------------------------
(***************************************************************************)
(* The editor of the project name: NameAutosave, for any names and any      *)
(* number of drafts, faults and reloads.                                    *)
(***************************************************************************)

(* The inductive invariant of the editor, in parts: types and numbers. *)

Saves == [name : Names, sequence : Nat]
Outgoing == [expected : Names, name : Names, sequence : Nat, answer : {"none", "saved", "error"}]

EditorShape ==
  /\ draft \in Names \cup {BadName} /\ confirmed \in Names /\ sequence \in Nat \ {0}
  /\ timer \in Nat /\ draftSequence \in {0, sequence}
  /\ chain \in Seq(Saves) /\ request \in Seq(Outgoing) /\ Len(request) <= 1
  /\ memory \in Names /\ disk \in Names /\ lastQueued \in Names /\ strays \subseteq Patch
  /\ failed \in BOOLEAN /\ overtaken \in BOOLEAN

\* A number given out before the draft whose timer runs.
Due(n) == n <= sequence /\ (timer # 0 => n < sequence)

Queued ==
  /\ \A i \in DOMAIN chain : Due(chain[i].sequence)
  /\ \A i, j \in DOMAIN chain : i < j => chain[i].sequence < chain[j].sequence
  /\ request # <<>> =>
       /\ Due(request[1].sequence)
       /\ \A i \in DOMAIN chain : request[1].sequence < chain[i].sequence

Numbered ==
  /\ timer # 0 => timer = sequence /\ draftSequence = sequence /\ draft \in Names
  /\ Queued

\* The page waits for the answer of the save it sent, against the confirmed name,
\* before it sends the next.
Sent ==
  /\ request = <<>> => chain = <<>>
  /\ request # <<>> => request[1].expected = confirmed

\* The name that will be stored when all that is queued is done.
LastSave ==
  IF chain # <<>> THEN chain[Len(chain)].name
  ELSE IF request # <<>> THEN request[1].name ELSE confirmed

\* Nothing but the save that is out comes between the page and the two stores,
\* while nothing has failed; and a draft that is shown as saved is the last one.
Stored ==
  /\ ~failed /\ ~overtaken =>
       /\ LastSave = lastQueued
       /\ request = <<>> \/ request[1].answer # "error" => memory = disk
       /\ request = <<>> \/ request[1].answer = "none" => confirmed = disk
  /\ ~overtaken /\ request # <<>> /\ request[1].answer = "saved" => disk = request[1].name
  /\ saveState = "saved" /\ draftSequence # 0 =>
       request = <<>> /\ timer = 0 /\ (~overtaken => disk = draft)

EInv == EditorShape /\ Numbered /\ Sent /\ Stored

-----------------------------------------------------------------------------
(* The queue of saves. *)

LEMMA MinInSet ==
  ASSUME NEW S, S \subseteq Nat, S # {}
  PROVE  Min(S) \in S
  <1> DEFINE R == OpToRel(<, Nat)
  <1>1. PICK m \in S : \A x \in S : <<x, m>> \notin R
    BY NatLessThanWellFounded, WFMin
  <1>2. \A x, y \in Nat : x < y => <<x, y>> \in R
    BY DEF OpToRel
  <1> HIDE DEF R
  <1>3. ASSUME NEW x \in S PROVE m <= x
    <2>1. x \in Nat /\ m \in Nat /\ ~(x < m)
      BY <1>1, <1>2
    <2> QED
      BY <2>1
  <1> QED
    BY <1>3 DEF Min

\* What sending the next of the saves in c leaves of them.
LEMMA SendsOne ==
  ASSUME NEW c \in Seq(Saves), NEW name, NEW status, SendNext(c, name, status)
  PROVE  \/ /\ chain' = <<>> /\ request' = <<>> /\ saveState' = status
            /\ \A i \in DOMAIN c : c[i].name = name
         \/ \E m \in DOMAIN c :
              /\ chain' = SubSeq(c, m + 1, Len(c))
              /\ request' = <<[expected |-> name, name |-> c[m].name,
                               sequence |-> c[m].sequence, answer |-> "none"]>>
              /\ saveState' = IF c[m].sequence = sequence THEN "saving" ELSE status
  <1> DEFINE changes == {i \in DOMAIN c : c[i].name # name}
             left == FromFirstChange(c, name)
             m == Min(changes)
  <1>1. CASE changes = {}
    <2>1. left = <<>>
      BY <1>1 DEF FromFirstChange
    <2> QED
      BY <1>1, <2>1 DEF SendNext
  <1>2. CASE changes # {}
    <2>1. m \in changes
      <3>1. changes \subseteq Nat
        OBVIOUS
      <3> HIDE DEF changes
      <3> QED
        BY <1>2, <3>1, MinInSet
    <2>2. left = SubSeq(c, m, Len(c))
      BY <1>2 DEF FromFirstChange
    <2> HIDE DEF left, m
    <2>3. m \in DOMAIN c /\ m \in 1 .. Len(c)
      BY <2>1
    <2>4. left # <<>> /\ Head(left) = c[m] /\ Tail(left) = SubSeq(c, m + 1, Len(c))
      <3>1. /\ Head(SubSeq(c, m, Len(c))) = c[m]
            /\ Tail(SubSeq(c, m, Len(c))) = SubSeq(c, m + 1, Len(c))
        BY <2>3, HeadTailOfSubSeq
      <3>2. Len(SubSeq(c, m, Len(c))) # 0
        BY <2>3
      <3>3. left # <<>>
        BY <2>2, <3>2, EmptySeq
      <3> QED
        BY <2>2, <3>1, <3>3
    <2>5. /\ chain' = Tail(left)
          /\ request' = <<[expected |-> name, name |-> Head(left).name,
                           sequence |-> Head(left).sequence, answer |-> "none"]>>
          /\ saveState' = IF Head(left).sequence = sequence THEN "saving" ELSE status
      BY <2>4 DEF SendNext, left
    <2> QED
      BY <2>3, <2>4, <2>5
  <1> QED
    BY <1>1, <1>2

\* Sending the next of the saves in c, which carry rising numbers.
LEMMA SendsInTurn ==
  ASSUME NEW c \in Seq(Saves), NEW name \in Names, NEW status, SendNext(c, name, status),
         \A i, j \in DOMAIN c : i < j => c[i].sequence < c[j].sequence,
         \A i \in DOMAIN c : Due(c[i].sequence)'
  PROVE  /\ chain' \in Seq(Saves) /\ request' \in Seq(Outgoing) /\ Len(request') <= 1
         /\ Queued'
         /\ request' = <<>> =>
              chain' = <<>> /\ saveState' = status /\ \A i \in DOMAIN c : c[i].name = name
         /\ request' # <<>> =>
              /\ request'[1].expected = name /\ request'[1].answer = "none"
              /\ c # <<>> /\ saveState' \in {"saving", status}
              /\ LastSave' = c[Len(c)].name
  <1>1. CASE /\ chain' = <<>> /\ request' = <<>> /\ saveState' = status
             /\ \A i \in DOMAIN c : c[i].name = name
    BY <1>1 DEF Queued
  <1>2. CASE \E m \in DOMAIN c :
              /\ chain' = SubSeq(c, m + 1, Len(c))
              /\ request' = <<[expected |-> name, name |-> c[m].name,
                               sequence |-> c[m].sequence, answer |-> "none"]>>
              /\ saveState' = IF c[m].sequence = sequence THEN "saving" ELSE status
    <2>1. PICK m \in DOMAIN c :
              /\ chain' = SubSeq(c, m + 1, Len(c))
              /\ request' = <<[expected |-> name, name |-> c[m].name,
                               sequence |-> c[m].sequence, answer |-> "none"]>>
              /\ saveState' = IF c[m].sequence = sequence THEN "saving" ELSE status
      BY <1>2
    <2> DEFINE r == [expected |-> name, name |-> c[m].name, sequence |-> c[m].sequence,
                     answer |-> "none"]
    <2>2. m \in 1 .. Len(c) /\ c[m] \in Saves /\ Len(c) \in Nat
      OBVIOUS
    <2>3. r \in Outgoing
      BY <2>2 DEF Outgoing, Saves
    <2>4. /\ r.expected = name /\ r.answer = "none" /\ r.name = c[m].name
          /\ r.sequence = c[m].sequence
      OBVIOUS
    <2>5. request' = <<r>> /\ request' # <<>> /\ request'[1] = r
      BY <2>1
    <2>6. request' \in Seq(Outgoing) /\ Len(request') = 1
      BY <2>3, <2>5
    <2> HIDE DEF r
    <2>7. /\ chain' \in Seq(Saves) /\ Len(chain') = Len(c) - m
          /\ \A i \in DOMAIN chain' : chain'[i] = c[i + m] /\ i + m \in DOMAIN c /\ m < i + m
      BY <2>1, <2>2
    <2>8. Queued'
      BY <2>4, <2>5, <2>7 DEF Queued
    <2>9. LastSave' = c[Len(c)].name
      BY <2>2, <2>4, <2>5, <2>7 DEF LastSave
    <2> QED
      BY <2>1, <2>2, <2>4, <2>5, <2>6, <2>7, <2>8, <2>9
  <1> QED
    BY <1>1, <1>2, SendsOne

-----------------------------------------------------------------------------
(* The steps of the editor, the server and the page opened again. *)

LEMMA OneRequest ==
  ASSUME EditorShape, request # <<>>
  PROVE  /\ request[1] \in Outgoing /\ Head(request) = request[1] /\ Len(request) = 1
         /\ request[1].name \in Names /\ request[1].sequence \in Nat
         /\ request[1].expected \in Names
  <1>1. Len(request) = 1 /\ 1 \in DOMAIN request
    <2>1. request \in Seq(Outgoing) /\ Len(request) <= 1
      BY DEF EditorShape
    <2>2. Len(request) \in Nat \ {0} /\ DOMAIN request = 1 .. Len(request)
      BY <2>1, EmptySeq
    <2> QED
      BY <2>1, <2>2
  <1>2. request[1] \in Outgoing /\ Head(request) = request[1]
    BY <1>1 DEF EditorShape
  <1> QED
    BY <1>1, <1>2 DEF Outgoing

LEMMA SavedNumbers ==
  ASSUME EditorShape
  PROVE  /\ Len(chain) \in Nat /\ DOMAIN chain = 1 .. Len(chain)
         /\ \A i \in DOMAIN chain : chain[i].sequence \in Nat /\ chain[i].name \in Names
  <1>1. chain \in Seq(Saves)
    BY DEF EditorShape
  <1>2. \A i \in DOMAIN chain : chain[i] \in Saves
    BY <1>1
  <1> QED
    BY <1>1, <1>2 DEF Saves

LEMMA TypeConfirmedNameKeeps ==
  ASSUME EInv, TypeConfirmedName
  PROVE  EInv'
  <1>1. /\ draft' = confirmed /\ saveState' = "saved" /\ timer' = 0 /\ draftSequence' = 0
        /\ UNCHANGED <<confirmed, sequence, chain, request, strays, memory, disk,
                       lastQueued, failed, overtaken>>
    BY DEF TypeConfirmedName, server
  <1>2. EditorShape'
    BY <1>1 DEF EInv, EditorShape
  <1>3. Numbered'
    BY <1>1 DEF EInv, Numbered, Queued, Due
  <1>4. Sent'
    BY <1>1 DEF EInv, Sent
  <1>5. Stored'
    BY <1>1 DEF EInv, Stored, LastSave
  <1> QED
    BY <1>2, <1>3, <1>4, <1>5 DEF EInv

LEMMA NumberDraftKeeps ==
  ASSUME EInv, NEW d \in Names \cup {BadName}, NumberDraft(d), saveState' # "saved",
         timer' = 0 \/ (timer' = sequence + 1 /\ d \in Names)
  PROVE  EInv'
  <1>1. /\ draft' = d /\ sequence' = sequence + 1 /\ draftSequence' = sequence + 1
        /\ UNCHANGED <<confirmed, chain, request, strays, memory, disk,
                       lastQueued, failed, overtaken>>
    BY DEF NumberDraft, server
  <1>2. EditorShape'
    BY <1>1 DEF EInv, EditorShape
  <1>3. \A n \in Nat : Due(n) => Due(n)'
    BY <1>1 DEF EInv, EditorShape, Due
  <1>4. Numbered'
    <2>1. \A i \in DOMAIN chain : chain[i].sequence \in Nat
      BY SavedNumbers DEF EInv
    <2>2. Queued'
      BY <1>1, <1>3, <2>1, OneRequest DEF EInv, Numbered, Queued
    <2> QED
      BY <1>1, <2>2 DEF Numbered
  <1>5. Sent'
    BY <1>1 DEF EInv, Sent
  <1>6. Stored'
    BY <1>1 DEF EInv, Stored, LastSave
  <1> QED
    BY <1>2, <1>4, <1>5, <1>6 DEF EInv

LEMMA DebounceEndsKeeps ==
  ASSUME EInv, DebounceEnds
  PROVE  EInv'
  <1>a. PICK save, c : save = [name |-> draft, sequence |-> timer] /\ c = Append(chain, save)
    OBVIOUS
  <1>1. /\ timer # 0 /\ timer' = 0 /\ lastQueued' = draft
        /\ UNCHANGED <<draft, confirmed, sequence, strays, memory, disk,
                       draftSequence, failed, overtaken>>
        /\ IF request = <<>> THEN SendNext(c, confirmed, saveState)
           ELSE chain' = c /\ UNCHANGED <<request, saveState>>
    BY <1>a DEF DebounceEnds, server
  <1>2. /\ timer = sequence /\ draftSequence = sequence /\ draft \in Names
        /\ sequence # 0 /\ sequence \in Nat /\ saveState # "saved"
    BY <1>1 DEF EInv, Numbered, EditorShape, Stored
  <1>3. save \in Saves /\ save.name = draft /\ save.sequence = sequence
    BY <1>a, <1>1, <1>2 DEF Saves, EInv, EditorShape
  <1>4. /\ c \in Seq(Saves) /\ Len(c) = Len(chain) + 1 /\ Len(chain) \in Nat /\ c[Len(c)] = save
        /\ \A i \in DOMAIN chain : c[i] = chain[i] /\ c[i].sequence \in Nat
        /\ \A i \in DOMAIN c : i = Len(c) \/ i \in DOMAIN chain
        /\ DOMAIN c = 1 .. Len(c) /\ DOMAIN chain = 1 .. Len(chain)
        /\ c # <<>>
    <2>1. chain \in Seq(Saves)
      BY DEF EInv, EditorShape
    <2>2. /\ c \in Seq(Saves) /\ Len(c) = Len(chain) + 1 /\ c[Len(c)] = save
          /\ \A i \in 1 .. Len(chain) : c[i] = chain[i]
      BY <1>a, <1>3, <2>1, AppendProperties
    <2>3. c # <<>>
      BY <1>a, <1>3, <2>1, AppendProperties
    <2> QED
      BY <2>1, <2>2, <2>3, SavedNumbers DEF EInv
  <1>5. \A i \in DOMAIN chain : Due(chain[i].sequence) /\ chain[i].sequence < sequence
    BY <1>1 DEF EInv, Numbered, Queued, Due
  <1>6. /\ \A i, j \in DOMAIN c : i < j => c[i].sequence < c[j].sequence
        /\ \A i \in DOMAIN c : Due(c[i].sequence)'
    <2>1. \A i, j \in DOMAIN chain : i < j => chain[i].sequence < chain[j].sequence
      BY DEF EInv, Numbered, Queued
    <2>2. ASSUME NEW i \in DOMAIN c, NEW j \in DOMAIN c, i < j
          PROVE  c[i].sequence < c[j].sequence
      <3>1. i \in DOMAIN chain
        BY <1>4, <2>2
      <3>2. CASE j \in DOMAIN chain
        BY <1>4, <2>1, <2>2, <3>1, <3>2
      <3>3. CASE j = Len(c)
        BY <1>3, <1>4, <1>5, <3>1, <3>3
      <3> QED
        BY <1>4, <3>2, <3>3
    <2>3. ASSUME NEW i \in DOMAIN c PROVE c[i].sequence <= sequence
      BY <1>2, <1>3, <1>4, <1>5
    <2> QED
      BY <1>1, <2>2, <2>3 DEF Due
  <1>7. /\ EditorShape' /\ Queued' /\ Sent' /\ LastSave' = draft
        /\ saveState' # "saved"
        /\ request' = <<>> => request = <<>>
        /\ request' # <<>> /\ request'[1].answer # "none" => request' = request
        /\ request' # <<>> /\ request'[1].answer = "none" /\ request # <<>> => request' = request
    <2>1. CASE request = <<>>
      <3>1. chain = <<>> /\ confirmed \in Names
        BY <2>1 DEF EInv, Sent, EditorShape
      <3>2. SendNext(c, confirmed, saveState)
        BY <1>1, <2>1
      <3>3. /\ chain' \in Seq(Saves) /\ request' \in Seq(Outgoing) /\ Len(request') <= 1
            /\ Queued'
            /\ request' = <<>> =>
                 chain' = <<>> /\ saveState' = saveState /\ \A i \in DOMAIN c : c[i].name = confirmed
            /\ request' # <<>> =>
                 /\ request'[1].expected = confirmed /\ request'[1].answer = "none"
                 /\ c # <<>> /\ saveState' \in {"saving", saveState}
                 /\ LastSave' = c[Len(c)].name
        BY <1>4, <1>6, <3>1, <3>2, SendsInTurn
      <3>4. LastSave' = draft
        <4>1. CASE request' = <<>>
          <5>1. Len(c) \in DOMAIN c
            BY <1>4
          <5> QED
            BY <1>1, <1>3, <1>4, <3>3, <4>1, <5>1 DEF LastSave
        <4>2. CASE request' # <<>>
          BY <1>3, <1>4, <3>3, <4>2
        <4> QED
          BY <4>1, <4>2
      <3> QED
        BY <1>1, <1>2, <2>1, <3>3, <3>4 DEF EInv, EditorShape, Sent
    <2>2. CASE request # <<>>
      <3>1. chain' = c /\ request' = request /\ saveState' = saveState
        BY <1>1, <2>2
      <3>2. EditorShape'
        BY <1>1, <1>2, <1>4, <3>1 DEF EInv, EditorShape
      <3>3. Queued'
        <4>1. Due(request[1].sequence) /\ request[1].sequence < sequence /\ request[1].sequence \in Nat
          BY <1>1, <2>2, OneRequest DEF EInv, Numbered, Queued, Due
        <4>2. \A i \in DOMAIN c : request[1].sequence < c[i].sequence
          BY <1>3, <1>4, <2>2, <4>1 DEF EInv, Numbered, Queued
        <4>3. Due(request[1].sequence)'
          BY <1>1, <3>1, <4>1 DEF Due
        <4> QED
          BY <1>6, <3>1, <4>2, <4>3 DEF Queued
      <3>4. Sent'
        BY <1>1, <2>2, <3>1 DEF EInv, Sent
      <3>5. LastSave' = draft
        BY <1>3, <1>4, <3>1 DEF LastSave
      <3> QED
        BY <1>2, <2>2, <3>1, <3>2, <3>3, <3>4, <3>5
    <2> QED
      BY <2>1, <2>2
  <1>8. Numbered'
    BY <1>1, <1>7 DEF Numbered
  <1>9. Stored'
    <2>1. ASSUME ~failed, ~overtaken
          PROVE  /\ (LastSave = lastQueued)'
                 /\ (request = <<>> \/ request[1].answer # "error" => memory = disk)'
                 /\ (request = <<>> \/ request[1].answer = "none" => confirmed = disk)'
      <3>1. CASE request = <<>>
        BY <1>1, <1>7, <2>1, <3>1 DEF EInv, Stored
      <3>2. CASE request # <<>>
        <4>1. request' = request
          BY <1>7, <3>2
        <4> QED
          BY <1>1, <1>7, <2>1, <3>2, <4>1 DEF EInv, Stored
      <3> QED
        BY <3>1, <3>2
    <2>2. ASSUME ~overtaken, request' # <<>>, request'[1].answer = "saved"
          PROVE  disk' = request'[1].name
      <3>1. request' = request
        BY <1>7, <2>2
      <3> QED
        BY <1>1, <2>2, <3>1 DEF EInv, Stored
    <2> QED
      BY <1>1, <1>7, <2>1, <2>2 DEF Stored
  <1> QED
    BY <1>7, <1>8, <1>9 DEF EInv

LEMMA ReceiveSavedKeeps ==
  ASSUME EInv, ReceiveSaved
  PROVE  EInv'
  <1>a. PICK r : r = Head(request)
    OBVIOUS
  <1>b. PICK status : status = IF r.sequence = sequence /\ draft = r.name THEN "saved" ELSE saveState
    OBVIOUS
  <1>c. PICK c : c = chain
    OBVIOUS
  <1>1. /\ request # <<>> /\ r.answer = "saved" /\ confirmed' = r.name
        /\ SendNext(c, r.name, status)
        /\ UNCHANGED <<draft, sequence, timer, strays, memory, disk,
                       lastQueued, draftSequence, failed, overtaken>>
    BY <1>a, <1>b, <1>c DEF ReceiveSaved, server, history
  <1>2. r = request[1] /\ r.name \in Names /\ r.sequence \in Nat
    BY <1>a, <1>1, OneRequest DEF EInv
  <1>3. /\ \A i, j \in DOMAIN chain : i < j => chain[i].sequence < chain[j].sequence
        /\ \A i \in DOMAIN chain : Due(chain[i].sequence) /\ r.sequence < chain[i].sequence
        /\ Due(r.sequence)
    BY <1>1, <1>2 DEF EInv, Numbered, Queued
  <1>4. /\ \A i, j \in DOMAIN c : i < j => c[i].sequence < c[j].sequence
        /\ \A i \in DOMAIN c : Due(c[i].sequence)'
    BY <1>1, <1>3, <1>c DEF Due
  <1>5. chain \in Seq(Saves) /\ c \in Seq(Saves)
    BY <1>c DEF EInv, EditorShape
  <1>6. /\ chain' \in Seq(Saves) /\ request' \in Seq(Outgoing) /\ Len(request') <= 1
        /\ Queued'
        /\ request' = <<>> =>
             chain' = <<>> /\ saveState' = status /\ \A i \in DOMAIN c : c[i].name = r.name
        /\ request' # <<>> =>
             /\ request'[1].expected = r.name /\ request'[1].answer = "none"
             /\ c # <<>> /\ saveState' \in {"saving", status}
             /\ LastSave' = c[Len(c)].name
    BY <1>1, <1>2, <1>4, <1>5, SendsInTurn
  <1>7. EditorShape' /\ Numbered' /\ Sent'
    BY <1>1, <1>2, <1>6 DEF EInv, EditorShape, Numbered, Sent
  <1>8. LastSave' = LastSave
    <2>1. CASE request' # <<>>
      BY <1>6, <1>c, <2>1 DEF LastSave
    <2>2. CASE request' = <<>>
      <3>1. chain' = <<>> /\ LastSave' = r.name
        BY <1>1, <1>6, <2>2 DEF LastSave
      <3>2. chain # <<>> => Len(chain) \in DOMAIN chain
        BY <1>5, EmptySeq
      <3> QED
        BY <1>1, <1>2, <1>6, <1>c, <2>2, <3>1, <3>2 DEF LastSave
    <2> QED
      BY <2>1, <2>2
  <1>9. Stored'
    <2>1. ASSUME ~failed, ~overtaken
          PROVE  (LastSave = lastQueued /\ memory = disk /\ confirmed = disk)'
      BY <1>1, <1>2, <1>8, <2>1 DEF EInv, Stored
    <2>2. ASSUME saveState' = "saved", draftSequence # 0
          PROVE  (request = <<>> /\ timer = 0 /\ (~overtaken => disk = draft))'
      <3>1. saveState # "saved"
        BY <1>1, <2>2 DEF EInv, Stored
      <3>2. status = "saved"
        BY <1>6, <2>2
      <3>3. r.sequence = sequence /\ draft = r.name
        BY <1>b, <3>1, <3>2
      <3>4. timer = 0 /\ chain = <<>>
        <4>1. \A i \in DOMAIN chain : FALSE
          BY <1>3, <3>3, SavedNumbers DEF Due, EInv, EditorShape
        <4>2. chain # <<>> => Len(chain) \in DOMAIN chain
          BY <1>5, EmptySeq
        <4> QED
          BY <1>3, <3>3, <4>1, <4>2 DEF Due, EInv, EditorShape
      <3>5. request' = <<>>
        BY <1>6, <1>c, <3>4
      <3> QED
        BY <1>1, <1>2, <3>3, <3>4, <3>5 DEF EInv, Stored
    <2> QED
      BY <1>1, <1>6, <2>1, <2>2 DEF Stored
  <1> QED
    BY <1>7, <1>9 DEF EInv

LEMMA SaveThrowsKeeps ==
  ASSUME EInv, request # <<>>, SaveThrows, strays' \subseteq Patch
  PROVE  EInv'
  <1>a. PICK r : r = Head(request)
    OBVIOUS
  <1>b. PICK status : status = IF r.sequence = sequence THEN "error" ELSE saveState
    OBVIOUS
  <1>c. PICK c : c = chain
    OBVIOUS
  <1>1. /\ SendNext(c, confirmed, status) /\ failed' = TRUE
        /\ UNCHANGED <<draft, confirmed, sequence, timer, memory, disk,
                       lastQueued, draftSequence, overtaken>>
    BY <1>a, <1>b, <1>c DEF SaveThrows, server
  <1>2. c \in Seq(Saves) /\ confirmed \in Names
    BY <1>c DEF EInv, EditorShape
  <1>3. /\ \A i, j \in DOMAIN c : i < j => c[i].sequence < c[j].sequence
        /\ \A i \in DOMAIN c : Due(c[i].sequence)'
    BY <1>1, <1>c DEF EInv, Numbered, Queued, Due
  <1>4. /\ chain' \in Seq(Saves) /\ request' \in Seq(Outgoing) /\ Len(request') <= 1
        /\ Queued'
        /\ request' = <<>> => chain' = <<>> /\ saveState' = status
        /\ request' # <<>> =>
             /\ request'[1].expected = confirmed /\ request'[1].answer = "none"
             /\ saveState' \in {"saving", status}
    BY <1>1, <1>2, <1>3, SendsInTurn
  <1>5. EditorShape' /\ Numbered' /\ Sent'
    BY <1>1, <1>4 DEF EInv, EditorShape, Numbered, Sent
  <1>6. saveState' = "saved" => saveState = "saved"
    BY <1>b, <1>4
  <1>7. Stored'
    BY <1>1, <1>4, <1>6 DEF EInv, Stored
  <1> QED
    BY <1>5, <1>7 DEF EInv

LEMMA AbandonedPatches ==
  ASSUME EditorShape
  PROVE  Abandoned \subseteq Patch
  <1>1. \A i \in DOMAIN request : request[i] \in Outgoing
    BY DEF EditorShape
  <1> QED
    BY <1>1 DEF Abandoned, Outgoing, Patch

LEMMA ReceiveErrorKeeps ==
  ASSUME EInv, ReceiveError
  PROVE  EInv'
  BY SaveThrowsKeeps DEF ReceiveError, EInv, EditorShape

LEMMA LoseConnectionKeeps ==
  ASSUME EInv, LoseConnection
  PROVE  EInv'
  <1>1. strays' \subseteq Patch
    BY AbandonedPatches DEF LoseConnection, EInv, EditorShape
  <1> QED
    BY <1>1, SaveThrowsKeeps DEF LoseConnection

LEMMA UpdateKeeps ==
  ASSUME EInv, UpdateProjectMetadata
  PROVE  EInv'
  <1>a. PICK r : r = Head(request)
    OBVIOUS
  <1>1. /\ request # <<>> /\ r.answer = "none" /\ r = request[1] /\ r \in Outgoing
        /\ r.name \in Names /\ r.expected = confirmed
        /\ UNCHANGED <<draft, confirmed, sequence, saveState, timer, chain, strays,
                       lastQueued, draftSequence, failed, overtaken>>
    BY <1>a, OneRequest DEF UpdateProjectMetadata, EInv, Sent, editor, history
  <1>2. PICK a \in {"saved", "error"} :
          /\ request' = <<[r EXCEPT !.answer = a]>>
          /\ memory' \in Names /\ disk' \in Names
          /\ a = "saved" => disk' = r.name /\ memory' = disk'
    <2>1. CASE PatchSucceeds(r) /\ AnswerWith("saved")
      BY <1>a, <1>1, <2>1 DEF PatchSucceeds, AnswerWith
    <2>2. CASE (PatchRefused(r) \/ PatchFails(r)) /\ AnswerWith("error")
      BY <1>a, <1>1, <2>2 DEF PatchRefused, PatchFails, AnswerWith, server, EInv, EditorShape
    <2> QED
      BY <1>a, <2>1, <2>2 DEF UpdateProjectMetadata
  <1>3. PICK l : l = [r EXCEPT !.answer = a]
    OBVIOUS
  <1>4. /\ l \in Outgoing /\ l.answer = a /\ l.name = r.name /\ l.expected = r.expected
        /\ l.sequence = r.sequence
    BY <1>1, <1>3 DEF Outgoing
  <1>5. /\ request' \in Seq(Outgoing) /\ Len(request') = 1 /\ request' # <<>> /\ request'[1] = l
    BY <1>2, <1>3, <1>4
  <1>6. EditorShape'
    BY <1>1, <1>2, <1>5 DEF EInv, EditorShape
  <1>7. Numbered'
    BY <1>1, <1>4, <1>5 DEF EInv, Numbered, Queued, Due
  <1>8. Sent'
    BY <1>1, <1>4, <1>5 DEF Sent
  <1>9. Stored'
    <2>1. LastSave' = LastSave
      BY <1>1, <1>4, <1>5 DEF LastSave
    <2> QED
      BY <1>1, <1>2, <1>4, <1>5, <2>1 DEF EInv, Stored
  <1> QED
    BY <1>6, <1>7, <1>8, <1>9 DEF EInv

LEMMA UpdateForStrayKeeps ==
  ASSUME EInv, NEW r \in strays, UpdateForStray(r)
  PROVE  EInv'
  <1>1. /\ strays' = strays \ {r} /\ overtaken' = (overtaken \/ server' # server)
        /\ UNCHANGED <<draft, confirmed, sequence, saveState, timer, chain, request,
                       lastQueued, draftSequence, failed>>
    BY DEF UpdateForStray, editor
  <1>2. memory' \in Names /\ disk' \in Names
    <2>1. r.name \in Names
      BY DEF EInv, EditorShape, Patch
    <2> QED
      BY <2>1 DEF UpdateForStray, PatchSucceeds, PatchRefused, PatchFails, server, EInv, EditorShape
  <1>3. ~overtaken' => ~overtaken /\ memory' = memory /\ disk' = disk
    BY <1>1 DEF server
  <1>4. EditorShape'
    BY <1>1, <1>2 DEF EInv, EditorShape
  <1>5. Numbered'
    BY <1>1 DEF EInv, Numbered, Queued, Due
  <1>6. Sent'
    BY <1>1 DEF EInv, Sent
  <1>7. Stored'
    BY <1>1, <1>3 DEF EInv, Stored, LastSave
  <1> QED
    BY <1>4, <1>5, <1>6, <1>7 DEF EInv

\* A page just opened, on whatever it was answered.
LEMMA MountKeeps ==
  ASSUME NEW n \in Names, Mount(n), strays' \subseteq Patch, overtaken' = FALSE,
         memory' = n, disk' \in Names, failed' = (memory' # disk')
  PROVE  EInv'
  <1>1. /\ draft' = n /\ confirmed' = n /\ sequence' = 1 /\ saveState' = "saved" /\ timer' = 0
        /\ chain' = <<>> /\ request' = <<>> /\ lastQueued' = n /\ draftSequence' = 0
    BY DEF Mount
  <1>2. EditorShape'
    <2>1. chain' \in Seq(Saves) /\ request' \in Seq(Outgoing) /\ Len(request') <= 1
      BY <1>1, EmptySeq
    <2>2. failed' \in BOOLEAN /\ overtaken' \in BOOLEAN
      OBVIOUS
    <2> QED
      BY <1>1, <2>1, <2>2 DEF EditorShape
  <1>3. Numbered' /\ Sent'
    BY <1>1 DEF Numbered, Queued, Sent
  <1>4. Stored'
    BY <1>1 DEF Stored, LastSave
  <1> QED
    BY <1>2, <1>3, <1>4 DEF EInv

LEMMA ReloadKeeps ==
  ASSUME EInv, Reload
  PROVE  EInv'
  <1>1. strays' \subseteq Patch
    BY AbandonedPatches DEF Reload, EInv, EditorShape
  <1>2. PICK n \in Names : n = memory
    BY DEF EInv, EditorShape
  <1> QED
    BY <1>1, <1>2, MountKeeps DEF Reload, server, EInv, EditorShape

LEMMA RestartKeeps ==
  ASSUME EInv, Restart
  PROVE  EInv'
  <1>1. PICK n \in Names : n = disk
    BY DEF EInv, EditorShape
  <1> QED
    BY <1>1, MountKeeps DEF Restart

LEMMA EditorInitially ==
  ASSUME EditorInit
  PROVE  EInv
  <1>1. FirstName \in Names
    BY NameAutosaveAssumption
  <1>2. EditorShape
    <2>1. chain \in Seq(Saves) /\ request \in Seq(Outgoing) /\ Len(request) <= 1
      BY EmptySeq DEF EditorInit
    <2>2. failed \in BOOLEAN /\ overtaken \in BOOLEAN
      BY DEF EditorInit
    <2> QED
      BY <1>1, <2>1, <2>2 DEF EditorInit, EditorShape
  <1>3. Numbered /\ Sent
    BY DEF EditorInit, Numbered, Queued, Sent
  <1>4. Stored
    BY DEF EditorInit, Stored, LastSave
  <1> QED
    BY <1>2, <1>3, <1>4 DEF EInv

LEMMA EditorKeeps ==
  ASSUME EInv, [EditorNext]_editorVars
  PROVE  EInv'
  <1>1. CASE TypeConfirmedName
    BY <1>1, TypeConfirmedNameKeeps
  <1>2. CASE TypeBadName
    BY <1>2, NumberDraftKeeps DEF TypeBadName
  <1>3. ASSUME NEW n \in Names, TypeName(n) PROVE EInv'
    BY <1>3, NumberDraftKeeps DEF TypeName
  <1>4. CASE DebounceEnds
    BY <1>4, DebounceEndsKeeps
  <1>5. CASE ReceiveSaved
    BY <1>5, ReceiveSavedKeeps
  <1>6. CASE ReceiveError
    BY <1>6, ReceiveErrorKeeps
  <1>7. CASE LoseConnection
    BY <1>7, LoseConnectionKeeps
  <1>8. CASE UpdateProjectMetadata
    BY <1>8, UpdateKeeps
  <1>9. ASSUME NEW r \in strays, UpdateForStray(r) PROVE EInv'
    BY <1>9, UpdateForStrayKeeps
  <1>10. CASE Reload
    BY <1>10, ReloadKeeps
  <1>11. CASE Restart
    BY <1>11, RestartKeeps
  <1>12. CASE UNCHANGED editorVars
    <2>1. UNCHANGED <<draft, confirmed, sequence, saveState, timer, chain, request, strays,
                      memory, disk, lastQueued, draftSequence, failed, overtaken>>
      BY <1>12 DEF editorVars, editor, server, history
    <2> QED
      BY <2>1 DEF EInv, EditorShape, Numbered, Queued, Due, Sent, Stored, LastSave
  <1> QED
    BY <1>1, <1>2, <1>3, <1>4, <1>5, <1>6, <1>7, <1>8, <1>9, <1>10, <1>11, <1>12 DEF EditorNext

LEMMA EditorInvariance == EditorSpec => []EInv
  <1>1. EditorInit => EInv
    BY EditorInitially
  <1>2. EInv /\ [EditorNext]_editorVars => EInv'
    BY EditorKeeps
  <1> QED
    BY <1>1, <1>2, PTL DEF EditorSpec

\* What the editor tells the creator holds: at rest without a failure the last
\* name released by the debounce is the one in project.json and in the Store
\* (saveChain runs the saves in their order), and "Saved" beside a numbered
\* draft is true at every moment, after any failed write or lost answer.
THEOREM NamesAreStored == EditorSpec => []StoredAsShown
  <1>1. ASSUME EInv PROVE StoredAsShown
    <2>1. LastQueuedIsStored
      BY <1>1 DEF LastQueuedIsStored, Quiet, EInv, Stored, LastSave
    <2>2. OwnSavedIsStored
      BY <1>1 DEF OwnSavedIsStored, EInv, Stored
    <2> QED
      BY <2>1, <2>2 DEF StoredAsShown
  <1> QED
    BY <1>1, EditorInvariance, PTL

\* A save of the page changes project.json only from the name the page had
\* confirmed, although the handler takes either name of the request as a match
\* (expected_display_name, update_project_metadata).
THEOREM SavesAreSeen == EditorSpec => NoBlindOverwrite
  <1> DEFINE Seen == disk' # disk /\ request # <<>> /\ strays' = strays
                       => disk = confirmed /\ disk' = Head(request).name
  <1>1. ASSUME EInv, EditorNext PROVE Seen
    <2> SUFFICES ASSUME disk' # disk, request # <<>>, strays' = strays
                 PROVE disk = confirmed /\ disk' = Head(request).name
      OBVIOUS
    <2>1. CASE UpdateProjectMetadata
      <3>1. PICK r : r = Head(request)
        OBVIOUS
      <3>2. r.expected = confirmed
        BY <1>1, <3>1, OneRequest DEF EInv, Sent
      <3>3. PatchSucceeds(r) \/ PatchFails(r)
        BY <2>1, <3>1 DEF UpdateProjectMetadata, PatchRefused, server
      <3> QED
        BY <3>1, <3>2, <3>3 DEF PatchSucceeds, PatchFails, FileRefuses
    <2>2. ASSUME NEW r \in strays, UpdateForStray(r) PROVE FALSE
      BY <2>2 DEF UpdateForStray
    <2>3. CASE ~UpdateProjectMetadata /\ \A r \in strays : ~UpdateForStray(r)
      BY <1>1, <2>3 DEF EditorNext, TypeConfirmedName, TypeBadName, TypeName,
         NumberDraft, DebounceEnds, ReceiveSaved, ReceiveError,
         LoseConnection, SaveThrows, Reload, Restart, server
    <2> QED
      BY <2>1, <2>2, <2>3
  <1>2. EInv /\ [EditorNext]_editorVars => [Seen]_editorVars
    BY <1>1
  <1> QED
    BY <1>2, EditorInvariance, PTL DEF EditorSpec, NoBlindOverwrite
=============================================================================
