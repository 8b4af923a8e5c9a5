---------------------- MODULE GeneratedArtifactsProofs ----------------------
(* Proofs about GeneratedArtifacts, for any projects, archives, limits and   *)
(* bounds on errors and deaths: answers are durable, and the directories     *)
(* implement the shelf of their project.                                     *)
EXTENDS GeneratedArtifacts, FiniteSetTheorems, TLAPS

-----------------------------------------------------------------------------
(* The inductive invariant.                                                  *)

ArtifactSteps == {"stage", "fill", "publish", "created", "hide", "remove", "deleted"}

\* The step an operation takes just before.
Before == [fill |-> "stage", publish |-> "fill", created |-> "publish", deleted |-> "remove"]

\* What the steps ahead are about: an archive nothing was answered for since
\* the running request, each step behind the one that prepares it.
Control ==
  \A i \in DOMAIN todo :
    /\ todo[i][1] \in ArtifactSteps =>
         phase = "serving" /\ todo[i][2] \in used /\ answered[todo[i][2]] = "none"
    /\ todo[i][1] \in DOMAIN Before /\ i > 1 => todo[i - 1] = <<Before[todo[i][1]], todo[i][2]>>

Room(a) == Cardinality((Kept \cap Of(ProjectOf[a])) \cup {a}) <= MaxRecords

\* What the step at the head relies on.
HeadReady ==
  todo # << >> =>
    /\ todo[1][1] = "created" => entry[todo[1][2]] = "kept"
    /\ todo[1][1] = "deleted" => entry[todo[1][2]] = "absent"
    /\ todo[1][1] \in {"fill", "publish"} => Room(todo[1][2])

\* An identifier not given out is nowhere.
Fresh ==
  /\ used \subseteq Artifacts
  /\ \A a \in Artifacts \ used : answered[a] = "none" /\ entry[a] = "absent" /\ a \notin store

IInv == TypeOK /\ Control /\ HeadReady /\ Fresh /\ AnsweredArtifactsKept

Steps == StepNames \X (Projects \cup Artifacts \cup {"all"})

-----------------------------------------------------------------------------
(* Sequences.                                                                *)

LEMMA TailFacts ==
  ASSUME NEW S, NEW s \in Seq(S), s # << >>
  PROVE  /\ Head(s) = s[1] /\ Tail(s) \in Seq(S)
         /\ \A i \in DOMAIN Tail(s) :
              i \in Nat /\ i > 0 /\ i + 1 \in DOMAIN s /\ Tail(s)[i] = s[i + 1]
         /\ Tail(s) # << >> => 1 \in DOMAIN Tail(s)
  OBVIOUS

LEMMA OperationType ==
  ASSUME NEW S, NEW a \in S, NEW b \in S, NEW c \in S, NEW d \in S, NEW e \in S
  PROVE  <<a, b, c, d>> \in Seq(S) /\ <<a, b, c, d, e>> \in Seq(S)
  OBVIOUS

LEMMA SetToSeqType ==
  ASSUME NEW S, IsFiniteSet(S)
  PROVE  SetToSeq(S) \in Seq(S)
  <1> DEFINE n == Cardinality(S)
  <1>1. n \in Nat /\ ExistsBijection(1..n, S)
    BY FS_CardinalityType
  <1>2. PICK f : f \in Bijection(1..n, S)
    BY <1>1 DEF ExistsBijection
  <1>3. f \in [1..n -> S] /\ IsInjective(f)
    BY <1>2 DEF Bijection, Injection, IsInjective
  <1>4. SetToSeq(S) \in [1..n -> S]
    BY <1>3 DEF SetToSeq
  <1> QED
    BY <1>1, <1>4

LEMMA InitInv == Init => IInv
  BY DEF Init, IInv, TypeOK, Control, HeadReady, Fresh, AnsweredArtifactsKept

-----------------------------------------------------------------------------
(* The durable steps.                                                        *)

\* A step that changes only archives nothing was answered for, and leaves the
\* next one what it relies on.
LEMMA StepKeeps ==
  ASSUME IInv,
         NEW name, NEW s, NEW ok, NEW done, NEW error, NEW death,
         Step(name, s, ok, done, error, death),
         entry' \in [Artifacts -> {"absent", "staging", "kept", "deleting"}],
         \A a \in Artifacts : answered[a] # "none" \/ a \notin used => entry'[a] = entry[a],
         ok /\ entry' = done /\ todo' = Tail(todo) => HeadReady'
  PROVE  IInv'
  <1> USE DEF IInv
  <1>1. todo # << >> /\ todo \in Seq(Steps) /\ UNCHANGED <<used, answered>>
    BY DEF Step, TypeOK, Steps
  <1>2. CASE ok /\ entry' = done /\ todo' = Tail(todo) /\ UNCHANGED <<store, phase>>
    <2>1. HeadReady'
      BY <1>2
    <2>2. TypeOK'
      BY <1>1, <1>2, TailFacts DEF TypeOK, Steps
    <2>3. Control'
      <3> SUFFICES ASSUME NEW i \in DOMAIN todo'
                   PROVE  /\ todo'[i][1] \in ArtifactSteps =>
                               /\ phase' = "serving" /\ todo'[i][2] \in used'
                               /\ answered'[todo'[i][2]] = "none"
                          /\ todo'[i][1] \in DOMAIN Before /\ i > 1 =>
                               todo'[i - 1] = <<Before[todo'[i][1]], todo'[i][2]>>
        BY DEF Control
      <3>1. i \in Nat /\ i > 0 /\ i + 1 \in DOMAIN todo /\ todo'[i] = todo[i + 1]
        BY <1>1, <1>2, TailFacts
      <3>2. todo'[i][1] \in ArtifactSteps =>
              phase' = "serving" /\ todo'[i][2] \in used' /\ answered'[todo'[i][2]] = "none"
        BY <1>1, <1>2, <3>1 DEF Control
      <3>3. ASSUME i > 1 PROVE i - 1 \in DOMAIN todo' /\ todo'[i - 1] = todo[i]
        <4>1. i - 1 \in DOMAIN todo'
          BY <1>1, <1>2, <3>1, <3>3
        <4> QED
          BY <1>1, <1>2, <4>1, <3>1, TailFacts
      <3>4. ASSUME todo'[i][1] \in DOMAIN Before, i > 1
            PROVE  todo'[i - 1] = <<Before[todo'[i][1]], todo'[i][2]>>
        <4>1. i + 1 > 1 /\ (i + 1) - 1 = i
          BY <3>1
        <4>2. todo[(i + 1) - 1] = <<Before[todo[i + 1][1]], todo[i + 1][2]>>
          BY <3>1, <3>4, <4>1 DEF Control
        <4> QED
          BY <3>1, <3>3, <3>4, <4>1, <4>2
      <3> QED
        BY <3>2, <3>4
    <2>4. Fresh' /\ AnsweredArtifactsKept'
      BY <1>1, <1>2 DEF Fresh, AnsweredArtifactsKept
    <2> QED
      BY <2>1, <2>2, <2>3, <2>4
  <1>3. CASE Fail("refused") \/ Fail("down") \/ Die
    <2>1. /\ todo' = << >> /\ store' \in {store, {}}
          /\ phase' \in {"down", "opening", "serving", "refused"}
          /\ phase' = "serving" => phase = "serving" /\ store' = store
      BY <1>3 DEF Fail, Die, TypeOK
    <2>2. TypeOK'
      BY <1>1, <2>1 DEF TypeOK
    <2>3. Control' /\ HeadReady'
      BY <2>1 DEF Control, HeadReady
    <2>4. Fresh' /\ AnsweredArtifactsKept'
      BY <1>1, <2>1 DEF Fresh, AnsweredArtifactsKept
    <2> QED
      BY <2>2, <2>3, <2>4
  <1> QED
    BY <1>2, <1>3 DEF Step

LEMMA BeforeFacts ==
  /\ DOMAIN Before = {"fill", "publish", "created", "deleted"}
  /\ Before["fill"] = "stage" /\ Before["publish"] = "fill"
  /\ Before["created"] = "publish" /\ Before["deleted"] = "remove"
  BY DEF Before

\* The step that comes next is the one the operation takes after this one.
LEMMA NextStep ==
  ASSUME IInv, NEW name, NEW s, todo # << >>, Head(todo) = <<name, s>>,
         todo' = Tail(todo), todo' # << >>
  PROVE  todo'[1][1] \in DOMAIN Before => name = Before[todo'[1][1]] /\ s = todo'[1][2]
  <1>1. todo \in Seq(Steps)
    BY DEF IInv, TypeOK, Steps
  <1>2. 1 + 1 \in DOMAIN todo /\ todo'[1] = todo[1 + 1] /\ todo[1] = <<name, s>>
    BY <1>1, TailFacts
  <1>3. todo[2][1] \in DOMAIN Before => todo[2 - 1] = <<Before[todo[2][1]], todo[2][2]>>
    BY <1>2 DEF IInv, Control
  <1> QED
    BY <1>2, <1>3

\* A step no other relies on.
LEMMA NothingReliesOn ==
  ASSUME IInv, NEW name, NEW s, todo # << >>, Head(todo) = <<name, s>>, todo' = Tail(todo),
         name \notin {"stage", "fill", "publish", "remove"}
  PROVE  HeadReady'
  BY NextStep, BeforeFacts DEF HeadReady

LEMMA HeadIsReady ==
  ASSUME IInv, NEW name, NEW s, NEW ok, NEW done, NEW error, NEW death,
         Step(name, s, ok, done, error, death)
  PROVE  /\ todo # << >> /\ Head(todo) = <<name, s>> /\ UNCHANGED <<used, answered>>
         /\ entry' \in {entry, done} \cup error \cup death
         /\ ok \/ entry' = entry
         /\ name \in ArtifactSteps => s \in used /\ answered[s] = "none"
         /\ name \in {"fill", "publish"} => Room(s)
  <1>1. todo # << >> /\ Head(todo) = <<name, s>> /\ todo \in Seq(Steps)
    BY DEF Step, IInv, TypeOK, Steps
  <1>2. 1 \in DOMAIN todo /\ todo[1] = <<name, s>>
    BY <1>1, TailFacts
  <1>3. name \in ArtifactSteps => s \in used /\ answered[s] = "none"
    BY <1>2 DEF IInv, Control
  <1>4. name \in {"fill", "publish"} => Room(s)
    BY <1>1, <1>2 DEF IInv, HeadReady
  <1> QED
    BY <1>1, <1>3, <1>4 DEF Step

LEMMA LoadCollectionInv ==
  ASSUME IInv, NEW j \in Projects, LoadCollection(j)
  PROVE  IInv'
  <1>1. ASSUME NEW S \in SUBSET Leftovers(j), entry' = As(S, "absent") PROVE
          /\ entry' \in [Artifacts -> {"absent", "staging", "kept", "deleting"}]
          /\ \A a \in Artifacts : answered[a] # "none" \/ a \notin used => entry'[a] = entry[a]
    BY <1>1 DEF IInv, TypeOK, AnsweredArtifactsKept, Fresh, As, Leftovers, Of
  <1>2. \E S \in SUBSET Leftovers(j) : entry' = As(S, "absent")
    <2>1. entry' \in {entry, As(Leftovers(j), "absent")}
                       \cup {As(S, "absent") : S \in SUBSET Leftovers(j)}
      BY HeadIsReady DEF LoadCollection
    <2>2. entry = As({}, "absent")
      BY DEF As, IInv, TypeOK
    <2> QED
      BY <2>1, <2>2
  <1>3. todo' = Tail(todo) => HeadReady'
    BY HeadIsReady, NothingReliesOn DEF LoadCollection
  <1> QED
    BY <1>1, <1>2, <1>3, StepKeeps DEF LoadCollection

\* A step of one archive nothing was answered for.
LEMMA OneArchive ==
  ASSUME IInv, NEW a \in used, answered[a] = "none",
         NEW state \in {"absent", "staging", "kept", "deleting"},
         entry' \in {entry, As({a}, state)}
  PROVE  /\ entry' \in [Artifacts -> {"absent", "staging", "kept", "deleting"}]
         /\ \A q \in Artifacts : answered[q] # "none" \/ q \notin used => entry'[q] = entry[q]
  BY DEF IInv, TypeOK, Fresh, As

LEMMA StageArtifactInv ==
  ASSUME IInv, NEW a \in Artifacts, StageArtifact(a)
  PROVE  IInv'
  <1>a. todo # << >> /\ Head(todo) = <<"stage", a>>
    BY HeadIsReady DEF StageArtifact
  <1>b. a \in used /\ answered[a] = "none"
    BY HeadIsReady DEF StageArtifact, ArtifactSteps
  <1>1. entry' \in {entry, As({a}, "staging")}
    <2>1. entry' \in {entry, As({a}, "staging")} \cup {entry, As({a}, "staging")} \cup {entry}
      BY HeadIsReady DEF StageArtifact
    <2> QED
      BY <2>1
  <1>2. ASSUME Within((Kept \cap Of(ProjectOf[a])) \cup {a}), entry' = As({a}, "staging"),
               todo' = Tail(todo)
        PROVE  HeadReady'
    <2>1. todo' # << >> /\ todo'[1][1] \in DOMAIN Before =>
            todo'[1][1] = "fill" /\ todo'[1][2] = a
      BY <1>a, <1>2, NextStep, BeforeFacts
    <2>2. Kept' \cup {a} = Kept \cup {a}
      BY <1>2 DEF Kept, As
    <2>3. (Kept' \cap Of(ProjectOf[a])) \cup {a} = (Kept \cap Of(ProjectOf[a])) \cup {a}
      BY <2>2
    <2>4. Room(a)'
      BY <1>2, <2>3 DEF Room, Within
    <2> QED
      BY <2>1, <2>4, BeforeFacts DEF HeadReady
  <1> QED
    BY <1>b, <1>1, <1>2, OneArchive, StepKeeps DEF StageArtifact

LEMMA FillArtifactInv ==
  ASSUME IInv, NEW a \in Artifacts, FillArtifact(a)
  PROVE  IInv'
  <1>a. todo # << >> /\ Head(todo) = <<"fill", a>>
    BY HeadIsReady DEF FillArtifact
  <1>b. a \in used /\ answered[a] = "none"
    BY HeadIsReady DEF FillArtifact, ArtifactSteps
  <1>1. entry' \in {entry, As({a}, "absent")}
    <2>1. entry' \in {entry, entry} \cup {entry, As({a}, "absent")} \cup {entry}
      BY HeadIsReady DEF FillArtifact
    <2> QED
      BY <2>1
  <1>c. Room(a)
    BY HeadIsReady DEF FillArtifact
  <1>2. ASSUME entry' = entry, todo' = Tail(todo) PROVE HeadReady'
    <2>1. todo' # << >> /\ todo'[1][1] \in DOMAIN Before =>
            todo'[1][1] = "publish" /\ todo'[1][2] = a
      BY <1>a, <1>2, NextStep, BeforeFacts
    <2>2. Room(a)'
      BY <1>c, <1>2 DEF Room, Kept
    <2> QED
      BY <2>1, <2>2, BeforeFacts DEF HeadReady
  <1> QED
    BY <1>b, <1>1, <1>2, OneArchive, StepKeeps DEF FillArtifact

LEMMA PublishArtifactInv ==
  ASSUME IInv, NEW a \in Artifacts, PublishArtifact(a)
  PROVE  IInv'
  <1>a. todo # << >> /\ Head(todo) = <<"publish", a>>
    BY HeadIsReady DEF PublishArtifact
  <1>b. a \in used /\ answered[a] = "none"
    BY HeadIsReady DEF PublishArtifact, ArtifactSteps
  <1>1. entry' \in {entry, As({a}, "absent"), As({a}, "kept")}
    <2>1. entry' \in {entry, As({a}, "kept")} \cup {entry, As({a}, "absent"), As({a}, "kept")} \cup {entry}
      BY HeadIsReady DEF PublishArtifact
    <2> QED
      BY <2>1
  <1>2. ASSUME entry' = As({a}, "kept"), todo' = Tail(todo) PROVE HeadReady'
    <2>1. todo' # << >> /\ todo'[1][1] \in DOMAIN Before =>
            todo'[1][1] = "created" /\ todo'[1][2] = a
      BY <1>a, <1>2, NextStep, BeforeFacts
    <2>2. entry'[a] = "kept"
      BY <1>2 DEF As
    <2> QED
      BY <2>1, <2>2, BeforeFacts DEF HeadReady
  <1> QED
    BY <1>b, <1>1, <1>2, OneArchive, StepKeeps DEF PublishArtifact

LEMMA HideArtifactInv ==
  ASSUME IInv, NEW a \in Artifacts, HideArtifact(a)
  PROVE  IInv'
  <1>a. todo # << >> /\ Head(todo) = <<"hide", a>>
    BY HeadIsReady DEF HideArtifact
  <1>b. a \in used /\ answered[a] = "none"
    BY HeadIsReady DEF HideArtifact, ArtifactSteps
  <1>1. entry' \in {entry, As({a}, "deleting")}
    <2>1. entry' \in {entry, As({a}, "deleting")} \cup {entry, As({a}, "deleting")} \cup {entry}
      BY HeadIsReady DEF HideArtifact
    <2> QED
      BY <2>1
  <1>2. todo' = Tail(todo) => HeadReady'
    BY <1>a, NothingReliesOn
  <1> QED
    BY <1>b, <1>1, <1>2, OneArchive, StepKeeps DEF HideArtifact

LEMMA RemoveArtifactInv ==
  ASSUME IInv, NEW a \in Artifacts, RemoveArtifact(a)
  PROVE  IInv'
  <1>a. todo # << >> /\ Head(todo) = <<"remove", a>>
    BY HeadIsReady DEF RemoveArtifact
  <1>b. a \in used /\ answered[a] = "none"
    BY HeadIsReady DEF RemoveArtifact, ArtifactSteps
  <1>1. entry' \in {entry, As({a}, "absent")}
    <2>1. entry' \in {entry, As({a}, "absent")} \cup {entry, As({a}, "absent")} \cup {entry}
      BY HeadIsReady DEF RemoveArtifact
    <2> QED
      BY <2>1
  <1>2. ASSUME entry' = As({a}, "absent"), todo' = Tail(todo) PROVE HeadReady'
    <2>1. todo' # << >> /\ todo'[1][1] \in DOMAIN Before =>
            todo'[1][1] = "deleted" /\ todo'[1][2] = a
      BY <1>a, <1>2, NextStep, BeforeFacts
    <2>2. entry'[a] = "absent"
      BY <1>2 DEF As
    <2> QED
      BY <2>1, <2>2, BeforeFacts DEF HeadReady
  <1> QED
    BY <1>b, <1>1, <1>2, OneArchive, StepKeeps DEF RemoveArtifact

LEMMA PreflightInv ==
  ASSUME IInv, Preflight
  PROVE  IInv'
  <1>1. entry' = entry
    <2>1. entry' \in {entry, entry} \cup {} \cup {}
      BY HeadIsReady DEF Preflight
    <2> QED
      BY <2>1
  <1>2. todo # << >> /\ Head(todo) = <<"preflight", "all">>
    BY HeadIsReady DEF Preflight
  <1>3. todo' = Tail(todo) => HeadReady'
    BY <1>2, NothingReliesOn
  <1> QED
    BY <1>1, <1>3, StepKeeps DEF Preflight, IInv, TypeOK

-----------------------------------------------------------------------------
(* Requests, answers and starts.                                             *)

LEMMA CreateArtifactInv ==
  ASSUME IInv, NEW a \in Artifacts, CreateArtifact(a)
  PROVE  IInv'
  <1> USE DEF IInv
  <1>1. answered[a] = "none" /\ ProjectOf[a] \in Projects
    BY GeneratedArtifactsAssumption DEF CreateArtifact, Fresh
  <1>2. todo' = << <<"collection", ProjectOf[a]>>, <<"stage", a>>, <<"fill", a>>,
                   <<"publish", a>>, <<"created", a>> >>
        /\ phase = "serving" /\ UNCHANGED <<entry, store, phase, answered>>
        /\ used' = used \cup {a}
    BY DEF CreateArtifact, Idle
  <1>3. TypeOK'
    <2>1. \A name \in StepNames : <<name, ProjectOf[a]>> \in Steps /\ <<name, a>> \in Steps
      BY <1>1 DEF Steps, StepNames
    <2>2. todo' \in Seq(Steps)
      BY <1>2, <2>1, OperationType DEF StepNames
    <2> QED
      BY <1>2, <2>2 DEF TypeOK, Steps
  <1>4. Control'
    BY <1>1, <1>2 DEF Control, ArtifactSteps, Before
  <1>5. HeadReady'
    BY <1>2 DEF HeadReady
  <1>6. Fresh' /\ AnsweredArtifactsKept'
    BY <1>2 DEF Fresh, AnsweredArtifactsKept
  <1> QED
    BY <1>3, <1>4, <1>5, <1>6

LEMMA DeleteArtifactInv ==
  ASSUME IInv, NEW a \in Artifacts, DeleteArtifact(a)
  PROVE  IInv'
  <1> USE DEF IInv
  <1>1. ProjectOf[a] \in Projects
    BY GeneratedArtifactsAssumption
  <1>2. todo' = << <<"collection", ProjectOf[a]>>, <<"hide", a>>, <<"remove", a>>, <<"deleted", a>> >>
        /\ phase = "serving" /\ UNCHANGED <<entry, store, phase, used>>
        /\ answered' = [answered EXCEPT ![a] = "none"]
    BY DEF DeleteArtifact, Idle
  <1>3. TypeOK'
    <2>1. \A name \in StepNames : <<name, ProjectOf[a]>> \in Steps /\ <<name, a>> \in Steps
      BY <1>1 DEF Steps, StepNames
    <2>2. todo' \in Seq(Steps)
      BY <1>2, <2>1, OperationType DEF StepNames
    <2> QED
      BY <1>2, <2>2 DEF TypeOK, Steps
  <1>4. answered'[a] = "none"
    BY <1>2 DEF TypeOK
  <1>5. Control'
    <2>1. a \in used
      BY DEF DeleteArtifact, Fresh
    <2> QED
      BY <1>2, <1>4, <2>1 DEF Control, ArtifactSteps, Before
  <1>6. HeadReady'
    BY <1>2 DEF HeadReady
  <1>7. Fresh' /\ AnsweredArtifactsKept'
    BY <1>2 DEF TypeOK, Fresh, AnsweredArtifactsKept
  <1> QED
    BY <1>3, <1>5, <1>6, <1>7

LEMMA AnswerInv ==
  ASSUME IInv, NEW a \in Artifacts, ArtifactCreated(a) \/ ArtifactDeleted(a)
  PROVE  IInv'
  <1> USE DEF IInv
  <1>1. todo' = << >> /\ UNCHANGED <<entry, phase, used>>
    BY DEF ArtifactCreated, ArtifactDeleted
  <1>2. TypeOK'
    BY <1>1 DEF TypeOK, ArtifactCreated, ArtifactDeleted
  <1>3. Control' /\ HeadReady'
    BY <1>1 DEF Control, HeadReady
  <1>4. CASE ArtifactCreated(a)
    <2>1. 1 \in DOMAIN todo /\ todo[1] = <<"created", a>> /\ todo # << >>
      BY <1>4 DEF ArtifactCreated
    <2>2. entry[a] = "kept" /\ a \in used
      BY <2>1 DEF Control, HeadReady, ArtifactSteps
    <2> QED
      BY <1>1, <1>2, <1>3, <1>4, <2>2 DEF ArtifactCreated, Fresh, AnsweredArtifactsKept, TypeOK
  <1>5. CASE ArtifactDeleted(a)
    <2>1. 1 \in DOMAIN todo /\ todo[1] = <<"deleted", a>> /\ todo # << >>
      BY <1>5 DEF ArtifactDeleted
    <2>2. entry[a] = "absent" /\ a \in used
      BY <2>1 DEF Control, HeadReady, ArtifactSteps
    <2>3. Fresh'
      BY <1>1, <1>5, <2>2 DEF ArtifactDeleted, Fresh, TypeOK
    <2> QED
      BY <1>1, <1>2, <1>3, <1>5, <2>2, <2>3 DEF ArtifactDeleted, AnsweredArtifactsKept, TypeOK
  <1> QED
    BY <1>4, <1>5

LEMMA StartInv == IInv /\ Start => IInv'
  <1> SUFFICES ASSUME IInv, Start PROVE IInv'
    OBVIOUS
  <1> USE DEF IInv
  <1> DEFINE Collect(j) == <<"collection", j>>
             S == {Collect(j) : j \in Projects}
             f == [j \in Projects |-> Collect(j)]
             each == SetToSeq(S)
  <1>1. f \in Surjection(Projects, S)
    BY DEF Surjection
  <1>2. IsFiniteSet(S)
    BY <1>1, FS_Surjection, GeneratedArtifactsAssumption
  <1>3. each \in Seq(S)
    BY <1>2, SetToSeqType
  <1>4. todo' = << <<"preflight", "all">> >> \o each \o << <<"serve", "all">> >>
    BY DEF Start
  <1> HIDE DEF each
  <1>5. S \subseteq Steps
    <2>1. \A j \in Projects : Collect(j) \in Steps
      BY DEF Steps, StepNames
    <2> QED
      BY <2>1
  <1>6. \A i \in DOMAIN todo' :
          todo'[i] \in Steps /\ todo'[i][1] \in {"preflight", "collection", "serve"}
    <2>1. \A i \in DOMAIN todo' : todo'[i] \in S \cup {<<"preflight", "all">>, <<"serve", "all">>}
      BY <1>3, <1>4
    <2>2. \A j \in Projects : Collect(j)[1] = "collection"
      OBVIOUS
    <2>3. <<"preflight", "all">> \in Steps /\ <<"serve", "all">> \in Steps
      BY DEF Steps, StepNames
    <2> HIDE DEF Collect
    <2> QED
      BY <1>5, <2>1, <2>2, <2>3
  <1>7. todo' \in Seq(Steps)
    <2>1. <<"preflight", "all">> \in Steps /\ <<"serve", "all">> \in Steps
      BY DEF Steps, StepNames
    <2>2. each \in Seq(Steps)
      BY <1>3, <1>5
    <2> QED
      BY <1>4, <2>1, <2>2
  <1>8. phase' = "opening" /\ UNCHANGED <<entry, store, used, answered>>
    BY DEF Start
  <1>9. TypeOK'
    BY <1>7, <1>8 DEF TypeOK, Steps
  <1>10. Control'
    BY <1>6, BeforeFacts DEF Control, ArtifactSteps
  <1>11. HeadReady'
    <2>1. todo' # << >> => 1 \in DOMAIN todo'
      BY <1>7
    <2> QED
      BY <1>6, <2>1 DEF HeadReady
  <1>12. Fresh' /\ AnsweredArtifactsKept'
    BY <1>8 DEF Fresh, AnsweredArtifactsKept
  <1> QED
    BY <1>9, <1>10, <1>11, <1>12

LEMMA ServeInv == IInv /\ Serve => IInv'
  <1> SUFFICES ASSUME IInv, Serve PROVE IInv'
    OBVIOUS
  <1> USE DEF IInv
  <1>1. todo' = << >> /\ UNCHANGED <<entry, used, answered>>
        /\ \/ phase' = "serving" /\ store' = Kept
           \/ phase' \in {"refused", phase} /\ store' = store
    BY DEF Serve, Fail
  <1>2. TypeOK' /\ Control' /\ HeadReady'
    BY <1>1 DEF TypeOK, Control, HeadReady, Kept
  <1>3. Fresh' /\ AnsweredArtifactsKept'
    BY <1>1 DEF Fresh, AnsweredArtifactsKept, Kept
  <1> QED
    BY <1>2, <1>3

LEMMA CrashInv == IInv /\ Crash => IInv'
  BY DEF Crash, Die, IInv, TypeOK, Control, HeadReady, Fresh, AnsweredArtifactsKept

LEMMA StepInv == IInv /\ [Next]_vars => IInv'
  <1> SUFFICES ASSUME IInv, [Next]_vars PROVE IInv'
    OBVIOUS
  <1>1. CASE UNCHANGED vars
    BY <1>1 DEF vars, IInv, TypeOK, Control, HeadReady, Room, Kept, Of, Fresh,
       AnsweredArtifactsKept
  <1>2. CASE Next
    BY <1>2, LoadCollectionInv, CreateArtifactInv, StageArtifactInv, FillArtifactInv,
       PublishArtifactInv, AnswerInv, DeleteArtifactInv, HideArtifactInv, RemoveArtifactInv,
       StartInv, PreflightInv, ServeInv, CrashInv DEF Next
  <1> QED
    BY <1>1, <1>2

-----------------------------------------------------------------------------
(* The refinement.                                                           *)

Records == [a \in Artifacts |-> IF entry[a] = "kept" THEN "kept" ELSE None]

LEMMA ShelfCardinality ==
  ASSUME NEW S
  PROVE  Shelf!Cardinality(S) = Cardinality(S)
  BY DEF Shelf!Cardinality, Cardinality

LEMMA BesideIsKept ==
  ASSUME TypeOK, NEW a \in Artifacts
  PROVE  Shelf!Beside(a) = Kept \cap Of(ProjectOf[a])
  BY GeneratedArtifactsAssumption DEF Shelf!Beside, Kept, Of

\* Taking an archive away is a Drop, and anything else that is not a
\* publication a stutter.
LEMMA AwayIsDrop ==
  ASSUME IInv, IInv', NEW a \in Artifacts, NEW state \in {"absent", "staging", "deleting"},
         entry' \in {entry, As({a}, state)}
  PROVE  [Shelf!RNext]_Records
  <1> USE GeneratedArtifactsAssumption
  <1>1. CASE entry' = entry
    BY <1>1 DEF Records
  <1>2. CASE entry' = As({a}, state) /\ entry[a] = "kept"
    <2>1. Records' = [Records EXCEPT ![a] = None]
      BY <1>2 DEF Records, As
    <2>2. Records[a] # None
      BY <1>2 DEF Records
    <2>3. Shelf!Drop(a)
      BY <2>1, <2>2 DEF Shelf!Drop, Records
    <2> QED
      BY <2>3 DEF Shelf!RNext
  <1>3. CASE entry' = As({a}, state) /\ entry[a] # "kept"
    <2>1. Records' = Records
      BY <1>3 DEF Records, As
    <2> QED
      BY <2>1
  <1> QED
    BY <1>1, <1>2, <1>3

\* A publication is a Put: the room made sure of when the staging directory was
\* made is still there.
LEMMA PublicationIsPut ==
  ASSUME IInv, IInv', NEW a \in Artifacts, Room(a), entry' = As({a}, "kept")
  PROVE  [Shelf!RNext]_Records
  <1> USE GeneratedArtifactsAssumption
  <1>1. CASE entry[a] = "kept"
    <2>1. Records' = Records
      BY <1>1 DEF Records, As
    <2> QED
      BY <2>1
  <1>2. CASE entry[a] # "kept"
    <2> DEFINE S == Kept \cap Of(ProjectOf[a])
    <2>1. IsFiniteSet(S) /\ a \notin S
      BY <1>2, FS_Subset DEF Kept
    <2>2. Cardinality(S \cup {a}) = Cardinality(S) + 1 /\ Cardinality(S) \in Nat
      BY <2>1, FS_AddElement, FS_CardinalityType
    <2>3. Cardinality(S) < MaxRecords
      BY <2>2 DEF Room
    <2>4. Cardinality(Shelf!Beside(a)) < MaxRecords
      BY <2>3, BesideIsKept DEF IInv
    <2>5. Records' = [Records EXCEPT ![a] = "kept"]
      BY <1>2 DEF Records, As
    <2>6. Records[a] = None
      BY <1>2 DEF Records
    <2>7. Shelf!Put(a, "kept")
      BY <2>4, <2>5, <2>6, ShelfCardinality DEF Shelf!Put, Records
    <2> QED
      BY <2>7 DEF Shelf!RNext
  <1> QED
    BY <1>1, <1>2

LEMMA ShelfInit == Init => Shelf!RInit
  <1> SUFFICES ASSUME Init PROVE Shelf!RInit
    OBVIOUS
  <1>1. Records \in [Artifacts -> {"kept"} \cup {None}]
    BY DEF Records
  <1>2. \A a \in Artifacts : Shelf!Beside(a) = {}
    BY DEF Init, Shelf!Beside
  <1>3. \A a \in Artifacts : Cardinality(Shelf!Beside(a)) <= MaxRecords
    BY <1>2, FS_EmptySet, GeneratedArtifactsAssumption
  <1> QED
    BY <1>1, <1>3, ShelfCardinality DEF Shelf!RInit, Records

LEMMA ShelfStep == IInv /\ IInv' /\ [Next]_vars => [Shelf!RNext]_Records
  <1> SUFFICES ASSUME IInv, IInv', [Next]_vars PROVE [Shelf!RNext]_Records
    OBVIOUS
  <1>1. ASSUME NEW j \in Projects, LoadCollection(j) PROVE [Shelf!RNext]_Records
    <2>1. entry' \in {entry, As(Leftovers(j), "absent")}
                       \cup {As(S, "absent") : S \in SUBSET Leftovers(j)}
      BY <1>1, HeadIsReady DEF LoadCollection
    <2>2. \A a \in Artifacts : entry'[a] = "kept" <=> entry[a] = "kept"
      BY <2>1 DEF As, Leftovers, Of
    <2>3. Records' = Records
      BY <2>2 DEF Records
    <2> QED
      BY <2>3
  <1>2. ASSUME UNCHANGED entry PROVE [Shelf!RNext]_Records
    BY <1>2 DEF Records
  <1>3. ASSUME NEW a \in Artifacts, StageArtifact(a) PROVE [Shelf!RNext]_Records
    <2>1. entry' \in {entry, As({a}, "staging")} \cup {entry, As({a}, "staging")} \cup {entry}
      BY <1>3, HeadIsReady DEF StageArtifact
    <2> QED
      BY <2>1, AwayIsDrop
  <1>4. ASSUME NEW a \in Artifacts, FillArtifact(a) PROVE [Shelf!RNext]_Records
    <2>1. entry' \in {entry, entry} \cup {entry, As({a}, "absent")} \cup {entry}
      BY <1>4, HeadIsReady DEF FillArtifact
    <2> QED
      BY <2>1, AwayIsDrop
  <1>5. ASSUME NEW a \in Artifacts, PublishArtifact(a) PROVE [Shelf!RNext]_Records
    <2>1. entry' \in {entry, As({a}, "kept")} \cup {entry, As({a}, "absent"), As({a}, "kept")}
                     \cup {entry}
      BY <1>5, HeadIsReady DEF PublishArtifact
    <2>2. Room(a)
      BY <1>5, HeadIsReady DEF PublishArtifact
    <2> QED
      BY <2>1, <2>2, AwayIsDrop, PublicationIsPut
  <1>6. ASSUME NEW a \in Artifacts, HideArtifact(a) PROVE [Shelf!RNext]_Records
    <2>1. entry' \in {entry, As({a}, "deleting")} \cup {entry, As({a}, "deleting")} \cup {entry}
      BY <1>6, HeadIsReady DEF HideArtifact
    <2> QED
      BY <2>1, AwayIsDrop
  <1>7. ASSUME NEW a \in Artifacts, RemoveArtifact(a) PROVE [Shelf!RNext]_Records
    <2>1. entry' \in {entry, As({a}, "absent")} \cup {entry, As({a}, "absent")} \cup {entry}
      BY <1>7, HeadIsReady DEF RemoveArtifact
    <2> QED
      BY <2>1, AwayIsDrop
  <1>8. CASE Preflight
    <2>1. entry' \in {entry, entry} \cup {} \cup {}
      BY <1>8, HeadIsReady DEF Preflight
    <2> QED
      BY <2>1, <1>2
  <1>9. ASSUME NEW a \in Artifacts,
               CreateArtifact(a) \/ ArtifactCreated(a) \/ DeleteArtifact(a) \/ ArtifactDeleted(a)
        PROVE  UNCHANGED entry
    BY <1>9 DEF CreateArtifact, ArtifactCreated, DeleteArtifact, ArtifactDeleted
  <1>10. CASE Start \/ Serve \/ Crash \/ UNCHANGED vars
    BY <1>2, <1>10 DEF Start, Serve, Crash, vars
  <1> QED
    BY <1>1, <1>2, <1>3, <1>4, <1>5, <1>6, <1>7, <1>8, <1>9, <1>10 DEF Next

-----------------------------------------------------------------------------
(* Theorems.                                                                 *)

THEOREM Invariance == Spec => []IInv
  <1> QED
    BY InitInv, StepInv, PTL DEF Spec

\* What create_export, create_publication and cleanup_retention answer with
\* success outlives every error, death and restart.
THEOREM AnswersOutliveCrashes == Spec => []AnsweredArtifactsKept
  <1>1. IInv => AnsweredArtifactsKept
    BY DEF IInv
  <1> QED
    BY <1>1, Invariance, PTL

\* Staging, rename and removal of a directory implement single steps of a shelf
\* that holds no more than the limit of its project.
THEOREM DirectoriesImplementShelf == Spec => ImplementsShelf
  <1>1. Init => Shelf!RInit
    BY ShelfInit
  <1>2. IInv /\ IInv' /\ [Next]_vars => [Shelf!RNext]_Records
    BY ShelfStep
  <1> QED
    BY <1>1, <1>2, Invariance, PTL DEF Spec, ImplementsShelf, Shelf!RSpec, Records

-----------------------------------------------------------------------------
(* What a start refuses.                                                     *)

\* What was answered is within the limits: there is room for a creation under
\* way beside everything the Store has.
Created == {a \in Artifacts : answered[a] = "created"}

CreationFits ==
  \A i \in DOMAIN todo : todo[i][1] = "created" =>
    Cardinality(store) < MaxRecords /\ Bytes(store) + Size[todo[i][2]] <= MaxBytes

Running == todo # << >> => phase \in {"opening", "serving"}

Exceeded == phase = "refused" => ~Within(Kept)

Refusals == Within(Created) /\ CreationFits /\ Running /\ Exceeded

RInv == IInv /\ Refusals

\* The bytes of the archives in S, told apart.
Units(S) == UNION {{a} \X (1..Size[a]) : a \in S}

LEMMA UpTo ==
  ASSUME NEW n \in Nat
  PROVE  IsFiniteSet(1..n) /\ Cardinality(1..n) = n
  <1>1. 1 \in Int /\ n \in Int
    OBVIOUS
  <1>2. IsFiniteSet(1..n) /\ Cardinality(1..n) = IF 1 > n THEN 0 ELSE n - 1 + 1
    BY <1>1, FS_Interval
  <1> QED
    BY <1>2

LEMMA UnitsFinite ==
  ASSUME NEW S \in SUBSET Artifacts
  PROVE  IsFiniteSet(S) /\ IsFiniteSet(Units(S)) /\ Bytes(S) = Cardinality(Units(S)) /\ Bytes(S) \in Nat
         /\ Cardinality(S) \in Nat
  <1> DEFINE Of1(a) == {a} \X (1..Size[a])
             parts == {Of1(a) : a \in S}
             f == [a \in S |-> Of1(a)]
  <1>1. IsFiniteSet(S)
    BY FS_Subset, GeneratedArtifactsAssumption
  <1>2. f \in Surjection(S, parts)
    BY DEF Surjection
  <1>3. IsFiniteSet(parts)
    BY <1>1, <1>2, FS_Surjection
  <1>4. ASSUME NEW a \in S PROVE IsFiniteSet(Of1(a))
    <2>1. Size[a] \in Nat
      BY GeneratedArtifactsAssumption
    <2>2. IsFiniteSet(1..Size[a]) /\ IsFiniteSet({a})
      BY <2>1, UpTo, FS_Singleton
    <2> QED
      BY <2>2, FS_Product
  <1>5. IsFiniteSet(UNION parts)
    <2>1. \A T \in parts : IsFiniteSet(T)
      BY <1>4
    <2> QED
      BY <1>3, <2>1, FS_UNION
  <1>6. IsFiniteSet(Units(S)) /\ Bytes(S) = Cardinality(Units(S))
    BY <1>5 DEF Units, Bytes
  <1>7. Cardinality(Units(S)) \in Nat /\ Cardinality(S) \in Nat
    BY <1>1, <1>6, FS_CardinalityType
  <1> QED
    BY <1>1, <1>6, <1>7

\* What is part of something within the limits is within them.
LEMMA WithinPart ==
  ASSUME NEW S \in SUBSET Artifacts, NEW T \in SUBSET S, Within(S)
  PROVE  Within(T)
  <1>1. T \in SUBSET Artifacts /\ Units(T) \subseteq Units(S)
    BY DEF Units
  <1>2. /\ IsFiniteSet(S) /\ IsFiniteSet(Units(S))
        /\ Bytes(S) = Cardinality(Units(S)) /\ Bytes(T) = Cardinality(Units(T))
        /\ Bytes(S) \in Nat /\ Bytes(T) \in Nat /\ Cardinality(S) \in Nat /\ Cardinality(T) \in Nat
    BY <1>1, UnitsFinite
  <1>3. Cardinality(T) <= Cardinality(S) /\ Cardinality(Units(T)) <= Cardinality(Units(S))
    BY <1>1, <1>2, FS_Subset
  <1>4. MaxRecords \in Nat /\ MaxBytes \in Nat
    BY GeneratedArtifactsAssumption
  <1>5. Cardinality(T) <= MaxRecords /\ Bytes(T) <= MaxBytes
    BY <1>2, <1>3, <1>4 DEF Within
  <1> QED
    BY <1>5 DEF Within

\* One archive more is its bytes more at most.
LEMMA WithinOneMore ==
  ASSUME NEW S \in SUBSET Artifacts, NEW a \in Artifacts,
         Cardinality(S) < MaxRecords, Bytes(S) + Size[a] <= MaxBytes
  PROVE  Within(S \cup {a})
  <1>1. /\ IsFiniteSet(S) /\ IsFiniteSet(Units(S)) /\ Bytes(S) = Cardinality(Units(S))
        /\ Bytes(S) \in Nat /\ Cardinality(S) \in Nat
        /\ Bytes(S \cup {a}) = Cardinality(Units(S \cup {a}))
    BY UnitsFinite
  <1>2. Size[a] \in Nat /\ MaxRecords \in Nat /\ MaxBytes \in Nat
    BY GeneratedArtifactsAssumption
  <1> DEFINE more == {a} \X (1..Size[a])
  <1>3. IsFiniteSet(more) /\ Cardinality(more) = Size[a]
    <2>1. IsFiniteSet(1..Size[a]) /\ Cardinality(1..Size[a]) = Size[a]
      BY <1>2, UpTo
    <2>2. IsFiniteSet({a}) /\ Cardinality({a}) = 1
      BY FS_Singleton
    <2>3. IsFiniteSet(more) /\ Cardinality(more) = 1 * Size[a]
      BY <2>1, <2>2, FS_Product
    <2> QED
      BY <1>2, <2>3
  <1>4. Units(S \cup {a}) = Units(S) \cup more
    BY DEF Units
  <1>5. /\ Cardinality(Units(S) \cup more)
             = Cardinality(Units(S)) + Cardinality(more) - Cardinality(Units(S) \cap more)
        /\ Cardinality(Units(S) \cap more) \in Nat
    <2>1. IsFiniteSet(Units(S) \cap more)
      BY <1>3, FS_Subset
    <2> QED
      BY <1>1, <1>3, <2>1, FS_Union, FS_CardinalityType
  <1>6. Bytes(S \cup {a}) <= MaxBytes
    <2> HIDE DEF more
    <2>1. Bytes(S \cup {a}) = Bytes(S) + Size[a] - Cardinality(Units(S) \cap more)
      BY <1>1, <1>3, <1>4, <1>5
    <2> QED
      BY <1>1, <1>2, <1>5, <2>1
  <1>7. Cardinality(S \cup {a}) <= MaxRecords
    <2>1. Cardinality(S \cup {a}) \in {Cardinality(S), Cardinality(S) + 1}
      BY <1>1, FS_AddElement
    <2> QED
      BY <1>1, <1>2, <2>1
  <1> QED
    BY <1>6, <1>7 DEF Within

LEMMA TypesForRefusals ==
  ASSUME IInv
  PROVE  /\ store \in SUBSET Artifacts /\ Kept \in SUBSET Artifacts /\ Created \in SUBSET Artifacts
         /\ todo \in Seq(Steps)
         /\ phase = "serving" => Created \subseteq store
  BY DEF IInv, TypeOK, Steps, Kept, Created, AnsweredArtifactsKept

\* A durable step of which no refusal of a start is without an excess.
LEMMA StepRefuses ==
  ASSUME RInv, NEW name, NEW s, NEW ok, NEW done, NEW error, NEW death,
         Step(name, s, ok, done, error, death),
         ok \/ name \in ArtifactSteps \/ ~Within(Kept)
  PROVE  Refusals'
  <1>1. /\ todo # << >> /\ todo \in Seq(Steps) /\ Head(todo) = <<name, s>> /\ IInv
        /\ UNCHANGED answered
    BY TypesForRefusals DEF RInv, Step
  <1>2. 1 \in DOMAIN todo /\ todo[1] = <<name, s>>
    BY <1>1, TailFacts
  <1>3. name \in ArtifactSteps => phase = "serving"
    BY <1>1, <1>2 DEF IInv, Control
  <1>4. phase \in {"opening", "serving"}
    BY <1>1 DEF RInv, Refusals, Running
  <1>5. Within(Created)'
    BY <1>1 DEF RInv, Refusals, Created, Within, Bytes
  <1>6. CASE ok /\ todo' = Tail(todo) /\ UNCHANGED <<store, phase>>
    <2>1. CreationFits'
      <3> SUFFICES ASSUME NEW i \in DOMAIN todo', todo'[i][1] = "created"
                   PROVE  Cardinality(store) < MaxRecords /\ Bytes(store) + Size[todo'[i][2]] <= MaxBytes
        BY <1>6 DEF CreationFits
      <3>1. i + 1 \in DOMAIN todo /\ todo'[i] = todo[i + 1]
        BY <1>1, <1>6, TailFacts
      <3> QED
        BY <3>1 DEF RInv, Refusals, CreationFits
    <2> QED
      BY <1>4, <1>5, <1>6, <2>1 DEF Refusals, Running, Exceeded
  <1>7. CASE todo' = << >> /\ phase' # "refused"
    BY <1>5, <1>7 DEF Refusals, CreationFits, Running, Exceeded
  <1>8. CASE ~ok /\ Fail("refused") /\ UNCHANGED entry
    <2>1. CASE phase = "serving"
      BY <1>7, <1>8, <2>1 DEF Fail
    <2>2. CASE phase = "opening"
      <3>1. ~Within(Kept)
        BY <1>3, <1>8, <2>2
      <3>2. ~Within(Kept')
        BY <1>8, <3>1 DEF Kept
      <3> QED
        BY <1>5, <1>8, <3>2 DEF Fail, Refusals, CreationFits, Running, Exceeded
    <2> QED
      BY <1>4, <2>1, <2>2
  <1>9. CASE Fail("down") \/ Die
    BY <1>4, <1>7, <1>9 DEF Fail, Die
  <1> QED
    BY <1>6, <1>8, <1>9 DEF Step

\* The limits of a project refuse nothing the limits of the Store would not.
LEMMA ProjectPart ==
  ASSUME NEW j, Within(Kept)
  PROVE  Within(Kept \cap Of(j))
  <1>1. Kept \in SUBSET Artifacts /\ Kept \cap Of(j) \in SUBSET Kept
    BY DEF Kept
  <1> QED
    BY <1>1, WithinPart

LEMMA DurableRefuses ==
  ASSUME RInv,
         \/ \E j \in Projects : LoadCollection(j)
         \/ \E a \in Artifacts : StageArtifact(a) \/ FillArtifact(a) \/ PublishArtifact(a)
                                 \/ HideArtifact(a) \/ RemoveArtifact(a)
         \/ Preflight
  PROVE  Refusals'
  <1>1. ASSUME NEW j \in Projects, LoadCollection(j) PROVE Refusals'
    <2>1. Within(Kept \cap Of(j)) \/ ~Within(Kept)
      BY ProjectPart
    <2> QED
      BY <1>1, <2>1, StepRefuses DEF LoadCollection
  <1>2. CASE Preflight
    <2>1. (\A j \in Projects : Within(Kept \cap Of(j))) \/ ~Within(Kept)
      BY ProjectPart
    <2> QED
      BY <1>2, <2>1, StepRefuses DEF Preflight
  <1>3. {"stage", "fill", "publish", "hide", "remove"} \subseteq ArtifactSteps
    BY DEF ArtifactSteps
  <1>4. ASSUME NEW a \in Artifacts, StageArtifact(a) PROVE Refusals'
    BY <1>3, <1>4, StepRefuses DEF StageArtifact
  <1>5. ASSUME NEW a \in Artifacts, FillArtifact(a) PROVE Refusals'
    BY <1>3, <1>5, StepRefuses DEF FillArtifact
  <1>6. ASSUME NEW a \in Artifacts, PublishArtifact(a) PROVE Refusals'
    BY <1>3, <1>6, StepRefuses DEF PublishArtifact
  <1>7. ASSUME NEW a \in Artifacts, HideArtifact(a) PROVE Refusals'
    BY <1>3, <1>7, StepRefuses DEF HideArtifact
  <1>8. ASSUME NEW a \in Artifacts, RemoveArtifact(a) PROVE Refusals'
    BY <1>3, <1>8, StepRefuses DEF RemoveArtifact
  <1> QED
    BY <1>1, <1>2, <1>4, <1>5, <1>6, <1>7, <1>8

\* A creation begins only beside a Store with room for it.
LEMMA CreateArtifactRefuses ==
  ASSUME RInv, NEW a \in Artifacts, CreateArtifact(a) \/ DeleteArtifact(a)
  PROVE  Refusals'
  <1>1. /\ phase = "serving" /\ phase' = "serving" /\ UNCHANGED <<entry, store>>
        /\ Created' \in SUBSET Created
    BY DEF CreateArtifact, DeleteArtifact, Idle, Created, RInv, IInv, TypeOK
  <1>2. Within(Created')
    BY <1>1, TypesForRefusals, WithinPart DEF RInv, Refusals
  <1>3. CreationFits'
    <2>1. CASE CreateArtifact(a)
      <3>1. /\ todo' = << <<"collection", ProjectOf[a]>>, <<"stage", a>>, <<"fill", a>>,
                          <<"publish", a>>, <<"created", a>> >>
            /\ Cardinality(store) < MaxRecords /\ Bytes(store) + Size[a] <= MaxBytes
        BY <2>1 DEF CreateArtifact
      <3>2. \A i \in DOMAIN todo' : todo'[i][1] = "created" => todo'[i][2] = a
        BY <3>1
      <3> QED
        BY <1>1, <3>1, <3>2 DEF CreationFits
    <2>2. CASE DeleteArtifact(a)
      <3>1. todo' = << <<"collection", ProjectOf[a]>>, <<"hide", a>>, <<"remove", a>>,
                       <<"deleted", a>> >>
        BY <2>2 DEF DeleteArtifact
      <3>2. \A i \in DOMAIN todo' : todo'[i][1] # "created"
        BY <3>1
      <3> QED
        BY <3>2 DEF CreationFits
    <2> QED
      BY <2>1, <2>2
  <1> QED
    BY <1>1, <1>2, <1>3 DEF Refusals, Running, Exceeded

\* The answer of a creation stays within the limits its request looked at.
LEMMA AnswerRefuses ==
  ASSUME RInv, NEW a \in Artifacts, ArtifactCreated(a) \/ ArtifactDeleted(a)
  PROVE  Refusals'
  <1>1. todo' = << >> /\ phase' = phase /\ phase = "serving"
    <2>1. todo # << >> /\ 1 \in DOMAIN todo /\ todo[1] \in {<<"created", a>>, <<"deleted", a>>}
      BY DEF ArtifactCreated, ArtifactDeleted
    <2>2. phase = "serving"
      BY <2>1 DEF RInv, IInv, Control, ArtifactSteps
    <2> QED
      BY <2>2 DEF ArtifactCreated, ArtifactDeleted
  <1>2. Within(Created')
    <2>1. CASE ArtifactCreated(a)
      <3>1. 1 \in DOMAIN todo /\ todo[1] = <<"created", a>> /\ answered' = [answered EXCEPT ![a] = "created"]
        BY <2>1 DEF ArtifactCreated
      <3>2. Cardinality(store) < MaxRecords /\ Bytes(store) + Size[a] <= MaxBytes
        BY <3>1 DEF RInv, Refusals, CreationFits
      <3>3. Within(store \cup {a}) /\ store \cup {a} \in SUBSET Artifacts
        BY <3>2, TypesForRefusals, WithinOneMore DEF RInv
      <3>4. Created' \in SUBSET (store \cup {a})
        BY <1>1, <3>1, TypesForRefusals DEF Created, RInv, IInv, TypeOK
      <3> QED
        BY <3>3, <3>4, WithinPart
    <2>2. CASE ArtifactDeleted(a)
      <3>1. Created' \in SUBSET Created
        BY <2>2 DEF ArtifactDeleted, Created, RInv, IInv, TypeOK
      <3> QED
        BY <3>1, TypesForRefusals, WithinPart DEF RInv, Refusals
    <2> QED
      BY <2>1, <2>2
  <1> QED
    BY <1>1, <1>2 DEF Refusals, CreationFits, Running, Exceeded

LEMMA StartRefuses ==
  ASSUME RInv, IInv', Start \/ Serve \/ Crash
  PROVE  Refusals'
  <1>1. UNCHANGED <<entry, answered>>
    BY DEF Start, Serve, Crash
  <1>2. Within(Created')
    BY <1>1 DEF RInv, Refusals, Created
  <1>3. CASE Start
    <2>1. phase' = "opening"
      BY <1>3 DEF Start
    <2>2. \A i \in DOMAIN todo' : todo'[i][1] # "created"
      BY <2>1 DEF IInv, Control, ArtifactSteps
    <2> QED
      BY <1>2, <2>1, <2>2 DEF Refusals, CreationFits, Running, Exceeded
  <1>4. CASE Serve
    <2>1. todo' = << >> /\ (phase' = "refused" => ~Within(Kept) \/ phase = "refused")
      BY <1>4 DEF Serve, Fail
    <2>2. Exceeded'
      <3>1. Kept' = Kept
        BY <1>1 DEF Kept
      <3> QED
        BY <2>1, <3>1 DEF RInv, Refusals, Exceeded
    <2> QED
      BY <1>2, <2>1, <2>2 DEF Refusals, CreationFits, Running
  <1>5. CASE Crash
    <2>1. todo' = << >> /\ phase' = "down"
      BY <1>5 DEF Crash, Die
    <2> QED
      BY <1>2, <2>1 DEF Refusals, CreationFits, Running, Exceeded
  <1> QED
    BY <1>3, <1>4, <1>5

LEMMA RefusalsStep == IInv' /\ RInv /\ [Next]_vars => Refusals'
  <1> SUFFICES ASSUME IInv', RInv, [Next]_vars PROVE Refusals'
    OBVIOUS
  <1>1. CASE UNCHANGED vars
    <2>1. Created' = Created /\ Kept' = Kept /\ UNCHANGED <<store, phase, todo>>
      BY <1>1 DEF vars, Created, Kept
    <2> QED
      BY <2>1 DEF RInv, Refusals, CreationFits, Running, Exceeded
  <1>2. CASE Next
    BY <1>2, DurableRefuses, CreateArtifactRefuses, AnswerRefuses, StartRefuses DEF Next
  <1> QED
    BY <1>1, <1>2

LEMMA RefusalsInit == Init => Refusals
  <1> SUFFICES ASSUME Init PROVE Refusals
    OBVIOUS
  <1>1. Created = {} /\ todo = << >> /\ phase = "serving"
    BY DEF Init, Created
  <1>2. Units({}) = {}
    BY DEF Units
  <1>3. Bytes({}) = 0 /\ Cardinality({}) = 0
    BY <1>2, UnitsFinite, FS_EmptySet
  <1>4. Within(Created)
    BY <1>1, <1>3, GeneratedArtifactsAssumption DEF Within
  <1> QED
    BY <1>1, <1>4 DEF Refusals, CreationFits, Running, Exceeded

\* The limits are looked at when a creation begins and again when a start counts
\* what the directories hold: a start refuses only where an archive nobody was
\* answered for takes the place of one that was.
THEOREM RefusalsAreExplained == Spec => []RefusalNeedsGhost
  <1>1. Init => Refusals
    BY RefusalsInit
  <1>2. IInv' /\ IInv /\ Refusals /\ [Next]_vars => Refusals'
    BY RefusalsStep DEF RInv
  <1>3. IInv /\ Refusals => RefusalNeedsGhost
    <2> SUFFICES ASSUME IInv, Refusals, phase = "refused"
                 PROVE  ~Within(Kept) /\ \E a \in Kept : answered[a] # "created"
      BY DEF RefusalNeedsGhost, Within
    <2>1. ~Within(Kept)
      BY DEF Refusals, Exceeded
    <2>2. ASSUME \A a \in Kept : answered[a] = "created" PROVE FALSE
      <3>1. Kept \in SUBSET Created
        BY <2>2 DEF Kept, Created
      <3> QED
        BY <2>1, <3>1, TypesForRefusals, WithinPart DEF Refusals
    <2> QED
      BY <2>1, <2>2
  <1> QED
    BY <1>1, <1>2, <1>3, Invariance, PTL DEF Spec

=============================================================================
