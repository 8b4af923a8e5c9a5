------------------------- MODULE ImportReviewProofs -------------------------
(* Proofs about ImportReview, for any number of sessions, previews,          *)
(* requests and files, and any limits: one review makes one answered         *)
(* project, and a project has the files of its review.                       *)
EXTENDS ImportReview, TLAPS

-----------------------------------------------------------------------------
(* The inductive invariant.                                                  *)

\* A preview of the Store is the one that was answered: identifiers are fresh.
PreviewsAreShown == \A p \in Previews : previews[p] # None => previews[p] = shown[p]

\* What a request under way has established so far.
HandSound(r) ==
  LET hand == requests[r]
  IN  /\ hand.kind = "preview" => hand.at = "scan"
      /\ hand.kind = "confirm" => hand.preview \in Previews /\ shown[hand.preview] # None
      /\ hand.kind = "confirm" /\ hand.at # "check" => hand.digest = shown[hand.preview].digest
      /\ hand.at = "create" => hand.files = hand.digest /\ hand.files[Index] # None

HandsSound == \A r \in Requests : requests[r] # None => HandSound(r)

\* The preview of an answered project is gone.
AnsweredIsSpent ==
  \A i \in DOMAIN imported : imported[i].answered => previews[imported[i].preview] = None

IInv ==
  /\ TypeOK /\ PreviewsAreShown /\ HandsSound /\ AnsweredIsSpent
  /\ ImportedIsReviewed /\ ConfirmedOnce

-----------------------------------------------------------------------------
(* Initial states.                                                           *)

LEMMA InitInv == Init => IInv
  <1> SUFFICES ASSUME Init PROVE IInv
    OBVIOUS
  <1>1. TypeOK
    BY DEF Init, TypeOK, Contents
  <1>2. DOMAIN imported = {}
    BY DEF Init
  <1> QED
    BY <1>1, <1>2 DEF Init, IInv, PreviewsAreShown, HandsSound, AnsweredIsSpent,
       ImportedIsReviewed, ConfirmedOnce

LEMMA ImportedType ==
  ASSUME TypeOK, NEW i \in DOMAIN imported
  PROVE  imported[i].preview \in Previews
  <1>1. imported[i] \in Projects
    BY DEF TypeOK
  <1> QED
    BY <1>1 DEF Projects

-----------------------------------------------------------------------------
(* Steps that change neither the projects nor what was shown.                *)

\* Previews may go and a request may advance as long as it stays sound.
LEMMA QuietStep ==
  ASSUME IInv, TypeOK',
         UNCHANGED <<shown, imported>>,
         \A p \in Previews : previews'[p] \in {previews[p], None},
         \A r \in Requests : requests'[r] \in {requests[r], None} \/ HandSound(r)'
  PROVE  IInv'
  <1> USE DEF IInv
  <1>1. PreviewsAreShown'
    BY DEF PreviewsAreShown
  <1>2. HandsSound'
    BY DEF HandsSound, HandSound
  <1>3. AnsweredIsSpent'
    <2> SUFFICES ASSUME NEW i \in DOMAIN imported, imported[i].answered
                 PROVE  previews'[imported[i].preview] = None
      BY DEF AnsweredIsSpent
    <2>1. imported[i].preview \in Previews
      BY ImportedType
    <2> QED
      BY <2>1 DEF AnsweredIsSpent
  <1>4. ImportedIsReviewed' /\ ConfirmedOnce'
    BY DEF ImportedIsReviewed, ConfirmedOnce
  <1> QED
    BY <1>1, <1>2, <1>3, <1>4

-----------------------------------------------------------------------------
(* Types.                                                                    *)

LEMMA AppendType ==
  ASSUME NEW S, NEW q \in Seq(S), NEW e \in S
  PROVE  Append(q, e) \in Seq(S)
  OBVIOUS

LEMMA RefuseType ==
  ASSUME TypeOK, NEW r \in Requests, Refuse(r)
  PROVE  requests' \in [Requests -> Hands \cup {None}]
  BY DEF TypeOK, Refuse

LEMMA EnterType ==
  ASSUME TypeOK, NEW r \in Requests, NEW s \in Sessions, NEW hand \in Hands, Enter(r, s, hand)
  PROVE  TypeOK'
  BY DEF TypeOK, Enter

LEMMA SectionType ==
  ASSUME TypeOK, NEW r \in Requests, requests[r] # None,
         NEW stage \in {"scan", "create"}, NEW ok \in BOOLEAN, Section(r, stage, ok)
  PROVE  /\ previews' \in [Previews -> PreviewRecords \cup {None}]
         /\ requests' \in [Requests -> Hands \cup {None}]
  <1>1. requests[r] \in Hands
    BY DEF TypeOK
  <1>2. [requests[r] EXCEPT !.at = stage] \in Hands
    BY <1>1 DEF Hands
  <1>3. requests' \in [Requests -> Hands \cup {None}]
    BY <1>2 DEF TypeOK, Section, Refuse
  <1>4. previews' \in [Previews -> PreviewRecords \cup {None}]
    BY DEF TypeOK, Section
  <1> QED
    BY <1>3, <1>4

LEMMA ProjectType ==
  ASSUME TypeOK, NEW r \in Requests, requests[r] # None, Bound(r), HandsSound,
         requests[r].at = "create", NEW ok \in BOOLEAN
  PROVE  Project(r, ok) \in Projects
  <1>1. requests[r] \in Hands
    BY DEF TypeOK
  <1>2. requests[r].preview \in Previews
    BY <1>1 DEF Hands, HandsSound, HandSound
  <1> QED
    BY <1>1, <1>2 DEF Project, Projects, Hands, TypeOK

LEMMA TypeStep == TypeOK /\ HandsSound /\ [Next]_vars => TypeOK'
  <1> SUFFICES ASSUME TypeOK, HandsSound, [Next]_vars PROVE TypeOK'
    OBVIOUS
  <1>1. ASSUME NEW f \in Files, Edit(f) PROVE TypeOK'
    <2>1. source' \in Contents
      BY <1>1 DEF Edit, TypeOK, Contents
    <2> QED
      BY <1>1, <2>1 DEF Edit, TypeOK
  <1>2. CASE Tick
    BY <1>2 DEF Tick, TypeOK
  <1>3. CASE Restart
    BY <1>3 DEF Restart, TypeOK
  <1>4. ASSUME NEW s \in Sessions, Bootstrap(s) PROVE TypeOK'
    BY <1>4 DEF Bootstrap, TypeOK
  <1>5. ASSUME NEW r \in Requests, RequestSteps(r) PROVE TypeOK'
    <2>1. ASSUME NEW s \in Sessions, BeginPreview(r, s) PROVE TypeOK'
      BY <2>1, EnterType DEF BeginPreview, Hands, Nothing, Contents
    <2>2. ASSUME NEW s \in Sessions, NEW p \in Previews, NEW q \in Previews,
                 BeginConfirm(r, s, p, q)
          PROVE  TypeOK'
      <3>1. shown[q].digest \in Contents
        BY <2>2 DEF BeginConfirm, TypeOK, PreviewRecords
      <3> QED
        BY <2>2, <3>1, EnterType DEF BeginConfirm, Hands, Nothing, Contents
    <2>3. ASSUME NEW f \in Files, ScanFile(r, f) PROVE TypeOK'
      <3> DEFINE hand == [requests[r] EXCEPT !.left = @ \ {f}, !.files[f] = source[f]]
      <3>1. requests[r] \in Hands /\ source[f] \in Versions \cup {None}
        BY <2>3 DEF ScanFile, TypeOK, Contents
      <3>2. hand.files \in Contents /\ hand.left \subseteq Files
        BY <3>1 DEF Hands, Contents
      <3>3. hand \in Hands
        BY <3>1, <3>2 DEF Hands
      <3>4. requests' = [requests EXCEPT ![r] = hand]
        BY <2>3 DEF ScanFile
      <3> HIDE DEF hand
      <3> QED
        BY <2>3, <3>3, <3>4 DEF ScanFile, TypeOK
    <2>4. CASE ScanRefused(r)
      BY <2>4, RefuseType DEF ScanRefused, TypeOK
    <2>5. ASSUME NEW p \in Previews, FinishPreview(r, p) PROVE TypeOK'
      <3> DEFINE record == [session |-> requests[r].session, digest |-> requests[r].files,
                            expires |-> now + PreviewTtl]
      <3>1. requests[r] \in Hands
        BY <2>5 DEF FinishPreview, Scanned, TypeOK
      <3>2. record \in PreviewRecords
        BY <3>1, ImportReviewAssumption DEF TypeOK, Hands, PreviewRecords
      <3>3. requests' \in [Requests -> Hands \cup {None}]
        BY <2>5, RefuseType DEF FinishPreview
      <3>4. /\ previews' \in [Previews -> PreviewRecords \cup {None}]
            /\ shown' \in [Previews -> PreviewRecords \cup {None}]
        BY <2>5, <3>2 DEF FinishPreview, TypeOK
      <3> QED
        BY <2>5, <3>3, <3>4 DEF FinishPreview, TypeOK
    <2>6. CASE CheckPreview(r)
      BY <2>6, SectionType DEF CheckPreview, TypeOK
    <2>7. CASE RecheckPreview(r)
      <3>1. /\ previews' \in [Previews -> PreviewRecords \cup {None}]
            /\ requests' \in [Requests -> Hands \cup {None}]
        BY <2>7, SectionType DEF RecheckPreview, Scanned
      <3> QED
        BY <2>7, <3>1 DEF RecheckPreview, TypeOK
    <2>8. CASE ImportProject(r)
      <3>1. requests' \in [Requests -> Hands \cup {None}]
        BY <2>8, RefuseType DEF ImportProject
      <3>2. previews' \in [Previews -> PreviewRecords \cup {None}]
        BY <2>8 DEF ImportProject, TypeOK
      <3>3. imported' \in Seq(Projects)
        <4>1. CASE Bound(r)
          <5>1. Project(r, TRUE) \in Projects
            BY <2>8, <4>1, ProjectType DEF ImportProject
          <5>2. imported \in Seq(Projects)
            BY DEF TypeOK
          <5>3. imported' \in {imported, Append(imported, Project(r, TRUE))}
            BY <2>8 DEF ImportProject
          <5> QED
            BY <5>1, <5>2, <5>3, AppendType
        <4>2. CASE ~Bound(r)
          BY <2>8, <4>2 DEF ImportProject, TypeOK
        <4> QED
          BY <4>1, <4>2
      <3> QED
        BY <2>8, <3>1, <3>2, <3>3 DEF ImportProject, TypeOK
    <2>9. CASE ImportFails(r)
      <3>1. requests' \in [Requests -> Hands \cup {None}]
        BY <2>9, RefuseType DEF ImportFails
      <3>2. imported' \in Seq(Projects)
        <4>1. Project(r, FALSE) \in Projects
          BY <2>9, ProjectType DEF ImportFails
        <4>2. imported \in Seq(Projects)
          BY DEF TypeOK
        <4>3. imported' \in {imported, Append(imported, Project(r, FALSE))}
          BY <2>9 DEF ImportFails
        <4> QED
          BY <4>1, <4>2, <4>3, AppendType
      <3> QED
        BY <2>9, <3>1, <3>2 DEF ImportFails, TypeOK
    <2> QED
      BY <1>5, <2>1, <2>2, <2>3, <2>4, <2>5, <2>6, <2>7, <2>8, <2>9 DEF RequestSteps
  <1>6. CASE UNCHANGED vars
    BY <1>6 DEF vars, TypeOK
  <1> QED
    BY <1>1, <1>2, <1>3, <1>4, <1>5, <1>6 DEF Next

-----------------------------------------------------------------------------
(* The steps that show a preview or create a project.                        *)

LEMMA FinishPreviewInv ==
  ASSUME IInv, TypeOK', NEW r \in Requests, NEW p \in Previews, FinishPreview(r, p)
  PROVE  IInv'
  <1> USE DEF IInv
  <1>1. requests[r] # None /\ requests[r] \in Hands
    BY DEF FinishPreview, Scanned, TypeOK
  <1>2. shown[p] = None /\ previews[p] = None
    BY DEF FinishPreview, PreviewsAreShown
  <1>3. \A q \in Previews : q # p => shown'[q] = shown[q]
    BY DEF FinishPreview, TypeOK
  <1>4. \A q \in Previews : q # p => previews'[q] \in {previews[q], None}
    BY DEF FinishPreview, TypeOK
  <1>5. previews'[p] # None => previews'[p] = shown'[p]
    BY <1>2 DEF FinishPreview, TypeOK
  <1>6. PreviewsAreShown'
    BY <1>3, <1>4, <1>5 DEF PreviewsAreShown
  <1>7. ASSUME NEW q \in Requests, requests'[q] # None PROVE HandSound(q)'
    <2>1. requests'[q] = requests[q] /\ requests[q] # None
      BY <1>7 DEF FinishPreview, Refuse, TypeOK
    <2>2. HandSound(q)
      BY <2>1 DEF HandsSound
    <2>3. requests[q].kind = "confirm" => shown'[requests[q].preview] = shown[requests[q].preview]
      BY <2>2, <1>2, <1>3 DEF HandSound
    <2> QED
      BY <2>1, <2>2, <2>3 DEF HandSound
  <1>8. \A i \in DOMAIN imported : imported[i].preview \in Previews /\ imported[i].preview # p
    BY <1>2, ImportedType DEF ImportedIsReviewed
  <1>9. imported' = imported
    BY DEF FinishPreview
  <1>10. AnsweredIsSpent'
    BY <1>4, <1>8, <1>9 DEF AnsweredIsSpent
  <1>11. ImportedIsReviewed'
    BY <1>3, <1>8, <1>9 DEF ImportedIsReviewed
  <1>12. ConfirmedOnce'
    BY <1>9 DEF ConfirmedOnce
  <1> QED
    BY <1>6, <1>7, <1>10, <1>11, <1>12 DEF HandsSound

\* A project made from a preview the mutex still finds.
LEMMA NewProjectInv ==
  ASSUME IInv, TypeOK', NEW r \in Requests, requests[r] # None, requests[r].at = "create",
         Bound(r), ~Expired(r), NEW ok \in BOOLEAN,
         imported' = Append(imported, Project(r, ok)),
         UNCHANGED shown, Refuse(r),
         \A p \in Previews : previews'[p] \in {previews[p], None},
         ok => previews'[requests[r].preview] = None
  PROVE  IInv'
  <1> USE DEF IInv
  <1> DEFINE new == Len(imported) + 1
             hand == requests[r]
             q == requests[r].preview
  <1>1. hand \in Hands /\ HandSound(r)
    BY DEF TypeOK, HandsSound
  <1>2. hand.kind = "confirm" /\ q \in Previews /\ hand.files = shown[q].digest
        /\ hand.files[Index] # None
    BY <1>1 DEF Hands, HandSound
  <1>3. previews[q] # None /\ previews[q] = shown[q] /\ previews[q].session = hand.session
    BY <1>2 DEF Bound, PreviewsAreShown
  <1>4. now <= shown[q].expires
    BY <1>2, <1>3 DEF Expired, TypeOK, PreviewRecords
  <1>5. imported \in Seq(Projects) /\ Project(r, ok) \in Projects
    BY ProjectType DEF TypeOK
  <1>6. /\ DOMAIN imported' = DOMAIN imported \cup {new}
        /\ \A i \in DOMAIN imported : i < new /\ imported'[i] = imported[i]
        /\ imported'[new] = Project(r, ok)
    BY <1>5
  <1> HIDE DEF new
  <1>7. PreviewsAreShown'
    BY DEF PreviewsAreShown
  <1>8. HandsSound'
    BY DEF HandsSound, HandSound, Refuse, TypeOK
  <1>9. \A i \in DOMAIN imported : imported[i].preview \in Previews
    BY ImportedType
  <1>10. AnsweredIsSpent'
    <2>1. ASSUME NEW i \in DOMAIN imported, imported'[i].answered
          PROVE  previews'[imported'[i].preview] = None
      BY <2>1, <1>6, <1>9 DEF AnsweredIsSpent
    <2>2. imported'[new].answered => previews'[imported'[new].preview] = None
      BY <1>6 DEF Project
    <2> QED
      BY <1>6, <2>1, <2>2 DEF AnsweredIsSpent
  <1>11. ImportedIsReviewed'
    <2>1. ASSUME NEW i \in DOMAIN imported
          PROVE  LET review == shown[imported'[i].preview]
                 IN  /\ review # None
                     /\ imported'[i].files = review.digest /\ imported'[i].files[Index] # None
                     /\ imported'[i].session = review.session
                     /\ imported'[i].at <= review.expires
      BY <1>6 DEF ImportedIsReviewed
    <2>2. /\ shown[imported'[new].preview] # None
          /\ imported'[new].files = shown[imported'[new].preview].digest
          /\ imported'[new].files[Index] # None
          /\ imported'[new].session = shown[imported'[new].preview].session
          /\ imported'[new].at <= shown[imported'[new].preview].expires
      BY <1>6, <1>2, <1>3, <1>4 DEF Project
    <2> QED
      BY <1>6, <2>1, <2>2 DEF ImportedIsReviewed
  <1>12. ConfirmedOnce'
    <2> SUFFICES ASSUME NEW i \in DOMAIN imported', NEW k \in DOMAIN imported', i < k,
                        imported'[i].preview = imported'[k].preview
                 PROVE  ~imported'[i].answered
      BY DEF ConfirmedOnce
    <2>1. i \in DOMAIN imported
      <3>1. k <= new /\ i \in Nat /\ k \in Nat /\ new \in Nat
        BY <1>5, <1>6 DEF new
      <3> QED
        BY <1>6, <3>1
    <2>2. CASE k = new
      BY <2>1, <2>2, <1>3, <1>6 DEF AnsweredIsSpent, Project
    <2>3. CASE k \in DOMAIN imported
      BY <2>1, <2>3, <1>6 DEF ConfirmedOnce
    <2> QED
      BY <1>6, <2>2, <2>3
  <1> QED
    BY <1>7, <1>8, <1>10, <1>11, <1>12

-----------------------------------------------------------------------------
(* Every step.                                                               *)

LEMMA StepInv == IInv /\ [Next]_vars => IInv'
  <1> SUFFICES ASSUME IInv, [Next]_vars PROVE IInv'
    OBVIOUS
  <1>0. TypeOK'
    BY TypeStep DEF IInv
  <1> USE DEF IInv
  <1>1. ASSUME NEW f \in Files, Edit(f) PROVE IInv'
    BY <1>0, <1>1, QuietStep DEF Edit
  <1>2. CASE Tick
    BY <1>0, <1>2, QuietStep DEF Tick
  <1>3. CASE Restart
    BY <1>0, <1>3, QuietStep DEF Restart
  <1>4. ASSUME NEW s \in Sessions, Bootstrap(s) PROVE IInv'
    BY <1>0, <1>4, QuietStep DEF Bootstrap
  <1>5. ASSUME NEW r \in Requests, RequestSteps(r) PROVE IInv'
    <2>1. ASSUME NEW s \in Sessions, BeginPreview(r, s) PROVE IInv'
      <3>1. \A q \in Requests : requests'[q] \in {requests[q], None} \/ HandSound(q)'
        BY <2>1 DEF BeginPreview, Enter, HandSound, TypeOK
      <3> QED
        BY <1>0, <2>1, <3>1, QuietStep DEF BeginPreview, Enter
    <2>2. ASSUME NEW s \in Sessions, NEW p \in Previews, NEW q \in Previews,
                 BeginConfirm(r, s, p, q)
          PROVE  IInv'
      <3>1. \A k \in Requests : requests'[k] \in {requests[k], None} \/ HandSound(k)'
        BY <2>2 DEF BeginConfirm, Enter, HandSound, TypeOK
      <3> QED
        BY <1>0, <2>2, <3>1, QuietStep DEF BeginConfirm, Enter
    <2>3. ASSUME NEW f \in Files, ScanFile(r, f) PROVE IInv'
      <3>1. requests[r] \in Hands /\ HandSound(r)
        BY <2>3 DEF ScanFile, TypeOK, HandsSound
      <3>2. HandSound(r)'
        BY <2>3, <3>1 DEF ScanFile, HandSound, Hands, TypeOK
      <3>3. \A k \in Requests : requests'[k] \in {requests[k], None} \/ HandSound(k)'
        BY <2>3, <3>2 DEF ScanFile, TypeOK
      <3> QED
        BY <1>0, <2>3, <3>3, QuietStep DEF ScanFile
    <2>4. CASE ScanRefused(r)
      <3>1. \A k \in Requests : requests'[k] \in {requests[k], None}
        BY <2>4 DEF ScanRefused, Refuse, TypeOK
      <3> QED
        BY <1>0, <2>4, <3>1, QuietStep DEF ScanRefused
    <2>5. ASSUME NEW p \in Previews, FinishPreview(r, p) PROVE IInv'
      BY <1>0, <2>5, FinishPreviewInv
    <2>6. CASE CheckPreview(r)
      <3>1. requests[r] \in Hands /\ HandSound(r)
        BY <2>6 DEF CheckPreview, TypeOK, HandsSound
      <3>2. \A k \in Requests : requests'[k] \in {requests[k], None} \/ HandSound(k)'
        BY <2>6, <3>1 DEF CheckPreview, Section, Refuse, HandSound, Hands, TypeOK
      <3>3. \A p \in Previews : previews'[p] \in {previews[p], None}
        BY <2>6 DEF CheckPreview, Section, TypeOK
      <3> QED
        BY <1>0, <2>6, <3>2, <3>3, QuietStep DEF CheckPreview
    <2>7. CASE RecheckPreview(r)
      <3>1. requests[r] \in Hands /\ HandSound(r)
        BY <2>7 DEF RecheckPreview, Scanned, TypeOK, HandsSound
      <3>2. \A k \in Requests : requests'[k] \in {requests[k], None} \/ HandSound(k)'
        BY <2>7, <3>1 DEF RecheckPreview, Scanned, Section, Refuse, HandSound, Hands, TypeOK
      <3>3. \A p \in Previews : previews'[p] \in {previews[p], None}
        BY <2>7 DEF RecheckPreview, Section, TypeOK
      <3> QED
        BY <1>0, <2>7, <3>2, <3>3, QuietStep DEF RecheckPreview
    <2>8. CASE ImportProject(r)
      <3>1. \A p \in Previews : previews'[p] \in {previews[p], None}
        BY <2>8 DEF ImportProject, TypeOK
      <3>2. CASE Cardinality(loaded) < MaxProjects /\ Bound(r) /\ ~Expired(r)
        <4>1. /\ imported' = Append(imported, Project(r, TRUE))
              /\ requests[r].preview \in Previews => previews'[requests[r].preview] = None
          BY <2>8, <3>2 DEF ImportProject, TypeOK
        <4>2. requests[r].preview \in Previews
          BY <2>8 DEF ImportProject, TypeOK, Hands, HandsSound, HandSound
        <4> QED
          BY <1>0, <2>8, <3>1, <3>2, <4>1, <4>2, NewProjectInv DEF ImportProject
      <3>3. CASE ~(Cardinality(loaded) < MaxProjects /\ Bound(r) /\ ~Expired(r))
        <4>1. UNCHANGED <<shown, imported>>
          BY <2>8, <3>3 DEF ImportProject
        <4>2. \A k \in Requests : requests'[k] \in {requests[k], None}
          BY <2>8 DEF ImportProject, Refuse, TypeOK
        <4> QED
          BY <1>0, <3>1, <4>1, <4>2, QuietStep
      <3> QED
        BY <3>2, <3>3
    <2>9. CASE ImportFails(r)
      <3>1. \A k \in Requests : requests'[k] \in {requests[k], None}
        BY <2>9 DEF ImportFails, Refuse, TypeOK
      <3>2. CASE imported' = imported
        BY <1>0, <2>9, <3>1, <3>2, QuietStep DEF ImportFails
      <3>3. CASE imported' = Append(imported, Project(r, FALSE))
        BY <1>0, <2>9, <3>3, NewProjectInv DEF ImportFails
      <3> QED
        BY <2>9, <3>2, <3>3 DEF ImportFails
    <2> QED
      BY <1>5, <2>1, <2>2, <2>3, <2>4, <2>5, <2>6, <2>7, <2>8, <2>9 DEF RequestSteps
  <1>6. CASE UNCHANGED vars
    BY <1>0, <1>6, QuietStep DEF vars
  <1> QED
    BY <1>1, <1>2, <1>3, <1>4, <1>5, <1>6 DEF Next

-----------------------------------------------------------------------------
(* Theorems.                                                                 *)

THEOREM Invariance == Spec => []IInv
  <1> QED
    BY InitInv, StepInv, PTL DEF Spec

\* However the requests of a preview interleave with each other, with failing
\* creations, expiries and restarts, it makes one answered project at most.
THEOREM OneProjectPerReview == Spec => []ConfirmedOnce
  <1>1. IInv => ConfirmedOnce
    BY DEF IInv
  <1> QED
    BY <1>1, Invariance, PTL

\* A project has the files its creator was shown and confirmed in time,
\* whatever was done to the directory meanwhile.
THEOREM ProjectsAreReviewed == Spec => []ImportedIsReviewed
  <1>1. IInv => ImportedIsReviewed
    BY DEF IInv
  <1> QED
    BY <1>1, Invariance, PTL

=============================================================================
