----------------------- MODULE DecisionProtocolProofs -----------------------
(***************************************************************************)
(* Theorems about DecisionProtocol, for every set of Proposals and tokens,  *)
(* every choice of fault sites and every bound on faults and crashes: first *)
(* the walk of each handler and what the locks give, then what is durable:  *)
(* SynapseGit's records are final, one review is open at a time, the        *)
(* Accepted revision and the decision Ref implement HumanDecision, the      *)
(* three stores agree, memory shows them, and what it takes to deny a       *)
(* committed Decision.                                                      *)
(***************************************************************************)
EXTENDS DecisionProtocol, TLAPS, SequenceTheorems, FiniteSetTheorems,
        WellFoundedInduction

-----------------------------------------------------------------------------
(* Sequences and maxima. *)

\* A nonempty finite set of integers has a largest element, and Max returns
\* it.  (Well-founded induction on its subsets stands in for induction on its
\* size.)
LEMMA MaxInSet ==
  ASSUME NEW S \in SUBSET Int, IsFiniteSet(S), S # {}
  PROVE  /\ Max(S) \in S
         /\ \A i \in S : i <= Max(S)
<1> DEFINE Above(i) == {j \in S : i < j}
           T == {Above(i) : i \in S}
           R == StrictSubsetOrdering(S)
<1>1. IsWellFoundedOn(R, FiniteSubsetsOf(S))
  BY FS_StrictSubsetOrderingWellFounded
<1>2. T \subseteq FiniteSubsetsOf(S) /\ T # {}
  <2>1. T \subseteq SUBSET S
    OBVIOUS
  <2>2. FiniteSubsetsOf(S) = SUBSET S
    BY FS_FiniteSubsetsOfFinite
  <2>3. T # {}
    OBVIOUS
  <2> QED BY <2>1, <2>2, <2>3
<1>3. PICK A \in T : \A B \in T : <<B, A>> \notin R
  <2> HIDE DEF T, R
  <2> QED BY <1>1, <1>2, WFMin
<1>4. PICK m \in S : A = Above(m)
  OBVIOUS
<1>5. ASSUME NEW j \in S, m < j PROVE FALSE
  <2>1. j \in Int /\ m \in Int
    OBVIOUS
  <2>2. \A x \in S : j < x => m < x
    <3> SUFFICES ASSUME NEW x \in S, j < x PROVE m < x
      OBVIOUS
    <3>1. x \in Int
      OBVIOUS
    <3> QED BY <1>5, <2>1, <3>1
  <2>3. j \in Above(m)
    BY <1>5
  <2>4. j \notin Above(j)
    BY <2>1
  <2>5. <<Above(j), Above(m)>> \in R
    <3>1. Above(j) \subseteq Above(m)
      BY <2>2
    <3>2. Above(j) \in SUBSET S /\ Above(m) \in SUBSET S
      OBVIOUS
    <3> QED BY <2>3, <2>4, <3>1, <3>2 DEF StrictSubsetOrdering
  <2> QED BY <2>5, <1>3, <1>4
<1>6. \A j \in S : m >= j
  BY <1>5
<1> QED BY <1>6 DEF Max

\* The smallest element is the largest of the negated set.
LEMMA MinInSet ==
  ASSUME NEW S \in SUBSET Int, IsFiniteSet(S), S # {}
  PROVE  /\ Min(S) \in S
         /\ \A i \in S : Min(S) <= i
<1> DEFINE T == {j \in Int : 0 - j \in S}
           f == [i \in S |-> 0 - i]
<1>1. T \in SUBSET Int /\ T # {}
  <2>1. PICK i \in S : TRUE
    OBVIOUS
  <2>2. i \in Int /\ 0 - (0 - i) = i
    OBVIOUS
  <2>3. 0 - i \in T
    BY <2>2
  <2> QED BY <2>3
<1>2. IsFiniteSet(T)
  <2>1. \A i \in S : 0 - i \in T /\ f[i] = 0 - i
    OBVIOUS
  <2>2. f \in [S -> T]
    BY <2>1
  <2>3. \A j \in T : \E i \in S : f[i] = j
    <3> SUFFICES ASSUME NEW j \in T PROVE \E i \in S : f[i] = j
      OBVIOUS
    <3>1. 0 - j \in S /\ j \in Int /\ 0 - (0 - j) = j
      OBVIOUS
    <3>2. f[0 - j] = j
      BY <3>1
    <3> QED BY <3>1, <3>2
  <2>4. f \in Surjection(S, T)
    <3> HIDE DEF T, f
    <3> QED BY <2>2, <2>3 DEF Surjection
  <2> HIDE DEF T, f
  <2> QED BY <2>4, FS_Surjection
<1>3. Max(T) \in T /\ \A i \in T : i <= Max(T)
  <2> HIDE DEF T
  <2> QED BY <1>1, <1>2, MaxInSet
<1>4. PICK m \in S : m \in Int /\ Max(T) = 0 - m
  <2>1. 0 - Max(T) \in S /\ Max(T) \in Int
    BY <1>3
  <2> QED BY <2>1
<1>5. \A i \in S : m <= i
  <2> SUFFICES ASSUME NEW i \in S PROVE m <= i
    OBVIOUS
  <2>1. i \in Int /\ 0 - i \in T
    OBVIOUS
  <2>2. 0 - i <= 0 - m
    BY <1>3, <1>4, <2>1
  <2> QED BY <1>4, <2>1, <2>2
<1> QED BY <1>5 DEF Min

LEMMA RemoveAtType ==
  ASSUME NEW S, NEW s \in Seq(S), NEW k \in DOMAIN s
  PROVE  RemoveAt(s, k) \in Seq(S)
<1>1. k \in 1..Len(s) /\ DOMAIN s = 1..Len(s)
  BY LenProperties
<1>2. \A i \in 1..k-1 : s[i] \in S
  BY <1>1, ElementOfSeq
<1>3. \A i \in k+1..Len(s) : s[i] \in S
  BY <1>1, ElementOfSeq
<1>4. SubSeq(s, 1, k-1) \in Seq(S)
  BY <1>1, <1>2, SubSeqProperties
<1>5. SubSeq(s, k+1, Len(s)) \in Seq(S)
  BY <1>1, <1>3, SubSeqProperties
<1> QED BY <1>4, <1>5, ConcatProperties DEF RemoveAt

LEMMA InsertAtType ==
  ASSUME NEW S, NEW s \in Seq(S), NEW k \in 1..Len(s) + 1, NEW e \in S
  PROVE  InsertAt(s, k, e) \in Seq(S)
<1>1. \A i \in 1..k-1 : s[i] \in S
  BY ElementOfSeq, LenProperties
<1>2. \A i \in k..Len(s) : s[i] \in S
  BY ElementOfSeq, LenProperties
<1>3. SubSeq(s, 1, k-1) \in Seq(S)
  BY <1>1, SubSeqProperties, LenProperties
<1>4. SubSeq(s, k, Len(s)) \in Seq(S)
  BY <1>2, SubSeqProperties, LenProperties
<1>5. <<e>> \in Seq(S)
  OBVIOUS
<1>6. SubSeq(s, 1, k-1) \o <<e>> \in Seq(S)
  BY <1>3, <1>5, ConcatProperties
<1> QED BY <1>4, <1>6, ConcatProperties DEF InsertAt

LEMMA RecordedType ==
  ASSUME order \in Seq(Proposals), NEW p \in Proposals, NEW s \in Recorded(p)
  PROVE  s \in Seq(Proposals)
<1>1. CASE ClockMayStepBack
  BY <1>1, InsertAtType DEF Recorded
<1>2. CASE ~ClockMayStepBack
  BY <1>2, AppendProperties DEF Recorded
<1> QED BY <1>1, <1>2

-----------------------------------------------------------------------------
(* The inductive invariant. *)

\* What the program counter says of the handler or the startup in flight.
Control ==
  /\ pc = "idle" <=> op.kind = "none"
  /\ pc = "prepare" => op.kind = "create" /\ revision \in Revisions
  /\ pc = "intent" => op.kind = "decide"
  /\ pc \in {"lineage", "recommit", "completions"} => op.kind = "startup"
  /\ pc \notin {"idle", "lineage", "recommit", "completions"} =>
       op.proposal \in Proposals
  /\ pc \in {"call", "requery"} => intent[op.proposal] \in Dispositions
  /\ op.kind = "decide" => op.disposition \in Dispositions
  /\ op.kind = "startup" => index \in 1..Len(order)
  /\ phase \in {"down", "refused"} => pc = "idle"

\* Every verdict that is on the Ref, registered, or about to be registered was
\* authorised: the claim CommittedWasApproved makes of the Ref alone.
Authorised ==
  /\ CommittedWasApproved
  /\ \A p \in Proposals : intent[p] # None => Verdict(p, intent[p]) \in consumed
  /\ pc = "intent" => Verdict(op.proposal, op.disposition) \in consumed

\* A review that a handler works on or memory shows has its journal row.
Working == {"bind", "intent", "query", "call", "requery"}
Journalled ==
  /\ pc \in Working => row[op.proposal] # None
  /\ active # None => row[active] # None

IInv == TypeOK /\ Control /\ Journalled /\ Authorised

-----------------------------------------------------------------------------
(* What the steps leave alone. *)

LEMMA DiskUnchanged == DiskOK /\ UNCHANGED disk => DiskOK'
BY DEF DiskOK, disk

LEMMA StoreUnchanged == StoreOK /\ UNCHANGED store => StoreOK'
BY DEF StoreOK, store

LEMMA SidecarUnchanged == SidecarOK /\ UNCHANGED sidecar => SidecarOK'
BY DEF SidecarOK, sidecar

LEMMA MemoryUnchanged == MemoryOK /\ UNCHANGED memory => MemoryOK'
BY DEF MemoryOK, memory

\* A step that injects at most one error stays within the bound.
LEMMA BoundsKept ==
  ASSUME BoundsOK, Sound \/ (\E s \in FaultSites : Fault(s)), UNCHANGED ghosts
  PROVE  BoundsOK'
BY ConstantsAssumption DEF BoundsOK, Sound, Fault, ghosts

LEMMA AuthorisedKept ==
  ASSUME Authorised, UNCHANGED <<chain, intent>>, UNCHANGED ghosts, pc' # "intent"
  PROVE  Authorised'
BY DEF Authorised, CommittedWasApproved, ghosts

-----------------------------------------------------------------------------
(* How a handler or startup ends: whatever it was doing, memory and control  *)
(* are well formed afterwards.                                               *)

Rested ==
  /\ MemoryOK' /\ ControlOK' /\ Control'
  /\ pc' \notin Working
  /\ active' \in {None, active}

\* The same, but the Proposal the handler worked on may be open for review.
Settled ==
  /\ MemoryOK' /\ ControlOK' /\ Control'
  /\ pc' \notin Working
  /\ active' \in {None, active, op.proposal}

LEMMA HaltRests ==
  ASSUME NEW p \in {"down", "refused"}, Halt(p)
  PROVE  Rested
<1>1. NoOp \in [kind : Kinds, proposal : Proposals \cup {None},
                disposition : Dispositions \cup {None},
                error : {"none", "storage", "refused"}]
  BY DEF NoOp, Handler, Kinds
<1>2. NoGrants \in [Tokens -> Bindings \cup {None}]
  BY DEF NoGrants
<1>3. <<>> \in Seq(Proposals)
  OBVIOUS
<1>4. MemoryOK'
  BY <1>2, <1>3 DEF Halt, MemoryOK, Outcomes
<1>5. ControlOK'
  BY <1>1 DEF Halt, ControlOK, Labels
<1>6. Control' /\ pc' \notin Working /\ active' = None
  BY DEF Halt, Control, Working, NoOp, Handler
<1> QED BY <1>4, <1>5, <1>6 DEF Rested

LEMMA AnswerRests ==
  ASSUME MemoryOK, ControlOK, Control, pc # "idle", NEW o \in Outcomes, Answer(o)
  PROVE  Rested
<1>1. NoOp \in [kind : Kinds, proposal : Proposals \cup {None},
                disposition : Dispositions \cup {None},
                error : {"none", "storage", "refused"}]
  BY DEF NoOp, Handler, Kinds
<1>2. MemoryOK'
  BY DEF Answer, MemoryOK
<1>3. ControlOK'
  BY <1>1 DEF Answer, ControlOK, Labels
<1>4. Control' /\ pc' \notin Working /\ active' = active
  BY DEF Answer, Control, Working, NoOp, Handler
<1> QED BY <1>2, <1>3, <1>4 DEF Rested

LEMMA AbortRests ==
  ASSUME MemoryOK, ControlOK, Control, pc # "idle", Abort
  PROVE  Rested
<1>1. CASE op.kind = "startup"
  BY <1>1, HaltRests DEF Abort
<1>2. CASE op.kind # "startup"
  <2>1. (IF op.kind = "decide" THEN "unknown" ELSE outcome) \in Outcomes
    BY DEF MemoryOK, Outcomes
  <2> QED BY <1>2, <2>1, AnswerRests DEF Abort
<1> QED BY <1>1, <1>2

LEMMA RejectRests ==
  ASSUME MemoryOK, ControlOK, Control, pc # "idle", Reject
  PROVE  Rested
BY AbortRests, HaltRests DEF Reject

LEMMA OpenSettles ==
  ASSUME MemoryOK, ControlOK, Control, pc \notin {"idle", "lineage", "recommit",
         "completions"}, NEW o \in Outcomes, Open(o), UNCHANGED order
  PROVE  Settled
<1> DEFINE refused == \/ decisionFile[op.proposal] # None
                      \/ index # Len(order)
                      \/ base[op.proposal] # revision
<1>1. CASE op.kind = "startup" /\ refused
  BY <1>1, HaltRests DEF Open, Settle, Rested, Settled
<1>2. CASE op.kind # "startup"
  BY <1>2, AnswerRests DEF Open, Settle, Rested, Settled
<1>3. CASE op.kind = "startup" /\ ~refused
  <2>1. op.proposal \in Proposals
    BY DEF Control
  <2>2. MemoryOK'
    BY <1>3, <2>1 DEF Open, Settle, MemoryOK
  <2>3. ControlOK'
    BY <1>3 DEF Open, Settle, ControlOK, Labels
  <2>4. Control' /\ pc' \notin Working /\ active' = op.proposal
    BY <1>3 DEF Open, Settle, Control, Working
  <2> QED BY <2>2, <2>3, <2>4 DEF Settled
<1> QED BY <1>1, <1>2, <1>3

\* A journal row never goes away, so a review keeps it while memory shows it.
LEMMA JournalledKept ==
  ASSUME IInv,
         \A p \in Proposals : row[p] # None => row'[p] # None,
         active' \in {None, active} \/ (active' = op.proposal /\ row'[op.proposal] # None),
         pc' \in Working => row'[op'.proposal] # None
  PROVE  Journalled'
BY DEF IInv, TypeOK, MemoryOK, Journalled

\* A step to the next label keeps the rest; what Control asks of that label is
\* left to the step.
LEMMA GotoType ==
  ASSUME MemoryOK, ControlOK, NEW l \in Labels, Goto(l)
  PROVE  /\ MemoryOK' /\ ControlOK'
         /\ pc' = l /\ UNCHANGED <<op, phase, index, revision, active>>
<1>1. MemoryOK'
  BY MemoryUnchanged DEF Goto
<1>2. ControlOK'
  BY DEF Goto, ControlOK
<1> QED BY <1>1, <1>2 DEF Goto, memory

-----------------------------------------------------------------------------
(* The requests. *)

LEMMA NextSteady ==
  ASSUME IInv, UNCHANGED <<disk, store, sidecar>>, UNCHANGED faults
  PROVE  DiskOK' /\ StoreOK' /\ SidecarOK' /\ UNCHANGED <<order, intent, chain, row>>
BY DiskUnchanged, StoreUnchanged, SidecarUnchanged DEF IInv, TypeOK, disk, sidecar

LEMMA CreateProposalInv ==
  ASSUME IInv, NEW p \in Proposals, CreateProposal(p)
  PROVE  IInv'
<1>1. DiskOK' /\ StoreOK' /\ SidecarOK' /\ UNCHANGED <<order, intent, chain, row>>
  BY NextSteady DEF CreateProposal, Enter
<1>2. MemoryOK'
  BY MemoryUnchanged DEF CreateProposal, IInv, TypeOK
<1>3. ControlOK'
  BY DEF CreateProposal, Enter, NoOp, Handler, Serving, ControlOK, IInv, TypeOK, Kinds, Labels
<1>4. BoundsOK'
  BY BoundsKept DEF CreateProposal, Enter, Sound, IInv, TypeOK, ghosts
<1>5. Control'
  BY DEF CreateProposal, Enter, NoOp, Handler, Serving, Verified, Control, IInv, TypeOK,
         StoreOK, memory
<1>6. Authorised'
  BY <1>1, AuthorisedKept DEF CreateProposal, Enter, IInv, ghosts
<1>7. Journalled'
  BY <1>1, JournalledKept DEF CreateProposal, Enter, Working, memory
<1> QED BY <1>1, <1>2, <1>3, <1>4, <1>5, <1>6, <1>7 DEF IInv, TypeOK

LEMMA CreateApprovalInv ==
  ASSUME IInv, NEW t \in Tokens, NEW d \in Dispositions, CreateApproval(t, d)
  PROVE  IInv'
<1>1. DiskOK' /\ StoreOK' /\ SidecarOK' /\ UNCHANGED <<order, intent, chain, row>>
  BY NextSteady DEF CreateApproval
<1>2. MemoryOK'
  <2>1. [proposal |-> active, disposition |-> d, revision |-> revision] \in Bindings
    BY DEF CreateApproval, Verified, IInv, TypeOK, StoreOK, MemoryOK, Bindings
  <2> QED BY <2>1 DEF CreateApproval, IInv, TypeOK, MemoryOK
<1>3. ControlOK' /\ Control'
  BY <1>1 DEF CreateApproval, ControlOK, Control, Serving, control, IInv, TypeOK
<1>4. BoundsOK'
  BY BoundsKept DEF CreateApproval, Sound, IInv, TypeOK
<1>5. Authorised'
  BY <1>1, AuthorisedKept DEF CreateApproval, Serving, control, IInv
<1>6. Journalled'
  BY <1>1, JournalledKept DEF CreateApproval, Serving, Working, control
<1> QED BY <1>1, <1>2, <1>3, <1>4, <1>5, <1>6 DEF IInv, TypeOK

LEMMA ExpireApprovalInv ==
  ASSUME IInv, NEW t \in Tokens, ExpireApproval(t)
  PROVE  IInv'
<1>1. DiskOK' /\ StoreOK' /\ SidecarOK' /\ UNCHANGED <<order, intent, chain, row>>
  BY NextSteady DEF ExpireApproval
<1>2. MemoryOK'
  BY DEF ExpireApproval, IInv, TypeOK, MemoryOK
<1>3. ControlOK' /\ Control'
  BY <1>1 DEF ExpireApproval, ControlOK, Control, Serving, control, IInv, TypeOK
<1>4. BoundsOK'
  BY BoundsKept DEF ExpireApproval, Sound, IInv, TypeOK
<1>5. Authorised'
  BY <1>1, AuthorisedKept DEF ExpireApproval, Serving, control, IInv
<1>6. Journalled'
  BY <1>1, JournalledKept DEF ExpireApproval, Serving, Working, control
<1> QED BY <1>1, <1>2, <1>3, <1>4, <1>5, <1>6 DEF IInv, TypeOK

LEMMA CreateDecisionInv ==
  ASSUME IInv, NEW t \in Tokens, CreateDecision(t)
  PROVE  IInv'
<1>1. DiskOK' /\ StoreOK' /\ SidecarOK' /\ UNCHANGED <<order, intent, chain, row>>
  BY NextSteady DEF CreateDecision, Enter
<1>2. grants[t] \in Bindings /\ active \in Proposals
  BY DEF CreateDecision, IInv, TypeOK, MemoryOK
<1>3. MemoryOK'
  BY DEF CreateDecision, IInv, TypeOK, MemoryOK
<1>4. ControlOK' /\ Control'
  BY <1>1, <1>2 DEF CreateDecision, Enter, Handler, Serving, ControlOK, Control, IInv, TypeOK,
                    Kinds, Labels, Bindings
<1>5. BoundsOK'
  BY <1>2 DEF CreateDecision, Enter, BoundsOK, IInv, TypeOK, Verdict, Verdicts, Bindings
<1>6. Authorised'
  BY <1>1 DEF CreateDecision, Enter, Handler, Authorised, CommittedWasApproved, IInv
<1>7. Journalled'
  BY <1>1, JournalledKept DEF CreateDecision, Enter, Handler, IInv, Journalled
<1> QED BY <1>1, <1>3, <1>4, <1>5, <1>6, <1>7 DEF IInv, TypeOK

LEMMA ReconcileReviewInv ==
  ASSUME IInv, ReconcileReview
  PROVE  IInv'
<1>1. DiskOK' /\ StoreOK' /\ SidecarOK' /\ UNCHANGED <<order, intent, chain, row>>
  BY NextSteady DEF ReconcileReview, Enter
<1>2. MemoryOK'
  BY MemoryUnchanged DEF ReconcileReview, IInv, TypeOK
<1>3. ControlOK' /\ Control'
  BY <1>1 DEF ReconcileReview, Enter, NoOp, Handler, Serving, ControlOK, Control, IInv, TypeOK,
              MemoryOK, Kinds, Labels
<1>4. BoundsOK'
  BY BoundsKept DEF ReconcileReview, Enter, Sound, IInv, TypeOK, ghosts
<1>5. Authorised'
  BY <1>1, AuthorisedKept DEF ReconcileReview, Enter, IInv, ghosts
<1>6. Journalled'
  BY <1>1, JournalledKept DEF ReconcileReview, Enter, Handler, IInv, Journalled, memory
<1> QED BY <1>1, <1>2, <1>3, <1>4, <1>5, <1>6 DEF IInv, TypeOK

LEMMA CleanupFailedProposalInv ==
  ASSUME IInv, CleanupFailedProposal
  PROVE  IInv'
<1>1. DiskOK'
  <2>1. PICK k \in DOMAIN order : order' = RemoveAt(order, k)
    BY DEF CleanupFailedProposal
  <2>2. order' \in Seq(Proposals)
    BY <2>1, RemoveAtType DEF IInv, TypeOK, DiskOK
  <2> QED BY <2>2 DEF CleanupFailedProposal, IInv, TypeOK, DiskOK
<1>2. StoreOK' /\ SidecarOK' /\ UNCHANGED <<chain, intent>>
  BY StoreUnchanged, SidecarUnchanged DEF CleanupFailedProposal, IInv, TypeOK, sidecar
<1>3. MemoryOK'
  BY DEF CleanupFailedProposal, IInv, TypeOK, MemoryOK, Outcomes
<1>4. ControlOK' /\ Control'
  BY DEF CleanupFailedProposal, Serving, ControlOK, Control, control, IInv, TypeOK
<1>5. BoundsOK'
  BY BoundsKept DEF CleanupFailedProposal, IInv, TypeOK, Fault, Sound, BoundsOK,
                    ConstantsAssumption
<1>6. Authorised'
  BY <1>2, AuthorisedKept DEF CleanupFailedProposal, Serving, control, IInv
<1>7. Journalled'
  BY JournalledKept DEF CleanupFailedProposal, Serving, Working, control, sidecar
<1> QED BY <1>1, <1>2, <1>3, <1>4, <1>5, <1>6, <1>7 DEF IInv, TypeOK

-----------------------------------------------------------------------------
(* The durable steps of create_proposal. *)

LEMMA PrepareProposalInv ==
  ASSUME IInv, PrepareProposal
  PROVE  IInv'
<1>1. op.proposal \in Proposals /\ revision \in Revisions /\ op.kind = "create"
  BY DEF PrepareProposal, IInv, Control
<1>2. order' \in Seq(Proposals)
  BY <1>1, RecordedType DEF PrepareProposal, IInv, TypeOK, DiskOK
<1>3. DiskOK'
  BY <1>1, <1>2 DEF PrepareProposal, IInv, TypeOK, DiskOK
<1>4. StoreOK' /\ SidecarOK' /\ UNCHANGED <<chain, intent, row>>
  BY StoreUnchanged, SidecarUnchanged DEF PrepareProposal, IInv, TypeOK, sidecar
<1>5. BoundsOK'
  BY BoundsKept DEF PrepareProposal, IInv, TypeOK, Fault, Sound, BoundsOK
<1>6. MemoryOK' /\ ControlOK' /\ Control' /\ Journalled' /\ pc' # "intent"
  <2>1. CASE Goto("publish")
    <3>1. MemoryOK' /\ ControlOK' /\ pc' = "publish" /\ UNCHANGED <<op, phase, index, active>>
      BY <2>1, GotoType DEF IInv, TypeOK, Labels
    <3>2. Control'
      BY <1>1, <3>1 DEF Control, IInv, PrepareProposal
    <3>3. Journalled'
      BY <1>4, <3>1, JournalledKept DEF Working
    <3> QED BY <3>1, <3>2, <3>3
  <2>2. CASE Abort
    <3>1. Rested
      BY <2>2, AbortRests DEF PrepareProposal, IInv, TypeOK
    <3>2. Journalled'
      BY <1>4, <3>1, JournalledKept DEF Rested
    <3> QED BY <3>1, <3>2 DEF Rested, Working
  <2> QED BY <2>1, <2>2 DEF PrepareProposal
<1>7. Authorised'
  BY <1>4, <1>6, AuthorisedKept DEF PrepareProposal, IInv
<1> QED BY <1>3, <1>4, <1>5, <1>6, <1>7 DEF IInv, TypeOK

LEMMA PublishProposalInv ==
  ASSUME IInv, PublishProposal
  PROVE  IInv'
<1>1. op.proposal \in Proposals /\ Len(chain) \in Nat
  BY LenProperties DEF PublishProposal, IInv, Control, TypeOK, SidecarOK
<1>2. SidecarOK'
  BY <1>1 DEF PublishProposal, IInv, TypeOK, SidecarOK
<1>3. DiskOK' /\ StoreOK' /\ UNCHANGED <<order, chain, intent, row>>
  BY DiskUnchanged, StoreUnchanged DEF PublishProposal, IInv, TypeOK, disk
<1>4. BoundsOK'
  BY BoundsKept DEF PublishProposal, IInv, TypeOK, Fault, Sound, BoundsOK
<1>5. MemoryOK' /\ ControlOK' /\ Control' /\ Journalled' /\ pc' # "intent"
  <2>1. CASE Goto("register")
    <3>1. MemoryOK' /\ ControlOK' /\ pc' = "register" /\ UNCHANGED <<op, phase, index, active>>
      BY <2>1, GotoType DEF IInv, TypeOK, Labels
    <3>2. Control'
      BY <1>1, <1>3, <3>1 DEF Control, IInv, PublishProposal
    <3>3. Journalled'
      BY <1>3, <3>1, JournalledKept DEF Working
    <3> QED BY <3>1, <3>2, <3>3
  <2>2. CASE Abort \/ Reject
    <3>1. Rested
      BY <2>2, AbortRests, RejectRests DEF PublishProposal, IInv, TypeOK
    <3>2. Journalled'
      BY <1>3, <3>1, JournalledKept DEF Rested
    <3> QED BY <3>1, <3>2 DEF Rested, Working
  <2> QED BY <2>1, <2>2 DEF PublishProposal
<1>6. Authorised'
  BY <1>3, <1>5, AuthorisedKept DEF PublishProposal, IInv
<1> QED BY <1>2, <1>3, <1>4, <1>5, <1>6 DEF IInv, TypeOK

LEMMA RegisterReviewInv ==
  ASSUME IInv, RegisterReview
  PROVE  IInv'
<1>1. op.proposal \in Proposals
  BY DEF RegisterReview, IInv, Control
<1>2. SidecarOK'
  BY <1>1 DEF RegisterReview, IInv, TypeOK, SidecarOK, Outcomes
<1>3. \A p \in Proposals : row[p] # None => row'[p] # None
  BY <1>1, NoneAssumption DEF RegisterReview, IInv, TypeOK, SidecarOK, Outcomes
<1>4. DiskOK' /\ StoreOK' /\ UNCHANGED <<order, chain, intent>>
  BY DiskUnchanged, StoreUnchanged DEF RegisterReview, IInv, TypeOK, disk
<1>5. BoundsOK'
  BY BoundsKept DEF RegisterReview, IInv, TypeOK, Fault, Sound, BoundsOK
<1>6. MemoryOK' /\ ControlOK' /\ Control' /\ Journalled' /\ pc' # "intent"
  <2>1. CASE Goto("bind") /\ row'[op.proposal] # None
    <3>1. MemoryOK' /\ ControlOK' /\ pc' = "bind" /\ UNCHANGED <<op, phase, index, active>>
      BY <2>1, GotoType DEF IInv, TypeOK, Labels
    <3>2. Control'
      BY <1>1, <1>4, <3>1 DEF Control, IInv, RegisterReview
    <3>3. Journalled'
      BY <1>3, <2>1, <3>1, JournalledKept
    <3> QED BY <3>1, <3>2, <3>3
  <2>2. CASE Abort
    <3>1. Rested
      BY <2>2, AbortRests DEF RegisterReview, IInv, TypeOK
    <3>2. Journalled'
      BY <1>3, <3>1, JournalledKept DEF Rested
    <3> QED BY <3>1, <3>2 DEF Rested, Working
  <2> QED BY <1>1, <2>1, <2>2, NoneAssumption
         DEF RegisterReview, IInv, TypeOK, SidecarOK, Outcomes
<1>7. Authorised'
  BY <1>4, <1>6, AuthorisedKept DEF RegisterReview, IInv
<1> QED BY <1>2, <1>4, <1>5, <1>6, <1>7 DEF IInv, TypeOK

LEMMA BindProposalInv ==
  ASSUME IInv, BindProposal
  PROVE  IInv'
<1>1. op.proposal \in Proposals /\ row[op.proposal] # None
  BY DEF BindProposal, IInv, Control, Journalled, Working
<1>2. DiskOK'
  BY <1>1 DEF BindProposal, IInv, TypeOK, DiskOK
<1>3. StoreOK' /\ SidecarOK' /\ UNCHANGED <<order, chain, intent, row>>
  BY StoreUnchanged, SidecarUnchanged DEF BindProposal, IInv, TypeOK, sidecar
<1>4. BoundsOK'
  BY BoundsKept DEF BindProposal, IInv, TypeOK, Fault, Sound, BoundsOK
<1>5. MemoryOK' /\ ControlOK' /\ Control' /\ Journalled' /\ pc' # "intent"
  <2>1. CASE Goto("query")
    <3>1. MemoryOK' /\ ControlOK' /\ pc' = "query" /\ UNCHANGED <<op, phase, index, active>>
      BY <2>1, GotoType DEF IInv, TypeOK, Labels
    <3>2. Control'
      BY <1>1, <1>3, <3>1 DEF Control, IInv, BindProposal
    <3>3. Journalled'
      BY <1>1, <1>3, <3>1, JournalledKept
    <3> QED BY <3>1, <3>2, <3>3
  <2>2. CASE Abort
    <3>1. Rested
      BY <2>2, AbortRests DEF BindProposal, IInv, TypeOK
    <3>2. Journalled'
      BY <1>3, <3>1, JournalledKept DEF Rested
    <3> QED BY <3>1, <3>2 DEF Rested, Working
  <2>3. CASE /\ pc' = "idle"
             /\ op' = NoOp
             /\ active' = op.proposal
             /\ outcome' = "pending"
             /\ UNCHANGED <<phase, index, revision, history, grants>>
    <3>1. MemoryOK'
      BY <1>1, <2>3 DEF IInv, TypeOK, MemoryOK, Outcomes
    <3>2. ControlOK' /\ Control'
      BY <2>3 DEF IInv, TypeOK, ControlOK, Control, NoOp, Handler, Kinds, Labels
    <3>3. Journalled'
      BY <1>1, <1>3, <2>3, JournalledKept DEF Working
    <3> QED BY <2>3, <3>1, <3>2, <3>3
  <2> QED BY <2>1, <2>2, <2>3 DEF BindProposal
<1>6. Authorised'
  BY <1>3, <1>5, AuthorisedKept DEF BindProposal, IInv
<1> QED BY <1>2, <1>3, <1>4, <1>5, <1>6 DEF IInv, TypeOK

-----------------------------------------------------------------------------
(* SynapseSidecar::decide and ::resume. *)

LEMMA RegisterIntentInv ==
  ASSUME IInv, RegisterIntent
  PROVE  IInv'
<1>1. /\ op.proposal \in Proposals
      /\ op.disposition \in Dispositions
      /\ row[op.proposal] # None
      /\ Verdict(op.proposal, op.disposition) \in consumed
  BY DEF RegisterIntent, IInv, Control, Journalled, Working, Authorised
<1>2. SidecarOK'
  BY <1>1 DEF RegisterIntent, IInv, TypeOK, SidecarOK
<1>3. DiskOK' /\ StoreOK' /\ UNCHANGED <<order, chain, row, consumed>>
  BY DiskUnchanged, StoreUnchanged DEF RegisterIntent, IInv, TypeOK, disk, ghosts
<1>4. BoundsOK'
  BY BoundsKept DEF RegisterIntent, IInv, TypeOK, Fault, Sound, BoundsOK
<1>5. MemoryOK' /\ ControlOK' /\ Control' /\ Journalled' /\ pc' # "intent"
  <2>1. CASE Goto("query")
    <3>1. MemoryOK' /\ ControlOK' /\ pc' = "query" /\ UNCHANGED <<op, phase, index, active>>
      BY <2>1, GotoType DEF IInv, TypeOK, Labels
    <3>2. Control'
      BY <1>1, <1>3, <3>1 DEF Control, IInv, RegisterIntent
    <3>3. Journalled'
      BY <1>1, <1>3, <3>1, JournalledKept
    <3> QED BY <3>1, <3>2, <3>3
  <2>2. CASE Abort
    <3>1. Rested
      BY <2>2, AbortRests DEF RegisterIntent, IInv, TypeOK
    <3>2. Journalled'
      BY <1>3, <3>1, JournalledKept DEF Rested
    <3> QED BY <3>1, <3>2 DEF Rested, Working
  <2> QED BY <2>1, <2>2 DEF RegisterIntent
<1>6. Authorised'
  <2>1. intent' \in {intent, [intent EXCEPT ![op.proposal] = op.disposition]}
    BY DEF RegisterIntent
  <2>2. \A p \in Proposals : intent'[p] # None => Verdict(p, intent'[p]) \in consumed
    BY <1>1, <2>1 DEF IInv, TypeOK, SidecarOK, Authorised
  <2> QED BY <1>3, <1>5, <2>2 DEF IInv, Authorised, CommittedWasApproved
<1> QED BY <1>2, <1>3, <1>4, <1>5, <1>6 DEF IInv, TypeOK

\* A review that has a row is observed in one of the states a row may have.
LEMMA ObservedType ==
  ASSUME SidecarOK, NEW p \in Proposals, row[p] # None
  PROVE  Observed(p) \in Outcomes \cup {"committed"}
BY DEF SidecarOK, Observed, Outcomes

LEMMA QueryReviewInv ==
  ASSUME IInv, QueryReview
  PROVE  IInv'
<1> DEFINE p == op.proposal
<1>1. p \in Proposals /\ row[p] # None
  BY DEF QueryReview, IInv, Control, Journalled, Working
<1>2. Observed(p) \in Outcomes \cup {"committed"}
  BY <1>1, ObservedType DEF IInv, TypeOK
<1>3. SidecarOK' /\ \A q \in Proposals : row[q] # None => row'[q] # None
  <2>1. \E r \in Outcomes \cup {"committed"} : row' \in {row, [row EXCEPT ![p] = r]}
    BY <1>2 DEF QueryReview, Outcomes
  <2> QED BY <1>1, <2>1, NoneAssumption DEF QueryReview, IInv, TypeOK, SidecarOK
<1>4. DiskOK' /\ StoreOK' /\ UNCHANGED <<order, chain, intent>>
  BY DiskUnchanged, StoreUnchanged DEF QueryReview, IInv, TypeOK, disk
<1>5. BoundsOK'
  BY BoundsKept DEF QueryReview, IInv, TypeOK, Fault, Sound, BoundsOK
<1>6. MemoryOK' /\ ControlOK' /\ Control' /\ Journalled' /\ pc' # "intent"
  <2>1. CASE Goto("receipt")
    <3>1. MemoryOK' /\ ControlOK' /\ pc' = "receipt" /\ UNCHANGED <<op, phase, index, active>>
      BY <2>1, GotoType DEF IInv, TypeOK, Labels
    <3>2. Control'
      BY <1>1, <1>4, <3>1 DEF Control, IInv, QueryReview
    <3>3. Journalled'
      BY <1>3, <3>1, JournalledKept DEF Working
    <3> QED BY <3>1, <3>2, <3>3
  <2>2. CASE Goto("call") /\ intent[p] # None
    <3>1. MemoryOK' /\ ControlOK' /\ pc' = "call" /\ UNCHANGED <<op, phase, index, active>>
      BY <2>2, GotoType DEF IInv, TypeOK, Labels
    <3>2. intent[p] \in Dispositions
      BY <1>1, <2>2 DEF IInv, TypeOK, SidecarOK
    <3>3. Control'
      BY <1>1, <1>4, <3>1, <3>2 DEF Control, IInv, QueryReview
    <3>4. Journalled'
      BY <1>1, <1>3, <3>1, JournalledKept
    <3> QED BY <3>1, <3>3, <3>4
  <2>3. CASE Abort \/ Reject
    <3>1. Rested
      BY <2>3, AbortRests, RejectRests DEF QueryReview, IInv, TypeOK
    <3>2. Journalled'
      BY <1>3, <3>1, JournalledKept DEF Rested
    <3> QED BY <3>1, <3>2 DEF Rested, Working
  <2>4. ASSUME NEW o \in Outcomes, Open(o)
        PROVE  MemoryOK' /\ ControlOK' /\ Control' /\ Journalled' /\ pc' # "intent"
    <3>1. Settled
      BY <1>4, <2>4, OpenSettles DEF QueryReview, IInv, TypeOK
    <3>2. Journalled'
      BY <1>1, <1>3, <3>1, JournalledKept DEF Settled
    <3> QED BY <3>1, <3>2 DEF Settled, Working
  <2>5. \/ Goto("receipt") \/ (Goto("call") /\ intent[p] # None)
        \/ Abort \/ Reject \/ \E o \in Outcomes : Open(o)
    BY <1>2 DEF QueryReview, Outcomes
  <2> QED BY <2>1, <2>2, <2>3, <2>4, <2>5
<1>7. Authorised'
  BY <1>4, <1>6, AuthorisedKept DEF QueryReview, IInv
<1> QED BY <1>3, <1>4, <1>5, <1>6, <1>7 DEF IInv, TypeOK

LEMMA CallSynapseInv ==
  ASSUME IInv, CallSynapse
  PROVE  IInv'
<1> DEFINE p == op.proposal
           v == Verdict(p, intent[p])
<1>1. p \in Proposals /\ row[p] # None /\ intent[p] \in Dispositions /\ intent[p] # None
  BY NoneAssumption DEF CallSynapse, IInv, Control, Journalled, Working
<1>2. v \in Verdicts /\ v \in consumed
  BY <1>1 DEF IInv, Authorised, Verdict, Verdicts
<1>3. chain' \in {chain, Append(chain, v)}
  BY DEF CallSynapse
<1>4. SidecarOK'
  BY <1>2, <1>3 DEF CallSynapse, IInv, TypeOK, SidecarOK
<1>5. DiskOK' /\ StoreOK' /\ UNCHANGED <<order, intent, row, consumed>>
  BY DiskUnchanged, StoreUnchanged DEF CallSynapse, IInv, TypeOK, disk, ghosts
<1>6. BoundsOK'
  BY BoundsKept DEF CallSynapse, IInv, TypeOK, Fault, Sound, BoundsOK
<1>7. PICK e \in {"none", "storage", "refused"} : Called(e)
  BY DEF CallSynapse
<1>8. MemoryOK'
  BY <1>7, MemoryUnchanged DEF Called, IInv, TypeOK
<1>9. ControlOK' /\ op' = [op EXCEPT !.error = e]
  BY <1>7 DEF Called, IInv, TypeOK, ControlOK, Labels
<1>10. /\ op'.proposal = p /\ op'.kind = op.kind /\ op'.disposition = op.disposition
  BY <1>9 DEF IInv, TypeOK, ControlOK
<1>11. Control'
  BY <1>1, <1>5, <1>7, <1>10 DEF Called, Control, CallSynapse, IInv
<1>12. Journalled'
  BY <1>1, <1>5, <1>7, <1>10, JournalledKept DEF Called, memory
<1>13. Authorised'
  <2>1. \A i \in DOMAIN chain' : chain'[i] \in consumed
    <3>1. chain \in Seq(Verdicts) /\ \A i \in DOMAIN chain : chain[i] \in consumed
      BY DEF IInv, TypeOK, SidecarOK, Authorised, CommittedWasApproved
    <3> QED BY <1>2, <1>3, <3>1
  <2> QED BY <1>5, <1>7, <2>1 DEF Called, IInv, Authorised, CommittedWasApproved
<1> QED BY <1>4, <1>5, <1>6, <1>8, <1>9, <1>11, <1>12, <1>13 DEF IInv, TypeOK

LEMMA RequeryReviewInv ==
  ASSUME IInv, RequeryReview
  PROVE  IInv'
<1> DEFINE p == op.proposal
<1>1. p \in Proposals /\ row[p] # None
  BY DEF RequeryReview, IInv, Control, Journalled, Working
<1>2. Observed(p) \in Outcomes \cup {"committed"}
  BY <1>1, ObservedType DEF IInv, TypeOK
<1>3. /\ Resolve(Observed(p)) \in Outcomes \cup {"committed"}
      /\ Resolve("unknown") \in Outcomes
  BY <1>2 DEF Resolve, Outcomes
<1>4. SidecarOK' /\ \A q \in Proposals : row[q] # None => row'[q] # None
  <2>1. \E r \in Outcomes \cup {"committed"} : row' \in {row, [row EXCEPT ![p] = r]}
    BY <1>2, <1>3 DEF RequeryReview
  <2> QED BY <1>1, <2>1, NoneAssumption DEF RequeryReview, IInv, TypeOK, SidecarOK
<1>5. DiskOK' /\ StoreOK' /\ UNCHANGED <<order, chain, intent>>
  BY DiskUnchanged, StoreUnchanged DEF RequeryReview, IInv, TypeOK, disk
<1>6. BoundsOK'
  BY BoundsKept DEF RequeryReview, IInv, TypeOK, Fault, Sound, BoundsOK
<1>7. MemoryOK' /\ ControlOK' /\ Control' /\ Journalled' /\ pc' # "intent"
  <2>1. CASE Goto("receipt")
    <3>1. MemoryOK' /\ ControlOK' /\ pc' = "receipt" /\ UNCHANGED <<op, phase, index, active>>
      BY <2>1, GotoType DEF IInv, TypeOK, Labels
    <3>2. Control'
      BY <1>1, <1>5, <3>1 DEF Control, IInv, RequeryReview
    <3>3. Journalled'
      BY <1>4, <3>1, JournalledKept DEF Working
    <3> QED BY <3>1, <3>2, <3>3
  <2>2. CASE Abort
    <3>1. Rested
      BY <2>2, AbortRests DEF RequeryReview, IInv, TypeOK
    <3>2. Journalled'
      BY <1>4, <3>1, JournalledKept DEF Rested
    <3> QED BY <3>1, <3>2 DEF Rested, Working
  <2>3. ASSUME NEW o \in Outcomes, Open(o)
        PROVE  MemoryOK' /\ ControlOK' /\ Control' /\ Journalled' /\ pc' # "intent"
    <3>1. Settled
      BY <1>5, <2>3, OpenSettles DEF RequeryReview, IInv, TypeOK
    <3>2. Journalled'
      BY <1>1, <1>4, <3>1, JournalledKept DEF Settled
    <3> QED BY <3>1, <3>2 DEF Settled, Working
  <2>4. Goto("receipt") \/ Abort \/ \E o \in Outcomes : Open(o)
    BY <1>3 DEF RequeryReview
  <2> QED BY <2>1, <2>2, <2>3, <2>4
<1>8. Authorised'
  BY <1>5, <1>7, AuthorisedKept DEF RequeryReview, IInv
<1> QED BY <1>4, <1>5, <1>6, <1>7, <1>8 DEF IInv, TypeOK

-----------------------------------------------------------------------------
(* The durable tail of a Decision. *)

LEMMA PersistDecisionInv ==
  ASSUME IInv, PersistDecision
  PROVE  IInv'
<1> DEFINE p == op.proposal
<1>1. p \in Proposals
  BY DEF PersistDecision, IInv, Control
<1>2. DiskOK' /\ order' = order
  BY <1>1 DEF PersistDecision, IInv, TypeOK, DiskOK, SidecarOK
<1>3. StoreOK' /\ SidecarOK' /\ UNCHANGED <<chain, intent, row>>
  BY StoreUnchanged, SidecarUnchanged DEF PersistDecision, IInv, TypeOK, sidecar
<1>4. BoundsOK'
  BY BoundsKept DEF PersistDecision, IInv, TypeOK, Fault, Sound, BoundsOK
<1>5. MemoryOK' /\ ControlOK' /\ Control' /\ Journalled' /\ pc' # "intent"
  <2>1. CASE Goto(AfterDecision(p))
    <3>1. AfterDecision(p) \in {"materialize", "complete"}
      BY DEF AfterDecision
    <3>2. /\ MemoryOK' /\ ControlOK' /\ pc' \in {"materialize", "complete"}
          /\ UNCHANGED <<op, phase, index, active>>
      BY <2>1, <3>1, GotoType DEF IInv, TypeOK, Labels
    <3>3. Control'
      BY <1>1, <1>2, <3>2 DEF Control, IInv, PersistDecision
    <3>4. Journalled'
      BY <1>3, <3>2, JournalledKept DEF Working
    <3> QED BY <3>2, <3>3, <3>4
  <2>2. CASE Abort \/ Reject
    <3>1. Rested
      BY <2>2, AbortRests, RejectRests DEF PersistDecision, IInv, TypeOK
    <3>2. Journalled'
      BY <1>3, <3>1, JournalledKept DEF Rested
    <3> QED BY <3>1, <3>2 DEF Rested, Working
  <2>3. CASE /\ op.kind = "startup"
             /\ pc' = IF index = Len(order) THEN "recommit" ELSE "lineage"
             /\ index' = IF index = Len(order) THEN index ELSE index + 1
             /\ history' = Append(history, p)
             /\ UNCHANGED <<phase, op, revision, active, outcome, grants>>
    <3>1. MemoryOK'
      BY <1>1, <2>3 DEF IInv, TypeOK, MemoryOK
    <3>2. index \in 1..Len(order) /\ Len(order) \in Nat
      BY <2>3, LenProperties DEF IInv, Control, TypeOK, DiskOK
    <3>3. index' \in 1..Len(order)
      BY <2>3, <3>2
    <3>4. ControlOK'
      BY <2>3, <3>3 DEF IInv, TypeOK, ControlOK, Labels
    <3>5. Control'
      BY <1>2, <2>3, <3>3 DEF IInv, Control, PersistDecision
    <3>6. Journalled'
      BY <1>3, <2>3, JournalledKept DEF Working
    <3> QED BY <2>3, <3>1, <3>4, <3>5, <3>6
  <2> QED BY <2>1, <2>2, <2>3 DEF PersistDecision
<1>6. Authorised'
  BY <1>3, <1>5, AuthorisedKept DEF PersistDecision, IInv
<1> QED BY <1>2, <1>3, <1>4, <1>5, <1>6 DEF IInv, TypeOK

LEMMA MaterializeRevisionInv ==
  ASSUME IInv, MaterializeRevision
  PROVE  IInv'
<1>1. op.proposal \in Proposals /\ op.proposal \in Revisions
  BY DEF MaterializeRevision, IInv, Control, Revisions
<1>2. StoreOK'
  <2>1. (op.proposal \in retained') \in BOOLEAN
    OBVIOUS
  <2>2. txn' \in BOOLEAN
    BY <2>1, Zenon DEF MaterializeRevision, IInv, TypeOK, StoreOK
  <2>3. retained' \subseteq Revisions
    BY <1>1 DEF MaterializeRevision, IInv, TypeOK, StoreOK
  <2>4. UNCHANGED <<pointer, site>>
    BY DEF MaterializeRevision
  <2> QED BY <2>2, <2>3, <2>4 DEF IInv, TypeOK, StoreOK
<1>3. DiskOK' /\ SidecarOK' /\ UNCHANGED <<order, chain, intent, row>>
  BY DiskUnchanged, SidecarUnchanged DEF MaterializeRevision, IInv, TypeOK, disk, sidecar
<1>4. BoundsOK'
  BY BoundsKept DEF MaterializeRevision, IInv, TypeOK, Fault, Sound, BoundsOK
<1>5. MemoryOK' /\ ControlOK' /\ Control' /\ Journalled' /\ pc' # "intent"
  <2>1. CASE Goto("unlink")
    <3>1. MemoryOK' /\ ControlOK' /\ pc' = "unlink" /\ UNCHANGED <<op, phase, index, active>>
      BY <2>1, GotoType DEF IInv, TypeOK, Labels
    <3>2. Control'
      BY <1>1, <1>3, <3>1 DEF Control, IInv, MaterializeRevision
    <3>3. Journalled'
      BY <1>3, <3>1, JournalledKept DEF Working
    <3> QED BY <3>1, <3>2, <3>3
  <2>2. CASE Abort
    <3>1. Rested
      BY <2>2, AbortRests DEF MaterializeRevision, IInv, TypeOK
    <3>2. Journalled'
      BY <1>3, <3>1, JournalledKept DEF Rested
    <3> QED BY <3>1, <3>2 DEF Rested, Working
  <2> QED BY <2>1, <2>2 DEF MaterializeRevision
<1>6. Authorised'
  BY <1>3, <1>5, AuthorisedKept DEF MaterializeRevision, IInv
<1> QED BY <1>2, <1>3, <1>4, <1>5, <1>6 DEF IInv, TypeOK

LEMMA UnlinkSiteInv ==
  ASSUME IInv, UnlinkSite
  PROVE  IInv'
<1>1. op.proposal \in Proposals
  BY DEF UnlinkSite, IInv, Control
<1>2. StoreOK'
  BY DEF UnlinkSite, IInv, TypeOK, StoreOK
<1>3. DiskOK' /\ SidecarOK' /\ UNCHANGED <<order, chain, intent, row>>
  BY DiskUnchanged, SidecarUnchanged DEF UnlinkSite, IInv, TypeOK, disk, sidecar
<1>4. BoundsOK'
  BY BoundsKept DEF UnlinkSite, IInv, TypeOK, Fault, Sound, BoundsOK
<1>5. MemoryOK' /\ ControlOK' /\ Control' /\ Journalled' /\ pc' # "intent"
  <2>1. CASE Goto("link")
    <3>1. MemoryOK' /\ ControlOK' /\ pc' = "link" /\ UNCHANGED <<op, phase, index, active>>
      BY <2>1, GotoType DEF IInv, TypeOK, Labels
    <3>2. Control'
      BY <1>1, <1>3, <3>1 DEF Control, IInv, UnlinkSite
    <3>3. Journalled'
      BY <1>3, <3>1, JournalledKept DEF Working
    <3> QED BY <3>1, <3>2, <3>3
  <2>2. CASE Abort
    <3>1. Rested
      BY <2>2, AbortRests DEF UnlinkSite, IInv, TypeOK
    <3>2. Journalled'
      BY <1>3, <3>1, JournalledKept DEF Rested
    <3> QED BY <3>1, <3>2 DEF Rested, Working
  <2> QED BY <2>1, <2>2 DEF UnlinkSite
<1>6. Authorised'
  BY <1>3, <1>5, AuthorisedKept DEF UnlinkSite, IInv
<1> QED BY <1>2, <1>3, <1>4, <1>5, <1>6 DEF IInv, TypeOK

LEMMA LinkSiteInv ==
  ASSUME IInv, LinkSite
  PROVE  IInv'
<1>1. op.proposal \in Proposals /\ op.proposal \in Revisions
  BY DEF LinkSite, IInv, Control, Revisions
<1>2. StoreOK'
  BY <1>1 DEF LinkSite, IInv, TypeOK, StoreOK
<1>3. DiskOK' /\ SidecarOK' /\ UNCHANGED <<order, chain, intent, row>>
  BY DiskUnchanged, SidecarUnchanged DEF LinkSite, IInv, TypeOK, disk, sidecar
<1>4. BoundsOK'
  BY BoundsKept DEF LinkSite, IInv, TypeOK, Fault, Sound, BoundsOK
<1>5. MemoryOK' /\ ControlOK' /\ Control' /\ Journalled' /\ pc' # "intent"
  <2>1. CASE Goto("advance")
    <3>1. MemoryOK' /\ ControlOK' /\ pc' = "advance" /\ UNCHANGED <<op, phase, index, active>>
      BY <2>1, GotoType DEF IInv, TypeOK, Labels
    <3>2. Control'
      BY <1>1, <1>3, <3>1 DEF Control, IInv, LinkSite
    <3>3. Journalled'
      BY <1>3, <3>1, JournalledKept DEF Working
    <3> QED BY <3>1, <3>2, <3>3
  <2>2. CASE Abort
    <3>1. Rested
      BY <2>2, AbortRests DEF LinkSite, IInv, TypeOK
    <3>2. Journalled'
      BY <1>3, <3>1, JournalledKept DEF Rested
    <3> QED BY <3>1, <3>2 DEF Rested, Working
  <2> QED BY <2>1, <2>2 DEF LinkSite
<1>6. Authorised'
  BY <1>3, <1>5, AuthorisedKept DEF LinkSite, IInv
<1> QED BY <1>2, <1>3, <1>4, <1>5, <1>6 DEF IInv, TypeOK

LEMMA AdvancePointerInv ==
  ASSUME IInv, AdvancePointer
  PROVE  IInv'
<1>1. op.proposal \in Proposals /\ op.proposal \in Revisions
  BY DEF AdvancePointer, IInv, Control, Revisions
<1>2. StoreOK'
  BY <1>1 DEF AdvancePointer, IInv, TypeOK, StoreOK
<1>3. DiskOK' /\ SidecarOK' /\ UNCHANGED <<order, chain, intent, row>>
  BY DiskUnchanged, SidecarUnchanged DEF AdvancePointer, IInv, TypeOK, disk, sidecar
<1>4. BoundsOK'
  BY BoundsKept DEF AdvancePointer, IInv, TypeOK, Fault, Sound, BoundsOK
<1>5. MemoryOK' /\ ControlOK' /\ Control' /\ Journalled' /\ pc' # "intent"
  <2>1. CASE /\ revision' = op.proposal
             /\ pc' = IF op.kind = "startup" THEN "completions" ELSE "complete"
             /\ UNCHANGED <<phase, op, index, active, outcome, history, grants>>
    <3>1. MemoryOK' /\ ControlOK'
      BY <1>1, <2>1 DEF IInv, TypeOK, MemoryOK, ControlOK, Labels
    <3>2. Control'
      BY <1>1, <1>3, <2>1 DEF Control, IInv, AdvancePointer
    <3>3. Journalled'
      BY <1>3, <2>1, JournalledKept DEF Working
    <3> QED BY <2>1, <3>1, <3>2, <3>3
  <2>2. CASE Abort
    <3>1. Rested
      BY <2>2, AbortRests DEF AdvancePointer, IInv, TypeOK
    <3>2. Journalled'
      BY <1>3, <3>1, JournalledKept DEF Rested
    <3> QED BY <3>1, <3>2 DEF Rested, Working
  <2> QED BY <2>1, <2>2 DEF AdvancePointer
<1>6. Authorised'
  BY <1>3, <1>5, AuthorisedKept DEF AdvancePointer, IInv
<1> QED BY <1>2, <1>3, <1>4, <1>5, <1>6 DEF IInv, TypeOK

LEMMA CompleteDecisionInv ==
  ASSUME IInv, CompleteDecision
  PROVE  IInv'
<1>1. op.proposal \in Proposals
  BY DEF CompleteDecision, IInv, Control
<1>2. DiskOK' /\ order' = order
  BY <1>1 DEF CompleteDecision, IInv, TypeOK, DiskOK
<1>3. StoreOK' /\ SidecarOK' /\ UNCHANGED <<chain, intent, row>>
  BY StoreUnchanged, SidecarUnchanged DEF CompleteDecision, IInv, TypeOK, sidecar
<1>4. BoundsOK'
  BY BoundsKept DEF CompleteDecision, IInv, TypeOK, Fault, Sound, BoundsOK
<1>5. MemoryOK' /\ ControlOK' /\ Control' /\ Journalled' /\ pc' # "intent"
  <2>1. CASE /\ history' = Append(history, op.proposal)
             /\ active' = None
             /\ outcome' = "pending"
             /\ pc' = "idle"
             /\ op' = NoOp
             /\ UNCHANGED <<phase, index, revision, grants>>
    <3>1. MemoryOK'
      BY <1>1, <2>1 DEF IInv, TypeOK, MemoryOK, Outcomes
    <3>2. ControlOK' /\ Control'
      BY <2>1 DEF IInv, TypeOK, ControlOK, Control, NoOp, Handler, Kinds, Labels
    <3>3. Journalled'
      BY <1>3, <2>1, JournalledKept DEF Working
    <3> QED BY <2>1, <3>1, <3>2, <3>3
  <2>2. CASE Abort
    <3>1. Rested
      BY <2>2, AbortRests DEF CompleteDecision, IInv, TypeOK
    <3>2. Journalled'
      BY <1>3, <3>1, JournalledKept DEF Rested
    <3> QED BY <3>1, <3>2 DEF Rested, Working
  <2> QED BY <2>1, <2>2 DEF CompleteDecision
<1>6. Authorised'
  BY <1>3, <1>5, AuthorisedKept DEF CompleteDecision, IInv
<1> QED BY <1>2, <1>3, <1>4, <1>5, <1>6 DEF IInv, TypeOK
-----------------------------------------------------------------------------
(* Process death and startup. *)

\* A step that only ends the handler or the startup in flight.
LEMMA RestedInv ==
  ASSUME IInv, Rested, UNCHANGED <<sidecar, consumed>>, DiskOK', StoreOK', BoundsOK'
  PROVE  IInv'
<1>1. SidecarOK' /\ UNCHANGED <<chain, row, intent>>
  BY SidecarUnchanged DEF IInv, TypeOK, sidecar
<1>2. Journalled'
  BY <1>1, JournalledKept DEF Rested
<1>3. Authorised'
  BY <1>1 DEF IInv, Authorised, CommittedWasApproved, Rested, Working
<1> QED BY <1>1, <1>2, <1>3 DEF IInv, TypeOK, Rested

LEMMA CrashInv ==
  ASSUME IInv, Crash
  PROVE  IInv'
<1>1. DiskOK' /\ StoreOK'
  BY DiskUnchanged, StoreUnchanged DEF Crash, IInv, TypeOK
<1>2. BoundsOK'
  BY ConstantsAssumption DEF Crash, IInv, TypeOK, BoundsOK
<1>3. Rested
  BY HaltRests DEF Crash
<1> QED BY <1>1, <1>2, <1>3, RestedInv DEF Crash

LEMMA StopInv ==
  ASSUME IInv, Stop
  PROVE  IInv'
<1>1. DiskOK' /\ StoreOK'
  BY DiskUnchanged, StoreUnchanged DEF Stop, IInv, TypeOK
<1>2. BoundsOK'
  BY DEF Stop, IInv, TypeOK, BoundsOK, ghosts
<1>3. Rested
  BY HaltRests DEF Stop
<1> QED BY <1>1, <1>2, <1>3, RestedInv DEF Stop, ghosts

LEMMA StartInv ==
  ASSUME IInv, Start
  PROVE  IInv'
<1>1. DiskOK' /\ UNCHANGED <<order, row>>
  BY DiskUnchanged DEF Start, IInv, TypeOK, disk, sidecar
<1>2. StoreOK'
  BY DEF Start, IInv, TypeOK, StoreOK
<1>3. BoundsOK'
  BY DEF Start, IInv, TypeOK, BoundsOK, ghosts
<1>4. CASE Halt("refused")
  BY <1>1, <1>2, <1>3, <1>4, HaltRests, RestedInv DEF Start, ghosts
<1>5. CASE site' = pointer /\ order = <<>>
  <2>1. Rested
    <3>1. MemoryOK'
      BY <1>5 DEF Start, IInv, TypeOK, MemoryOK, StoreOK
    <3>2. ControlOK' /\ Control' /\ pc' = "idle" /\ active' = active
      BY <1>5 DEF Start, IInv, TypeOK, ControlOK, Control, NoOp, Handler, Kinds, Labels
    <3> QED BY <3>1, <3>2 DEF Rested, Working
  <2> QED BY <1>1, <1>2, <1>3, <2>1, RestedInv DEF Start, ghosts
<1>6. CASE site' = pointer /\ order # <<>>
  <2>1. Rested
    <3>1. MemoryOK'
      BY <1>6 DEF Start, IInv, TypeOK, MemoryOK, StoreOK
    <3>2. 1 \in 1..Len(order)
      BY <1>6, EmptySeq, LenProperties DEF IInv, TypeOK, DiskOK
    <3>3. ControlOK' /\ pc' = "lineage" /\ active' = active
      BY <1>6 DEF Start, IInv, TypeOK, ControlOK, Handler, Kinds, Labels
    <3>4. Control'
      BY <1>1, <1>6, <3>2 DEF Start, Control, Handler
    <3> QED BY <3>1, <3>3, <3>4 DEF Rested, Working
  <2> QED BY <1>1, <1>2, <1>3, <2>1, RestedInv DEF Start, ghosts
<1> QED BY <1>4, <1>5, <1>6 DEF Start

LEMMA RecoverProposalInv ==
  ASSUME IInv, RecoverProposal
  PROVE  IInv'
<1> DEFINE p == order[index]
<1>1. /\ DiskOK' /\ StoreOK' /\ SidecarOK'
      /\ UNCHANGED <<order, intent, chain, row, consumed>>
  BY NextSteady DEF RecoverProposal, ghosts
<1>2. BoundsOK'
  BY DEF RecoverProposal, IInv, TypeOK, BoundsOK, ghosts
<1>3. CASE Halt("refused")
  BY <1>1, <1>2, <1>3, HaltRests, RestedInv DEF RecoverProposal, ghosts
<1>4. CASE /\ p \in bound => row[p] # None
           /\ op' = [op EXCEPT !.proposal = p]
           /\ pc' = IF p \in bound THEN "query" ELSE "publish"
           /\ UNCHANGED <<phase, index, memory>>
  <2>1. p \in Proposals
    BY ElementOfSeq DEF RecoverProposal, IInv, Control, TypeOK, DiskOK
  <2>2. MemoryOK'
    BY <1>4, MemoryUnchanged DEF IInv, TypeOK
  <2>3. ControlOK'
    BY <1>4, <2>1 DEF IInv, TypeOK, ControlOK, Labels
  <2>4. op'.kind = op.kind /\ op'.disposition = op.disposition /\ op'.proposal = p
    BY <1>4 DEF IInv, TypeOK, ControlOK
  <2>5. Control'
    BY <1>1, <1>4, <2>1, <2>4 DEF RecoverProposal, IInv, Control
  <2>6. Journalled'
    BY <1>1, <1>4, <2>4, JournalledKept DEF Working, memory
  <2>7. Authorised'
    BY <1>1, <1>4, AuthorisedKept DEF RecoverProposal, IInv
  <2> QED BY <1>1, <1>2, <2>2, <2>3, <2>5, <2>6, <2>7 DEF IInv, TypeOK
<1> QED BY <1>3, <1>4 DEF RecoverProposal

LEMMA RecoverAcceptedInv ==
  ASSUME IInv, RecoverAccepted
  PROVE  IInv'
<1> DEFINE target == Logical(Len(order))
<1>1. /\ DiskOK' /\ StoreOK' /\ SidecarOK'
      /\ UNCHANGED <<order, intent, chain, row, consumed>>
  BY NextSteady DEF RecoverAccepted, ghosts
<1>2. BoundsOK'
  BY DEF RecoverAccepted, IInv, TypeOK, BoundsOK, ghosts
<1>3. CASE Halt("refused")
  BY <1>1, <1>2, <1>3, HaltRests, RestedInv DEF RecoverAccepted, ghosts
<1>4. CASE Goto("completions")
  <2>1. MemoryOK' /\ ControlOK' /\ pc' = "completions"
        /\ UNCHANGED <<op, phase, index, revision, active>>
    BY <1>4, GotoType DEF IInv, TypeOK, Labels
  <2>2. Control'
    BY <1>1, <2>1 DEF RecoverAccepted, IInv, Control
  <2>3. Rested
    BY <2>1, <2>2 DEF Rested, Working
  <2> QED BY <1>1, <1>2, <2>3, RestedInv DEF RecoverAccepted, ghosts
<1>5. CASE /\ target \in {order[i] : i \in AdoptedUpTo(Len(order))}
           /\ op' = [op EXCEPT !.proposal = target]
           /\ pc' = "materialize"
           /\ UNCHANGED <<phase, index, memory>>
  <2>1. target \in Proposals
    BY <1>5, ElementOfSeq DEF AdoptedUpTo, IInv, TypeOK, DiskOK
  <2>2. MemoryOK'
    BY <1>5, MemoryUnchanged DEF IInv, TypeOK
  <2>3. ControlOK'
    BY <1>5, <2>1 DEF IInv, TypeOK, ControlOK, Labels
  <2>4. op'.kind = op.kind /\ op'.disposition = op.disposition /\ op'.proposal = target
    BY <1>5 DEF IInv, TypeOK, ControlOK
  <2>5. Control'
    BY <1>1, <1>5, <2>1, <2>4 DEF RecoverAccepted, IInv, Control
  <2>6. Rested
    BY <1>5, <2>2, <2>3, <2>5 DEF Rested, Working, memory
  <2> QED BY <1>1, <1>2, <2>6, RestedInv DEF RecoverAccepted, ghosts
<1> QED BY <1>3, <1>4, <1>5 DEF RecoverAccepted

LEMMA RecoverCompletionsInv ==
  ASSUME IInv, RecoverCompletions
  PROVE  IInv'
<1> DEFINE missing == {i \in {i \in DOMAIN order : decisionFile[order[i]] # None} :
                         order[i] \notin completed}
           first == order[Min(missing)]
<1>1. /\ StoreOK' /\ SidecarOK'
      /\ UNCHANGED <<order, intent, chain, row, sidecar, consumed>>
  BY StoreUnchanged, SidecarUnchanged DEF RecoverCompletions, IInv, TypeOK, sidecar, ghosts
<1>2. missing # {} => first \in Proposals
  <2> SUFFICES ASSUME missing # {} PROVE first \in Proposals
    OBVIOUS
  <2>1. missing \in SUBSET Int /\ IsFiniteSet(missing)
    <3>1. DOMAIN order = 1..Len(order) /\ Len(order) \in Nat
      BY LenProperties DEF IInv, TypeOK, DiskOK
    <3>2. missing \subseteq 1..Len(order)
      BY <3>1
    <3>3. IsFiniteSet(1..Len(order))
      BY <3>1, FS_Interval
    <3> QED BY <3>2, <3>3, FS_Subset
  <2>2. Min(missing) \in missing
    <3> HIDE DEF missing
    <3> QED BY <2>1, MinInSet
  <2> QED BY <2>2, ElementOfSeq, LenProperties DEF IInv, TypeOK, DiskOK
<1>3. DiskOK'
  BY <1>2 DEF RecoverCompletions, IInv, TypeOK, DiskOK
<1>4. BoundsOK'
  BY BoundsKept DEF RecoverCompletions, IInv, TypeOK, Fault, Sound, BoundsOK
<1>5. CASE Halt("refused")
  BY <1>1, <1>3, <1>4, <1>5, HaltRests, RestedInv
<1>6. CASE Abort
  <2>1. Rested
    BY <1>6, AbortRests DEF RecoverCompletions, IInv, TypeOK
  <2> QED BY <1>1, <1>3, <1>4, <2>1, RestedInv
<1>7. CASE Goto("completions")
  <2>1. MemoryOK' /\ ControlOK' /\ pc' = "completions"
        /\ UNCHANGED <<op, phase, index, revision, active>>
    BY <1>7, GotoType DEF IInv, TypeOK, Labels
  <2>2. Control'
    BY <1>1, <2>1 DEF RecoverCompletions, IInv, Control
  <2>3. Rested
    BY <2>1, <2>2 DEF Rested, Working
  <2> QED BY <1>1, <1>3, <1>4, <2>3, RestedInv
<1>8. CASE /\ phase' = "up"
           /\ pc' = "idle"
           /\ op' = NoOp
           /\ index' = 0
           /\ UNCHANGED memory
  <2>1. MemoryOK'
    BY <1>8, MemoryUnchanged DEF IInv, TypeOK
  <2>2. ControlOK' /\ Control'
    BY <1>8 DEF ControlOK, Control, NoOp, Handler, Kinds, Labels
  <2>3. Rested
    BY <1>8, <2>1, <2>2 DEF Rested, Working, memory
  <2> QED BY <1>1, <1>3, <1>4, <2>3, RestedInv
<1> QED BY <1>5, <1>6, <1>7, <1>8 DEF RecoverCompletions

-----------------------------------------------------------------------------
(* The theorems. *)

LEMMA InitInv == Init => IInv
<1> SUFFICES ASSUME Init PROVE IInv
  OBVIOUS
<1>1. DiskOK
  BY DEF Init, DiskOK, Revisions
<1>2. StoreOK
  BY DEF Init, StoreOK, Revisions
<1>3. SidecarOK
  BY DEF Init, SidecarOK
<1>4. MemoryOK
  BY DEF Init, MemoryOK, Revisions, Outcomes, NoGrants
<1>5. ControlOK
  BY DEF Init, ControlOK, Labels, NoOp, Handler, Kinds
<1>6. BoundsOK
  BY ConstantsAssumption DEF Init, BoundsOK
<1>7. Control
  BY DEF Init, Control, NoOp, Handler
<1>8. Journalled
  BY DEF Init, Journalled, Working
<1>9. Authorised
  BY DEF Init, Authorised, CommittedWasApproved
<1> QED BY <1>1, <1>2, <1>3, <1>4, <1>5, <1>6, <1>7, <1>8, <1>9 DEF IInv, TypeOK

LEMMA StepInv ==
  ASSUME IInv, Step
  PROVE  IInv'
BY PrepareProposalInv, PublishProposalInv, RegisterReviewInv, BindProposalInv,
   RegisterIntentInv, QueryReviewInv, CallSynapseInv, RequeryReviewInv,
   PersistDecisionInv, MaterializeRevisionInv, UnlinkSiteInv, LinkSiteInv,
   AdvancePointerInv, CompleteDecisionInv, RecoverProposalInv,
   RecoverAcceptedInv, RecoverCompletionsInv
   DEF Step

LEMMA RequestInv ==
  ASSUME IInv, Request
  PROVE  IInv'
BY CreateProposalInv, CreateApprovalInv, ExpireApprovalInv, CreateDecisionInv,
   ReconcileReviewInv, CleanupFailedProposalInv
   DEF Request

LEMMA StutterInv ==
  ASSUME IInv, UNCHANGED vars
  PROVE  IInv'
<1>1. DiskOK' /\ StoreOK' /\ SidecarOK' /\ MemoryOK'
  BY DiskUnchanged, StoreUnchanged, SidecarUnchanged, MemoryUnchanged
     DEF vars, IInv, TypeOK
<1>2. ControlOK' /\ Control'
  BY DEF vars, disk, sidecar, memory, control, IInv, TypeOK, ControlOK, Control
<1>3. BoundsOK'
  BY DEF vars, ghosts, IInv, TypeOK, BoundsOK
<1>4. Journalled'
  BY DEF vars, sidecar, memory, control, IInv, Journalled
<1>5. Authorised'
  BY DEF vars, sidecar, control, ghosts, IInv, Authorised, CommittedWasApproved
<1> QED BY <1>1, <1>2, <1>3, <1>4, <1>5 DEF IInv, TypeOK

LEMMA NextInv == IInv /\ [Next]_vars => IInv'
BY StepInv, RequestInv, CrashInv, StopInv, StartInv, StutterInv DEF Next

LEMMA Invariance == Spec => []IInv
BY InitInv, NextInv, PTL DEF Spec

\* Every file, Ref, journal row and Store field holds a value the code can
\* write there, in every reachable state: the type invariant of the protocol.
THEOREM TypeCorrect == Spec => []TypeOK
<1>1. IInv => TypeOK
  BY DEF IInv
<1> QED BY <1>1, Invariance, PTL

\* Human authority: no Decision is on the decision Ref unless a one-shot
\* approval of that Proposal and disposition was consumed, whichever of
\* create_decision, reconcile_review and startup published it, and whatever
\* crashes and I/O errors came between.
THEOREM DecisionsAuthorised == Spec => []CommittedWasApproved
<1>1. IInv => CommittedWasApproved
  BY DEF IInv, Authorised
<1> QED BY <1>1, Invariance, PTL
-----------------------------------------------------------------------------
(* The validation gate.  Only create_approval looks at the checks; what it    *)
(* lets through stays good in the token, in the request it becomes and on    *)
(* the Ref, because the checks of a Proposal never change.                   *)

\* A verdict the validation checks allow.
Allowed(v) == v.disposition = Adopt => v.proposal \notin Blocked

Gated ==
  /\ \A t \in Tokens : grants[t] # None => Allowed(grants[t])
  /\ \A v \in consumed : Allowed(v)

\* Nearly every step leaves each token as it is or takes it away.
Revoking ==
  /\ \A t \in Tokens : grants'[t] \in {None, grants[t]}
  /\ consumed' = consumed

LEMMA RevokingGated == Gated /\ Revoking => Gated'
BY DEF Gated, Revoking

LEMMA HaltRevokes ==
  ASSUME NEW p, Halt(p), UNCHANGED consumed
  PROVE  Revoking
BY DEF Halt, NoGrants, Revoking

LEMMA AbortRevokes ==
  ASSUME Abort \/ Reject, UNCHANGED consumed
  PROVE  Revoking
BY HaltRevokes DEF Abort, Reject, Answer, Revoking

LEMMA OpenRevokes ==
  ASSUME NEW o, Open(o), UNCHANGED consumed
  PROVE  Revoking
BY HaltRevokes DEF Open, Settle, Answer, Revoking

LEMMA GotoRevokes ==
  ASSUME NEW l, Goto(l), UNCHANGED consumed
  PROVE  Revoking
BY DEF Goto, memory, Revoking

LEMMA StepRevokes ==
  ASSUME Step
  PROVE  Revoking
<1>1. consumed' = consumed
  BY DEF Step, PrepareProposal, PublishProposal, RegisterReview, BindProposal,
         RegisterIntent, QueryReview, CallSynapse, RequeryReview, PersistDecision,
         MaterializeRevision, UnlinkSite, LinkSite, AdvancePointer, CompleteDecision,
         RecoverProposal, RecoverAccepted, RecoverCompletions, ghosts
<1>2. CASE Abort \/ Reject
  BY <1>1, <1>2, AbortRevokes
<1>3. CASE \E o : Open(o)
  BY <1>1, <1>3, OpenRevokes
<1>4. CASE \E l : Goto(l)
  BY <1>1, <1>4, GotoRevokes
<1>5. CASE \E p : Halt(p)
  BY <1>1, <1>5, HaltRevokes
<1>6. CASE UNCHANGED grants
  BY <1>1, <1>6 DEF Revoking
<1>7. CASE UNCHANGED memory
  BY <1>1, <1>7 DEF Revoking, memory
<1>a. PrepareProposal \/ PublishProposal \/ RegisterReview \/ BindProposal \/ RegisterIntent
      => Revoking
  BY <1>2, <1>4, <1>6 DEF PrepareProposal, PublishProposal, RegisterReview, BindProposal,
     RegisterIntent
<1>b. QueryReview \/ CallSynapse \/ RequeryReview => Revoking
  BY <1>2, <1>3, <1>4, <1>7 DEF QueryReview, CallSynapse, RequeryReview, Called
<1>c. PersistDecision \/ MaterializeRevision \/ UnlinkSite \/ LinkSite => Revoking
  BY <1>2, <1>4, <1>6 DEF PersistDecision, MaterializeRevision, UnlinkSite, LinkSite
<1>d. AdvancePointer \/ CompleteDecision => Revoking
  BY <1>2, <1>6 DEF AdvancePointer, CompleteDecision
<1>e. RecoverProposal \/ RecoverAccepted \/ RecoverCompletions => Revoking
  BY <1>2, <1>4, <1>5, <1>7 DEF RecoverProposal, RecoverAccepted, RecoverCompletions
<1> QED BY <1>a, <1>b, <1>c, <1>d, <1>e DEF Step

LEMMA RequestGated ==
  ASSUME IInv, Gated, Request
  PROVE  Gated'
<1>1. ASSUME NEW p \in Proposals, CreateProposal(p) PROVE Revoking
  BY <1>1 DEF CreateProposal, Revoking, memory
<1>2. ASSUME NEW t \in Tokens, NEW d \in Dispositions, CreateApproval(t, d) PROVE Gated'
  <2>1. consumed' = consumed /\ DOMAIN grants = Tokens
    BY <1>2 DEF CreateApproval, ghosts, IInv, TypeOK, MemoryOK
  <2>2. grants'[t] = [proposal |-> active, disposition |-> d, revision |-> revision]
    BY <1>2, <2>1 DEF CreateApproval
  <2>3. Allowed(grants'[t])
    BY <1>2, <2>2 DEF CreateApproval, Allowed
  <2>4. \A u \in Tokens \ {t} : grants'[u] = grants[u]
    BY <1>2 DEF CreateApproval
  <2> QED BY <2>1, <2>3, <2>4 DEF Gated
<1>3. ASSUME NEW t \in Tokens, ExpireApproval(t) PROVE Revoking
  BY <1>3 DEF ExpireApproval, ghosts, Revoking, IInv, TypeOK, MemoryOK
<1>4. ASSUME NEW t \in Tokens, CreateDecision(t) PROVE Gated'
  <2>1. Allowed(Verdict(active, grants[t].disposition))
    BY <1>4 DEF CreateDecision, Gated, Allowed, Verdict
  <2>2. \A u \in Tokens : grants'[u] \in {None, grants[u]}
    BY <1>4 DEF CreateDecision, IInv, TypeOK, MemoryOK
  <2>3. consumed' = consumed \cup {Verdict(active, grants[t].disposition)}
    BY <1>4 DEF CreateDecision
  <2>4. \A v \in consumed' : Allowed(v)
    BY <2>1, <2>3 DEF Gated
  <2>5. \A u \in Tokens : grants'[u] # None => Allowed(grants'[u])
    BY <2>2 DEF Gated
  <2> QED BY <2>4, <2>5 DEF Gated
<1>5. ReconcileReview => Revoking
  BY DEF ReconcileReview, Revoking, memory
<1>6. CleanupFailedProposal => Revoking
  BY DEF CleanupFailedProposal, ghosts, Revoking, IInv, TypeOK, MemoryOK
<1> QED BY <1>1, <1>2, <1>3, <1>4, <1>5, <1>6, RevokingGated DEF Request

LEMMA GatedInvariance == Spec => []Gated
<1>1. Init => Gated
  BY DEF Init, Gated, NoGrants
<1>2. IInv /\ Gated /\ [Next]_vars => Gated'
  <2> SUFFICES ASSUME IInv, Gated, [Next]_vars PROVE Gated'
    OBVIOUS
  <2>1. CASE Crash \/ Stop
    BY <2>1, HaltRevokes, RevokingGated DEF Crash, Stop, ghosts
  <2>2. CASE Start
    BY <2>2, HaltRevokes, RevokingGated DEF Start, ghosts, Revoking
  <2>3. CASE UNCHANGED vars
    BY <2>3 DEF vars, memory, ghosts, Gated
  <2> QED BY <2>1, <2>2, <2>3, StepRevokes, RequestGated, RevokingGated DEF Next
<1> QED BY <1>1, <1>2, Invariance, PTL DEF Spec

\* A Proposal with a blocking validation check is never adopted, although the
\* checks are looked at only when the approval is created, and the token, the
\* registered intent, reconciliation and startup each carry the verdict on.
THEOREM BlockedStaysOut == Spec => []BlockedNeverAdopted
<1>1. TypeOK /\ CommittedWasApproved /\ Gated => BlockedNeverAdopted
  BY DEF CommittedWasApproved, Gated, Allowed, BlockedNeverAdopted
<1> QED BY <1>1, TypeCorrect, DecisionsAuthorised, GatedInvariance, PTL

\* Each Decision on the Ref was approved with a token that was spent, for a
\* Proposal without blocking checks: no reconciliation, repetition or startup
\* adds a verdict of its own.
THEOREM DecisionsWereApproved == Spec => []DecidedAsApproved
<1>1. CommittedWasApproved /\ BlockedNeverAdopted => DecidedAsApproved
  BY DEF DecidedAsApproved
<1> QED BY <1>1, DecisionsAuthorised, BlockedStaysOut, PTL

-----------------------------------------------------------------------------
(* The stores: the inductive invariant, in parts. *)

\* The journal and the Ref: a row follows its Ref, an intent its row, and a
\* Decision is on the Ref at the head its Proposal was published against, as
\* the registered intent has it.
Registered ==
  /\ \A p \in Proposals : row[p] # None => p \in refs
  /\ \A p \in Proposals : intent[p] # None => row[p] # None
  /\ \A p \in Proposals : row[p] = "committed" => p \in Decided
  /\ \A p \in refs : expected[p] \in 0..Len(chain)
  /\ \A i \in DOMAIN chain :
       /\ chain[i].proposal \in refs
       /\ expected[chain[i].proposal] = i - 1
       /\ intent[chain[i].proposal] = chain[i].disposition

\* p is the Proposal the Ref is about: published against its head, or its head.
Latest(p) ==
  \/ expected[p] = Len(chain)
  \/ chain # <<>> /\ chain[Len(chain)].proposal = p

Unsettled == {"pending", "retryable", "unknown"}
Committing == {"materialize", "unlink", "link", "advance"}
Creating == {"prepare", "publish", "register", "bind"}
Reviewing == {"lineage", "publish", "register", "bind", "query", "call", "requery", "receipt"}

\* What the program counter says of the Proposal the handler works on.
Pursued ==
  /\ op.kind = "create" => pc \in Creating /\ active = None
  /\ op.kind \in {"decide", "reconcile"} => pc \notin Creating /\ op.proposal = active
  /\ phase \in {"down", "refused"} => active = None
  /\ op.kind = "startup" /\ pc \in Reviewing => active = None
  /\ op.kind = "create" /\ pc \in {"prepare", "publish"} => op.proposal \notin refs
  /\ op.kind = "create" /\ pc = "register" => row[op.proposal] = None
  /\ op.kind = "create" /\ pc = "bind" =>
       row[op.proposal] = "pending" /\ intent[op.proposal] = None
  /\ op.kind = "create" /\ pc \in {"register", "bind"} => expected[op.proposal] = Len(chain)
  /\ pc = "publish" => base[op.proposal] = revision
  /\ pc = "register" => op.proposal \in refs
  /\ pc \in {"call", "requery"} => row[op.proposal] \in Unsettled
  /\ pc = "requery" =>
       /\ op.error = "none" => expected[op.proposal] # Len(chain)
       /\ op.error # "refused" => Latest(op.proposal)
  /\ pc = "receipt" => row[op.proposal] = "committed"
  /\ pc \in Committing => op.proposal = HeadRevision(chain)
  /\ pc # "idle" => revision = pointer

\* What the Proposal under review is to SynapseGit.
Reviewed ==
  active # None =>
    /\ row[active] # "denied" => Latest(active)
    /\ outcome = "pending" /\ op.kind # "decide" =>
         intent[active] = None /\ row[active] # "denied"

\* Where the chain leads before its last Decision.
Before(n) == HeadRevision(SubSeq(chain, 1, n))

\* The Accepted pointer follows the Ref, and a Proposal is about the revision
\* the chain it was published against leads to.
Led ==
  /\ \A p \in refs : base[p] = Before(expected[p])
  /\ \A p \in refs : expected[p] = Len(chain) => pointer = HeadRevision(chain)
  /\ \/ pointer = HeadRevision(chain)
     \/ /\ chain # <<>>
        /\ chain[Len(chain)].disposition = Adopt
        /\ pointer = Before(Len(chain) - 1)
  /\ \A p \in Proposals : decisionFile[p] # None => p \in Decided /\ decisionFile[p] = intent[p]

JInv == Registered /\ Pursued /\ Reviewed /\ Led /\ OneOpenReview

-----------------------------------------------------------------------------
(* The revision a chain leads to. *)

\* Where the chain leads: the Proposal adopted last, or the beginning.
LEMMA HeadIs ==
  ASSUME NEW c \in Seq(Verdicts)
  PROVE  \/ /\ HeadRevision(c) = Genesis
            /\ \A i \in DOMAIN c : c[i].disposition # Adopt
         \/ \E i \in DOMAIN c :
              /\ c[i].disposition = Adopt
              /\ HeadRevision(c) = c[i].proposal
              /\ \A k \in DOMAIN c : c[k].disposition = Adopt => k <= i
<1> DEFINE adopted == {i \in DOMAIN c : c[i].disposition = Adopt}
<1>1. adopted \in SUBSET Int /\ IsFiniteSet(adopted)
  <2>1. DOMAIN c = 1..Len(c) /\ Len(c) \in Nat
    BY LenProperties
  <2>2. adopted \subseteq 1..Len(c)
    BY <2>1
  <2>3. 1..Len(c) \subseteq Int
    BY <2>1
  <2>4. IsFiniteSet(1..Len(c))
    BY <2>1, FS_Interval
  <2> HIDE DEF adopted
  <2> QED BY <2>2, <2>3, <2>4, FS_Subset
<1>2. CASE adopted = {}
  BY <1>2 DEF HeadRevision
<1>3. CASE adopted # {}
  <2>1. Max(adopted) \in adopted /\ \A i \in adopted : i <= Max(adopted)
    <3> HIDE DEF adopted
    <3> QED BY <1>1, <1>3, MaxInSet
  <2>2. HeadRevision(c) = c[Max(adopted)].proposal
    BY <1>3 DEF HeadRevision
  <2> QED BY <2>1, <2>2
<1> QED BY <1>2, <1>3

\* The last Decision decides, if it adopts.
LEMMA HeadLast ==
  ASSUME NEW c \in Seq(Verdicts), c # <<>>, c[Len(c)].disposition = Adopt
  PROVE  HeadRevision(c) = c[Len(c)].proposal
<1>1. DOMAIN c = 1..Len(c) /\ Len(c) \in Nat /\ Len(c) # 0
  BY LenProperties, EmptySeq
<1>2. Len(c) \in DOMAIN c
  BY <1>1
<1>3. PICK i \in DOMAIN c : /\ HeadRevision(c) = c[i].proposal
                           /\ \A k \in DOMAIN c : c[k].disposition = Adopt => k <= i
  BY <1>2, HeadIs
<1>4. i = Len(c)
  BY <1>1, <1>2, <1>3
<1> QED BY <1>3, <1>4

\* From the position of an adoption on, the chain leads to one adopted there or
\* later.
LEMMA HeadFrom ==
  ASSUME NEW c \in Seq(Verdicts), NEW i \in DOMAIN c, c[i].disposition = Adopt
  PROVE  \E k \in DOMAIN c : k >= i /\ HeadRevision(c) = c[k].proposal
<1>1. PICK k \in DOMAIN c : /\ HeadRevision(c) = c[k].proposal
                           /\ \A m \in DOMAIN c : c[m].disposition = Adopt => m <= k
  BY HeadIs
<1>2. i \in Nat /\ k \in Nat /\ i <= k
  BY <1>1, LenProperties
<1> QED BY <1>1, <1>2

\* A Decision moves where the chain leads only if it adopts.
LEMMA HeadAppend ==
  ASSUME NEW c \in Seq(Verdicts), NEW v \in Verdicts
  PROVE  /\ v.disposition = Adopt => HeadRevision(Append(c, v)) = v.proposal
         /\ v.disposition # Adopt => HeadRevision(Append(c, v)) = HeadRevision(c)
<1> DEFINE d == Append(c, v)
<1>1. /\ d \in Seq(Verdicts) /\ Len(d) = Len(c) + 1 /\ d # <<>>
      /\ d[Len(c) + 1] = v
      /\ \A i \in 1..Len(c) : d[i] = c[i]
      /\ DOMAIN d = 1..Len(c) + 1 /\ DOMAIN c = 1..Len(c) /\ Len(c) \in Nat
  BY AppendProperties, LenProperties
<1>2. CASE v.disposition = Adopt
  <2> HIDE DEF d
  <2>1. HeadRevision(d) = d[Len(d)].proposal
    BY <1>1, <1>2, HeadLast
  <2> QED BY <1>1, <1>2, <2>1 DEF d
<1>3. CASE v.disposition # Adopt
  <2>1. {i \in DOMAIN d : d[i].disposition = Adopt} = {i \in DOMAIN c : c[i].disposition = Adopt}
    <3> HIDE DEF d
    <3>1. \A i : i \in DOMAIN d /\ d[i].disposition = Adopt
               => i \in DOMAIN c /\ c[i].disposition = Adopt
      BY <1>1, <1>3
    <3>2. \A i : i \in DOMAIN c /\ c[i].disposition = Adopt
               => i \in DOMAIN d /\ d[i].disposition = Adopt
      BY <1>1
    <3> QED BY <3>1, <3>2
  <2> DEFINE A == {i \in DOMAIN c : c[i].disposition = Adopt}
  <2>2. HeadRevision(d) = IF A = {} THEN Genesis ELSE d[Max(A)].proposal
    BY <2>1 DEF HeadRevision
  <2>3. HeadRevision(c) = IF A = {} THEN Genesis ELSE c[Max(A)].proposal
    BY DEF HeadRevision
  <2>4. ASSUME A # {} PROVE Max(A) \in 1..Len(c)
    <3>1. A \subseteq 1..Len(c)
      BY <1>1
    <3>2. A \in SUBSET Int
      BY <1>1, <3>1
    <3>3. IsFiniteSet(A)
      <4>1. IsFiniteSet(1..Len(c))
        BY <1>1, FS_Interval
      <4> HIDE DEF A
      <4> QED BY <3>1, <4>1, FS_Subset
    <3>4. Max(A) \in A
      <4> HIDE DEF A
      <4> QED BY <2>4, <3>2, <3>3, MaxInSet
    <3> HIDE DEF A
    <3> QED BY <3>1, <3>4
  <2> HIDE DEF A, d
  <2> QED BY <1>1, <1>3, <2>2, <2>3, <2>4 DEF d
<1> QED BY <1>2, <1>3

\* What comes before a position does not change when the chain grows.
LEMMA BeforeAppend ==
  ASSUME NEW c \in Seq(Verdicts), NEW v \in Verdicts, NEW n \in 0..Len(c)
  PROVE  SubSeq(Append(c, v), 1, n) = SubSeq(c, 1, n)
<1>1. /\ Append(c, v) \in Seq(Verdicts) /\ Len(Append(c, v)) = Len(c) + 1
      /\ \A i \in 1..Len(c) : Append(c, v)[i] = c[i] /\ c[i] \in Verdicts
      /\ Len(c) \in Nat /\ n \in Nat /\ n <= Len(c)
  BY AppendProperties, LenProperties, ElementOfSeq
<1>2. /\ SubSeq(c, 1, n) \in Seq(Verdicts)
      /\ Len(SubSeq(c, 1, n)) = n
      /\ \A i \in 1..n : SubSeq(c, 1, n)[i] = c[i]
  BY <1>1, SubSeqProperties
<1>3. /\ SubSeq(Append(c, v), 1, n) \in Seq(Verdicts)
      /\ Len(SubSeq(Append(c, v), 1, n)) = n
      /\ \A i \in 1..n : SubSeq(Append(c, v), 1, n)[i] = Append(c, v)[i]
  <2>1. \A i \in 1..n : Append(c, v)[i] \in Verdicts
    BY <1>1
  <2> QED BY <1>1, <2>1, SubSeqProperties
<1>4. \A i \in 1..n : Append(c, v)[i] = c[i]
  BY <1>1
<1> QED BY <1>2, <1>3, <1>4, SeqEqual

-----------------------------------------------------------------------------
(* What the steps leave alone. *)

LEMMA RecordsKept ==
  ASSUME JInv, UNCHANGED sidecar, UNCHANGED <<base, pointer, decisionFile>>
  PROVE  Registered' /\ Led' /\ OneOpenReview'
BY DEF JInv, sidecar, Registered, Led, Before, OneOpenReview, Decided

LEMMA ReviewedKept ==
  ASSUME Reviewed, UNCHANGED sidecar, active' \in {None, active},
         active' # None /\ outcome' = "pending" /\ op'.kind # "decide" =>
           outcome = "pending" /\ op.kind # "decide"
  PROVE  Reviewed'
BY DEF Reviewed, sidecar, Latest

\* A handler that fails, or a process that is gone.
Ended ==
  /\ pc' = "idle"
  /\ op' = NoOp
  /\ phase' \in {"down", "refused"} => active' = None
  /\ \/ active' = None
     \/ active' = active /\ outcome' = "unknown"
     \/ active' = active /\ outcome' = outcome /\ op.kind # "decide"

LEMMA HaltEnds == ASSUME NEW p, Halt(p) PROVE Ended
BY DEF Halt, Ended

LEMMA AbortEnds ==
  ASSUME IInv, pc # "idle", Abort \/ Reject
  PROVE  Ended
<1>1. phase \notin {"down", "refused"}
  BY DEF IInv, Control
<1> QED BY <1>1, HaltEnds DEF Abort, Reject, Answer, Ended

LEMMA EndedPursued == Ended => Pursued'
BY DEF Ended, Pursued, NoOp, Handler, Committing

\* A failure that leaves the sidecar and the pointer as they are.
LEMMA EndedKept ==
  ASSUME JInv, Ended, UNCHANGED sidecar
  PROVE  Pursued' /\ Reviewed'
<1>1. Reviewed'
  BY ReviewedKept DEF Ended, JInv, NoOp, Handler
<1> QED BY <1>1, EndedPursued

-----------------------------------------------------------------------------
(* The requests. *)

LEMMA CreateProposalRecords ==
  ASSUME IInv, JInv, NEW p \in Proposals, CreateProposal(p)
  PROVE  JInv'
<1>1. UNCHANGED <<disk, store, sidecar>> /\ active' = None
  BY DEF CreateProposal, Enter, memory
<1>2. Registered' /\ Led' /\ OneOpenReview'
  BY <1>1, RecordsKept DEF disk, store
<1>3. Pursued'
  BY <1>1 DEF CreateProposal, Enter, Handler, Pursued, Serving, Verified, memory, store, sidecar,
     Committing, Creating
<1>4. Reviewed'
  BY <1>1 DEF Reviewed
<1> QED BY <1>2, <1>3, <1>4 DEF JInv

LEMMA GrantsRecords ==
  ASSUME IInv, JInv,
         UNCHANGED <<disk, store, sidecar, revision, active, outcome, history, control>>
  PROVE  JInv'
<1>1. Registered' /\ Led' /\ OneOpenReview'
  BY RecordsKept DEF disk, store
<1>2. Pursued'
  BY DEF JInv, Pursued, control, store, disk, sidecar, Latest
<1>3. Reviewed'
  BY ReviewedKept DEF JInv, control
<1> QED BY <1>1, <1>2, <1>3 DEF JInv

LEMMA CreateDecisionRecords ==
  ASSUME IInv, JInv, NEW t \in Tokens, CreateDecision(t)
  PROVE  JInv'
<1>1. UNCHANGED <<disk, store, sidecar>> /\ UNCHANGED <<revision, active, outcome, phase>>
  BY DEF CreateDecision, Enter
<1>2. Registered' /\ Led' /\ OneOpenReview'
  BY <1>1, RecordsKept DEF disk, store
<1>3. Pursued'
  BY <1>1 DEF CreateDecision, Enter, Handler, Pursued, Serving, Verified, store,
     Committing, Creating, Reviewing
<1>4. Reviewed'
  BY <1>1, ReviewedKept DEF CreateDecision, Enter, Handler, JInv
<1> QED BY <1>2, <1>3, <1>4 DEF JInv

LEMMA ReconcileReviewRecords ==
  ASSUME IInv, JInv, ReconcileReview
  PROVE  JInv'
<1>1. UNCHANGED <<disk, store, sidecar, memory, phase>> /\ op.kind = "none"
  BY DEF ReconcileReview, Enter, Serving, IInv, Control
<1>2. Registered' /\ Led' /\ OneOpenReview'
  BY <1>1, RecordsKept DEF disk, store
<1>3. Pursued'
  BY <1>1 DEF ReconcileReview, Enter, Handler, Pursued, Serving, Verified, store, memory,
     Committing, Creating, Reviewing
<1>4. Reviewed'
  BY <1>1, ReviewedKept DEF ReconcileReview, Enter, Handler, JInv, memory
<1> QED BY <1>2, <1>3, <1>4 DEF JInv

LEMMA CleanupFailedProposalRecords ==
  ASSUME IInv, JInv, CleanupFailedProposal
  PROVE  JInv'
<1>1. /\ UNCHANGED <<store, sidecar, base, decisionFile, revision, control>>
      /\ op.kind = "none" /\ pc = "idle"
      /\ active' = None \/ UNCHANGED <<active, outcome>>
  BY DEF CleanupFailedProposal, Serving, IInv, Control
<1>2. Registered' /\ Led' /\ OneOpenReview'
  BY <1>1, RecordsKept DEF store
<1>3. Pursued'
  BY <1>1 DEF JInv, Pursued, control, Committing, CleanupFailedProposal, Serving
<1>4. Reviewed'
  BY <1>1, ReviewedKept DEF JInv, control
<1> QED BY <1>2, <1>3, <1>4 DEF JInv

-----------------------------------------------------------------------------
(* The durable steps of create_proposal. *)

LEMMA PrepareProposalRecords ==
  ASSUME IInv, JInv, PrepareProposal
  PROVE  JInv'
<1>1. /\ op.kind = "create" /\ op.proposal \in Proposals \ refs
      /\ UNCHANGED sidecar /\ UNCHANGED <<pointer, decisionFile>>
  BY DEF PrepareProposal, IInv, Control, JInv, Pursued, store
<1>2. base' = [base EXCEPT ![op.proposal] = revision] /\ base \in [Proposals -> Revisions]
  BY DEF PrepareProposal, IInv, TypeOK, DiskOK
<1>3. Registered' /\ Led' /\ OneOpenReview'
  <2>1. \A p \in refs : base'[p] = base[p]
    BY <1>1, <1>2 DEF IInv, TypeOK, SidecarOK
  <2>2. Led'
    BY <1>1, <2>1 DEF JInv, Led, Before, sidecar, Decided
  <2> QED BY <1>1, <2>2 DEF JInv, sidecar, Registered, OneOpenReview, Decided
<1>4. CASE Goto("publish")
  <2>1. base'[op.proposal] = revision
    BY <1>1, <1>2
  <2>2. Pursued'
    BY <1>1, <1>4, <2>1 DEF Goto, memory, sidecar, JInv, Pursued, PrepareProposal, Committing, Creating
  <2>3. Reviewed'
    BY <1>1, <1>4, ReviewedKept DEF Goto, memory, JInv
  <2> QED BY <1>3, <2>2, <2>3 DEF JInv
<1>5. CASE Abort
  BY <1>1, <1>3, <1>5, AbortEnds, EndedKept DEF JInv, PrepareProposal
<1> QED BY <1>4, <1>5 DEF PrepareProposal

LEMMA PublishProposalRecords ==
  ASSUME IInv, JInv, PublishProposal
  PROVE  JInv'
<1> DEFINE p == op.proposal
<1>1. /\ p \in Proposals /\ pc # "idle" /\ base[p] = revision /\ revision = pointer
      /\ refs \subseteq Proposals /\ expected \in [Proposals -> Nat]
      /\ chain \in Seq(Verdicts) /\ Len(chain) \in Nat
      /\ UNCHANGED <<disk, store, chain, row, intent>>
  BY LenProperties DEF PublishProposal, IInv, Control, JInv, Pursued, TypeOK, SidecarOK
<1>2. CASE UNCHANGED <<refs, expected>> /\ (Abort \/ Reject)
  <2>1. UNCHANGED sidecar
    BY <1>1, <1>2 DEF sidecar
  <2> QED BY <1>1, <1>2, <2>1, AbortEnds, EndedKept, RecordsKept DEF JInv, disk, store
<1>3. CASE /\ refs' = refs \cup {p}
           /\ expected' = [expected EXCEPT ![p] = Len(chain)]
           /\ p \in refs => expected[p] = Len(chain)
           /\ HeadRevision(chain) = revision
           /\ p \in refs \/ ~ActiveReview(p)
           /\ Goto("register") \/ Abort
  <2>1. /\ expected'[p] = Len(chain)
        /\ \A q \in refs : expected'[q] = expected[q]
    BY <1>1, <1>3
  <2>2. p \notin refs => row[p] = None /\ intent[p] = None
    BY <1>1 DEF JInv, Registered
  <2>3. Registered'
    BY <1>1, <1>3, <2>1, NoneAssumption DEF JInv, Registered, Decided
  <2>4. Led'
    <3>1. Before(Len(chain)) = HeadRevision(chain)
      BY <1>1, SubSeqFull DEF Before
    <3>2. \A q \in refs' : base[q] = Before(expected'[q])
      BY <1>1, <1>3, <2>1, <3>1 DEF JInv, Led
    <3> QED BY <1>1, <1>3, <2>1, <3>2 DEF JInv, Led, Before, disk, store, Decided
  <2>5. OneOpenReview'
    <3>1. \A q \in refs \ {p} : p \in refs \/ q \in Decided \/ row[q] = "denied"
      BY <1>3 DEF ActiveReview
    <3> QED BY <1>1, <1>3, <3>1 DEF JInv, OneOpenReview, Decided
  <2>6. Pursued'
    <3>1. CASE Goto("register")
      BY <1>1, <1>3, <2>1, <2>2, <3>1
         DEF Goto, memory, store, JInv, Pursued, PublishProposal, Committing, Creating, Reviewing
    <3>2. CASE Abort
      BY <1>1, <3>2, AbortEnds, EndedPursued
    <3> QED BY <1>3, <3>1, <3>2
  <2>7. Reviewed'
    <3>1. active # None => active \in refs
      BY DEF IInv, TypeOK, MemoryOK, Journalled, JInv, Registered
    <3>2. CASE Goto("register")
      BY <1>1, <2>1, <3>1, <3>2 DEF Goto, memory, JInv, Reviewed, Latest
    <3>3. CASE Abort
      <4>1. Ended
        BY <1>1, <3>3, AbortEnds
      <4> QED BY <1>1, <2>1, <3>1, <4>1 DEF Ended, NoOp, Handler, JInv, Reviewed, Latest
    <3> QED BY <1>3, <3>2, <3>3
  <2> QED BY <2>3, <2>4, <2>5, <2>6, <2>7 DEF JInv
<1> QED BY <1>1, <1>2, <1>3 DEF PublishProposal

LEMMA RegisterReviewRecords ==
  ASSUME IInv, JInv, RegisterReview
  PROVE  JInv'
<1> DEFINE p == op.proposal
<1>1. /\ p \in Proposals /\ p \in refs /\ pc = "register"
      /\ row \in [Proposals -> Outcomes \cup {"committed", None}]
      /\ UNCHANGED <<disk, store, chain, refs, expected, intent>>
  BY DEF RegisterReview, IInv, Control, JInv, Pursued, TypeOK, SidecarOK
<1>2. \/ row' = row
      \/ row[p] = None /\ row' = [row EXCEPT ![p] = "pending"]
  BY DEF RegisterReview
<1>3. \A q \in Proposals : row[q] # None => row'[q] = row[q]
  BY <1>1, <1>2
<1>4. row'[p] \in {row[p], "pending"} /\ \A q \in Proposals \ {p} : row'[q] = row[q]
  BY <1>1, <1>2
<1>5. Registered'
  BY <1>1, <1>2, <1>3, <1>4, NoneAssumption DEF JInv, Registered, Decided
<1>6. Led'
  BY <1>1 DEF JInv, Led, Before, disk, store, Decided
<1>7. OneOpenReview'
  <2>1. refs \subseteq Proposals /\ "denied" # None
    BY NoneAssumption DEF IInv, TypeOK, SidecarOK, Outcomes
  <2> QED BY <1>1, <1>3, <2>1 DEF JInv, OneOpenReview, Decided
<1>8. active # None => active \in Proposals /\ row[active] # None
  BY DEF IInv, TypeOK, MemoryOK, Journalled
<1>9. CASE Goto("bind") /\ (row[p] = None => row'[p] = "pending")
  <2>1. intent[p] # None => row[p] # None
    BY <1>1 DEF JInv, Registered
  <2>2. Pursued'
    BY <1>1, <1>9, <2>1
       DEF Goto, memory, store, JInv, Pursued, Committing, Creating, Reviewing
  <2>3. Reviewed'
    BY <1>1, <1>3, <1>8, <1>9 DEF Goto, memory, JInv, Reviewed, Latest
  <2> QED BY <1>5, <1>6, <1>7, <2>2, <2>3 DEF JInv
<1>10. CASE Abort
  <2>1. Ended
    BY <1>1, <1>10, AbortEnds
  <2>2. Reviewed'
    BY <1>1, <1>3, <1>8, <2>1 DEF Ended, NoOp, Handler, JInv, Reviewed, Latest
  <2> QED BY <1>5, <1>6, <1>7, <2>1, <2>2, EndedPursued DEF JInv
<1> QED BY <1>1, <1>9, <1>10 DEF RegisterReview

LEMMA BindProposalRecords ==
  ASSUME IInv, JInv, BindProposal
  PROVE  JInv'
<1>1. /\ op.proposal \in Proposals /\ op.kind \in {"create", "startup"} /\ pc = "bind"
      /\ UNCHANGED sidecar /\ UNCHANGED <<base, pointer, decisionFile>>
      /\ phase \notin {"down", "refused"}
  BY DEF BindProposal, IInv, Control, TypeOK, ControlOK, Kinds, JInv, Pursued, Creating, store
<1>2. Registered' /\ Led' /\ OneOpenReview'
  BY <1>1, RecordsKept
<1>3. CASE Goto("query") /\ op.kind = "startup"
  <2>1. Pursued'
    BY <1>1, <1>3 DEF Goto, memory, JInv, Pursued, Committing, Creating, Reviewing
  <2>2. Reviewed'
    BY <1>1, <1>3, ReviewedKept DEF Goto, memory, JInv
  <2> QED BY <1>2, <2>1, <2>2 DEF JInv
<1>4. CASE /\ op.kind # "startup" /\ pc' = "idle" /\ op' = NoOp /\ active' = op.proposal
           /\ UNCHANGED phase
  <2>1. /\ expected[op.proposal] = Len(chain)
        /\ row[op.proposal] = "pending" /\ intent[op.proposal] = None
    BY <1>1, <1>4 DEF JInv, Pursued
  <2>2. Pursued'
    BY <1>1, <1>4 DEF Pursued, NoOp, Handler, Committing, Creating
  <2>3. Reviewed'
    BY <1>1, <1>4, <2>1 DEF Reviewed, Latest, sidecar
  <2> QED BY <1>2, <2>2, <2>3 DEF JInv
<1>5. CASE Abort
  BY <1>1, <1>2, <1>5, AbortEnds, EndedKept DEF JInv
<1> QED BY <1>3, <1>4, <1>5 DEF BindProposal

-----------------------------------------------------------------------------
(* The durable tail of a Decision, and startup. *)

\* A step of the commit that leaves the pointer alone.
LEMMA CommitRecords ==
  ASSUME IInv, JInv, pc \in Committing, UNCHANGED <<disk, pointer, sidecar>>,
         Abort \/ \E l \in Committing : Goto(l)
  PROVE  JInv'
<1>1. Registered' /\ Led' /\ OneOpenReview' /\ pc # "idle"
  BY RecordsKept DEF disk, Committing
<1>2. CASE Abort
  BY <1>1, <1>2, AbortEnds, EndedKept DEF JInv
<1>3. ASSUME NEW l \in Committing, Goto(l) PROVE JInv'
  <2>1. Pursued'
    BY <1>3 DEF Goto, memory, sidecar, JInv, Pursued, Committing, Creating, Reviewing
  <2>2. Reviewed'
    BY <1>3, ReviewedKept DEF Goto, memory, JInv
  <2> QED BY <1>1, <2>1, <2>2 DEF JInv
<1> QED BY <1>2, <1>3

LEMMA AdvancePointerRecords ==
  ASSUME IInv, JInv, AdvancePointer
  PROVE  JInv'
<1>1. /\ pc = "advance" /\ op.proposal = HeadRevision(chain)
      /\ UNCHANGED <<disk, sidecar>> /\ pointer' \in {pointer, op.proposal}
  BY DEF AdvancePointer, JInv, Pursued, Committing
<1>2. Registered' /\ OneOpenReview'
  BY <1>1 DEF JInv, sidecar, Registered, OneOpenReview, Decided
<1>3. Led'
  BY <1>1 DEF JInv, Led, Before, disk, sidecar, Decided
<1>4. CASE Abort
  BY <1>1, <1>2, <1>3, <1>4, AbortEnds, EndedKept DEF JInv
<1>5. CASE /\ pointer' = op.proposal /\ revision' = op.proposal
           /\ pc' = IF op.kind = "startup" THEN "completions" ELSE "complete"
           /\ UNCHANGED <<phase, op, active, outcome>>
  <2>1. Pursued'
    BY <1>1, <1>5 DEF JInv, Pursued, Committing, Creating, Reviewing
  <2>2. Reviewed'
    BY <1>1, <1>5, ReviewedKept DEF JInv
  <2> QED BY <1>2, <1>3, <2>1, <2>2 DEF JInv
<1> QED BY <1>4, <1>5 DEF AdvancePointer

LEMMA CompleteDecisionRecords ==
  ASSUME IInv, JInv, CompleteDecision
  PROVE  JInv'
<1>1. Registered' /\ Led' /\ OneOpenReview' /\ UNCHANGED sidecar /\ pc = "complete"
  BY RecordsKept DEF CompleteDecision, store
<1>2. CASE Abort
  BY <1>1, <1>2, AbortEnds, EndedKept DEF JInv
<1>3. CASE active' = None /\ pc' = "idle" /\ op' = NoOp
  BY <1>1, <1>3, EndedKept DEF JInv, Ended
<1> QED BY <1>2, <1>3 DEF CompleteDecision

LEMMA HaltRecords ==
  ASSUME JInv, NEW p, Halt(p), UNCHANGED sidecar, UNCHANGED <<base, pointer, decisionFile>>
  PROVE  JInv'
BY RecordsKept, HaltEnds, EndedKept DEF JInv

LEMMA StartRecords ==
  ASSUME IInv, JInv, Start
  PROVE  JInv'
<1>1. UNCHANGED sidecar /\ UNCHANGED <<base, pointer, decisionFile, disk>> /\ active = None
  BY DEF Start, JInv, Pursued, disk
<1>2. Registered' /\ Led' /\ OneOpenReview'
  BY <1>1, RecordsKept
<1>3. CASE Halt("refused")
  BY <1>1, <1>3, HaltRecords
<1>4. CASE /\ revision' = pointer
           /\ phase' = IF order = <<>> THEN "up" ELSE "starting"
           /\ pc' = IF order = <<>> THEN "idle" ELSE "lineage"
           /\ op' = IF order = <<>> THEN NoOp ELSE Handler("startup", None, None)
           /\ active' = active
  <2>1. Pursued'
    BY <1>1, <1>4 DEF Pursued, NoOp, Handler, Committing, Creating
  <2>2. Reviewed'
    BY <1>1, <1>4 DEF Reviewed
  <2> QED BY <1>2, <2>1, <2>2 DEF JInv
<1> QED BY <1>3, <1>4 DEF Start

LEMMA RecoverProposalRecords ==
  ASSUME IInv, JInv, RecoverProposal
  PROVE  JInv'
<1>1. /\ pc = "lineage" /\ op.kind = "startup" /\ active = None
      /\ UNCHANGED sidecar /\ UNCHANGED <<base, pointer, decisionFile>>
  BY DEF RecoverProposal, IInv, Control, JInv, Pursued, Reviewing, disk, store
<1>2. Registered' /\ Led' /\ OneOpenReview'
  BY <1>1, RecordsKept
<1>3. CASE Halt("refused")
  BY <1>1, <1>3, HaltRecords
<1>4. CASE /\ op' = [op EXCEPT !.proposal = order[index]]
           /\ pc' = IF order[index] \in bound THEN "query" ELSE "publish"
           /\ order[index] \notin bound => revision = base[order[index]]
           /\ UNCHANGED <<phase, index, memory>>
  <2>1. op'.kind = "startup" /\ op'.proposal = order[index]
    BY <1>1, <1>4 DEF IInv, TypeOK, ControlOK
  <2>2. Pursued'
    BY <1>1, <1>4, <2>1 DEF memory, JInv, Pursued, Committing, Creating, Reviewing
  <2>3. Reviewed'
    BY <1>1, <1>4 DEF memory, Reviewed
  <2> QED BY <1>2, <2>2, <2>3 DEF JInv
<1> QED BY <1>3, <1>4 DEF RecoverProposal

LEMMA RecoverCompletionsRecords ==
  ASSUME IInv, JInv, RecoverCompletions
  PROVE  JInv'
<1>1. /\ pc = "completions" /\ op.kind = "startup"
      /\ UNCHANGED sidecar /\ UNCHANGED <<base, pointer, decisionFile>>
      /\ phase \notin {"down", "refused"}
  BY DEF RecoverCompletions, IInv, Control, store
<1>2. Registered' /\ Led' /\ OneOpenReview'
  BY <1>1, RecordsKept
<1>3. CASE Halt("refused")
  BY <1>1, <1>3, HaltRecords
<1>4. CASE Abort
  BY <1>1, <1>2, <1>4, AbortEnds, EndedKept DEF JInv
<1>5. CASE Goto("completions")
  <2>1. Pursued'
    BY <1>1, <1>5 DEF Goto, memory, JInv, Pursued, Committing, Creating, Reviewing
  <2>2. Reviewed'
    BY <1>1, <1>5, ReviewedKept DEF Goto, memory, JInv
  <2> QED BY <1>2, <2>1, <2>2 DEF JInv
<1>6. CASE phase' = "up" /\ pc' = "idle" /\ op' = NoOp /\ UNCHANGED memory
  BY <1>1, <1>2, <1>6, EndedKept DEF JInv, Ended, memory
<1> QED BY <1>3, <1>4, <1>5, <1>6 DEF RecoverCompletions

-----------------------------------------------------------------------------
(* SynapseSidecar::decide and ::resume. *)

LEMMA RegisterIntentRecords ==
  ASSUME IInv, JInv, RegisterIntent
  PROVE  JInv'
<1> DEFINE p == op.proposal
<1>1. /\ p \in Proposals /\ op.kind = "decide" /\ pc = "intent" /\ row[p] # None
      /\ op.disposition \in Dispositions
      /\ UNCHANGED <<disk, store, chain, refs, expected, row>>
      /\ intent \in [Proposals -> Dispositions \cup {None}]
  BY DEF RegisterIntent, IInv, Control, Journalled, Working, TypeOK, SidecarOK
<1>2. \/ intent' = intent
      \/ intent[p] \in {None, op.disposition} /\ intent' = [intent EXCEPT ![p] = op.disposition]
  BY DEF RegisterIntent
<1>3. \A q \in Proposals : intent[q] # None => intent'[q] = intent[q]
  BY <1>1, <1>2
<1>4. \A q \in Proposals : intent'[q] # None => q = p \/ intent[q] # None
  BY <1>1, <1>2
<1>5. /\ \A i \in DOMAIN chain : chain[i].proposal \in Proposals /\ chain[i].disposition # None
      /\ \A q \in Decided : q \in Proposals /\ intent[q] # None
  <2>1. \A i \in DOMAIN chain : chain[i] \in Verdicts
    BY ElementOfSeq, LenProperties DEF IInv, TypeOK, SidecarOK
  <2>2. \A i \in DOMAIN chain : chain[i].proposal \in Proposals /\ chain[i].disposition # None
    BY <2>1, NoneAssumption DEF Verdicts
  <2> QED BY <2>2 DEF JInv, Registered, Decided, DecidedIn
<1>6. Registered'
  BY <1>1, <1>3, <1>4, <1>5 DEF JInv, Registered, Decided
<1>7. Led'
  BY <1>1, <1>3, <1>5 DEF JInv, Led, Before, disk, store, Decided
<1>8. OneOpenReview'
  BY <1>1 DEF JInv, OneOpenReview, Decided
<1>9. CASE Goto("query")
  <2>1. Pursued'
    BY <1>1, <1>9 DEF Goto, memory, store, JInv, Pursued, Committing, Creating, Reviewing
  <2>2. Reviewed'
    BY <1>1, <1>9 DEF Goto, memory, JInv, Reviewed, Latest
  <2> QED BY <1>6, <1>7, <1>8, <2>1, <2>2 DEF JInv
<1>10. CASE Abort
  <2>1. Ended
    BY <1>1, <1>10, AbortEnds
  <2>2. Reviewed'
    BY <1>1, <2>1 DEF Ended, JInv, Reviewed, Latest
  <2> QED BY <1>6, <1>7, <1>8, <2>1, <2>2, EndedPursued DEF JInv
<1> QED BY <1>9, <1>10 DEF RegisterIntent

\* What a review is observed as: the last word of its row, unless the Ref moved.
LEMMA ObservedRecords ==
  ASSUME IInv, JInv, NEW p \in Proposals, row[p] # None
  PROVE  /\ Observed(p) \in Outcomes \cup {"committed"}
         /\ Observed(p) = "committed" => p \in Decided
         /\ row[p] = "committed" => Observed(p) = "committed"
         /\ row[p] = "denied" => Observed(p) \in {"denied", "committed"}
         /\ Observed(p) \notin {"denied", "committed"} =>
              expected[p] = Len(chain) /\ Observed(p) = row[p]
<1>1. Observed(p) \in Outcomes \cup {"committed"}
  BY ObservedType DEF IInv, TypeOK
<1>2. ASSUME Observed(p) = "committed" PROVE p \in Decided
  <2>1. CASE expected[p] = Len(chain)
    BY <1>2, <2>1 DEF Observed, JInv, Registered
  <2>2. CASE expected[p] # Len(chain)
    <3>1. PICK i \in DOMAIN chain : chain[i] = Verdict(p, intent[p])
      BY <1>2, <2>2 DEF Observed
    <3>2. chain[i].proposal = p
      BY <3>1 DEF Verdict
    <3> QED BY <3>2 DEF Decided, DecidedIn
  <2> QED BY <2>1, <2>2
<1>3. ASSUME row[p] = "committed", expected[p] # Len(chain) PROVE Observed(p) = "committed"
  <2>1. PICK i \in DOMAIN chain : chain[i].proposal = p
    BY <1>3 DEF JInv, Registered, Decided, DecidedIn
  <2>2. expected[p] = i - 1 /\ intent[p] = chain[i].disposition
    BY <2>1 DEF JInv, Registered
  <2>3. chain[i] \in Verdicts /\ i \in Nat
    BY ElementOfSeq, LenProperties DEF IInv, TypeOK, SidecarOK
  <2>4. chain[i] = Verdict(p, intent[p])
    BY <2>1, <2>2, <2>3 DEF Verdict, Verdicts
  <2>5. intent[p] # None
    BY <2>2, <2>3, NoneAssumption DEF Verdicts
  <2>6. i > expected[p]
    BY <2>2, <2>3
  <2> QED BY <1>3, <2>4, <2>5, <2>6 DEF Observed
<1> QED BY <1>1, <1>2, <1>3 DEF Observed

\* A row of the journal that moves on, and stays where it was final.
LEMMA RowRecords ==
  ASSUME IInv, JInv, NEW p \in Proposals, row[p] # None,
         NEW o, o # None, row' \in {row, [row EXCEPT ![p] = o]},
         o = "committed" => p \in Decided,
         row[p] = "denied" => o = "denied",
         UNCHANGED <<disk, store, chain, refs, expected, intent>>
  PROVE  /\ Registered' /\ Led' /\ OneOpenReview'
         /\ row'[p] \in {row[p], o}
         /\ \A q \in Proposals \ {p} : row'[q] = row[q]
<1>1. row'[p] \in {row[p], o} /\ \A q \in Proposals \ {p} : row'[q] = row[q]
  BY DEF IInv, TypeOK, SidecarOK
<1>2. Registered'
  BY <1>1 DEF JInv, Registered, Decided
<1>3. Led'
  BY DEF JInv, Led, Before, disk, store, Decided
<1>4. OneOpenReview'
  <2>1. refs \subseteq Proposals
    BY DEF IInv, TypeOK, SidecarOK
  <2> QED BY <1>1, <2>1 DEF JInv, OneOpenReview, Decided
<1> QED BY <1>1, <1>2, <1>3, <1>4

\* The review stays open with an outcome the records allow.
LEMMA OpenRecords ==
  ASSUME IInv, JInv, NEW o \in Outcomes, Open(o),
         pc \notin {"idle", "lineage", "recommit", "completions"}, op.kind # "create",
         UNCHANGED <<disk, store, chain, refs, expected, intent>>,
         o = "pending" => intent[op.proposal] = None /\ row'[op.proposal] # "denied",
         row'[op.proposal] # "denied" => Latest(op.proposal)
  PROVE  Pursued' /\ Reviewed'
<1> DEFINE p == op.proposal
<1>1. /\ p \in Proposals /\ phase \notin {"down", "refused"}
      /\ op.kind \in {"decide", "reconcile", "startup"}
  BY DEF IInv, Control, TypeOK, ControlOK, Kinds
<1>2. CASE \E h : Halt(h)
  <2>1. Ended /\ active' = None
    BY <1>2, HaltEnds DEF Halt
  <2> QED BY <2>1, EndedPursued DEF Reviewed
<1>3. CASE Answer(o) /\ op.kind # "startup"
  <2>1. active' = active /\ active = p /\ outcome' = o /\ pc' = "idle" /\ op' = NoOp
    BY <1>1, <1>3 DEF Answer, JInv, Pursued
  <2>2. Pursued'
    BY <1>1, <1>3, <2>1 DEF Answer, Pursued, NoOp, Handler, Committing
  <2>3. Reviewed'
    BY <1>1, <2>1 DEF Reviewed, Latest
  <2> QED BY <2>2, <2>3
<1>4. CASE op.kind = "startup" /\ pc' = "recommit" /\ active' = p /\ outcome' = o
           /\ UNCHANGED <<phase, op, revision>>
  <2>1. Pursued'
    BY <1>1, <1>4 DEF JInv, Pursued, Committing, Creating, Reviewing, store
  <2>2. Reviewed'
    BY <1>1, <1>4 DEF Reviewed, Latest
  <2> QED BY <2>1, <2>2
<1> QED BY <1>2, <1>3, <1>4 DEF Open, Settle

\* A handler that fails after it moved the row of its Proposal.
LEMMA EndedRecords ==
  ASSUME IInv, JInv, Ended, op.kind # "create",
         op.kind # "startup" \/ active' = None,
         pc \notin {"idle", "lineage", "recommit", "completions"},
         UNCHANGED <<chain, refs, expected, intent>>,
         row[op.proposal] = "denied" => row'[op.proposal] = "denied",
         intent[op.proposal] = None /\ row[op.proposal] # "denied" /\ expected[op.proposal] = Len(chain)
           => row'[op.proposal] # "denied"
  PROVE  Pursued' /\ Reviewed'
<1> DEFINE p == op.proposal
<1>1. op.kind \in {"decide", "reconcile"} => active = p
  BY DEF JInv, Pursued
<1>2. CASE active' = None
  BY <1>2, EndedPursued DEF Reviewed
<1>3. CASE active' = active /\ active = p /\ p \in Proposals
  <2>1. row'[p] # "denied" => Latest(p)
    BY <1>3, ConstantsAssumption DEF JInv, Reviewed
  <2>2. ASSUME outcome' = "pending"
        PROVE  intent[p] = None /\ row'[p] # "denied"
    <3>1. outcome = "pending" /\ op.kind # "decide" /\ p # None
      BY <1>3, <2>2, ConstantsAssumption DEF Ended
    <3>2. intent[p] = None /\ row[p] # "denied" /\ Latest(p)
      BY <1>3, <3>1 DEF JInv, Reviewed
    <3>3. expected[p] = Len(chain)
      <4>1. ASSUME chain # <<>>, chain[Len(chain)].proposal = p PROVE FALSE
        <5>1. Len(chain) \in DOMAIN chain /\ chain[Len(chain)] \in Verdicts
          <6>1. chain \in Seq(Verdicts)
            BY DEF IInv, TypeOK, SidecarOK
          <6> QED BY <4>1, <6>1, LenProperties, EmptySeq, ElementOfSeq
        <5>2. intent[p] \in Dispositions
          BY <4>1, <5>1 DEF JInv, Registered, Verdicts
        <5> QED BY <3>2, <5>2, NoneAssumption
      <4> QED BY <3>2, <4>1 DEF Latest
    <3> QED BY <3>2, <3>3
  <2> QED BY <1>3, <2>1, <2>2, EndedPursued DEF Reviewed, Latest
<1>4. \/ active' = None
      \/ active' = active /\ active = p /\ p \in Proposals
  BY <1>1 DEF Ended, IInv, Control, TypeOK, ControlOK, Kinds
<1> QED BY <1>2, <1>3, <1>4

\* The steps from a review that was read again to the next label.
LEMMA CalledForRecords ==
  ASSUME IInv, JInv, pc = "query", Goto("call"), UNCHANGED <<disk, store, chain, refs, expected, intent>>,
         op.kind # "create", row'[op.proposal] \in Unsettled,
         Registered' /\ Led' /\ OneOpenReview',
         \A q \in Proposals \ {op.proposal} : row'[q] = row[q],
         row[op.proposal] # "denied"
  PROVE  JInv'
<1>1. Pursued'
  BY DEF Goto, memory, store, JInv, Pursued, Committing, Creating, Reviewing
<1>2. active # None => active \in Proposals
  BY DEF IInv, TypeOK, MemoryOK
<1>3. Reviewed'
  BY <1>2 DEF Goto, memory, JInv, Reviewed, Latest, Unsettled
<1> QED BY <1>1, <1>3 DEF JInv

LEMMA ReceivedRecords ==
  ASSUME IInv, JInv, pc \in {"query", "requery"}, Goto("receipt"),
         UNCHANGED <<disk, store, chain, refs, expected, intent>>,
         op.kind # "create", row'[op.proposal] = "committed",
         Registered' /\ Led' /\ OneOpenReview',
         \A q \in Proposals \ {op.proposal} : row'[q] = row[q],
         row[op.proposal] # "denied"
  PROVE  JInv'
<1>1. Pursued'
  BY DEF Goto, memory, store, JInv, Pursued, Committing, Creating, Reviewing
<1>2. active # None => active \in Proposals
  BY DEF IInv, TypeOK, MemoryOK
<1>3. Reviewed'
  BY <1>2 DEF Goto, memory, JInv, Reviewed, Latest
<1> QED BY <1>1, <1>3 DEF JInv

LEMMA QueryReviewRecords ==
  ASSUME IInv, JInv, QueryReview
  PROVE  JInv'
<1> DEFINE p == op.proposal
           o == Observed(p)
<1>1. /\ p \in Proposals /\ row[p] # None /\ pc = "query" /\ op.kind # "create"
      /\ row \in [Proposals -> Outcomes \cup {"committed", None}]
      /\ UNCHANGED <<disk, store, chain, refs, expected, intent>>
  BY DEF QueryReview, IInv, Control, Journalled, Working, TypeOK, SidecarOK, JInv, Pursued, Creating
<1>2. /\ o \in Outcomes \cup {"committed"}
      /\ o = "committed" => p \in Decided
      /\ row[p] = "committed" => o = "committed"
      /\ row[p] = "denied" => o \in {"denied", "committed"}
      /\ o \notin {"denied", "committed"} => expected[p] = Len(chain) /\ o = row[p]
  BY <1>1, ObservedRecords
<1>3. None \notin Outcomes \cup {"committed"}
  BY NoneAssumption
<1> HIDE DEF o
<1>4. ASSUME ~Contradicted(p), row' = [row EXCEPT ![p] = o],
             IF o = "committed" THEN Goto("receipt")
             ELSE IF o = "denied" \/ intent[p] = None \/ (op.kind = "decide" /\ o = "unknown")
             THEN Open(o) ELSE Goto("call")
      PROVE  JInv'
  <2>1. row[p] = "denied" => o = "denied"
    BY <1>2, <1>4 DEF Contradicted, o
  <2>2. /\ Registered' /\ Led' /\ OneOpenReview'
        /\ \A q \in Proposals \ {p} : row'[q] = row[q]
    BY <1>1, <1>2, <1>3, <1>4, <2>1, RowRecords
  <2>3. row'[p] = o
    BY <1>1, <1>4
  <2>4. CASE Goto("receipt") /\ o = "committed"
    BY <1>1, <2>1, <2>2, <2>3, <2>4, ReceivedRecords
  <2>5. CASE Goto("call") /\ o \notin {"committed", "denied"}
    <3>1. row'[p] \in Unsettled
      BY <1>2, <2>3, <2>5 DEF Outcomes, Unsettled
    <3> QED BY <1>1, <2>1, <2>2, <2>5, <3>1, CalledForRecords
  <2>6. CASE Open(o) /\ o # "committed" /\ (o = "pending" => intent[p] = None)
    <3>1. o \in Outcomes
      BY <1>2, <2>6
    <3>2. row'[p] # "denied" => Latest(p)
      BY <1>2, <2>3, <2>6 DEF Latest
    <3>3. Pursued' /\ Reviewed'
      BY <1>1, <2>3, <2>6, <3>1, <3>2, OpenRecords
    <3> QED BY <2>2, <3>3 DEF JInv
  <2> QED BY <1>4, <2>4, <2>5, <2>6
<1>5. ASSUME row' = row, Reject \/ Abort PROVE JInv'
  <2>1. UNCHANGED sidecar
    BY <1>1, <1>5 DEF sidecar
  <2> QED BY <1>1, <1>5, <2>1, AbortEnds, EndedKept, RecordsKept DEF JInv, disk, store
<1>6. ASSUME row' = [row EXCEPT ![p] = IF Contradicted(p) THEN "denied" ELSE o], Abort
      PROVE  JInv'
  <2> DEFINE r == IF Contradicted(p) THEN "denied" ELSE o
  <2>1. /\ r # None /\ (r = "committed" => p \in Decided) /\ (row[p] = "denied" => r = "denied")
        /\ row'[p] = r
    BY <1>1, <1>2, <1>3, <1>6 DEF Contradicted, o, Outcomes
  <2>2. /\ Registered' /\ Led' /\ OneOpenReview'
    <3> HIDE DEF r
    <3>1. row' = [row EXCEPT ![p] = r]
      BY <1>6 DEF r
    <3> QED BY <1>1, <2>1, <3>1, RowRecords
  <2>3. Ended /\ (op.kind = "startup" => active' = None)
    BY <1>1, <1>6, AbortEnds DEF Abort, Halt
  <2>4. row[p] # "denied" /\ expected[p] = Len(chain) => r # "denied"
    BY DEF Contradicted, o, Observed
  <2>5. Pursued' /\ Reviewed'
    BY <1>1, <2>1, <2>3, <2>4, EndedRecords
  <2> QED BY <2>2, <2>5 DEF JInv
<1>7. ASSUME NEW u, u = IF row[p] = "denied" THEN "denied" ELSE "unknown",
             row[p] # "committed", intent[p] # None, row' = [row EXCEPT ![p] = u],
             IF u = "denied" \/ op.kind = "decide" THEN Open(u) ELSE Goto("call")
      PROVE  JInv'
  <2>0. u # None /\ u # "committed" /\ (row[p] = "denied" => u = "denied")
    BY <1>3, <1>7 DEF Outcomes
  <2>1. /\ Registered' /\ Led' /\ OneOpenReview'
        /\ \A q \in Proposals \ {p} : row'[q] = row[q]
    BY <1>1, <1>7, <2>0, RowRecords
  <2>2. row'[p] = u /\ u \in Outcomes /\ u # "pending"
    BY <1>1, <1>7 DEF Outcomes
  <2>3. CASE Goto("call") /\ u = "unknown"
    <3>1. row'[p] \in Unsettled /\ row[p] # "denied"
      BY <1>7, <2>2, <2>3 DEF Unsettled
    <3> QED BY <1>1, <2>1, <2>3, <3>1, CalledForRecords
  <2>4. CASE Open(u) /\ (u = "denied" \/ op.kind = "decide")
    <3>1. row'[p] # "denied" => Latest(p)
      BY <1>1, <1>7, <2>2, <2>4, ConstantsAssumption DEF JInv, Pursued, Reviewed
    <3>2. Pursued' /\ Reviewed'
      BY <1>1, <2>2, <2>4, <3>1, OpenRecords
    <3> QED BY <2>1, <3>2 DEF JInv
  <2> QED BY <1>7, <2>3, <2>4
<1> QED BY <1>4, <1>5, <1>6, <1>7 DEF QueryReview, o

LEMMA CallSynapseRecords ==
  ASSUME IInv, JInv, CallSynapse
  PROVE  JInv'
<1> DEFINE p == op.proposal
           v == Verdict(p, intent[p])
<1>1. /\ p \in Proposals /\ row[p] # None /\ pc = "call" /\ op.kind # "create"
      /\ intent[p] \in Dispositions /\ p \in refs
      /\ chain \in Seq(Verdicts) /\ Len(chain) \in Nat
      /\ UNCHANGED <<disk, store, refs, expected, row, intent>>
  BY LenProperties DEF CallSynapse, IInv, Control, Journalled, Working, TypeOK, SidecarOK, JInv,
     Pursued, Creating, Registered
<1>2. v \in Verdicts /\ v.proposal = p /\ v.disposition = intent[p]
  BY <1>1 DEF Verdict, Verdicts
<1>3. PICK e \in {"none", "storage", "refused"} :
        /\ Called(e)
        /\ \/ chain' = chain /\ e # "none" /\ (e # "refused" => expected[p] = Len(chain))
           \/ chain' = Append(chain, v) /\ expected[p] = Len(chain)
  BY DEF CallSynapse
<1>4. op'.proposal = p /\ op'.kind = op.kind /\ op'.error = e /\ pc' = "requery"
  BY <1>3 DEF Called, IInv, TypeOK, ControlOK
<1>5. CASE chain' = chain
  <2>1. UNCHANGED sidecar
    BY <1>1, <1>5 DEF sidecar
  <2>2. Registered' /\ Led' /\ OneOpenReview'
    BY <1>1, <2>1, RecordsKept DEF disk, store
  <2>3. expected'[p] = Len(chain') \/ e = "refused"
    BY <1>1, <1>2, <1>3, <1>5, AppendProperties
  <2>4. e # "none"
    BY <1>1, <1>2, <1>3, <1>5, AppendProperties
  <2>5. Pursued'
    BY <1>1, <1>3, <1>4, <2>1, <2>3, <2>4
       DEF Called, memory, store, sidecar, JInv, Pursued, Committing, Creating, Reviewing, Latest
  <2>6. Reviewed'
    BY <1>3, <1>4, <2>1, ReviewedKept DEF Called, memory, JInv
  <2> QED BY <2>2, <2>5, <2>6 DEF JInv
<1>6. CASE chain' = Append(chain, v) /\ expected[p] = Len(chain)
  <2>1. /\ Len(chain') = Len(chain) + 1 /\ chain' # <<>> /\ chain'[Len(chain')] = v
        /\ \A i \in 1..Len(chain) : chain'[i] = chain[i]
        /\ DOMAIN chain' = 1..Len(chain) + 1 /\ DOMAIN chain = 1..Len(chain)
        /\ chain' \in Seq(Verdicts)
    BY <1>1, <1>2, <1>6, AppendProperties, LenProperties
  <2>2. Decided' = Decided \cup {p}
    <3>1. Decided' = {chain'[i].proposal : i \in 1..Len(chain) + 1}
      BY <2>1 DEF Decided, DecidedIn
    <3>2. Decided = {chain[i].proposal : i \in 1..Len(chain)}
      BY <2>1 DEF Decided, DecidedIn
    <3>3. chain'[Len(chain) + 1].proposal = p
      BY <1>2, <2>1
    <3>4. 1..Len(chain) + 1 = 1..Len(chain) \cup {Len(chain) + 1}
      BY <1>1
    <3> QED BY <2>1, <3>1, <3>2, <3>3, <3>4
  <2>3. Registered'
    <3>1. \A q \in refs : expected[q] \in 0..Len(chain')
      BY <1>1, <2>1 DEF JInv, Registered
    <3>2. \A i \in DOMAIN chain' : /\ chain'[i].proposal \in refs
                                  /\ expected[chain'[i].proposal] = i - 1
                                  /\ intent[chain'[i].proposal] = chain'[i].disposition
      <4>1. ASSUME NEW i \in 1..Len(chain)
            PROVE  /\ chain'[i].proposal \in refs
                   /\ expected[chain'[i].proposal] = i - 1
                   /\ intent[chain'[i].proposal] = chain'[i].disposition
        BY <2>1 DEF JInv, Registered
      <4>2. /\ chain'[Len(chain) + 1] = v /\ Len(chain) + 1 - 1 = Len(chain)
        BY <1>1, <2>1
      <4> QED BY <1>1, <1>2, <1>6, <2>1, <4>1, <4>2
    <3> QED BY <1>1, <2>2, <3>1, <3>2 DEF JInv, Registered
  <2>4. Led'
    <3>1. \A n \in 0..Len(chain) : Before(n)' = Before(n)
      BY <1>1, <1>2, <1>6, BeforeAppend DEF Before
    <3>2. \A q \in refs : expected[q] \in 0..Len(chain)
      BY DEF JInv, Registered
    <3>3. \A q \in refs : base'[q] = Before(expected[q])'
      BY <1>1, <3>1, <3>2 DEF JInv, Led, disk, Before
    <3>4. \A q \in refs : expected[q] # Len(chain')
      BY <1>1, <2>1, <3>2
    <3>5. pointer = HeadRevision(chain)
      BY <1>1, <1>6 DEF JInv, Led
    <3>6. Before(Len(chain) - 1)' = HeadRevision(chain)
      <4>1. Len(chain') - 1 = Len(chain)
        BY <1>1, <2>1
      <4>2. Before(Len(chain)) = HeadRevision(chain)
        BY <1>1, SubSeqFull DEF Before
      <4>3. SubSeq(chain', 1, Len(chain)) = SubSeq(chain, 1, Len(chain))
        BY <1>1, <1>2, <1>6, BeforeAppend
      <4> QED BY <4>1, <4>2, <4>3 DEF Before
    <3>7. \/ pointer' = HeadRevision(chain')
          \/ chain'[Len(chain')].disposition = Adopt /\ pointer' = Before(Len(chain) - 1)'
      BY <1>1, <1>2, <1>6, <2>1, <3>5, <3>6, HeadAppend DEF store
    <3>8. \A q \in Proposals : decisionFile'[q] # None => q \in Decided' /\ decisionFile'[q] = intent'[q]
      BY <1>1, <2>2 DEF JInv, Led, disk
    <3> QED BY <1>1, <2>1, <3>3, <3>4, <3>7, <3>8 DEF Led, Before
  <2>5. OneOpenReview'
    BY <1>1, <2>2 DEF JInv, OneOpenReview
  <2>6. Latest(p)' /\ expected[p] # Len(chain')
    <3>1. chain' # <<>> /\ chain'[Len(chain')].proposal = op'.proposal
      BY <1>2, <1>4, <2>1
    <3>2. expected[p] # Len(chain')
      <4>1. \A n \in Nat : n # n + 1
        OBVIOUS
      <4>2. expected[p] = Len(chain) /\ Len(chain') = Len(chain) + 1 /\ Len(chain) \in Nat
        BY <1>1, <1>6, <2>1
      <4> QED BY <4>1, <4>2, Zenon
    <3> QED BY <3>1, <3>2 DEF Latest
  <2>7. Pursued'
    BY <1>1, <1>3, <1>4, <2>6
       DEF Called, memory, store, JInv, Pursued, Committing, Creating, Reviewing
  <2>8. active # None => active = p /\ op.kind # "none"
    BY <1>1 DEF JInv, Pursued, Reviewing, IInv, Control, TypeOK, ControlOK, Kinds
  <2>9. Reviewed'
    BY <1>1, <1>3, <1>4, <2>6, <2>8 DEF Called, memory, JInv, Reviewed, Latest
  <2> QED BY <2>3, <2>4, <2>5, <2>7, <2>9 DEF JInv
<1> QED BY <1>3, <1>5, <1>6

LEMMA RequeryReviewRecords ==
  ASSUME IInv, JInv, RequeryReview
  PROVE  JInv'
<1> DEFINE p == op.proposal
           o == Observed(p)
<1>1. /\ p \in Proposals /\ row[p] # None /\ pc = "requery" /\ op.kind # "create"
      /\ row[p] \in Unsettled /\ intent[p] \in Dispositions /\ intent[p] # None
      /\ op.error \in {"none", "storage", "refused"}
      /\ op.error = "none" => expected[p] # Len(chain)
      /\ op.error # "refused" => Latest(p)
      /\ row \in [Proposals -> Outcomes \cup {"committed", None}]
      /\ UNCHANGED <<disk, store, chain, refs, expected, intent>>
  BY NoneAssumption DEF RequeryReview, IInv, Control, Journalled, Working, TypeOK, SidecarOK,
     ControlOK, JInv, Pursued, Creating
<1>2. /\ o \in Outcomes \cup {"committed"}
      /\ o = "committed" => p \in Decided
      /\ o \notin {"denied", "committed"} => expected[p] = Len(chain) /\ o = row[p]
  BY <1>1, ObservedRecords
<1>3. None \notin Outcomes \cup {"committed"} /\ row[p] # "denied"
  BY <1>1, NoneAssumption DEF Unsettled
<1> HIDE DEF o
<1>4. ASSUME NEW r \in Outcomes, r # "pending", row' = [row EXCEPT ![p] = r], Open(r),
             r # "denied" => Latest(p)
      PROVE  JInv'
  <2>1. Registered' /\ Led' /\ OneOpenReview'
    BY <1>1, <1>3, <1>4, RowRecords DEF Outcomes
  <2>2. row'[p] = r
    BY <1>1, <1>4
  <2>3. Pursued' /\ Reviewed'
    BY <1>1, <1>4, <2>2, OpenRecords
  <2> QED BY <2>1, <2>3 DEF JInv
<1>5. ASSUME row' = [row EXCEPT ![p] = Resolve(o)],
             IF Resolve(o) = "committed" THEN Goto("receipt") ELSE Open(Resolve(o))
      PROVE  JInv'
  <2>1. CASE Resolve(o) = "committed"
    <3>1. p \in Decided /\ row'[p] = "committed"
      BY <1>1, <1>2, <1>5, <2>1 DEF Resolve
    <3>2. /\ Registered' /\ Led' /\ OneOpenReview'
          /\ \A q \in Proposals \ {p} : row'[q] = row[q]
      BY <1>1, <1>3, <1>5, <2>1, <3>1, RowRecords
    <3> QED BY <1>1, <1>3, <1>5, <2>1, <3>1, <3>2, ReceivedRecords
  <2>2. CASE Resolve(o) # "committed"
    <3>1. /\ Resolve(o) \in Outcomes /\ Resolve(o) # "pending"
          /\ Resolve(o) # "denied" => Latest(p)
      BY <1>1, <1>2, <2>2 DEF Resolve, Outcomes, Latest
    <3> QED BY <1>4, <1>5, <2>2, <3>1
  <2> QED BY <2>1, <2>2
<1>6. ASSUME row' \in {row, [row EXCEPT ![p] = o]}, Abort PROVE JInv'
  <2>1. Registered' /\ Led' /\ OneOpenReview'
    BY <1>1, <1>2, <1>3, <1>6, RowRecords
  <2>2. Ended /\ (op.kind = "startup" => active' = None)
    BY <1>1, <1>6, AbortEnds DEF Abort, Halt
  <2>3. Pursued' /\ Reviewed'
    BY <1>1, <1>3, <2>2, EndedRecords
  <2> QED BY <2>1, <2>3 DEF JInv
<1>7. ASSUME row' = [row EXCEPT ![p] = Resolve("unknown")], Open(Resolve("unknown"))
      PROVE  JInv'
  <2>1. /\ Resolve("unknown") \in Outcomes /\ Resolve("unknown") # "pending"
        /\ Resolve("unknown") # "denied" => op.error # "refused" \/ op.kind = "decide"
    BY <1>1 DEF Resolve, Outcomes
  <2>2. op.kind = "decide" => Latest(p)
    BY <1>1, <1>3, ConstantsAssumption DEF JInv, Pursued, Reviewed
  <2> QED BY <1>1, <1>4, <1>7, <2>1, <2>2
<1> QED BY <1>5, <1>6, <1>7 DEF RequeryReview, o

-----------------------------------------------------------------------------
(* The Decision that moves Accepted is the head of the Ref. *)

LEMMA PersistDecisionRecords ==
  ASSUME IInv, JInv, PersistDecision
  PROVE  JInv'
<1> DEFINE p == op.proposal
<1>1. /\ p \in Proposals /\ pc = "receipt" /\ row[p] = "committed" /\ p \in Decided
      /\ op.kind \in {"decide", "reconcile", "startup"}
      /\ chain \in Seq(Verdicts) /\ Len(chain) \in Nat
      /\ UNCHANGED sidecar /\ UNCHANGED <<base, pointer>>
  BY LenProperties DEF PersistDecision, IInv, Control, TypeOK, ControlOK, SidecarOK, Kinds, JInv, Pursued, Creating,
     Registered, store
<1>2. PICK i \in DOMAIN chain : chain[i].proposal = p /\ expected[p] = i - 1
                              /\ chain[i].disposition = intent[p]
  BY <1>1 DEF Decided, DecidedIn, JInv, Registered
<1>3. i \in 1..Len(chain) /\ expected[p] # Len(chain)
  BY <1>1, <1>2, LenProperties
<1>4. decisionFile' \in {decisionFile, [decisionFile EXCEPT ![p] = intent[p]]}
  BY DEF PersistDecision
<1>5. Registered' /\ OneOpenReview'
  BY <1>1 DEF JInv, sidecar, Registered, OneOpenReview, Decided
<1>6. Led'
  <2>1. \A q \in Proposals : decisionFile'[q] # None => q \in Decided /\ decisionFile'[q] = intent[q]
    BY <1>1, <1>4 DEF JInv, Led, IInv, TypeOK, DiskOK
  <2> QED BY <1>1, <2>1 DEF JInv, Led, Before, sidecar, Decided
<1>7. CASE Abort \/ Reject
  BY <1>1, <1>5, <1>6, <1>7, AbortEnds, EndedKept DEF JInv
<1>8. CASE /\ op.kind = "startup" /\ pc' \in {"recommit", "lineage"}
           /\ UNCHANGED <<phase, op, revision, active, outcome, grants>>
  <2>1. Pursued'
    BY <1>1, <1>8 DEF JInv, Pursued, Committing, Creating, Reviewing
  <2>2. Reviewed'
    BY <1>1, <1>8, ReviewedKept DEF JInv
  <2> QED BY <1>5, <1>6, <2>1, <2>2 DEF JInv
<1>9. CASE op.kind # "startup" /\ Goto(AfterDecision(p))
  <2>1. active = p /\ p # None
    BY <1>1, <1>9, ConstantsAssumption DEF JInv, Pursued
  <2>2. chain # <<>> /\ chain[Len(chain)].proposal = p
    BY <1>1, <1>3, <2>1 DEF JInv, Reviewed, Latest
  <2>3. i = Len(chain)
    <3>1. Len(chain) \in DOMAIN chain
      BY <1>1, <2>2, LenProperties, EmptySeq
    <3>2. expected[p] = Len(chain) - 1
      BY <2>2, <3>1 DEF JInv, Registered
    <3> QED BY <1>1, <1>2, <1>3, <3>2
  <2>4. intent[p] = Adopt => p = HeadRevision(chain)
    BY <1>1, <1>2, <2>2, <2>3, HeadLast
  <2>5. Pursued'
    BY <1>1, <1>9, <2>4
       DEF AfterDecision, Goto, memory, sidecar, JInv, Pursued, Committing, Creating, Reviewing
  <2>6. Reviewed'
    BY <1>1, <1>9, ReviewedKept DEF Goto, memory, JInv
  <2> QED BY <1>5, <1>6, <2>5, <2>6 DEF JInv
<1> QED BY <1>7, <1>8, <1>9 DEF PersistDecision

\* No Decision was taken after one whose adoption Accepted has not followed.
LEMMA UnappliedIsHead ==
  ASSUME IInv, JInv, NEW p \in Proposals, decisionFile[p] = Adopt,
         base[p] = pointer, pointer # p
  PROVE  p = HeadRevision(chain)
<1>1. chain \in Seq(Verdicts) /\ Len(chain) \in Nat /\ DOMAIN chain = 1..Len(chain)
  BY LenProperties DEF IInv, TypeOK, SidecarOK
<1>2. PICK i \in 1..Len(chain) : /\ chain[i].proposal = p /\ expected[p] = i - 1
                                /\ chain[i].disposition = Adopt /\ p \in refs
  <2>1. p \in Decided /\ intent[p] = Adopt
    BY NoneAssumption DEF JInv, Led, Dispositions
  <2> QED BY <1>1, <2>1 DEF Decided, DecidedIn, JInv, Registered
<1>3. pointer = Before(i - 1)
  BY <1>2 DEF JInv, Led
<1>4. CASE i = Len(chain)
  <2>1. chain # <<>>
    BY <1>1, <1>2, EmptySeq
  <2> QED BY <1>1, <1>2, <1>4, <2>1, HeadLast
<1>5. CASE i # Len(chain)
  <2> DEFINE n == Len(chain) - 1
             c == SubSeq(chain, 1, n)
             b == SubSeq(chain, 1, i - 1)
  <2>1. n \in Nat /\ i \in 1..n /\ i - 1 \in Nat
    <3>1. \A L \in Nat : \A j \in 1..L : j # L => L - 1 \in Nat /\ j \in 1..L - 1 /\ j - 1 \in Nat
      OBVIOUS
    <3> QED BY <1>1, <1>5, <3>1
  <2>2. \A k \in 1..Len(chain) : chain[k] \in Verdicts
    BY <1>1, ElementOfSeq
  <2>3. /\ c \in Seq(Verdicts) /\ DOMAIN c = 1..n
        /\ \A k \in 1..n : c[k] = chain[k]
    <3>1. \A k \in 1..n : chain[k] \in Verdicts
      BY <1>1, <2>1, <2>2
    <3> HIDE DEF n
    <3> QED BY <2>1, <3>1, SubSeqProperties, LenProperties
  <2>4. /\ b \in Seq(Verdicts) /\ DOMAIN b = 1..i - 1
        /\ \A k \in 1..i - 1 : b[k] = chain[k]
    <3>1. \A k \in 1..i - 1 : chain[k] \in Verdicts
      BY <1>1, <1>2, <2>2
    <3> QED BY <1>2, <2>1, <3>1, SubSeqProperties, LenProperties
  <2>5. \E k \in 1..Len(chain) : k >= i /\ pointer = chain[k].proposal
    <3>1. CASE pointer = HeadRevision(chain)
      BY <1>1, <1>2, <3>1, HeadFrom
    <3>2. CASE pointer = Before(n)
      <4>1. pointer = HeadRevision(c) /\ i \in DOMAIN c /\ c[i].disposition = Adopt
        BY <1>2, <2>1, <2>3, <3>2 DEF Before
      <4>2. PICK k \in DOMAIN c : k >= i /\ pointer = c[k].proposal
        <5> HIDE DEF c
        <5> QED BY <2>3, <4>1, HeadFrom
      <4>3. k \in 1..Len(chain) /\ c[k] = chain[k]
        BY <1>1, <2>1, <2>3, <4>2
      <4> QED BY <4>2, <4>3
    <3> QED BY <3>1, <3>2 DEF JInv, Led
  <2>6. PICK k \in 1..Len(chain) : k >= i /\ pointer = chain[k].proposal
    BY <2>5
  <2>7. \/ pointer = Genesis
        \/ \E m \in 1..i - 1 : pointer = chain[m].proposal
    <3> HIDE DEF b
    <3>1. pointer = HeadRevision(b)
      BY <1>3 DEF Before, b
    <3> QED BY <2>4, <3>1, HeadIs
  <2>8. pointer # Genesis
    BY <2>2, <2>6, GenesisAssumption DEF Verdicts
  <2>9. PICK m \in 1..i - 1 : pointer = chain[m].proposal
    BY <2>7, <2>8
  <2>10. expected[pointer] = k - 1 /\ expected[pointer] = m - 1
    <3>1. \A L \in Nat : \A j \in 1..L : 1..j - 1 \subseteq 1..L
      OBVIOUS
    <3>2. m \in DOMAIN chain /\ k \in DOMAIN chain
      BY <1>1, <2>6, <2>9, <3>1
    <3> QED BY <2>6, <2>9, <3>2 DEF JInv, Registered
  <2>11. k = m
    <3>1. k \in Int /\ m \in Int
      BY <2>6, <2>9
    <3>2. k - 1 = m - 1
      BY <2>10
    <3> QED BY <3>1, <3>2
  <2> QED BY <1>2, <2>6, <2>9, <2>11
<1> QED BY <1>4, <1>5

LEMMA RecoverAcceptedRecords ==
  ASSUME IInv, JInv, RecoverAccepted
  PROVE  JInv'
<1> DEFINE target == Logical(Len(order))
<1>1. /\ pc = "recommit" /\ op.kind = "startup" /\ revision = pointer
      /\ UNCHANGED sidecar /\ UNCHANGED <<base, pointer, decisionFile>>
  BY DEF RecoverAccepted, IInv, Control, JInv, Pursued, disk, store
<1>2. Registered' /\ Led' /\ OneOpenReview'
  BY <1>1, RecordsKept
<1>3. CASE Halt("refused")
  BY <1>1, <1>3, HaltRecords
<1>4. CASE Goto("completions")
  <2>1. Pursued'
    BY <1>1, <1>4 DEF Goto, memory, JInv, Pursued, Committing, Creating, Reviewing
  <2>2. Reviewed'
    BY <1>1, <1>4, ReviewedKept DEF Goto, memory, JInv
  <2> QED BY <1>2, <2>1, <2>2 DEF JInv
<1>5. CASE /\ revision # target
           /\ target \in {order[i] : i \in AdoptedUpTo(Len(order))}
           /\ base[target] = revision
           /\ op' = [op EXCEPT !.proposal = target]
           /\ pc' = "materialize"
           /\ UNCHANGED <<phase, index, memory>>
  <2>1. target \in Proposals /\ decisionFile[target] = Adopt
    <3>1. PICK i \in AdoptedUpTo(Len(order)) : target = order[i]
      BY <1>5
    <3> HIDE DEF target
    <3>2. order \in Seq(Proposals) /\ i \in 1..Len(order) /\ decisionFile[order[i]] = Adopt
      BY <3>1 DEF IInv, TypeOK, DiskOK, AdoptedUpTo
    <3> QED BY <3>1, <3>2, ElementOfSeq
  <2> HIDE DEF target
  <2>2. target = HeadRevision(chain)
    BY <1>1, <1>5, <2>1, UnappliedIsHead
  <2>3. op'.proposal = target /\ op'.kind = "startup"
    BY <1>1, <1>5 DEF IInv, TypeOK, ControlOK
  <2>4. Pursued'
    BY <1>1, <1>5, <2>2, <2>3 DEF memory, sidecar, JInv, Pursued, Committing, Creating, Reviewing
  <2>5. Reviewed'
    BY <1>1, <1>5, <2>3, ReviewedKept DEF memory, JInv
  <2> QED BY <1>2, <2>4, <2>5 DEF JInv
<1> QED BY <1>3, <1>4, <1>5 DEF RecoverAccepted

-----------------------------------------------------------------------------
(* The invariant holds. *)

LEMMA InitRecords == Init => JInv
<1> SUFFICES ASSUME Init PROVE JInv
  OBVIOUS
<1>1. chain = <<>> /\ DOMAIN chain = {} /\ Len(chain) = 0
  BY DEF Init
<1>2. HeadRevision(chain) = Genesis
  BY <1>1 DEF HeadRevision
<1>3. Registered
  BY <1>1, NoneAssumption DEF Init, Registered
<1>4. Pursued
  BY DEF Init, Pursued, NoOp, Handler, Committing
<1>5. Reviewed
  BY DEF Init, Reviewed
<1>6. Led
  BY <1>2 DEF Init, Led
<1>7. OneOpenReview
  BY DEF Init, OneOpenReview
<1> QED BY <1>3, <1>4, <1>5, <1>6, <1>7 DEF JInv

LEMMA StepRecords ==
  ASSUME IInv, JInv, Step
  PROVE  JInv'
<1>1. MaterializeRevision \/ UnlinkSite \/ LinkSite => JInv'
  BY CommitRecords DEF MaterializeRevision, UnlinkSite, LinkSite, Committing
<1> QED BY <1>1, PrepareProposalRecords, PublishProposalRecords, RegisterReviewRecords,
   BindProposalRecords, RegisterIntentRecords, QueryReviewRecords, CallSynapseRecords,
   RequeryReviewRecords, PersistDecisionRecords, AdvancePointerRecords,
   CompleteDecisionRecords, RecoverProposalRecords, RecoverAcceptedRecords,
   RecoverCompletionsRecords DEF Step

LEMMA RequestRecords ==
  ASSUME IInv, JInv, Request
  PROVE  JInv'
<1>1. ASSUME NEW t \in Tokens, NEW d \in Dispositions, CreateApproval(t, d) PROVE JInv'
  BY <1>1, GrantsRecords DEF CreateApproval
<1>2. ASSUME NEW t \in Tokens, ExpireApproval(t) PROVE JInv'
  BY <1>2, GrantsRecords DEF ExpireApproval
<1> QED BY <1>1, <1>2, CreateProposalRecords, CreateDecisionRecords, ReconcileReviewRecords,
   CleanupFailedProposalRecords DEF Request

LEMMA NextRecords == IInv /\ JInv /\ [Next]_vars => JInv'
<1> SUFFICES ASSUME IInv, JInv, [Next]_vars PROVE JInv'
  OBVIOUS
<1>1. CASE Crash \/ Stop
  BY <1>1, HaltRecords DEF Crash, Stop, disk, store
<1>2. CASE UNCHANGED vars
  BY <1>2, GrantsRecords DEF vars, memory
<1> QED BY <1>1, <1>2, StepRecords, RequestRecords, StartRecords DEF Next

LEMMA RecordsInvariance == Spec => []JInv
BY InitRecords, NextRecords, Invariance, PTL DEF Spec

\* At most one Proposal waits for a Decision, whatever failed in create_proposal
\* and however often it was repeated: begin_proposal refuses a second Ref, and
\* neither a Decision nor a denial is ever taken back.
THEOREM OneReviewAtATime == Spec => []OneOpenReview
<1>1. JInv => OneOpenReview
  BY DEF JInv
<1> QED BY <1>1, RecordsInvariance, PTL

\* A review the served project offers for a Decision has no registered intent:
\* a handler that failed after registering one left the review to
\* reconciliation, so no browser can ask for another disposition.
THEOREM OfferedReviewsAreUndecided == Spec => []OpenReviewHasNoIntent
<1>1. IInv /\ JInv => OpenReviewHasNoIntent
  BY DEF IInv, Control, JInv, Reviewed, Serving, OpenReviewHasNoIntent
<1> QED BY <1>1, Invariance, RecordsInvariance, PTL

-----------------------------------------------------------------------------
(* The records of SynapseGit are final. *)

LEMMA SidecarSteps ==
  ASSUME Next
  PROVE  \/ UNCHANGED sidecar
         \/ PublishProposal \/ RegisterReview \/ RegisterIntent
         \/ QueryReview \/ CallSynapse \/ RequeryReview
<1>1. CASE Request
  BY <1>1 DEF Request, CreateProposal, CreateApproval, ExpireApproval, CreateDecision,
     ReconcileReview, CleanupFailedProposal, Enter
<1>2. CASE Step
  BY <1>2 DEF Step, PrepareProposal, BindProposal, PersistDecision, MaterializeRevision,
     UnlinkSite, LinkSite, AdvancePointer, CompleteDecision, RecoverProposal, RecoverAccepted,
     RecoverCompletions, store
<1>3. CASE Crash \/ Stop \/ Start
  BY <1>3 DEF Crash, Stop, Start
<1> QED BY <1>1, <1>2, <1>3 DEF Next

Final ==
  /\ Len(chain) <= Len(chain')
  /\ \A i \in DOMAIN chain : chain'[i] = chain[i]
  /\ \A p \in Proposals :
       /\ intent[p] # None => intent'[p] = intent[p]
       /\ row[p] \in {"denied", "committed"} => row'[p] = row[p]

LEMMA FinalStep ==
  ASSUME IInv, JInv, [Next]_vars
  PROVE  Final
<1>1. /\ chain \in Seq(Verdicts) /\ Len(chain) \in Nat /\ DOMAIN chain = 1..Len(chain)
      /\ row \in [Proposals -> Outcomes \cup {"committed", None}]
      /\ intent \in [Proposals -> Dispositions \cup {None}]
  BY LenProperties DEF IInv, TypeOK, SidecarOK
<1>2. CASE UNCHANGED sidecar
  BY <1>1, <1>2 DEF sidecar, Final
<1>3. CASE PublishProposal
  BY <1>1, <1>3 DEF PublishProposal, Final
<1>4. CASE RegisterReview
  <2>1. \A q \in Proposals : row[q] # None => row'[q] = row[q]
    BY <1>1, <1>4 DEF RegisterReview
  <2> QED BY <1>1, <1>4, <2>1, NoneAssumption DEF RegisterReview, Final, Outcomes
<1>5. CASE RegisterIntent
  BY <1>1, <1>5 DEF RegisterIntent, Final
<1>6. CASE QueryReview
  <2> DEFINE p == op.proposal
             o == Observed(p)
  <2>1. p \in Proposals /\ row[p] # None
    BY <1>6 DEF QueryReview, IInv, Control, Journalled, Working
  <2>2. /\ row[p] = "committed" => o = "committed"
        /\ row[p] = "denied" => o \in {"denied", "committed"}
    BY <2>1, ObservedRecords
  <2> DEFINE Kept(r) == row' = [row EXCEPT ![p] = r] /\ (row[p] \in {"denied", "committed"} => r = row[p])
  <2>3. row' = row \/ \E r : Kept(r)
    <3> HIDE DEF o
    <3>1. ASSUME ~Contradicted(p), row' = [row EXCEPT ![p] = o] PROVE Kept(o)
      BY <2>2, <3>1 DEF Contradicted, o
    <3>2. ASSUME row' = [row EXCEPT ![p] = IF Contradicted(p) THEN "denied" ELSE o]
          PROVE  Kept(IF Contradicted(p) THEN "denied" ELSE o)
      BY <2>2, <3>2 DEF Contradicted, o
    <3>3. ASSUME row[p] # "committed",
                 row' = [row EXCEPT ![p] = IF row[p] = "denied" THEN "denied" ELSE "unknown"]
          PROVE  Kept(IF row[p] = "denied" THEN "denied" ELSE "unknown")
      BY <3>3
    <3> HIDE DEF Kept
    <3> QED BY <1>6, <3>1, <3>2, <3>3 DEF QueryReview, o
  <2>4. \A q \in Proposals : row[q] \in {"denied", "committed"} => row'[q] = row[q]
    BY <1>1, <2>1, <2>3
  <2> QED BY <1>1, <1>6, <2>4 DEF QueryReview, Final
<1>7. CASE CallSynapse
  <2>1. Verdict(op.proposal, intent[op.proposal]) \in Verdicts
    BY <1>7 DEF CallSynapse, IInv, Control, Verdict, Verdicts
  <2>2. chain' \in {chain, Append(chain, Verdict(op.proposal, intent[op.proposal]))}
    BY <1>7 DEF CallSynapse
  <2>3. Len(chain) <= Len(chain') /\ \A i \in 1..Len(chain) : chain'[i] = chain[i]
    BY <1>1, <2>1, <2>2, AppendProperties
  <2> QED BY <1>1, <1>7, <2>3 DEF CallSynapse, Final
<1>8. CASE RequeryReview
  <2>1. op.proposal \in Proposals /\ row[op.proposal] \notin {"denied", "committed"}
    BY <1>8 DEF RequeryReview, IInv, Control, JInv, Pursued, Unsettled
  <2>2. \E r : row' \in {row, [row EXCEPT ![op.proposal] = r]}
    BY <1>8 DEF RequeryReview
  <2> QED BY <1>1, <1>8, <2>1, <2>2 DEF RequeryReview, Final
<1>9. CASE UNCHANGED vars
  BY <1>2, <1>9 DEF vars
<1> QED BY <1>2, <1>3, <1>4, <1>5, <1>6, <1>7, <1>8, <1>9, SidecarSteps

\* What SynapseGit has recorded stays through retries, lost answers, an
\* unreadable repository and restarts: the chain only grows, an intent never
\* changes its disposition, and a denied or committed row is final.
THEOREM RecordsStay == Spec => RecordsAreFinal
<1>1. IInv /\ JInv /\ [Next]_vars =>
        [/\ Len(chain) <= Len(chain')
         /\ \A i \in DOMAIN chain : chain'[i] = chain[i]
         /\ \A p \in Proposals :
              /\ intent[p] # None => intent'[p] = intent[p]
              /\ row[p] \in {"denied", "committed"} => row'[p] = row[p]]_vars
  BY FinalStep DEF Final
<1> QED BY <1>1, Invariance, RecordsInvariance, PTL DEF Spec, RecordsAreFinal

-----------------------------------------------------------------------------
(* The refinement of HumanDecision. *)

\* The Proposal a served project shows for a Decision is about the state
\* Accepted is in, and no Decision was taken about it.
LEMMA OpenForDecision ==
  ASSUME IInv, JInv, active # None, outcome = "pending", op.kind # "decide"
  PROVE  active \notin Decided /\ pointer = HeadRevision(chain)
<1>1. /\ active \in refs /\ intent[active] = None /\ Latest(active)
      /\ chain \in Seq(Verdicts)
  BY DEF IInv, TypeOK, MemoryOK, SidecarOK, Journalled, JInv, Registered, Reviewed
<1>2. ASSUME active \in Decided PROVE FALSE
  <2>1. PICK i \in DOMAIN chain : chain[i].proposal = active
    BY <1>2 DEF Decided, DecidedIn
  <2>2. chain[i] \in Verdicts
    BY <1>1, <2>1, LenProperties, ElementOfSeq
  <2>3. intent[active] \in Dispositions
    BY <2>1, <2>2 DEF JInv, Registered, Verdicts
  <2> QED BY <1>1, <2>3, NoneAssumption
<1>3. expected[active] = Len(chain)
  <2>1. ASSUME chain # <<>>, chain[Len(chain)].proposal = active PROVE FALSE
    <3>1. Len(chain) \in DOMAIN chain
      BY <1>1, <2>1, LenProperties, EmptySeq
    <3> QED BY <1>2, <2>1, <3>1 DEF Decided, DecidedIn
  <2> QED BY <1>1, <2>1 DEF Latest
<1> QED BY <1>1, <1>2, <1>3 DEF JInv, Led

\* The operators of DecisionChain mean the same in HumanDecision.
LEMMA SameChain ==
  /\ \A c : Abstract!DecidedIn(c) = DecidedIn(c)
  /\ \A c : Abstract!HeadRevision(c) = HeadRevision(c)
  /\ Abstract!Verdicts = Verdicts
<1>1. \A S : Abstract!Max(S) = Max(S)
  BY DEF Abstract!Max, Max
<1>2. Abstract!Adopt = Adopt
  BY DEF Abstract!Adopt, Adopt
<1>3. \A c : Abstract!HeadRevision(c) = HeadRevision(c)
  BY <1>1, <1>2 DEF Abstract!HeadRevision, HeadRevision
<1>4. \A c : Abstract!DecidedIn(c) = DecidedIn(c)
  BY DEF Abstract!DecidedIn, DecidedIn
<1>5. Abstract!Verdicts = Verdicts
  BY DEF Abstract!Verdicts, Abstract!Dispositions, Abstract!Adopt, Verdicts, Dispositions, Adopt
<1> QED BY <1>3, <1>4, <1>5

Shown == <<pointer, chain, consumed>>

LEMMA CreateDecisionAuthorises ==
  ASSUME IInv, JInv, NEW t \in Tokens, CreateDecision(t)
  PROVE  [Abstract!HNext]_Shown
<1> DEFINE v == Verdict(active, grants[t].disposition)
<1>1. /\ active # None /\ outcome = "pending" /\ op.kind # "decide"
      /\ UNCHANGED <<pointer, chain>> /\ consumed' = consumed \cup {v}
      /\ grants[t] \in Bindings /\ active \in Proposals
  <2>1. /\ active # None /\ outcome = "pending" /\ pc = "idle" /\ grants[t] # None
        /\ UNCHANGED <<pointer, chain>> /\ consumed' = consumed \cup {v}
    BY DEF CreateDecision, Enter, Serving, store, sidecar
  <2>2. op.kind # "decide"
    BY <2>1 DEF IInv, Control
  <2>3. grants[t] \in Bindings /\ active \in Proposals
    BY <2>1 DEF IInv, TypeOK, MemoryOK
  <2> QED BY <2>1, <2>2, <2>3
<1>2. v \in Verdicts /\ v.proposal = active
  BY <1>1 DEF Verdict, Verdicts, Bindings
<1>3. active \notin Decided /\ pointer = HeadRevision(chain)
  BY <1>1, OpenForDecision
<1>4. /\ v.proposal \notin Abstract!DecidedIn(chain)
      /\ pointer = Abstract!HeadRevision(chain)
      /\ v \in Abstract!Verdicts
  BY <1>2, <1>3, SameChain DEF Decided
<1> HIDE DEF v
<1>5. Abstract!Authorise(v)
  BY <1>1, <1>4 DEF Abstract!Authorise
<1> QED BY <1>4, <1>5 DEF Abstract!HNext

\* The Ref moves by compare-and-swap from the length the Proposal was
\* published against, with an intent a person has authorised.
LEMMA CallSynapseDecides ==
  ASSUME IInv, JInv, CallSynapse
  PROVE  [Abstract!HNext]_Shown
<1> DEFINE p == op.proposal
           v == Verdict(p, intent[p])
<1>1. /\ UNCHANGED <<pointer, consumed>>
      /\ \/ chain' = chain
         \/ chain' = Append(chain, v) /\ expected[p] = Len(chain)
  BY DEF CallSynapse, store, ghosts
<1>2. CASE chain' = chain
  BY <1>1, <1>2 DEF Shown
<1>3. CASE chain' = Append(chain, v) /\ expected[p] = Len(chain)
  <2>1. /\ p \in Proposals /\ p \in refs /\ intent[p] \in Dispositions
        /\ chain \in Seq(Verdicts)
    <3>1. pc = "call"
      BY DEF CallSynapse
    <3>2. p \in Proposals /\ intent[p] \in Dispositions /\ row[p] # None
      BY <3>1 DEF IInv, Control, Journalled, Working
    <3>3. p \in refs
      BY <3>2 DEF JInv, Registered
    <3>4. chain \in Seq(Verdicts)
      BY DEF IInv, TypeOK, SidecarOK
    <3> QED BY <3>2, <3>3, <3>4
  <2>2. v \in Verdicts /\ v.proposal = p
    BY <2>1 DEF Verdict, Verdicts
  <2>3. v \in consumed
    <3>1. intent[p] # None
      BY <2>1, NoneAssumption
    <3> QED BY <2>1, <3>1 DEF IInv, Authorised
  <2>4. p \notin Decided
    <3>1. SUFFICES ASSUME NEW i \in DOMAIN chain, chain[i].proposal = p PROVE FALSE
      BY DEF Decided, DecidedIn
    <3>2. expected[p] = i - 1 /\ i \in 1..Len(chain) /\ Len(chain) \in Nat
      BY <2>1, <3>1, LenProperties DEF JInv, Registered
    <3> QED BY <1>3, <3>2
  <2>5. pointer = HeadRevision(chain)
    BY <1>3, <2>1 DEF JInv, Led
  <2>6. /\ v.proposal \notin Abstract!DecidedIn(chain)
        /\ pointer = Abstract!HeadRevision(chain)
        /\ v \in Abstract!Verdicts
    BY <2>2, <2>4, <2>5, SameChain DEF Decided
  <2> HIDE DEF v
  <2>7. Abstract!Decide(v)
    BY <1>1, <1>3, <2>3, <2>6 DEF Abstract!Decide
  <2> QED BY <2>6, <2>7 DEF Abstract!HNext
<1> QED BY <1>1, <1>2, <1>3

\* current.json moves to the adoption the Ref leads to.
LEMMA AdvancePointerFollows ==
  ASSUME IInv, JInv, AdvancePointer
  PROVE  [Abstract!HNext]_Shown
<1>1. /\ UNCHANGED <<chain, consumed>>
      /\ pointer' \in {pointer, op.proposal}
  BY DEF AdvancePointer, sidecar, ghosts
<1>2. op.proposal = HeadRevision(chain)
  <2>1. pc \in Committing
    BY DEF AdvancePointer, Committing
  <2> QED BY <2>1 DEF JInv, Pursued
<1>3. CASE pointer' = pointer
  BY <1>1, <1>3 DEF Shown
<1>4. CASE pointer' # pointer
  <2>1. pointer # Abstract!HeadRevision(chain) /\ pointer' = Abstract!HeadRevision(chain)
    BY <1>1, <1>2, <1>4, SameChain
  <2>2. Abstract!Follow
    BY <1>1, <2>1 DEF Abstract!Follow
  <2> QED BY <2>2 DEF Abstract!HNext
<1> QED BY <1>3, <1>4

LEMMA ShownSteps ==
  ASSUME Next
  PROVE  \/ UNCHANGED Shown
         \/ \E t \in Tokens : CreateDecision(t)
         \/ CallSynapse
         \/ AdvancePointer
<1>1. CASE Request
  BY <1>1 DEF Request, CreateProposal, CreateApproval, ExpireApproval, ReconcileReview,
     CleanupFailedProposal, Enter, store, sidecar, ghosts, Shown
<1>2. CASE Step
  BY <1>2 DEF Step, PrepareProposal, PublishProposal, RegisterReview, BindProposal,
     RegisterIntent, QueryReview, RequeryReview, PersistDecision, MaterializeRevision,
     UnlinkSite, LinkSite, CompleteDecision, RecoverProposal, RecoverAccepted,
     RecoverCompletions, store, sidecar, ghosts, Shown
<1>3. CASE Crash \/ Stop \/ Start
  BY <1>3 DEF Crash, Stop, Start, store, sidecar, ghosts, Shown
<1> QED BY <1>1, <1>2, <1>3 DEF Next

LEMMA DecisionStep == IInv /\ JInv /\ [Next]_vars => [Abstract!HNext]_Shown
<1> SUFFICES ASSUME IInv, JInv, [Next]_vars PROVE [Abstract!HNext]_Shown
  OBVIOUS
<1>1. CASE UNCHANGED vars
  BY <1>1 DEF vars, store, sidecar, ghosts, Shown
<1>2. CASE Next
  <2>1. CASE UNCHANGED Shown
    BY <2>1
  <2> QED BY <1>2, <2>1, ShownSteps, CreateDecisionAuthorises, CallSynapseDecides,
     AdvancePointerFollows
<1> QED BY <1>1, <1>2

LEMMA DecisionInit == Init => Abstract!HInit
<1> SUFFICES ASSUME Init PROVE Abstract!HInit
  OBVIOUS
<1>1. pointer = Genesis /\ chain = <<>> /\ consumed = {}
  BY DEF Init
<1> QED BY <1>1 DEF Abstract!HInit

\* Whatever fails, crashes or is retried between the three stores, a project
\* behaves as HumanDecision says: Accepted moves only to where the Human
\* Decisions lead, a Decision is taken once about a Proposal, after a person
\* authorised that verdict, and about the revision that is then Accepted.
THEOREM ProtocolImplementsDecision == Spec => ImplementsHumanDecision
<1>1. Init => Abstract!HInit
  BY DecisionInit
<1>2. IInv /\ JInv /\ [Next]_vars => [Abstract!HNext]_(Abstract!state)
  BY DecisionStep DEF Shown, Abstract!state
<1> QED BY <1>1, <1>2, Invariance, RecordsInvariance, PTL
     DEF Spec, ImplementsHumanDecision, Abstract!HSpec

-----------------------------------------------------------------------------
(* The three durable stores: whatever fails or crashes between them, the decision *)
(* Ref leads, and the Accepted pointer and the files of the Proposals follow it   *)
(* in this order.  The inductive invariant, in parts, on top of the two above.    *)

\* completion.json comes after decision.json and, for the adoption the Ref
\* leads to, after the pointer.
Closed ==
  /\ \A p \in completed : decisionFile[p] # None
  /\ HeadRevision(chain) \in completed => pointer = HeadRevision(chain)

\* What the tail of a Decision has already written.
Finishing ==
  /\ pc \in Committing \cup {"complete"} => decisionFile[op.proposal] # None
  /\ pc = "complete" /\ intent[op.proposal] = Adopt => pointer = op.proposal

\* Proposal directory i is about the revision the directories before it lead to.
Placed(i) == base[order[i]] = Logical(i - 1)

\* What the startup has established when it reaches Proposal directory index.
Lineage ==
  op.kind = "startup" =>
    /\ \A i \in 1..index - 1 : Placed(i) /\ decisionFile[order[i]] # None
    /\ pc # "lineage" => Placed(index)
    /\ pc \in Reviewing \ {"lineage"} => op.proposal = order[index]
    /\ pc \notin Reviewing => index = Len(order)
    /\ pc \in Committing => op.proposal = Logical(Len(order))
    /\ pc = "completions" => pointer = Logical(Len(order))

KInv == Closed /\ Finishing /\ Lineage

-----------------------------------------------------------------------------
(* What keeps it. *)

LEMMA ClosedKept ==
  ASSUME KInv, UNCHANGED <<completed, decisionFile, chain, pointer>>
  PROVE  Closed'
BY DEF KInv, Closed

LEMMA IdleTail ==
  ASSUME pc' = "idle", op' = NoOp
  PROVE  Finishing' /\ Lineage'
BY DEF Finishing, Lineage, NoOp, Handler, Committing

LEMMA EndedTail == ASSUME Ended PROVE Finishing' /\ Lineage'
BY IdleTail DEF Ended

LEMMA EndedStores ==
  ASSUME KInv, Ended, UNCHANGED <<completed, decisionFile, chain, pointer>>
  PROVE  KInv'
BY ClosedKept, EndedTail DEF KInv

LEMMA LogicalKept ==
  ASSUME UNCHANGED <<order, base, decisionFile>>, NEW n
  PROVE  Logical(n)' = Logical(n) /\ Placed(n)' = Placed(n)
BY DEF Logical, AdoptedUpTo, Placed

\* A startup that stays at Proposal directory index, or has seen all of them.
LEMMA LineageKept ==
  ASSUME Lineage, UNCHANGED <<order, base, decisionFile, index>>,
         op.kind = "startup", pc # "lineage", pc' # "lineage",
         pc' \in Reviewing => pc \in Reviewing /\ op'.proposal = op.proposal,
         pc' \notin Reviewing => index = Len(order),
         pc' \in Committing => op'.proposal = Logical(Len(order)),
         pc' = "completions" => pointer' = Logical(Len(order))
  PROVE  Lineage'
<1>1. \A n : Logical(n)' = Logical(n) /\ Placed(n)' = Placed(n)
  BY LogicalKept
<1>2. \A i \in 1..index' - 1 : Placed(i)' /\ decisionFile'[order'[i]] # None
  BY <1>1 DEF Lineage
<1>3. Placed(index)'
  BY <1>1 DEF Lineage
<1>4. Logical(Len(order))' = Logical(Len(order))
  BY <1>1
<1>5. pc' \in Reviewing \ {"lineage"} => op'.proposal = order'[index']
  BY DEF Lineage
<1> QED BY <1>2, <1>3, <1>4, <1>5 DEF Lineage

\* The steps of a review, of a handler or of the startup.
Review == {"publish", "register", "bind", "intent", "query", "call", "requery", "receipt"}

LEMMA ReviewTail ==
  ASSUME IInv, KInv, UNCHANGED <<order, base, decisionFile, index>>,
         pc \in Review, pc' \in Review \ {"intent"},
         op'.kind = op.kind, op'.proposal = op.proposal
  PROVE  Finishing' /\ Lineage'
<1>1. Finishing'
  BY DEF Finishing, Review, Committing
<1>2. CASE op.kind # "startup"
  BY <1>1, <1>2 DEF Lineage
<1>3. CASE op.kind = "startup"
  <2>1. pc # "intent"
    BY <1>3 DEF IInv, Control
  <2>2. /\ pc # "lineage" /\ pc' # "lineage" /\ pc' \notin Committing /\ pc' # "completions"
        /\ pc \in Reviewing /\ pc' \in Reviewing
    BY <2>1 DEF Review, Reviewing, Committing
  <2> QED BY <1>1, <1>3, <2>2, LineageKept DEF KInv
<1> QED BY <1>2, <1>3

LEMMA GotoTail ==
  ASSUME IInv, KInv, UNCHANGED <<order, base, decisionFile>>,
         pc \in Review, NEW l \in Review \ {"intent"}, Goto(l)
  PROVE  Finishing' /\ Lineage'
BY ReviewTail DEF Goto

LEMMA OpenTail ==
  ASSUME IInv, KInv, UNCHANGED <<order, base, decisionFile>>,
         pc \in Review, NEW o, Open(o)
  PROVE  Finishing' /\ Lineage'
<1>1. ASSUME NEW h, Halt(h) PROVE Finishing' /\ Lineage'
  BY <1>1, HaltEnds, EndedTail
<1>2. CASE Answer(o)
  BY <1>2, IdleTail DEF Answer
<1>3. CASE /\ op.kind = "startup" /\ index = Len(order) /\ pc' = "recommit"
           /\ UNCHANGED <<op, index>>
  <2>1. Finishing'
    BY <1>3 DEF Finishing, Committing
  <2>2. Lineage'
    BY <1>3, LineageKept DEF KInv, Review, Reviewing, Committing
  <2> QED BY <2>1, <2>2
<1> QED BY <1>1, <1>2, <1>3 DEF Open, Settle

-----------------------------------------------------------------------------
(* create_proposal, SynapseSidecar::decide and ::resume. *)

LEMMA ProposalStores ==
  ASSUME IInv, JInv, KInv, PrepareProposal
  PROVE  KInv'
<1>1. /\ pc = "prepare" /\ op.kind = "create"
      /\ UNCHANGED <<completed, decisionFile, chain, pointer>>
  BY DEF PrepareProposal, IInv, Control, store, sidecar
<1>2. CASE Abort
  BY <1>1, <1>2, AbortEnds, EndedStores
<1>3. CASE Goto("publish")
  <2>1. Finishing' /\ Lineage'
    BY <1>1, <1>3 DEF Goto, Finishing, Lineage, Committing
  <2> QED BY <1>1, <2>1, ClosedKept DEF KInv
<1> QED BY <1>2, <1>3 DEF PrepareProposal

LEMMA ReviewStores ==
  ASSUME IInv, JInv, KInv, UNCHANGED <<order, base, decisionFile, completed, chain, pointer>>,
         pc \in Review,
         \/ Abort \/ Reject
         \/ \E l \in Review \ {"intent"} : Goto(l)
         \/ \E o : Open(o)
  PROVE  KInv'
<1>1. pc # "idle"
  BY DEF Review
<1>2. CASE Abort \/ Reject
  BY <1>1, <1>2, AbortEnds, EndedStores
<1> QED BY <1>2, GotoTail, OpenTail, ClosedKept DEF KInv

LEMMA SidecarStores ==
  ASSUME IInv, JInv, KInv,
         PublishProposal \/ RegisterReview \/ RegisterIntent \/ QueryReview \/ RequeryReview
  PROVE  KInv'
<1>1. /\ UNCHANGED <<order, base, decisionFile, completed, chain, pointer>>
      /\ pc \in Review
  BY DEF PublishProposal, RegisterReview, RegisterIntent, QueryReview, RequeryReview, disk,
     store, Review
<1>2. {"register", "bind", "query", "call", "receipt"} \subseteq Review \ {"intent"}
  BY DEF Review
<1>3. \/ Abort \/ Reject
      \/ \E l \in {"register", "bind", "query", "call", "receipt"} : Goto(l)
      \/ \E o : Open(o)
  <2>1. CASE PublishProposal
    BY <2>1 DEF PublishProposal
  <2>2. CASE RegisterReview
    BY <2>2 DEF RegisterReview
  <2>3. CASE RegisterIntent
    BY <2>3 DEF RegisterIntent
  <2>4. CASE QueryReview
    BY <2>4 DEF QueryReview
  <2>5. CASE RequeryReview
    BY <2>5 DEF RequeryReview
  <2> QED BY <2>1, <2>2, <2>3, <2>4, <2>5
<1> QED BY <1>1, <1>2, <1>3, ReviewStores

LEMMA BindProposalStores ==
  ASSUME IInv, JInv, KInv, BindProposal
  PROVE  KInv'
<1>1. /\ pc = "bind" /\ pc \in Review
      /\ UNCHANGED <<order, base, decisionFile, completed, chain, pointer>>
  BY DEF BindProposal, store, sidecar, Review
<1>2. CASE pc' = "idle" /\ op' = NoOp
  BY <1>1, <1>2, IdleTail, ClosedKept DEF KInv
<1>3. CASE Abort \/ Goto("query")
  BY <1>1, <1>3, ReviewStores DEF Review
<1> QED BY <1>2, <1>3 DEF BindProposal

\* A Decision on the Ref is about a Proposal that has no decision.json yet.
LEMMA CallSynapseStores ==
  ASSUME IInv, JInv, KInv, CallSynapse
  PROVE  KInv'
<1> DEFINE p == op.proposal
           v == Verdict(p, intent[p])
<1>1. /\ pc = "call"
      /\ UNCHANGED <<disk, pointer>>
      /\ \E e : Called(e)
      /\ \/ chain' = chain
         \/ chain' = Append(chain, v) /\ expected[p] = Len(chain)
  BY DEF CallSynapse, store
<1>2. Finishing' /\ Lineage'
  <2>1. PICK e : Called(e)
    BY <1>1
  <2>2. op'.kind = op.kind /\ op'.proposal = op.proposal
    BY <2>1 DEF Called, IInv, TypeOK, ControlOK
  <2> QED BY <1>1, <2>1, <2>2, ReviewTail DEF Called, disk, Review
<1>3. CASE chain' = chain
  BY <1>1, <1>2, <1>3, ClosedKept DEF disk, KInv
<1>4. CASE chain' = Append(chain, v) /\ expected[p] = Len(chain)
  <2>1. /\ p \in Proposals /\ intent[p] \in Dispositions /\ chain \in Seq(Verdicts)
    BY <1>1 DEF IInv, Control, TypeOK, SidecarOK
  <2>2. v \in Verdicts /\ v.proposal = p
    BY <2>1 DEF Verdict, Verdicts
  <2>3. p \notin Decided
    <3>1. SUFFICES ASSUME NEW i \in DOMAIN chain, chain[i].proposal = p PROVE FALSE
      BY DEF Decided, DecidedIn
    <3>2. expected[p] = i - 1 /\ i \in 1..Len(chain) /\ Len(chain) \in Nat
      BY <2>1, <3>1, LenProperties DEF JInv, Registered
    <3> QED BY <1>4, <3>2
  <2>4. p \notin completed
    BY <2>1, <2>3 DEF JInv, Led, KInv, Closed
  <2>5. HeadRevision(chain') \in {p, HeadRevision(chain)}
    <3> HIDE DEF v
    <3> QED BY <1>4, <2>1, <2>2, HeadAppend
  <2>6. p \in refs
    BY <1>1, <2>1 DEF IInv, Journalled, Working, JInv, Registered
  <2>7. pointer = HeadRevision(chain)
    BY <1>4, <2>6 DEF JInv, Led
  <2>8. Closed'
    BY <1>1, <2>4, <2>5, <2>7 DEF disk, KInv, Closed
  <2> QED BY <1>2, <2>8 DEF KInv
<1> QED BY <1>1, <1>3, <1>4

-----------------------------------------------------------------------------
(* The durable tail of a Decision. *)

\* decision.json is written once, from the registered intent.
LEMMA PersistDecisionStores ==
  ASSUME IInv, JInv, KInv, PersistDecision
  PROVE  KInv'
<1> DEFINE p == op.proposal
           d == intent[p]
           written == [decisionFile EXCEPT ![p] = d]
<1>1. /\ p \in Proposals /\ pc = "receipt" /\ p \in Decided
      /\ UNCHANGED <<order, base, completed, pointer, chain, intent>>
      /\ decisionFile \in [Proposals -> Dispositions \cup {None}]
      /\ decisionFile' \in {decisionFile, written}
  BY DEF PersistDecision, IInv, Control, TypeOK, DiskOK, JInv, Pursued, Registered, store,
     sidecar
<1>2. d \in Dispositions /\ d # None
  <2>1. PICK i \in DOMAIN chain : chain[i].proposal = p
    BY <1>1 DEF Decided, DecidedIn
  <2>2. chain \in Seq(Verdicts)
    BY DEF IInv, TypeOK, SidecarOK
  <2>3. chain[i] \in Verdicts
    BY <2>1, <2>2, LenProperties, ElementOfSeq
  <2>4. d = chain[i].disposition
    BY <2>1 DEF JInv, Registered
  <2> QED BY <2>3, <2>4, NoneAssumption DEF Verdicts
<1>3. \A q \in Proposals : decisionFile[q] # None => decisionFile'[q] = decisionFile[q]
  BY <1>1 DEF JInv, Led
<1>4. Closed'
  BY <1>1, <1>3 DEF KInv, Closed, IInv, TypeOK, DiskOK
<1>5. CASE Abort \/ Reject
  BY <1>1, <1>4, <1>5, AbortEnds, EndedTail DEF KInv
<1>6. CASE op.kind # "startup" /\ decisionFile' = written /\ Goto(AfterDecision(p))
  <2>1. decisionFile'[p] # None
    BY <1>1, <1>2, <1>6
  <2>2. revision = pointer
    BY <1>1 DEF JInv, Pursued
  <2>3. Finishing'
    BY <1>1, <1>6, <2>1, <2>2 DEF Goto, AfterDecision, Finishing
  <2>4. Lineage'
    BY <1>6 DEF Goto, Lineage
  <2> QED BY <1>4, <2>3, <2>4 DEF KInv
<1>7. CASE /\ op.kind = "startup" /\ decisionFile' = written
           /\ pc' = IF index = Len(order) THEN "recommit" ELSE "lineage"
           /\ index' = IF index = Len(order) THEN index ELSE index + 1
           /\ op' = op
  <2>1. Finishing'
    BY <1>7 DEF Finishing, Committing
  <2>2. /\ index \in 1..Len(order) /\ Len(order) \in Nat /\ order \in Seq(Proposals)
        /\ \A i \in 1..Len(order) : order[i] \in Proposals
    BY <1>7, LenProperties, ElementOfSeq DEF IInv, Control, TypeOK, DiskOK
  <2>3. /\ \A i \in 1..index - 1 : Placed(i) /\ decisionFile[order[i]] # None
        /\ Placed(index) /\ p = order[index]
    BY <1>1, <1>7 DEF KInv, Lineage, Reviewing
  <2>4. ASSUME NEW i \in 1..index PROVE Placed(i)' /\ (i # index => decisionFile'[order[i]] # None)
    <3>1. \A j \in 1..i - 1 : j \in 1..index - 1 /\ j \in 1..Len(order)
      BY <2>2
    <3>2. \A j \in 1..i - 1 : decisionFile'[order[j]] = decisionFile[order[j]]
      BY <1>3, <2>2, <2>3, <3>1
    <3>3. AdoptedUpTo(i - 1)' = AdoptedUpTo(i - 1)
      BY <1>1, <3>2 DEF AdoptedUpTo
    <3>4. Placed(i)
      BY <2>2, <2>3
    <3>5. Logical(i - 1)' = Logical(i - 1)
      BY <1>1, <3>3 DEF Logical
    <3>6. i # index => decisionFile[order[i]] # None /\ i \in 1..Len(order)
      BY <2>2, <2>3
    <3> QED BY <1>1, <1>3, <2>2, <3>4, <3>5, <3>6 DEF Placed
  <2>5. decisionFile'[order[index]] # None
    BY <1>1, <1>2, <1>7, <2>3
  <2>6. \A i \in 1..index : decisionFile'[order[i]] # None
    BY <2>4, <2>5
  <2>7. CASE index = Len(order)
    <3>1. pc' = "recommit" /\ index' = index /\ op'.kind = "startup" /\ order' = order
      BY <1>1, <1>7, <2>7
    <3>2. \A i \in 1..index - 1 : i \in 1..index
      BY <2>2
    <3>3. \A i \in 1..index' - 1 : Placed(i)' /\ decisionFile'[order'[i]] # None
      BY <2>4, <2>6, <3>1, <3>2
    <3>4. Placed(index)'
      <4>1. index \in 1..index
        BY <2>2
      <4>2. \A i \in 1..index : Placed(i)'
        BY <2>4
      <4> QED BY <3>1, <4>1, <4>2, Zenon DEF Placed, Logical, AdoptedUpTo
    <3> QED BY <1>4, <2>1, <2>7, <3>1, <3>3, <3>4 DEF KInv, Lineage, Reviewing, Committing
  <2>8. CASE index # Len(order)
    <3>1. pc' = "lineage" /\ index' - 1 = index /\ op'.kind = "startup" /\ order' = order
      BY <1>1, <1>7, <2>2, <2>8
    <3>2. \A i \in 1..index' - 1 : Placed(i)' /\ decisionFile'[order'[i]] # None
      BY <2>4, <2>6, <3>1
    <3> QED BY <1>4, <2>1, <3>1, <3>2 DEF KInv, Lineage, Reviewing, Committing
  <2> QED BY <2>7, <2>8
<1> QED BY <1>5, <1>6, <1>7 DEF PersistDecision

LEMMA CommitStores ==
  ASSUME IInv, JInv, KInv, MaterializeRevision \/ UnlinkSite \/ LinkSite
  PROVE  KInv'
<1>1. /\ UNCHANGED <<order, base, decisionFile, completed, pointer, chain, intent>>
      /\ pc \in Committing
      /\ Abort \/ \E l \in Committing : Goto(l)
  BY DEF MaterializeRevision, UnlinkSite, LinkSite, disk, sidecar, Committing
<1>2. CASE Abort
  BY <1>1, <1>2, AbortEnds, EndedStores DEF Committing
<1>3. ASSUME NEW l \in Committing, Goto(l) PROVE KInv'
  <2>1. Finishing'
    BY <1>1, <1>3 DEF Goto, KInv, Finishing, Committing
  <2>2. CASE op.kind # "startup"
    BY <1>1, <1>3, <2>1, <2>2, ClosedKept DEF Goto, KInv, Lineage
  <2>3. CASE op.kind = "startup"
    <3>1. /\ pc # "lineage" /\ pc' # "lineage" /\ pc \notin Reviewing /\ pc' \notin Reviewing
          /\ pc' # "completions" /\ op' = op /\ index' = index
      BY <1>1, <1>3 DEF Goto, Committing, Reviewing
    <3>2. index = Len(order) /\ op.proposal = Logical(Len(order))
      BY <1>1, <2>3, <3>1 DEF KInv, Lineage
    <3>3. Lineage'
      BY <1>1, <2>3, <3>1, <3>2, LineageKept DEF KInv
    <3> QED BY <1>1, <2>1, <3>3, ClosedKept DEF KInv
  <2> QED BY <2>2, <2>3
<1> QED BY <1>1, <1>2, <1>3

LEMMA AdvancePointerStores ==
  ASSUME IInv, JInv, KInv, AdvancePointer
  PROVE  KInv'
<1>1. /\ pc = "advance" /\ pc \in Committing /\ op.proposal = HeadRevision(chain)
      /\ UNCHANGED <<order, base, decisionFile, completed, chain, intent>>
      /\ pointer' \in {pointer, op.proposal}
  BY DEF AdvancePointer, JInv, Pursued, Committing, disk, sidecar
<1>2. Closed'
  BY <1>1 DEF KInv, Closed
<1>3. CASE Abort
  BY <1>1, <1>2, <1>3, AbortEnds, EndedTail DEF KInv
<1>4. CASE /\ pointer' = op.proposal
           /\ pc' = IF op.kind = "startup" THEN "completions" ELSE "complete"
           /\ UNCHANGED <<op, index>>
  <2>1. Finishing'
    BY <1>1, <1>4 DEF KInv, Finishing, Committing
  <2>2. CASE op.kind # "startup"
    BY <1>2, <1>4, <2>1, <2>2 DEF KInv, Lineage
  <2>3. CASE op.kind = "startup"
    <3>1. index = Len(order) /\ op.proposal = Logical(Len(order))
      BY <1>1, <2>3 DEF KInv, Lineage, Reviewing
    <3>2. Lineage'
      BY <1>1, <1>4, <2>3, <3>1, LineageKept DEF KInv, Reviewing, Committing
    <3> QED BY <1>2, <2>1, <3>2 DEF KInv
  <2> QED BY <2>2, <2>3
<1> QED BY <1>3, <1>4 DEF AdvancePointer

\* A completion is written after the pointer has followed.
LEMMA CompletionCloses ==
  ASSUME IInv, JInv, KInv, NEW p \in Proposals, decisionFile[p] # None,
         p = HeadRevision(chain) => pointer = p,
         completed' \in {completed, completed \cup {p}},
         UNCHANGED <<decisionFile, chain, pointer>>
  PROVE  Closed'
BY DEF KInv, Closed

LEMMA HeadIsAdopted ==
  ASSUME IInv, JInv, NEW p \in Proposals, p = HeadRevision(chain)
  PROVE  p \in Decided /\ intent[p] = Adopt
<1>1. chain \in Seq(Verdicts)
  BY DEF IInv, TypeOK, SidecarOK
<1>2. PICK i \in DOMAIN chain : chain[i].disposition = Adopt /\ p = chain[i].proposal
  BY <1>1, HeadIs, GenesisAssumption
<1> QED BY <1>2 DEF Decided, DecidedIn, JInv, Registered

LEMMA CompleteDecisionStores ==
  ASSUME IInv, JInv, KInv, CompleteDecision
  PROVE  KInv'
<1>1. /\ pc = "complete" /\ op.proposal \in Proposals /\ decisionFile[op.proposal] # None
      /\ UNCHANGED <<decisionFile, chain, pointer>>
      /\ completed' \in {completed, completed \cup {op.proposal}}
  BY DEF CompleteDecision, IInv, Control, KInv, Finishing, store, sidecar
<1>2. op.proposal = HeadRevision(chain) => pointer = op.proposal
  BY <1>1, HeadIsAdopted DEF KInv, Finishing
<1>3. Closed'
  BY <1>1, <1>2, CompletionCloses
<1>4. CASE Abort
  BY <1>1, <1>3, <1>4, AbortEnds, EndedTail DEF KInv
<1>5. CASE pc' = "idle" /\ op' = NoOp
  BY <1>3, <1>5, IdleTail DEF KInv
<1> QED BY <1>4, <1>5 DEF CompleteDecision

-----------------------------------------------------------------------------
(* Startup. *)

\* Nothing was adopted among the directories, or one of them was last.
LEMMA LogicalIs ==
  ASSUME order \in Seq(Proposals), NEW n \in 0..Len(order)
  PROVE  \/ AdoptedUpTo(n) = {}
         \/ \E i \in AdoptedUpTo(n) :
              Logical(n) = order[i] /\ \A j \in AdoptedUpTo(n) : j <= i
<1>1. AdoptedUpTo(n) \subseteq 1..n /\ n \in Nat /\ 1..n \subseteq Int
  BY LenProperties DEF AdoptedUpTo
<1>2. IsFiniteSet(AdoptedUpTo(n)) /\ AdoptedUpTo(n) \in SUBSET Int
  BY <1>1, FS_Interval, FS_Subset
<1>3. CASE AdoptedUpTo(n) # {}
  <2>1. /\ Max(AdoptedUpTo(n)) \in AdoptedUpTo(n)
        /\ \A j \in AdoptedUpTo(n) : j <= Max(AdoptedUpTo(n))
    BY <1>2, <1>3, MaxInSet
  <2> QED BY <1>3, <2>1 DEF Logical
<1> QED BY <1>3

\* An adopted Proposal is not about the revision that was adopted last.
LEMMA BasePrecedes ==
  ASSUME IInv, JInv, NEW p \in Proposals, decisionFile[p] = Adopt,
         HeadRevision(chain) \in Proposals
  PROVE  base[p] # HeadRevision(chain)
<1> DEFINE h == HeadRevision(chain)
<1>1. chain \in Seq(Verdicts) /\ Len(chain) \in Nat /\ DOMAIN chain = 1..Len(chain)
  BY LenProperties DEF IInv, TypeOK, SidecarOK
<1>2. PICK i \in 1..Len(chain) : /\ chain[i].proposal = p /\ expected[p] = i - 1 /\ p \in refs
                                /\ chain[i].disposition = Adopt
  <2>1. p \in Decided /\ intent[p] = Adopt
    BY NoneAssumption DEF JInv, Led, Dispositions
  <2> QED BY <1>1, <2>1 DEF Decided, DecidedIn, JInv, Registered
<1>3. PICK k \in 1..Len(chain) : /\ h = chain[k].proposal
                                /\ \A m \in 1..Len(chain) : chain[m].disposition = Adopt => m <= k
  BY <1>1, HeadIs, GenesisAssumption
<1>4. SUFFICES ASSUME base[p] = h PROVE FALSE
  OBVIOUS
<1> DEFINE b == SubSeq(chain, 1, i - 1)
<1>5. base[p] = HeadRevision(b)
  BY <1>2 DEF JInv, Led, Before
<1>6. /\ b \in Seq(Verdicts) /\ DOMAIN b = 1..i - 1
      /\ \A m \in 1..i - 1 : b[m] = chain[m] /\ m \in 1..Len(chain) /\ m < i
  <2>1. \A m \in 1..i - 1 : m \in 1..Len(chain) /\ m < i
    BY <1>1, <1>2
  <2>2. \A m \in 1..i - 1 : chain[m] \in Verdicts
    BY <1>1, <2>1, ElementOfSeq
  <2>3. i - 1 \in Nat
    BY <1>1, <1>2
  <2> QED BY <1>1, <2>1, <2>2, <2>3, SubSeqProperties, LenProperties
<1> HIDE DEF b
<1>7. h # Genesis
  BY GenesisAssumption
<1>8. PICK m \in 1..i - 1 : h = b[m].proposal
  BY <1>4, <1>5, <1>6, <1>7, HeadIs
<1>9. expected[h] = k - 1 /\ expected[h] = m - 1
  BY <1>1, <1>3, <1>6, <1>8 DEF JInv, Registered
<1>10. m < i /\ i <= k
  BY <1>2, <1>3, <1>6
<1> QED BY <1>3, <1>8, <1>9, <1>10

\* Where the Ref leads is the adoption startup finds last, if it finds it.
LEMMA HeadIsLast ==
  ASSUME IInv, JInv, \A i \in 1..Len(order) : Placed(i),
         NEW k \in 1..Len(order), decisionFile[order[k]] = Adopt,
         order[k] = HeadRevision(chain)
  PROVE  Logical(Len(order)) = order[k]
<1> DEFINE all == AdoptedUpTo(Len(order))
           later == {i \in all : k < i}
<1>1. /\ order \in Seq(Proposals) /\ Len(order) \in Nat
      /\ \A i \in 1..Len(order) : order[i] \in Proposals
  BY LenProperties, ElementOfSeq DEF IInv, TypeOK, DiskOK
<1>2. k \in all
  BY DEF AdoptedUpTo
<1>3. PICK m \in all : Logical(Len(order)) = order[m] /\ \A j \in all : j <= m
  BY <1>1, <1>2, LogicalIs
<1>4. CASE later = {}
  <2>1. m = k
    BY <1>1, <1>2, <1>3, <1>4 DEF AdoptedUpTo
  <2> QED BY <1>3, <2>1
<1>5. CASE later # {}
  <2>1. IsFiniteSet(later) /\ later \in SUBSET Int /\ later \subseteq 1..Len(order)
    <3>1. later \subseteq 1..Len(order) /\ 1..Len(order) \subseteq Int
      BY <1>1 DEF AdoptedUpTo
    <3>2. IsFiniteSet(1..Len(order))
      BY <1>1, FS_Interval
    <3> HIDE DEF later
    <3> QED BY <3>1, <3>2, FS_Subset
  <2>2. PICK n \in later : \A i \in later : n <= i
    <3> HIDE DEF later
    <3> QED BY <1>5, <2>1, MinInSet
  <2>3. n \in 1..Len(order) /\ k < n /\ decisionFile[order[n]] = Adopt /\ n - 1 \in 0..Len(order)
    BY <1>1, <2>2 DEF AdoptedUpTo
  <2>4. k \in AdoptedUpTo(n - 1) /\ \A j \in AdoptedUpTo(n - 1) : j <= k
    <3>1. ASSUME NEW j \in AdoptedUpTo(n - 1) PROVE j <= k
      <4>1. j \in all /\ j < n /\ j \in Int
        BY <1>1, <2>3, <3>1 DEF AdoptedUpTo
      <4>2. j \notin later
        BY <2>2, <2>3, <4>1
      <4> QED BY <4>1, <4>2
    <3> QED BY <2>3, <3>1 DEF AdoptedUpTo
  <2>5. PICK j \in AdoptedUpTo(n - 1) :
          Logical(n - 1) = order[j] /\ \A i \in AdoptedUpTo(n - 1) : i <= j
    BY <1>1, <2>3, <2>4, LogicalIs
  <2>6. j = k
    <3>1. j \in Int /\ j <= k /\ k <= j
      BY <2>3, <2>4, <2>5 DEF AdoptedUpTo
    <3> QED BY <3>1
  <2>7. base[order[n]] = HeadRevision(chain)
    BY <2>3, <2>5, <2>6 DEF Placed
  <2> QED BY <1>1, <2>3, <2>7, BasePrecedes
<1> QED BY <1>4, <1>5

LEMMA RecoverProposalStores ==
  ASSUME IInv, JInv, KInv, RecoverProposal
  PROVE  KInv'
<1>1. /\ pc = "lineage" /\ op.kind = "startup"
      /\ UNCHANGED <<order, base, decisionFile, completed, chain, pointer>>
  BY DEF RecoverProposal, IInv, Control, disk, store, sidecar
<1>2. CASE Halt("refused")
  BY <1>1, <1>2, HaltEnds, EndedStores
<1>3. CASE /\ base[order[index]] = Logical(index - 1)
           /\ op' = [op EXCEPT !.proposal = order[index]]
           /\ pc' \in {"query", "publish"}
           /\ UNCHANGED index
  <2>1. op'.kind = "startup" /\ op'.proposal = order[index]
    BY <1>1, <1>3 DEF IInv, TypeOK, ControlOK
  <2>2. Finishing'
    BY <1>3 DEF Finishing, Committing
  <2>3. \A n : Placed(n)' = Placed(n)
    BY <1>1, LogicalKept
  <2>4. Lineage'
    <3>1. Placed(index)'
      BY <1>3, <2>3 DEF Placed
    <3>2. \A i \in 1..index' - 1 : Placed(i)' /\ decisionFile'[order'[i]] # None
      BY <1>1, <1>3, <2>3 DEF KInv, Lineage
    <3> QED BY <1>1, <1>3, <2>1, <3>1, <3>2 DEF Lineage, Reviewing, Committing
  <2> QED BY <1>1, <2>2, <2>4, ClosedKept DEF KInv
<1> QED BY <1>2, <1>3 DEF RecoverProposal

LEMMA RecoverAcceptedStores ==
  ASSUME IInv, JInv, KInv, RecoverAccepted
  PROVE  KInv'
<1> DEFINE target == Logical(Len(order))
<1>1. /\ pc = "recommit" /\ op.kind = "startup" /\ revision = pointer /\ index = Len(order)
      /\ UNCHANGED <<order, base, decisionFile, completed, chain, pointer>>
  BY DEF RecoverAccepted, IInv, Control, JInv, Pursued, KInv, Lineage, Reviewing, disk, store,
     sidecar
<1>2. CASE Halt("refused")
  BY <1>1, <1>2, HaltEnds, EndedStores
<1>3. CASE revision = target /\ Goto("completions")
  <2>1. Finishing'
    BY <1>3 DEF Goto, Finishing, Committing
  <2>2. Lineage'
    BY <1>1, <1>3, LineageKept DEF Goto, KInv, Reviewing, Committing
  <2> QED BY <1>1, <2>1, <2>2, ClosedKept DEF KInv
<1>4. CASE /\ target \in {order[i] : i \in AdoptedUpTo(Len(order))}
           /\ op' = [op EXCEPT !.proposal = target]
           /\ pc' = "materialize"
           /\ UNCHANGED index
  <2>1. decisionFile[target] # None
    BY <1>4, NoneAssumption DEF AdoptedUpTo, Dispositions
  <2>2. op'.kind = "startup" /\ op'.proposal = target
    BY <1>1, <1>4 DEF IInv, TypeOK, ControlOK
  <2>3. Finishing'
    BY <1>1, <1>4, <2>1, <2>2 DEF Finishing
  <2>4. Lineage'
    BY <1>1, <1>4, <2>2, LineageKept DEF KInv, Reviewing, Committing
  <2> QED BY <1>1, <2>3, <2>4, ClosedKept DEF KInv
<1> QED BY <1>2, <1>3, <1>4 DEF RecoverAccepted, memory

LEMMA RecoverCompletionsStores ==
  ASSUME IInv, JInv, KInv, RecoverCompletions
  PROVE  KInv'
<1> DEFINE decided == {i \in DOMAIN order : decisionFile[order[i]] # None}
           missing == {i \in decided : order[i] \notin completed}
           first   == order[Min(missing)]
<1>1. /\ pc = "completions" /\ op.kind = "startup"
      /\ UNCHANGED <<order, base, decisionFile, chain, pointer, intent>>
  BY DEF RecoverCompletions, IInv, Control, store, sidecar
<1>2. /\ order \in Seq(Proposals) /\ Len(order) \in Nat /\ DOMAIN order = 1..Len(order)
      /\ \A i \in 1..Len(order) : order[i] \in Proposals
  BY LenProperties, ElementOfSeq DEF IInv, TypeOK, DiskOK
<1>3. /\ \A i \in 1..Len(order) : Placed(i)
      /\ pointer = Logical(Len(order)) /\ index = Len(order)
  <2>1. /\ index = Len(order) /\ index \in Nat /\ pointer = Logical(Len(order)) /\ Placed(index)
        /\ \A i \in 1..index - 1 : Placed(i)
    BY <1>1, <1>2 DEF KInv, Lineage, Reviewing
  <2> QED BY <2>1
<1>4. ASSUME missing # {} PROVE /\ first \in Proposals /\ decisionFile[first] # None
                                /\ first = HeadRevision(chain) => pointer = first
  <2>1. IsFiniteSet(missing) /\ missing \in SUBSET Int
    <3>1. missing \subseteq 1..Len(order) /\ 1..Len(order) \subseteq Int
      BY <1>2
    <3>2. IsFiniteSet(1..Len(order))
      BY <1>2, FS_Interval
    <3> HIDE DEF missing
    <3> QED BY <3>1, <3>2, FS_Subset
  <2>2. PICK k \in missing : first = order[k]
    <3>1. Min(missing) \in missing
      <4> HIDE DEF missing
      <4> QED BY <1>4, <2>1, MinInSet
    <3> QED BY <3>1
  <2>3. k \in 1..Len(order) /\ order[k] \in Proposals /\ decisionFile[order[k]] # None
    BY <1>2, <2>2
  <2>4. ASSUME order[k] = HeadRevision(chain) PROVE pointer = order[k]
    <3>1. decisionFile[order[k]] = Adopt
      BY <2>3, <2>4, HeadIsAdopted DEF JInv, Led
    <3> QED BY <1>3, <2>3, <2>4, <3>1, HeadIsLast
  <2> QED BY <2>2, <2>3, <2>4
<1>5. completed' = completed \/ (missing # {} /\ completed' \in {completed, completed \cup {first}})
  BY DEF RecoverCompletions
<1>6. Closed'
  <2>1. CASE completed' = completed
    BY <1>1, <2>1, ClosedKept
  <2>2. CASE missing # {} /\ completed' \in {completed, completed \cup {first}}
    <3>1. /\ first \in Proposals /\ decisionFile[first] # None
          /\ first = HeadRevision(chain) => pointer = first
      BY <1>4, <2>2
    <3> HIDE DEF first
    <3> QED BY <1>1, <2>2, <3>1, CompletionCloses
  <2> QED BY <1>5, <2>1, <2>2
<1>7. CASE Halt("refused") \/ Abort
  BY <1>1, <1>6, <1>7, HaltEnds, AbortEnds, EndedTail DEF KInv
<1>8. CASE Goto("completions")
  <2>1. Finishing'
    BY <1>8 DEF Goto, Finishing, Committing
  <2>2. Lineage'
    BY <1>1, <1>3, <1>8, LineageKept DEF Goto, KInv, Reviewing, Committing
  <2> QED BY <1>6, <2>1, <2>2 DEF KInv
<1>9. CASE pc' = "idle" /\ op' = NoOp
  BY <1>6, <1>9, IdleTail DEF KInv
<1> QED BY <1>7, <1>8, <1>9 DEF RecoverCompletions

LEMMA StartStores ==
  ASSUME IInv, JInv, KInv, Start
  PROVE  KInv'
<1>1. UNCHANGED <<order, base, decisionFile, completed, chain, pointer>>
  BY DEF Start, disk, sidecar
<1>2. CASE Halt("refused")
  BY <1>1, <1>2, HaltEnds, EndedStores
<1>3. CASE pc' = "idle" /\ op' = NoOp
  BY <1>1, <1>3, IdleTail, ClosedKept DEF KInv
<1>4. CASE pc' = "lineage" /\ index' = 1
  <2>1. Finishing'
    BY <1>4 DEF Finishing, Committing
  <2>2. Lineage'
    BY <1>4 DEF Lineage, Reviewing, Committing
  <2> QED BY <1>1, <2>1, <2>2, ClosedKept DEF KInv
<1> QED BY <1>2, <1>3, <1>4 DEF Start

-----------------------------------------------------------------------------
(* The invariant holds. *)

LEMMA InitStores == Init => KInv
<1> SUFFICES ASSUME Init PROVE KInv
  OBVIOUS
<1>1. Closed
  BY DEF Init, Closed
<1>2. Finishing /\ Lineage
  BY DEF Init, Finishing, Lineage, NoOp, Handler, Committing
<1> QED BY <1>1, <1>2 DEF KInv

LEMMA StepStores == ASSUME IInv, JInv, KInv, Step PROVE KInv'
BY ProposalStores, SidecarStores, BindProposalStores, CallSynapseStores, PersistDecisionStores,
   CommitStores, AdvancePointerStores, CompleteDecisionStores, RecoverProposalStores,
   RecoverAcceptedStores, RecoverCompletionsStores DEF Step

LEMMA RequestStores == ASSUME IInv, JInv, KInv, Request PROVE KInv'
<1>1. /\ pc = "idle" /\ op.kind = "none" /\ UNCHANGED <<completed, decisionFile, chain, pointer>>
      /\ \/ pc' = pc /\ op' = op
         \/ pc' \in {"prepare", "intent", "query"} /\ op'.kind # "startup"
  <2>1. Serving /\ op.kind = "none"
    BY DEF Request, CreateProposal, CreateApproval, ExpireApproval, CreateDecision,
       ReconcileReview, CleanupFailedProposal, Serving, IInv, Control
  <2> QED BY <2>1 DEF Request, CreateProposal, CreateApproval, ExpireApproval, CreateDecision,
       ReconcileReview, CleanupFailedProposal, Serving, Enter, Handler, disk, store, sidecar,
       control
<1>2. Finishing' /\ Lineage'
  BY <1>1 DEF Finishing, Lineage, Committing
<1> QED BY <1>1, <1>2, ClosedKept DEF KInv

LEMMA NextStores == IInv /\ JInv /\ KInv /\ [Next]_vars => KInv'
<1> SUFFICES ASSUME IInv, JInv, KInv, [Next]_vars PROVE KInv'
  OBVIOUS
<1>1. CASE Crash \/ Stop
  BY <1>1, HaltEnds, EndedStores DEF Crash, Stop, disk, store, sidecar
<1>2. CASE UNCHANGED vars
  BY <1>2, LogicalKept DEF vars, disk, store, sidecar, control, KInv, Closed, Finishing, Lineage,
     Placed, Logical, AdoptedUpTo
<1> QED BY <1>1, <1>2, StepStores, RequestStores, StartStores DEF Next

LEMMA StoresInvariance == Spec => []KInv
BY InitStores, NextStores, Invariance, RecordsInvariance, PTL DEF Spec

\* The decision Ref leads: Accepted is where it leads or one adoption behind
\* that is not complete, decision.json says what the Ref says, and
\* completion.json follows both.
THEOREM StoresFollowTheRef == Spec => []StoresAgree
<1>1. ASSUME IInv, JInv, KInv PROVE StoresAgree
  <2>1. /\ chain \in Seq(Verdicts) /\ Len(chain) \in Nat /\ DOMAIN chain = 1..Len(chain)
        /\ completed \subseteq Proposals
    BY <1>1, LenProperties DEF IInv, TypeOK, DiskOK, SidecarOK
  <2>2. AcceptedFollowsDecisions
    <3>1. CASE pointer # HeadRevision(chain)
      <4>1. /\ chain # <<>> /\ chain[Len(chain)].disposition = Adopt
            /\ pointer = HeadRevision(SubSeq(chain, 1, Len(chain) - 1))
        BY <1>1, <3>1 DEF JInv, Led, Before
      <4>2. HeadRevision(chain) = chain[Len(chain)].proposal
        BY <2>1, <4>1, HeadLast
      <4> QED BY <1>1, <3>1, <4>1, <4>2 DEF KInv, Closed, AcceptedFollowsDecisions
    <3> QED BY <3>1 DEF AcceptedFollowsDecisions
  <2>3. ASSUME NEW p \in Proposals, decisionFile[p] # None
        PROVE  \E i \in DOMAIN chain : chain[i] = Verdict(p, decisionFile[p])
    <3>1. p \in Decided /\ decisionFile[p] = intent[p]
      BY <1>1, <2>3 DEF JInv, Led
    <3>2. PICK i \in DOMAIN chain : chain[i].proposal = p
      BY <3>1 DEF Decided, DecidedIn
    <3>3. chain[i] \in Verdicts /\ chain[i].disposition = intent[p]
      BY <1>1, <2>1, <3>2, ElementOfSeq DEF JInv, Registered
    <3> QED BY <3>1, <3>2, <3>3 DEF Verdicts, Verdict
  <2>4. ASSUME NEW i \in DOMAIN chain, chain[i].proposal \in completed,
               chain[i].disposition = Adopt
        PROVE  \/ pointer = chain[i].proposal
               \/ \E j \in i+1..Len(chain) : chain[j].disposition = Adopt
    <3>1. PICK k \in DOMAIN chain : /\ chain[k].disposition = Adopt
                                   /\ HeadRevision(chain) = chain[k].proposal
                                   /\ i <= k
      BY <2>1, <2>4, HeadIs
    <3>2. CASE i = k
      BY <1>1, <2>4, <3>1, <3>2 DEF KInv, Closed
    <3>3. CASE i # k
      <4>1. k \in i+1..Len(chain)
        BY <2>1, <3>1, <3>3
      <4> QED BY <3>1, <4>1
    <3> QED BY <3>2, <3>3
  <2> QED BY <1>1, <2>2, <2>3, <2>4 DEF StoresAgree, FilesFollowSidecar, KInv, Closed
<1> QED BY <1>1, Invariance, RecordsInvariance, StoresInvariance, PTL

-----------------------------------------------------------------------------
(* What memory shows of the stores: the history is the decision Ref as long as   *)
(* no decided Proposal is denied and deleted and the directories are in the order *)
(* of the Ref.  The inductive invariant, in parts, on top of JInv and KInv.       *)

\* Each Proposal has one directory, and a Proposal that can still be decided,
\* or was decided and not denied, has kept it.
Directories ==
  /\ \A i, j \in DOMAIN order : order[i] = order[j] => i = j
  /\ pc = "prepare" => op.proposal \notin OnDisk
  /\ op.kind = "create" /\ pc # "prepare" => op.proposal \in OnDisk
  /\ active # None /\ row[active] # "denied" => active \in OnDisk
  /\ CommittedNeverDenied => Decided \subseteq OnDisk

\* A review that is shown as denied is, and one that a handler carries through is
\* committed.
Denied ==
  /\ active # None /\ outcome = "denied" => row[active] = "denied"
  /\ op.kind \in {"decide", "reconcile"} /\ pc \in Committing \cup {"complete"} =>
       row[op.proposal] = "committed"

\* While the pointer is ahead of memory its revision is under reconciliation.
Behind ==
  phase = "up" /\ revision # pointer =>
    active = pointer /\ outcome \in {"unknown", "retryable"}

\* The decided directories are in another order than the Ref has them.
Shuffled ==
  \E i, j \in DOMAIN order :
    /\ i < j /\ order[i] \in Decided /\ order[j] \in Decided
    /\ expected[order[i]] > expected[order[j]]
Orderly == CommittedNeverDenied /\ ~Shuffled

\* What a startup has read: the history is the directories it has passed, and
\* the last one may be under review.  It leaves the completions to the end.
Reread ==
  op.kind = "startup" =>
    /\ pc # "complete"
    /\ \A i \in DOMAIN history : i \in DOMAIN order /\ history[i] = order[i]
    /\ Len(history) = IF pc \in Reviewing \/ active # None THEN index - 1 ELSE index
    /\ active # None => active = order[Len(order)]

\* The history is the beginning of the Ref, and while the project is served all of
\* it, or all but the Decision that is being carried through.
Remembered ==
  /\ phase \in {"down", "refused"} => history = << >>
  /\ \A i \in DOMAIN history : history[i] \in Decided /\ history[i] # active
  /\ Orderly =>
       /\ \A i \in DOMAIN history : i \in DOMAIN chain /\ history[i] = chain[i].proposal
       /\ phase = "up" =>
            \/ Len(chain) = Len(history)
            \/ /\ Len(chain) = Len(history) + 1
               /\ active # None /\ chain[Len(chain)].proposal = active

\* A startup is what runs while the project is not served yet.
Phased == phase = "starting" <=> op.kind = "startup"

HInv == Directories /\ Denied /\ Behind /\ Phased /\ Reread /\ Remembered

-----------------------------------------------------------------------------
(* A directory that is added or removed leaves the others in their order. *)

LEMMA Sequences ==
  ASSUME IInv
  PROVE  /\ order \in Seq(Proposals) /\ Len(order) \in Nat /\ DOMAIN order = 1..Len(order)
         /\ \A i \in 1..Len(order) : order[i] \in Proposals
         /\ history \in Seq(Proposals) /\ Len(history) \in Nat
         /\ DOMAIN history = 1..Len(history)
         /\ chain \in Seq(Verdicts) /\ Len(chain) \in Nat /\ DOMAIN chain = 1..Len(chain)
         /\ \A i \in 1..Len(chain) : chain[i].proposal \in Proposals
<1>1. order \in Seq(Proposals) /\ history \in Seq(Proposals) /\ chain \in Seq(Verdicts)
  BY DEF IInv, TypeOK, DiskOK, MemoryOK, SidecarOK
<1>2. \A i \in 1..Len(order) : order[i] \in Proposals
  BY <1>1, ElementOfSeq
<1>3. \A i \in 1..Len(chain) : chain[i].proposal \in Proposals
  <2>1. \A i \in 1..Len(chain) : chain[i] \in Verdicts
    BY <1>1, ElementOfSeq
  <2> QED BY <2>1 DEF Verdicts
<1> QED BY <1>1, <1>2, <1>3, LenProperties

LEMMA RecordedIs ==
  ASSUME IInv, NEW p \in Proposals, NEW s \in Recorded(p)
  PROVE  \E k \in 1..Len(order) + 1 :
           /\ Len(s) = Len(order) + 1 /\ DOMAIN s = 1..Len(s)
           /\ s[k] = p
           /\ \A i \in 1..k - 1 : s[i] = order[i]
           /\ \A i \in k..Len(order) : s[i + 1] = order[i]
<1>1. order \in Seq(Proposals) /\ Len(order) \in Nat
  BY Sequences
<1>2. CASE ClockMayStepBack
  <2>1. PICK k \in 1..Len(order) + 1 : s = InsertAt(order, k, p)
    BY <1>2 DEF Recorded
  <2> DEFINE a == SubSeq(order, 1, k - 1)
             b == a \o <<p>>
             c == SubSeq(order, k, Len(order))
  <2>2. k - 1 \in 0..Len(order) /\ \A i \in 1..k - 1 : order[i] \in Proposals
    BY <1>1, <2>1, ElementOfSeq
  <2>3. a \in Seq(Proposals) /\ Len(a) = k - 1 /\ \A i \in 1..k - 1 : a[i] = order[i]
    BY <1>1, <2>1, <2>2, SubSeqProperties
  <2>4. <<p>> \in Seq(Proposals) /\ Len(<<p>>) = 1 /\ <<p>>[1] = p
    OBVIOUS
  <2>5. \A i \in k..Len(order) : order[i] \in Proposals
    BY <1>1, <2>1, ElementOfSeq
  <2>6. /\ c \in Seq(Proposals) /\ Len(c) = Len(order) - k + 1
        /\ \A i \in 1..Len(order) - k + 1 : c[i] = order[k + i - 1]
    BY <1>1, <2>1, <2>5, SubSeqProperties
  <2> HIDE DEF a, c
  <2>7. /\ b \in Seq(Proposals) /\ Len(b) = k /\ b[k] = p
        /\ \A i \in 1..k - 1 : b[i] = order[i]
    BY <2>1, <2>3, <2>4, ConcatProperties
  <2> HIDE DEF b
  <2>8. s = b \o c
    BY <2>1 DEF InsertAt, a, b, c
  <2>9. /\ Len(s) = Len(order) + 1 /\ s \in Seq(Proposals)
        /\ \A i \in 1..k : s[i] = b[i]
        /\ \A i \in k + 1..Len(order) + 1 : s[i] = c[i - k]
    <3>1. /\ Len(b \o c) = Len(b) + Len(c) /\ b \o c \in Seq(Proposals)
          /\ \A i \in 1..Len(b) + Len(c) :
               (b \o c)[i] = IF i <= Len(b) THEN b[i] ELSE c[i - Len(b)]
      BY <2>6, <2>7, ConcatProperties
    <3> QED BY <1>1, <2>1, <2>6, <2>7, <2>8, <3>1
  <2>10. \A i \in k..Len(order) : s[i + 1] = order[i]
    <3> SUFFICES ASSUME NEW i \in k..Len(order) PROVE s[i + 1] = order[i]
      OBVIOUS
    <3>1. i + 1 \in k + 1..Len(order) + 1 /\ i + 1 - k \in 1..Len(order) - k + 1
      BY <1>1, <2>1
    <3>2. s[i + 1] = c[i + 1 - k] /\ c[i + 1 - k] = order[k + (i + 1 - k) - 1]
      BY <2>6, <2>9, <3>1
    <3> QED BY <1>1, <2>1, <3>2
  <2>11. \A i \in 1..k - 1 : s[i] = order[i]
    BY <2>1, <2>7, <2>9
  <2>12. s[k] = p /\ DOMAIN s = 1..Len(s)
    BY <2>1, <2>7, <2>9, LenProperties
  <2> QED BY <2>1, <2>9, <2>10, <2>11, <2>12
<1>3. CASE ~ClockMayStepBack
  <2>1. s = Append(order, p)
    BY <1>3 DEF Recorded
  <2>2. /\ Len(s) = Len(order) + 1 /\ s \in Seq(Proposals) /\ s[Len(order) + 1] = p
        /\ \A i \in 1..Len(order) : s[i] = order[i]
    BY <1>1, <2>1, AppendProperties
  <2>3. DOMAIN s = 1..Len(s)
    BY <2>2, LenProperties
  <2> WITNESS Len(order) + 1 \in 1..Len(order) + 1
  <2> QED BY <1>1, <2>2, <2>3
<1> QED BY <1>2, <1>3

LEMMA RemovedIs ==
  ASSUME IInv, NEW k \in DOMAIN order, NEW s, s = RemoveAt(order, k)
  PROVE  /\ Len(s) = Len(order) - 1 /\ DOMAIN s = 1..Len(s)
         /\ \A i \in 1..k - 1 : s[i] = order[i]
         /\ \A i \in k + 1..Len(order) : s[i - 1] = order[i]
<1>1. order \in Seq(Proposals) /\ Len(order) \in Nat /\ k \in 1..Len(order)
  BY Sequences
<1> DEFINE a == SubSeq(order, 1, k - 1)
           c == SubSeq(order, k + 1, Len(order))
<1>2. \A i \in 1..Len(order) : order[i] \in Proposals
  BY Sequences
<1>3. a \in Seq(Proposals) /\ Len(a) = k - 1 /\ \A i \in 1..k - 1 : a[i] = order[i]
  BY <1>1, <1>2, SubSeqProperties
<1>4. /\ c \in Seq(Proposals) /\ Len(c) = Len(order) - k
      /\ \A i \in 1..Len(order) - k : c[i] = order[k + i]
  BY <1>1, <1>2, SubSeqProperties
<1>5. s = a \o c
  BY DEF RemoveAt
<1> HIDE DEF a, c
<1>6. /\ Len(s) = Len(order) - 1 /\ s \in Seq(Proposals)
      /\ \A i \in 1..k - 1 : s[i] = a[i]
      /\ \A i \in k..Len(order) - 1 : s[i] = c[i - k + 1]
  <2>1. /\ s \in Seq(Proposals) /\ Len(s) = Len(a) + Len(c)
        /\ \A i \in 1..Len(a) + Len(c) : s[i] = IF i <= Len(a) THEN a[i] ELSE c[i - Len(a)]
    BY <1>3, <1>4, <1>5, ConcatProperties
  <2>2. Len(a) + Len(c) = Len(order) - 1 /\ Len(a) = k - 1 /\ k \in Nat
    BY <1>1, <1>3, <1>4
  <2>3. \A i \in 1..k - 1 : i \in 1..Len(order) - 1 /\ i <= k - 1
    BY <1>1
  <2>4. \A i \in k..Len(order) - 1 :
          i \in 1..Len(order) - 1 /\ ~(i <= k - 1) /\ i - (k - 1) = i - k + 1
    BY <1>1
  <2>5. \A i \in 1..k - 1 : s[i] = a[i]
    BY <2>1, <2>2, <2>3
  <2>6. \A i \in k..Len(order) - 1 : s[i] = c[i - k + 1]
    BY <2>1, <2>2, <2>4
  <2> QED BY <2>1, <2>2, <2>5, <2>6
<1>7. \A i \in k + 1..Len(order) : s[i - 1] = order[i]
  <2> SUFFICES ASSUME NEW i \in k + 1..Len(order) PROVE s[i - 1] = order[i]
    OBVIOUS
  <2>1. i - 1 \in k..Len(order) - 1 /\ i - k \in 1..Len(order) - k /\ i - 1 - k + 1 = i - k
    BY <1>1
  <2>2. s[i - 1] = c[i - k] /\ c[i - k] = order[k + (i - k)]
    BY <1>4, <1>6, <2>1
  <2> QED BY <1>1, <2>2
<1>8. \A i \in 1..k - 1 : s[i] = order[i]
  BY <1>3, <1>6
<1> QED BY <1>6, <1>7, <1>8, LenProperties

-----------------------------------------------------------------------------
(* What no step undoes. *)

\* Only the publication of an undecided Proposal moves the head it expects.
LEMMA ExpectedKept ==
  ASSUME IInv, JInv, [Next]_vars, NEW p \in Decided
  PROVE  expected'[p] = expected[p]
<1>1. CASE UNCHANGED expected
  BY <1>1
<1>2. CASE PublishProposal
  <2>1. PICK i \in DOMAIN chain : chain[i].proposal = p
    BY DEF Decided, DecidedIn
  <2>2. p \in refs /\ expected[p] = i - 1 /\ i \in 1..Len(chain) /\ Len(chain) \in Nat
    BY <2>1, Sequences DEF JInv, Registered
  <2>3. expected[p] # Len(chain)
    BY <2>2
  <2>4. ASSUME ~UNCHANGED expected PROVE p # op.proposal
    BY <1>2, <2>2, <2>3, <2>4 DEF PublishProposal
  <2>5. expected \in [Proposals -> Nat] /\ p \in Proposals
    BY <2>1, <2>2, Sequences DEF IInv, TypeOK, SidecarOK
  <2> QED BY <1>2, <2>4, <2>5 DEF PublishProposal
<1>3. CASE RegisterReview \/ RegisterIntent \/ QueryReview \/ CallSynapse \/ RequeryReview
  BY <1>1, <1>3 DEF RegisterReview, RegisterIntent, QueryReview, CallSynapse, RequeryReview
<1> QED BY <1>1, <1>2, <1>3, SidecarSteps DEF vars, sidecar

\* Directories come and go one at a time.
LEMMA OrderSteps ==
  ASSUME IInv, [Next]_vars
  PROVE  \/ UNCHANGED order
         \/ PrepareProposal /\ order' \in Recorded(op.proposal)
         \/ CleanupFailedProposal
<1>1. CASE Request
  BY <1>1 DEF Request, CreateProposal, CreateApproval, ExpireApproval, CreateDecision,
     ReconcileReview, Enter, disk
<1>2. CASE Step
  <2>1. CASE PrepareProposal
    BY <2>1 DEF PrepareProposal
  <2>2. CASE \/ PublishProposal \/ RegisterReview \/ BindProposal
             \/ RegisterIntent \/ QueryReview \/ CallSynapse \/ RequeryReview
    BY <2>2 DEF PublishProposal, RegisterReview, BindProposal, RegisterIntent, QueryReview,
       CallSynapse, RequeryReview, disk
  <2>3. CASE \/ PersistDecision \/ MaterializeRevision \/ UnlinkSite \/ LinkSite
             \/ AdvancePointer \/ CompleteDecision
             \/ RecoverProposal \/ RecoverAccepted \/ RecoverCompletions
    BY <2>3 DEF PersistDecision, MaterializeRevision, UnlinkSite, LinkSite, AdvancePointer,
       CompleteDecision, RecoverProposal, RecoverAccepted, RecoverCompletions, disk
  <2> QED BY <1>2, <2>1, <2>2, <2>3 DEF Step
<1>3. CASE Crash \/ Stop \/ Start
  BY <1>3 DEF Crash, Stop, Start, disk
<1> QED BY <1>1, <1>2, <1>3 DEF Next, vars, disk

\* The decided Proposals, denied rows and the chain only grow.
LEMMA DecidedGrows ==
  ASSUME IInv, JInv, [Next]_vars
  PROVE  /\ Decided \subseteq Decided'
         /\ CommittedNeverDenied' => CommittedNeverDenied
<1>1. Final
  BY FinalStep
<1>2. IInv'
  BY NextInv
<1>3. DOMAIN chain = 1..Len(chain) /\ Len(chain) \in Nat
  BY Sequences
<1>4. DOMAIN chain' = 1..Len(chain') /\ Len(chain') \in Nat
  <2>1. (IInv => DOMAIN chain = 1..Len(chain) /\ Len(chain) \in Nat)'
    BY Sequences, PTL
  <2> QED BY <1>2, <2>1
<1>5. Decided \subseteq Decided'
  BY <1>1, <1>3, <1>4 DEF Final, Decided, DecidedIn
<1>6. Decided \subseteq Proposals
  BY Sequences DEF Decided, DecidedIn
<1> QED BY <1>1, <1>5, <1>6 DEF Final, CommittedNeverDenied

\* Two directories of decided Proposals keep their order.
LEMMA ShuffledStays ==
  ASSUME IInv, JInv, HInv, [Next]_vars, CommittedNeverDenied, Shuffled
  PROVE  Shuffled'
<1> DEFINE Stays(i, j) ==
      \E k, l \in DOMAIN order' : k < l /\ order'[k] = order[i] /\ order'[l] = order[j]
<1>1. PICK i, j \in DOMAIN order :
        /\ i < j /\ order[i] \in Decided /\ order[j] \in Decided
        /\ expected[order[i]] > expected[order[j]]
  BY DEF Shuffled
<1>2. Len(order) \in Nat /\ DOMAIN order = 1..Len(order)
  BY Sequences
<1>3. Stays(i, j)
  <2>1. CASE UNCHANGED order
    BY <1>1, <2>1
  <2>2. CASE PrepareProposal /\ order' \in Recorded(op.proposal)
    <3>1. op.proposal \in Proposals
      BY <2>2 DEF PrepareProposal, IInv, Control
    <3>2. PICK k \in 1..Len(order) + 1 :
            /\ Len(order') = Len(order) + 1 /\ DOMAIN order' = 1..Len(order')
            /\ \A n \in 1..k - 1 : order'[n] = order[n]
            /\ \A n \in k..Len(order) : order'[n + 1] = order[n]
      BY <2>2, <3>1, RecordedIs
    <3> DEFINE Moved(n) == IF n < k THEN n ELSE n + 1
    <3>3. \A n \in DOMAIN order : Moved(n) \in DOMAIN order' /\ order'[Moved(n)] = order[n]
      BY <1>2, <3>2
    <3>4. Moved(i) < Moved(j)
      BY <1>1, <1>2, <3>2
    <3> QED BY <1>1, <3>3, <3>4
  <2>3. CASE CleanupFailedProposal
    <3>1. PICK k \in DOMAIN order : order[k] = active /\ order' = RemoveAt(order, k)
      BY <2>3 DEF CleanupFailedProposal
    <3>2. order[k] \notin Decided
      <4>1. active # None
        BY <3>1, Sequences, ConstantsAssumption
      <4> QED BY <2>3, <3>1, <4>1 DEF CleanupFailedProposal, HInv, Denied, CommittedNeverDenied
    <3>3. /\ Len(order') = Len(order) - 1 /\ DOMAIN order' = 1..Len(order')
          /\ \A n \in 1..k - 1 : order'[n] = order[n]
          /\ \A n \in k + 1..Len(order) : order'[n - 1] = order[n]
      BY <3>1, RemovedIs
    <3> DEFINE Moved(n) == IF n < k THEN n ELSE n - 1
    <3>4. i # k /\ j # k
      BY <1>1, <3>2
    <3>5. \A n \in DOMAIN order : n # k => Moved(n) \in DOMAIN order' /\ order'[Moved(n)] = order[n]
      BY <1>2, <3>1, <3>3
    <3>6. Moved(i) < Moved(j)
      BY <1>1, <1>2, <3>1, <3>4
    <3> QED BY <1>1, <3>4, <3>5, <3>6
  <2> QED BY <2>1, <2>2, <2>3, OrderSteps
<1>4. /\ expected'[order[i]] = expected[order[i]] /\ expected'[order[j]] = expected[order[j]]
      /\ order[i] \in Decided' /\ order[j] \in Decided'
  BY <1>1, ExpectedKept, DecidedGrows
<1> HIDE DEF Stays
<1>5. PICK k, l \in DOMAIN order' : k < l /\ order'[k] = order[i] /\ order'[l] = order[j]
  BY <1>3 DEF Stays
<1> QED BY <1>1, <1>4, <1>5 DEF Shuffled

\* Once a decided Proposal is denied or the directories are out of order, they
\* stay so.
LEMMA OrderlyStays ==
  ASSUME IInv, JInv, HInv, [Next]_vars
  PROVE  Orderly' => Orderly
BY ShuffledStays, DecidedGrows DEF Orderly

-----------------------------------------------------------------------------
(* How a handler or a startup goes on, and how it ends. *)

\* A handler answers, or the process is gone.
Left ==
  /\ pc' = "idle" /\ op' = NoOp
  /\ \/ /\ phase' \in {"down", "refused"} /\ revision' = None
        /\ active' = None /\ outcome' = "pending" /\ history' = << >>
     \/ /\ op.kind # "startup"
        /\ UNCHANGED <<phase, revision, active, history>>
        /\ outcome' \in {outcome, "unknown"}

LEMMA HaltLeaves == ASSUME NEW p \in {"down", "refused"}, Halt(p) PROVE Left
BY DEF Halt, Left

LEMMA AbortLeaves == ASSUME Abort \/ Reject PROVE Left
BY HaltLeaves DEF Abort, Reject, Answer, Left

\* What a step asks of the parts of HInv when it leaves the directories, the Ref
\* and the history alone.
LEMMA HistoryCarries ==
  ASSUME IInv, JInv, HInv, [Next]_vars, UNCHANGED <<order, chain, history>>,
         phase' = phase \/ phase' = "starting",
         \A i \in DOMAIN history : history[i] # active',
         active' = active \/ active = None \/ phase' = "starting"
  PROVE  Remembered'
<1>1. Orderly' => Orderly
  BY OrderlyStays
<1>2. Decided' = Decided
  BY DEF Decided
<1>3. phase' \in {"down", "refused"} => phase \in {"down", "refused"}
  OBVIOUS
<1>4. Orderly' /\ phase' = "up" => Len(chain) = Len(history) \/
        (/\ Len(chain) = Len(history) + 1
         /\ active # None /\ chain[Len(chain)].proposal = active)
  BY <1>1 DEF HInv, Remembered
<1> QED BY <1>1, <1>2, <1>3, <1>4 DEF HInv, Remembered

LEMMA DirectoriesCarry ==
  ASSUME IInv, JInv, HInv, [Next]_vars, UNCHANGED <<order, chain>>,
         pc' = "prepare" => op'.proposal \notin OnDisk,
         op'.kind = "create" /\ pc' # "prepare" => op'.proposal \in OnDisk,
         active' \in {None, active} \/ active' \in OnDisk
  PROVE  Directories'
<1>1. Final /\ (CommittedNeverDenied' => CommittedNeverDenied)
  BY FinalStep, DecidedGrows
<1>2. Decided' = Decided /\ OnDisk' = OnDisk
  BY DEF Decided, OnDisk
<1>3. active # None /\ row[active] = "denied" => row'[active] = "denied"
  BY <1>1 DEF Final, IInv, TypeOK, MemoryOK
<1> QED BY <1>1, <1>2, <1>3 DEF HInv, Directories

\* A review shown as denied stays denied in the journal.
LEMMA DeniedCarries ==
  ASSUME IInv, JInv, HInv, [Next]_vars,
         \/ active' = active /\ outcome' \in {outcome, "unknown"}
         \/ active' = None
         \/ (outcome' = "denied" => row'[active'] = "denied"),
         op'.kind \in {"decide", "reconcile"} /\ pc' \in Committing \cup {"complete"} =>
           row'[op'.proposal] = "committed"
  PROVE  Denied'
<1>1. active # None /\ row[active] = "denied" => row'[active] = "denied"
  BY FinalStep DEF Final, IInv, TypeOK, MemoryOK
<1> QED BY <1>1 DEF HInv, Denied

\* A step that ends the handler or the process and has moved neither the Ref nor
\* the pointer.
LEMMA LeftKeeps ==
  ASSUME IInv, JInv, HInv, [Next]_vars, Left, pc # "idle" \/ phase' # phase,
         UNCHANGED <<order, chain, pointer>>
  PROVE  HInv'
<1>1. op'.kind = "none" /\ pc' = "idle"
  BY DEF Left, NoOp, Handler
<1>2. Directories'
  BY <1>1, DirectoriesCarry DEF Left
<1>3. Denied'
  BY <1>1, DeniedCarries DEF Left
<1>4. Behind'
  BY DEF Left, Behind, JInv, Pursued
<1>5. Phased' /\ Reread'
  BY <1>1 DEF Left, Phased, Reread, HInv
<1>6. Remembered'
  <2>1. CASE history' = << >> /\ phase' \in {"down", "refused"}
    BY <2>1 DEF Remembered
  <2>2. CASE UNCHANGED <<phase, active, history>>
    BY <2>2, HistoryCarries DEF HInv, Remembered
  <2> QED BY <2>1, <2>2 DEF Left
<1> QED BY <1>2, <1>3, <1>4, <1>5, <1>6 DEF HInv

\* A step of the handler or the startup after which it goes on, at the same
\* Proposal, with what it had in memory.
LEMMA OnwardKeeps ==
  ASSUME IInv, JInv, HInv, [Next]_vars,
         UNCHANGED <<order, chain, pointer, memory, phase, index>>,
         pc \notin {"idle", "prepare"}, pc' # "prepare",
         op'.kind = op.kind,
         op.kind = "create" => op'.proposal = op.proposal,
         op.kind \in {"decide", "reconcile"} /\ pc' \in Committing \cup {"complete"} =>
           row'[op'.proposal] = "committed",
         op.kind = "startup" => (pc' \in Reviewing <=> pc \in Reviewing) /\ pc' # "complete"
  PROVE  HInv'
<1>1. UNCHANGED <<revision, active, outcome, history>>
  BY DEF memory
<1>2. Directories'
  BY <1>1, DirectoriesCarry DEF HInv, Directories
<1>3. Denied'
  BY <1>1, DeniedCarries
<1>4. Behind'
  BY <1>1 DEF Behind, JInv, Pursued
<1>5. Phased' /\ Reread'
  BY <1>1 DEF Phased, Reread, HInv
<1>6. Remembered'
  BY <1>1, HistoryCarries DEF HInv, Remembered
<1> QED BY <1>2, <1>3, <1>4, <1>5, <1>6 DEF HInv

\* Open: the handler answers with the review still open, or the startup has found
\* it open.
LEMMA OpenKeeps ==
  ASSUME IInv, JInv, KInv, HInv, [Next]_vars, NEW o, Open(o), pc \in {"query", "call", "requery"},
         UNCHANGED <<order, chain, pointer>>,
         o = "denied" => row'[op.proposal] = "denied"
  PROVE  HInv'
<1>1. ASSUME NEW h \in {"down", "refused"}, Halt(h) PROVE HInv'
  BY <1>1, HaltLeaves, LeftKeeps
<1>2. CASE op.kind # "startup" /\ Answer(o)
  <2>1. op'.kind = "none" /\ pc' = "idle" /\ UNCHANGED <<phase, revision, active, history>>
    BY <1>2 DEF Answer, NoOp, Handler
  <2>2. op.proposal = active
    BY <1>2 DEF JInv, Pursued, IInv, Control, ControlOK, TypeOK, Creating, Kinds
  <2>3. Directories'
    BY <2>1, DirectoriesCarry
  <2>4. Denied'
    BY <1>2, <2>1, <2>2, DeniedCarries DEF Answer
  <2>5. Behind'
    BY <2>1 DEF Behind, JInv, Pursued
  <2>6. Phased' /\ Reread'
    BY <1>2, <2>1 DEF Phased, Reread, HInv
  <2>7. Remembered'
    BY <2>1, HistoryCarries DEF HInv, Remembered
  <2> QED BY <2>3, <2>4, <2>5, <2>6, <2>7 DEF HInv
<1>3. CASE /\ op.kind = "startup" /\ index = Len(order)
           /\ pc' = "recommit" /\ active' = op.proposal /\ outcome' = o
           /\ UNCHANGED <<phase, op, index, revision, history>>
  <2>1. op.proposal = order[index] /\ index \in DOMAIN order /\ active = None
    BY <1>3, Sequences DEF KInv, Lineage, Reviewing, IInv, Control, JInv, Pursued
  <2>2. \A i \in DOMAIN history : i \in DOMAIN order /\ history[i] = order[i] /\ i < index
    BY <1>3, <2>1, Sequences DEF HInv, Reread, Reviewing
  <2>3. \A i \in DOMAIN history : history[i] # active'
    BY <1>3, <2>1, <2>2 DEF HInv, Directories
  <2>4. active' \in OnDisk
    BY <1>3, <2>1 DEF OnDisk
  <2>5. Directories'
    BY <1>3, <2>4, DirectoriesCarry
  <2>6. Denied'
    BY <1>3, DeniedCarries DEF Committing
  <2>7. phase' = "starting"
    BY <1>3 DEF HInv, Phased
  <2>8. Behind' /\ Phased'
    BY <1>3, <2>7 DEF Behind, Phased
  <2>9. Reread'
    <3>1. Len(history) = index - 1 /\ pc' \notin Reviewing
      BY <1>3, <2>1 DEF HInv, Reread, Reviewing
    <3>2. active' # None
      BY <1>3, <2>1, Sequences, ConstantsAssumption
    <3> QED BY <1>3, <2>1, <2>2, <3>1, <3>2 DEF Reread
  <2>10. Remembered'
    BY <1>3, <2>3, <2>7, HistoryCarries
  <2> QED BY <2>5, <2>6, <2>8, <2>9, <2>10 DEF HInv
<1> QED BY <1>1, <1>2, <1>3 DEF Open, Settle

-----------------------------------------------------------------------------
(* The requests. *)

LEMMA EnterKeeps ==
  ASSUME IInv, JInv, HInv, [Next]_vars, Serving, Verified,
         NEW k \in {"create", "decide", "reconcile"}, NEW p, NEW d,
         NEW l \in {"prepare", "intent", "query"}, Enter(Handler(k, p, d), l),
         UNCHANGED <<revision, active, outcome, history>>,
         k = "create" <=> l = "prepare",
         l = "prepare" => p \notin OnDisk
  PROVE  HInv'
<1>1. /\ pc' = l /\ op'.kind = k /\ op'.proposal = p
      /\ UNCHANGED <<order, chain, pointer, phase, active, outcome, history>>
  BY DEF Enter, Handler, disk, sidecar, store
<1>2. Directories'
  BY <1>1, DirectoriesCarry
<1>3. Denied'
  BY <1>1, DeniedCarries DEF Committing
<1>4. Behind'
  BY <1>1 DEF HInv, Behind, Verified
<1>5. Phased' /\ Reread'
  BY <1>1 DEF Phased, Reread, Serving
<1>6. Remembered'
  BY <1>1, HistoryCarries DEF HInv, Remembered
<1> QED BY <1>2, <1>3, <1>4, <1>5, <1>6 DEF HInv

LEMMA GrantsHistory ==
  ASSUME IInv, JInv, HInv, [Next]_vars,
         UNCHANGED <<disk, store, sidecar, revision, active, outcome, history, control>>
  PROVE  HInv'
<1>1. UNCHANGED <<order, chain, pointer, row, expected, phase, pc, op, index>>
  BY DEF disk, sidecar, store, control
<1>2. Directories'
  BY <1>1, DirectoriesCarry DEF HInv, Directories
<1>3. Denied' /\ Behind' /\ Phased' /\ Reread'
  BY <1>1 DEF HInv, Denied, Behind, Phased, Reread
<1>4. Remembered'
  BY <1>1, HistoryCarries DEF HInv, Remembered
<1> QED BY <1>2, <1>3, <1>4 DEF HInv

\* The deletion of a failed Proposal: no decided one, unless it was denied.
LEMMA CleanupFailedProposalHistory ==
  ASSUME IInv, JInv, HInv, [Next]_vars, CleanupFailedProposal
  PROVE  HInv'
<1>1. /\ UNCHANGED <<chain, row, pointer, phase, pc, op, revision, history>>
      /\ pc = "idle" /\ op.kind = "none" /\ outcome = "denied"
      /\ (active' = None /\ outcome' = "pending") \/ UNCHANGED <<active, outcome>>
  BY DEF CleanupFailedProposal, Serving, sidecar, store, control, IInv, Control
<1>2. PICK k \in DOMAIN order : order[k] = active /\ order' = RemoveAt(order, k)
  BY DEF CleanupFailedProposal
<1>3. /\ Len(order') = Len(order) - 1 /\ DOMAIN order' = 1..Len(order')
      /\ \A n \in 1..k - 1 : order'[n] = order[n]
      /\ \A n \in k + 1..Len(order) : order'[n - 1] = order[n]
  BY <1>2, RemovedIs
<1>4. Len(order) \in Nat /\ DOMAIN order = 1..Len(order)
  BY Sequences
<1>5. active # None
  BY <1>2, <1>4, Sequences, ConstantsAssumption
<1>6. row[active] = "denied"
  BY <1>1, <1>5 DEF HInv, Denied
<1>7. Directories'
  <2> DEFINE Former(n) == IF n < k THEN n ELSE n + 1
  <2>1. \A n \in DOMAIN order' : Former(n) \in DOMAIN order /\ order'[n] = order[Former(n)]
    <3> SUFFICES ASSUME NEW n \in DOMAIN order'
                 PROVE  Former(n) \in DOMAIN order /\ order'[n] = order[Former(n)]
      OBVIOUS
    <3>1. CASE n < k
      BY <1>2, <1>3, <1>4, <3>1
    <3>2. CASE ~ (n < k)
      <4>1. n + 1 \in k + 1..Len(order) /\ (n + 1) - 1 = n
        BY <1>2, <1>3, <1>4, <3>2
      <4> QED BY <1>2, <1>3, <1>4, <3>2, <4>1
    <3> QED BY <3>1, <3>2
  <2>2. \A i, j \in DOMAIN order' : order'[i] = order'[j] => i = j
    <3> SUFFICES ASSUME NEW i \in DOMAIN order', NEW j \in DOMAIN order', order'[i] = order'[j]
                 PROVE  i = j
      OBVIOUS
    <3>1. Former(i) = Former(j)
      BY <2>1 DEF HInv, Directories
    <3> QED BY <1>3, <1>4, <3>1
  <2>3. OnDisk \ {active} \subseteq OnDisk'
    <3> SUFFICES ASSUME NEW n \in DOMAIN order, n # k PROVE order[n] \in OnDisk'
      BY <1>2 DEF OnDisk
    <3>1. CASE n < k
      <4>1. n \in DOMAIN order' /\ order'[n] = order[n]
        BY <1>2, <1>3, <1>4, <3>1
      <4> QED BY <4>1 DEF OnDisk
    <3>2. CASE ~ (n < k)
      <4>1. n - 1 \in DOMAIN order' /\ order'[n - 1] = order[n]
        BY <1>2, <1>3, <1>4, <3>2
      <4> QED BY <4>1 DEF OnDisk
    <3> QED BY <3>1, <3>2
  <2>4. CommittedNeverDenied => active \notin Decided
    BY <1>6 DEF CommittedNeverDenied
  <2>5. Decided' = Decided /\ (CommittedNeverDenied' => CommittedNeverDenied)
    BY <1>1 DEF Decided, CommittedNeverDenied
  <2>6. CommittedNeverDenied' => Decided' \subseteq OnDisk'
    BY <2>3, <2>4, <2>5 DEF HInv, Directories
  <2>7. active' # None /\ row'[active'] # "denied" => active' \in OnDisk'
    BY <1>1, <1>6
  <2> QED BY <1>1, <2>2, <2>6, <2>7 DEF Directories
<1>8. Denied' /\ Behind' /\ Phased' /\ Reread'
  BY <1>1 DEF HInv, Denied, Behind, Phased, Reread
<1>9. Remembered'
  <2>1. Orderly' => Orderly
    BY OrderlyStays
  <2>2. Decided' = Decided
    BY <1>1 DEF Decided
  <2>3. \A i \in DOMAIN history : history[i] \in Proposals
    BY Sequences, ElementOfSeq
  <2>4. Orderly' => Len(chain) = Len(history) \/ phase # "up" \/ UNCHANGED active
    <3>1. ASSUME Orderly', Len(chain) = Len(history) + 1, chain[Len(chain)].proposal = active
          PROVE  FALSE
      <4>1. active \in Decided
        BY <3>1, Sequences DEF Decided, DecidedIn
      <4> QED BY <1>6, <2>1, <3>1, <4>1 DEF Orderly, CommittedNeverDenied
    <3> QED BY <2>1, <3>1 DEF HInv, Remembered
  <2> QED BY <1>1, <2>1, <2>2, <2>3, <2>4, ConstantsAssumption DEF HInv, Remembered
<1> QED BY <1>7, <1>8, <1>9 DEF HInv

-----------------------------------------------------------------------------
(* The durable steps of create_proposal. *)

LEMMA PrepareProposalHistory ==
  ASSUME IInv, JInv, HInv, [Next]_vars, PrepareProposal
  PROVE  HInv'
<1>1. /\ op.kind = "create" /\ op.proposal \in Proposals /\ op.proposal \notin OnDisk
      /\ active = None /\ UNCHANGED <<chain, pointer, row>>
  BY DEF PrepareProposal, IInv, Control, JInv, Pursued, HInv, Directories, store, sidecar
<1>2. CASE order' = order /\ Abort
  BY <1>1, <1>2, AbortLeaves, LeftKeeps DEF PrepareProposal
<1>3. CASE order' \in Recorded(op.proposal) /\ (Goto("publish") \/ Left)
  <2>1. PICK k \in 1..Len(order) + 1 :
          /\ Len(order') = Len(order) + 1 /\ DOMAIN order' = 1..Len(order')
          /\ order'[k] = op.proposal
          /\ \A i \in 1..k - 1 : order'[i] = order[i]
          /\ \A i \in k..Len(order) : order'[i + 1] = order[i]
    BY <1>1, <1>3, RecordedIs
  <2>2. Len(order) \in Nat /\ DOMAIN order = 1..Len(order)
    BY Sequences
  <2> DEFINE Moved(n) == IF n < k THEN n ELSE n + 1
             Former(n) == IF n < k THEN n ELSE n - 1
  <2>3. \A n \in DOMAIN order : Moved(n) \in DOMAIN order' /\ order'[Moved(n)] = order[n]
    BY <2>1, <2>2
  <2>4. \A n \in DOMAIN order' : n # k => Former(n) \in DOMAIN order /\ order'[n] = order[Former(n)]
    <3> SUFFICES ASSUME NEW n \in DOMAIN order', n # k
                 PROVE  Former(n) \in DOMAIN order /\ order'[n] = order[Former(n)]
      OBVIOUS
    <3>1. CASE n < k
      BY <2>1, <2>2, <3>1
    <3>2. CASE ~ (n < k)
      <4>1. n - 1 \in k..Len(order) /\ (n - 1) + 1 = n
        BY <2>1, <2>2, <3>2
      <4> QED BY <2>1, <2>2, <3>2, <4>1
    <3> QED BY <3>1, <3>2
  <2>5. \A i, j \in DOMAIN order' : order'[i] = order'[j] => i = j
    <3> SUFFICES ASSUME NEW i \in DOMAIN order', NEW j \in DOMAIN order', order'[i] = order'[j]
                 PROVE  i = j
      OBVIOUS
    <3>1. i = k <=> j = k
      BY <1>1, <2>1, <2>4 DEF OnDisk
    <3>2. CASE i # k /\ j # k
      <4>1. Former(i) = Former(j)
        BY <2>4, <3>2 DEF HInv, Directories
      <4> QED BY <2>1, <2>2, <3>2, <4>1
    <3> QED BY <3>1, <3>2
  <2>6. OnDisk \cup {op.proposal} \subseteq OnDisk'
    <3>1. OnDisk \subseteq OnDisk'
      BY <2>3 DEF OnDisk
    <3>2. k \in DOMAIN order'
      BY <2>1, <2>2
    <3> QED BY <2>1, <3>1, <3>2 DEF OnDisk
  <2>7. Decided' = Decided /\ (CommittedNeverDenied' => CommittedNeverDenied)
    BY <1>1 DEF Decided, CommittedNeverDenied
  <2>8. CommittedNeverDenied' => Decided' \subseteq OnDisk'
    BY <2>6, <2>7 DEF HInv, Directories
  <2>9. /\ pc' \in {"publish", "idle"} /\ active' = None
        /\ op'.kind \in {"create", "none"}
        /\ op'.kind = "create" => op'.proposal = op.proposal
        /\ UNCHANGED <<phase, revision, history>> \/ Left
    BY <1>1, <1>3 DEF Goto, memory, Left, NoOp, Handler
  <2>10. Directories'
    BY <2>5, <2>6, <2>8, <2>9 DEF Directories
  <2>11. Denied' /\ Behind' /\ Reread'
    BY <1>1, <1>3, <2>9 DEF Denied, Behind, Reread, Committing, Left, JInv, Pursued, PrepareProposal
  <2>12. Phased'
    BY <1>1, <1>3 DEF HInv, Phased, Goto, memory, Left, NoOp, Handler
  <2>13. Remembered'
    <3>1. Orderly' => Orderly
      BY OrderlyStays
    <3>2. \A i \in DOMAIN history : history[i] # active
      BY DEF HInv, Remembered
    <3>3. CASE history' = << >> /\ phase' \in {"down", "refused"}
      BY <3>3 DEF Remembered
    <3>4. CASE UNCHANGED <<phase, history>>
      BY <1>1, <2>7, <2>9, <3>1, <3>2, <3>4 DEF HInv, Remembered
    <3> QED BY <1>3, <3>3, <3>4 DEF Goto, memory, Left
  <2> QED BY <2>10, <2>11, <2>12, <2>13 DEF HInv
<1> QED BY <1>2, <1>3, AbortLeaves DEF PrepareProposal

\* The steps that go on to the next one or give up, and leave the directories,
\* the Ref and the pointer alone.
LEMMA GotoHistory ==
  ASSUME IInv, JInv, HInv, [Next]_vars, UNCHANGED <<order, chain, pointer>>,
         pc \notin {"idle", "prepare"},
         NEW l \in Labels \ {"idle", "prepare"}, Goto(l),
         op.kind \in {"decide", "reconcile"} /\ l \in Committing \cup {"complete"} =>
           row'[op.proposal] = "committed",
         op.kind = "startup" => (l \in Reviewing <=> pc \in Reviewing) /\ l # "complete"
  PROVE  HInv'
<1>1. pc' = l /\ UNCHANGED <<phase, op, index, memory>>
  BY DEF Goto
<1> QED BY <1>1, OnwardKeeps

LEMMA AbortHistory ==
  ASSUME IInv, JInv, HInv, [Next]_vars, UNCHANGED <<order, chain, pointer>>, pc # "idle",
         Abort \/ Reject
  PROVE  HInv'
BY AbortLeaves, LeftKeeps

LEMMA CreationHistory ==
  ASSUME IInv, JInv, HInv, [Next]_vars, PublishProposal \/ RegisterReview
  PROVE  HInv'
<1>1. UNCHANGED <<order, chain, pointer>> /\ pc \in {"publish", "register"}
  BY DEF PublishProposal, RegisterReview, disk, store
<1>2. (pc = "publish" /\ Goto("register")) \/ (pc = "register" /\ Goto("bind")) \/ Abort \/ Reject
  BY DEF PublishProposal, RegisterReview
<1> QED BY <1>1, <1>2, GotoHistory, AbortHistory DEF Labels, Reviewing, Committing

LEMMA BindProposalHistory ==
  ASSUME IInv, JInv, HInv, [Next]_vars, BindProposal
  PROVE  HInv'
<1>1. /\ UNCHANGED <<order, chain, pointer, row>> /\ pc = "bind"
      /\ op.proposal \in Proposals
  BY DEF BindProposal, sidecar, store, IInv, Control
<1>2. CASE op.kind = "startup" /\ Goto("query")
  BY <1>1, <1>2, GotoHistory DEF Labels, Reviewing, Committing
<1>3. CASE Abort
  BY <1>1, <1>3, AbortHistory
<1>4. CASE /\ op.kind # "startup" /\ pc' = "idle" /\ op' = NoOp
           /\ active' = op.proposal /\ outcome' = "pending"
           /\ UNCHANGED <<phase, index, revision, history>>
  <2>1. op'.kind = "none"
    BY <1>4 DEF NoOp, Handler
  <2>2. op.kind = "create" /\ active = None
    BY <1>1, <1>4 DEF JInv, Pursued, IInv, Control, TypeOK, ControlOK, Kinds, Creating
  <2>3. op.proposal \in OnDisk
    BY <1>1, <2>2 DEF HInv, Directories
  <2>4. op.proposal \notin Decided
    <3>1. expected[op.proposal] = Len(chain)
      BY <1>1, <2>2 DEF JInv, Pursued
    <3> SUFFICES ASSUME NEW i \in DOMAIN chain, chain[i].proposal = op.proposal PROVE FALSE
      BY DEF Decided, DecidedIn
    <3> QED BY <3>1, Sequences DEF JInv, Registered
  <2>5. Directories'
    BY <1>4, <2>1, <2>3, <1>1, DirectoriesCarry
  <2>6. Denied'
    BY <1>4, <2>1, DeniedCarries
  <2>7. Behind'
    BY <1>1, <1>4 DEF Behind, JInv, Pursued
  <2>8. Phased' /\ Reread'
    BY <1>4, <2>1, <2>2 DEF HInv, Phased, Reread
  <2>9. Remembered'
    BY <1>1, <1>4, <2>2, <2>4, HistoryCarries DEF HInv, Remembered
  <2> QED BY <2>5, <2>6, <2>7, <2>8, <2>9 DEF HInv
<1> QED BY <1>2, <1>3, <1>4 DEF BindProposal

-----------------------------------------------------------------------------
(* SynapseSidecar::decide and ::resume. *)

LEMMA RegisterIntentHistory ==
  ASSUME IInv, JInv, HInv, [Next]_vars, RegisterIntent
  PROVE  HInv'
<1>1. UNCHANGED <<order, chain, pointer>> /\ pc = "intent" /\ op.kind = "decide"
  BY DEF RegisterIntent, disk, store, IInv, Control
<1>2. Goto("query") \/ Abort
  BY DEF RegisterIntent
<1> QED BY <1>1, <1>2, GotoHistory, AbortHistory DEF Labels, Committing

LEMMA QueryReviewHistory ==
  ASSUME IInv, JInv, KInv, HInv, [Next]_vars, QueryReview
  PROVE  HInv'
<1>1. /\ UNCHANGED <<order, chain, pointer>> /\ pc = "query" /\ op.proposal \in Proposals
      /\ row \in [Proposals -> Outcomes \cup {"committed", None}]
  BY DEF QueryReview, disk, store, IInv, Control, TypeOK, SidecarOK
<1>2. Goto("receipt") \/ Goto("call") \/ Abort \/ Reject
        \/ \E o : Open(o) /\ row' = [row EXCEPT ![op.proposal] = o]
  BY DEF QueryReview
<1>3. ASSUME NEW o, Open(o), row' = [row EXCEPT ![op.proposal] = o] PROVE HInv'
  BY <1>1, <1>3, OpenKeeps
<1> QED BY <1>1, <1>2, <1>3, GotoHistory, AbortHistory DEF Labels, Committing, Reviewing

LEMMA RequeryReviewHistory ==
  ASSUME IInv, JInv, KInv, HInv, [Next]_vars, RequeryReview
  PROVE  HInv'
<1>1. /\ UNCHANGED <<order, chain, pointer>> /\ pc = "requery" /\ op.proposal \in Proposals
      /\ row \in [Proposals -> Outcomes \cup {"committed", None}]
  BY DEF RequeryReview, disk, store, IInv, Control, TypeOK, SidecarOK
<1>2. Goto("receipt") \/ Abort \/ \E o : Open(o) /\ row' = [row EXCEPT ![op.proposal] = o]
  BY DEF RequeryReview
<1>3. ASSUME NEW o, Open(o), row' = [row EXCEPT ![op.proposal] = o] PROVE HInv'
  BY <1>1, <1>3, OpenKeeps
<1> QED BY <1>1, <1>2, <1>3, GotoHistory, AbortHistory DEF Labels, Committing, Reviewing

\* call_synapse: the Decision that memory will show next, of a Proposal that has
\* its directory.
LEMMA CallSynapseHistory ==
  ASSUME IInv, JInv, KInv, HInv, [Next]_vars, CallSynapse
  PROVE  HInv'
<1>1. /\ UNCHANGED <<order, pointer, row, expected, phase, index, memory>>
      /\ pc = "call" /\ pc' = "requery" /\ op'.kind = op.kind /\ op'.proposal = op.proposal
      /\ op.proposal \in Proposals
  <2>1. op \in [kind : Kinds, proposal : Proposals \cup {None},
                disposition : Dispositions \cup {None},
                error : {"none", "storage", "refused"}]
    BY DEF IInv, TypeOK, ControlOK
  <2> QED BY <2>1 DEF CallSynapse, Called, disk, store, IInv, Control
<1>2. CASE UNCHANGED chain
  BY <1>1, <1>2, OnwardKeeps DEF Reviewing, Committing
<1>3. CASE /\ expected[op.proposal] = Len(chain)
           /\ chain' = Append(chain, Verdict(op.proposal, intent[op.proposal]))
  <2> DEFINE p == op.proposal
             v == Verdict(p, intent[p])
             n == Len(chain)
  <2>1. v \in Verdicts /\ v.proposal = p
    BY <1>1 DEF IInv, Control, Verdict, Verdicts
  <2>2. n \in Nat /\ DOMAIN chain = 1..n /\ chain \in Seq(Verdicts)
    BY Sequences
  <2>3. /\ Len(chain') = n + 1 /\ DOMAIN chain' = 1..n + 1 /\ chain'[n + 1] = v
        /\ \A i \in 1..n : chain'[i] = chain[i]
    BY <1>3, <2>1, <2>2, AppendProperties, LenProperties
  <2>4. Decided' = Decided \cup {p}
    <3>1. Decided' \subseteq Decided \cup {p}
      BY <2>1, <2>2, <2>3 DEF Decided, DecidedIn
    <3>2. n + 1 \in DOMAIN chain'
      BY <2>2, <2>3
    <3> QED BY <2>1, <2>2, <2>3, <3>1, <3>2, DecidedGrows DEF Decided, DecidedIn
  <2>5. p \notin Decided
    <3> SUFFICES ASSUME NEW i \in DOMAIN chain, chain[i].proposal = p PROVE FALSE
      BY DEF Decided, DecidedIn
    <3> QED BY <1>3, <2>2 DEF JInv, Registered
  <2>6. row[p] # "denied"
    BY <1>1 DEF JInv, Pursued, Unsettled
  <2>7. p \in OnDisk
    <3>1. CASE op.kind = "startup"
      <4>1. p = order[index] /\ index \in DOMAIN order
        BY <1>1, <3>1, Sequences DEF KInv, Lineage, Reviewing, IInv, Control
      <4> QED BY <4>1 DEF OnDisk
    <3>2. CASE op.kind # "startup"
      <4>1. p = active
        BY <1>1, <3>2 DEF JInv, Pursued, IInv, Control, TypeOK, ControlOK, Kinds, Creating
      <4> QED BY <1>1, <2>6, <4>1, ConstantsAssumption DEF HInv, Directories
    <3> QED BY <3>1, <3>2
  <2>8. OnDisk' = OnDisk /\ UNCHANGED <<revision, active, outcome, history>>
    BY <1>1 DEF OnDisk, memory
  <2>9. op.kind # "create"
    BY <1>1 DEF JInv, Pursued, Creating
  <2>10. Directories'
    BY <1>1, <2>4, <2>7, <2>8, <2>9, DecidedGrows DEF HInv, Directories
  <2>11. Denied' /\ Behind' /\ Phased' /\ Reread'
    BY <1>1, <2>8 DEF HInv, Denied, Behind, Phased, Reread, Reviewing, Committing
  <2>12. Remembered'
    <3>1. Orderly' => Orderly
      BY OrderlyStays
    <3>2. \A i \in DOMAIN history : history[i] \in Decided' /\ history[i] # active
      BY <2>4 DEF HInv, Remembered
    <3>3. phase \notin {"down", "refused"}
      BY <1>1 DEF IInv, Control
    <3>4. Orderly => \A i \in DOMAIN history : i \in DOMAIN chain' /\ history[i] = chain'[i].proposal
      <4> SUFFICES ASSUME Orderly, NEW i \in DOMAIN history
                   PROVE  i \in DOMAIN chain' /\ history[i] = chain'[i].proposal
        OBVIOUS
      <4>1. i \in 1..n /\ history[i] = chain[i].proposal
        BY <2>2 DEF HInv, Remembered
      <4>2. i \in 1..n + 1 /\ chain'[i] = chain[i]
        BY <2>2, <2>3, <4>1
      <4> QED BY <2>3, <4>1, <4>2
    <3>5. CASE Orderly /\ phase = "up"
      <4>1. op.kind # "startup"
        BY <3>5 DEF HInv, Phased
      <4>2. p = active
        BY <1>1, <4>1 DEF JInv, Pursued, IInv, Control, TypeOK, ControlOK, Kinds, Creating
      <4>3. ~ (n = Len(history) + 1 /\ chain[n].proposal = active)
        <5>1. n = Len(history) + 1 => n \in DOMAIN chain
          BY <2>2, Sequences
        <5> QED BY <2>5, <4>2, <5>1 DEF Decided, DecidedIn
      <4>4. Len(chain') = Len(history) + 1 /\ chain'[Len(chain')].proposal = active
        BY <2>1, <2>3, <3>5, <4>2, <4>3 DEF HInv, Remembered
      <4>5. active # None
        BY <1>1, <4>2, ConstantsAssumption
      <4>6. /\ phase' \notin {"down", "refused"}
            /\ UNCHANGED <<history, active>>
        BY <1>1, <2>8, <3>3
      <4> QED BY <3>2, <3>4, <3>5, <4>4, <4>5, <4>6 DEF Remembered
    <3>6. CASE ~ (Orderly /\ phase = "up")
      BY <1>1, <2>8, <3>1, <3>2, <3>3, <3>4, <3>6 DEF Remembered
    <3> QED BY <3>5, <3>6
  <2> QED BY <2>10, <2>11, <2>12 DEF HInv
<1> QED BY <1>2, <1>3 DEF CallSynapse

-----------------------------------------------------------------------------
(* The durable tail of a committed Decision. *)

LEMMA PersistDecisionHistory ==
  ASSUME IInv, JInv, KInv, HInv, [Next]_vars, PersistDecision
  PROVE  HInv'
<1>1. /\ UNCHANGED <<order, chain, pointer, row>> /\ pc = "receipt" /\ op.proposal \in Proposals
      /\ row[op.proposal] = "committed"
  BY DEF PersistDecision, store, sidecar, IInv, Control, JInv, Pursued
<1>2. CASE Abort \/ Reject
  BY <1>1, <1>2, AbortHistory
<1>3. CASE op.kind # "startup" /\ Goto(AfterDecision(op.proposal))
  <2>1. AfterDecision(op.proposal) \in {"materialize", "complete"}
    BY DEF AfterDecision
  <2> QED BY <1>1, <1>3, <2>1, GotoHistory DEF Labels
<1>4. CASE /\ op.kind = "startup"
           /\ pc' = IF index = Len(order) THEN "recommit" ELSE "lineage"
           /\ index' = IF index = Len(order) THEN index ELSE index + 1
           /\ history' = Append(history, op.proposal)
           /\ UNCHANGED <<phase, op, revision, active, outcome>>
  <2> DEFINE p == op.proposal
             n == Len(history)
  <2>1. active = None /\ p = order[index] /\ index \in 1..Len(order)
    BY <1>1, <1>4 DEF JInv, Pursued, KInv, Lineage, Reviewing, IInv, Control
  <2>2. /\ Len(order) \in Nat /\ DOMAIN order = 1..Len(order) /\ history \in Seq(Proposals)
        /\ n \in Nat /\ DOMAIN history = 1..n /\ Len(chain) \in Nat /\ DOMAIN chain = 1..Len(chain)
    BY Sequences
  <2>3. /\ Len(history') = n + 1 /\ DOMAIN history' = 1..n + 1 /\ history'[n + 1] = p
        /\ \A i \in 1..n : history'[i] = history[i]
    BY <1>1, <1>4, <2>2, AppendProperties, LenProperties
  <2>4. n = index - 1 /\ \A i \in 1..n : history[i] = order[i]
    BY <1>1, <1>4, <2>2 DEF HInv, Reread, Reviewing
  <2>5. Directories'
    BY <1>1, <1>4, DirectoriesCarry DEF HInv, Directories
  <2>6. Denied' /\ Phased'
    BY <1>1, <1>4, <2>1 DEF HInv, Denied, Phased, Committing
  <2>7. phase = "starting"
    BY <1>4 DEF HInv, Phased
  <2>8. Behind'
    BY <1>4, <2>7 DEF Behind
  <2>9. Reread'
    <3>1. \A i \in DOMAIN history' : i \in DOMAIN order /\ history'[i] = order[i]
      BY <2>1, <2>2, <2>3, <2>4
    <3>2. Len(history') = index
      BY <2>1, <2>2, <2>3, <2>4
    <3>5. active' = None
      BY <1>4, <2>1
    <3>3. CASE index = Len(order)
      BY <1>1, <1>4, <3>1, <3>2, <3>3, <3>5 DEF Reread, Reviewing
    <3>4. CASE index # Len(order)
      <4>1. pc' = "lineage" /\ index' - 1 = index
        BY <1>4, <2>1, <2>2, <3>4
      <4> QED BY <1>1, <3>1, <3>2, <3>5, <4>1 DEF Reread, Reviewing
    <3> QED BY <3>3, <3>4
  <2>10. p \in Decided
    BY <1>1 DEF JInv, Registered
  <2>11. \A i \in DOMAIN history' : history'[i] \in Decided' /\ history'[i] # active'
    <3>1. Decided' = Decided
      BY <1>1 DEF Decided
    <3> SUFFICES ASSUME NEW i \in DOMAIN history'
                 PROVE  history'[i] \in Decided /\ history'[i] # None
      BY <1>4, <2>1, <3>1
    <3>2. CASE i = n + 1
      BY <1>1, <2>3, <2>10, <3>2, ConstantsAssumption
    <3>3. CASE i \in DOMAIN history
      <4>1. history'[i] = history[i] /\ history[i] \in Decided /\ history[i] # active
        BY <2>2, <2>3, <3>3 DEF HInv, Remembered
      <4> QED BY <2>1, <4>1
    <3> QED BY <2>2, <2>3, <3>2, <3>3
  <2>12. Orderly => index \in DOMAIN chain /\ chain[index].proposal = p
    <3> SUFFICES ASSUME Orderly PROVE index \in DOMAIN chain /\ chain[index].proposal = p
      OBVIOUS
    <3>1. \A i \in 1..index - 1 : order[i] = chain[i].proposal
      BY <2>2, <2>4 DEF HInv, Remembered
    <3>2. PICK c \in DOMAIN chain : chain[c].proposal = p
      BY <2>10 DEF Decided, DecidedIn
    <3>3. expected[p] = c - 1 /\ \A i \in DOMAIN chain : expected[chain[i].proposal] = i - 1
      BY <3>2 DEF JInv, Registered
    <3>4. ~ (c < index)
      <4>1. ASSUME c < index PROVE order[c] = order[index] /\ c \in DOMAIN order
        BY <2>1, <2>2, <3>1, <3>2, <4>1
      <4> QED BY <2>1, <2>2, <4>1 DEF HInv, Directories
    <3>5. ASSUME index < c PROVE FALSE
      <4>1. index \in DOMAIN chain
        BY <2>1, <2>2, <3>2, <3>5
      <4>2. chain[index].proposal \in Decided
        BY <4>1 DEF Decided, DecidedIn
      <4>3. PICK k \in DOMAIN order : order[k] = chain[index].proposal
        BY <4>2 DEF Orderly, HInv, Directories, OnDisk
      <4>4. expected[order[k]] = index - 1
        BY <3>3, <4>1, <4>3
      <4>5. k # index
        BY <2>1, <2>2, <3>2, <3>3, <3>5, <4>4
      <4>6. ~ (k < index)
        <5>1. ASSUME k < index PROVE k \in 1..index - 1 /\ k \in DOMAIN chain
          BY <2>1, <2>2, <4>1, <5>1
        <5>2. ASSUME k < index PROVE expected[order[k]] = k - 1
          BY <3>1, <3>3, <5>1, <5>2
        <5> QED BY <2>1, <2>2, <4>4, <5>2
      <4>7. index < k
        BY <2>1, <2>2, <4>5, <4>6
      <4>8. expected[order[index]] > expected[order[k]]
        BY <2>1, <2>2, <3>2, <3>3, <3>5, <4>4
      <4>9. order[index] \in Decided /\ order[k] \in Decided
        BY <2>1, <2>10, <4>2, <4>3
      <4> QED BY <2>1, <2>2, <4>7, <4>8, <4>9 DEF Orderly, Shuffled
    <3> QED BY <2>1, <2>2, <3>2, <3>4, <3>5
  <2>13. Orderly' => Orderly
    BY OrderlyStays
  <2>14. Orderly' => \A i \in DOMAIN history' : i \in DOMAIN chain /\ history'[i] = chain[i].proposal
    <3> SUFFICES ASSUME Orderly, NEW i \in DOMAIN history'
                 PROVE  i \in DOMAIN chain /\ history'[i] = chain[i].proposal
      BY <2>13
    <3>1. CASE i = n + 1
      BY <2>1, <2>2, <2>3, <2>4, <2>12, <3>1
    <3>2. CASE i \in DOMAIN history
      BY <2>2, <2>3, <3>2 DEF HInv, Remembered
    <3> QED BY <2>2, <2>3, <3>1, <3>2
  <2>15. Remembered'
    BY <1>1, <1>4, <2>7, <2>11, <2>14 DEF Remembered
  <2> QED BY <2>5, <2>6, <2>8, <2>9, <2>15 DEF HInv
<1> QED BY <1>1, <1>2, <1>3, <1>4 DEF PersistDecision

LEMMA CommitHistory ==
  ASSUME IInv, JInv, HInv, [Next]_vars, MaterializeRevision \/ UnlinkSite \/ LinkSite
  PROVE  HInv'
<1>1. /\ UNCHANGED <<order, chain, pointer, row>> /\ pc \in {"materialize", "unlink", "link"}
      /\ Goto("unlink") \/ Goto("link") \/ Goto("advance") \/ Abort
  BY DEF MaterializeRevision, UnlinkSite, LinkSite, disk, sidecar
<1>2. op.kind \in {"decide", "reconcile"} => row[op.proposal] = "committed"
  BY <1>1 DEF HInv, Denied, Committing
<1> QED BY <1>1, <1>2, GotoHistory, AbortHistory DEF Labels, Committing, Reviewing

\* current.json has moved: memory follows, or the handler leaves the review for
\* a reconciliation.
LEMMA AdvancePointerHistory ==
  ASSUME IInv, JInv, HInv, [Next]_vars, AdvancePointer
  PROVE  HInv'
<1>1. /\ UNCHANGED <<order, chain, row>> /\ pc = "advance" /\ op.proposal \in Proposals
      /\ pointer' \in {pointer, op.proposal}
  BY DEF AdvancePointer, disk, sidecar, IInv, Control
<1>2. op.kind \in {"decide", "reconcile"} => row[op.proposal] = "committed" /\ op.proposal = active
  BY <1>1 DEF HInv, Denied, Committing, JInv, Pursued
<1>3. op.kind \in {"decide", "reconcile", "startup"}
  BY <1>1 DEF IInv, TypeOK, ControlOK, Control, Kinds, JInv, Pursued, Creating
<1>4. CASE /\ pointer' = op.proposal /\ revision' = op.proposal
           /\ pc' = IF op.kind = "startup" THEN "completions" ELSE "complete"
           /\ UNCHANGED <<phase, op, index, active, outcome, history>>
  <2>1. Directories'
    BY <1>1, <1>3, <1>4, DirectoriesCarry
  <2>2. Denied'
    BY <1>1, <1>2, <1>4, DeniedCarries
  <2>3. Behind' /\ Phased'
    BY <1>4 DEF HInv, Behind, Phased
  <2>4. Reread'
    BY <1>1, <1>4 DEF HInv, Reread, Reviewing
  <2>5. Remembered'
    BY <1>1, <1>4, HistoryCarries DEF HInv, Remembered
  <2> QED BY <2>1, <2>2, <2>3, <2>4, <2>5 DEF HInv
<1>5. CASE Abort /\ pointer' = pointer
  BY <1>1, <1>5, AbortHistory
<1>6. CASE Abort /\ op.kind = "startup"
  <2>1. /\ phase' = "down" /\ pc' = "idle" /\ op'.kind = "none" /\ active' = None
        /\ history' = << >>
    BY <1>6 DEF Abort, Halt, NoOp, Handler
  <2>2. Directories'
    BY <1>1, <2>1, DirectoriesCarry
  <2> QED BY <2>1, <2>2 DEF HInv, Denied, Behind, Phased, Reread, Remembered
<1>7. CASE Abort /\ op.kind # "startup" /\ pointer' = op.proposal
  <2>1. /\ pc' = "idle" /\ op'.kind = "none"
        /\ UNCHANGED <<phase, revision, active, history>>
        /\ outcome' = IF op.kind = "decide" THEN "unknown" ELSE outcome
    BY <1>7 DEF Abort, Answer, NoOp, Handler
  <2>2. Directories'
    BY <1>1, <2>1, DirectoriesCarry
  <2>3. Denied'
    BY <1>1, <2>1, DeniedCarries
  <2>4. Phased' /\ Reread'
    BY <1>7, <2>1 DEF HInv, Phased, Reread
  <2>5. Remembered'
    BY <1>1, <2>1, HistoryCarries DEF HInv, Remembered
  <2>6. Behind'
    <3>1. pointer' = active' /\ row[active] = "committed" /\ active # None
      BY <1>1, <1>2, <1>3, <1>7, <2>1, ConstantsAssumption
    <3>2. CASE op.kind = "decide"
      BY <2>1, <3>1, <3>2 DEF Behind
    <3>3. CASE op.kind = "reconcile"
      <4>1. active \in Decided
        BY <1>1, <1>2, <3>1, <3>3 DEF JInv, Registered
      <4>2. outcome # "pending"
        BY <3>1, <3>3, <4>1, OpenForDecision
      <4>3. outcome # "denied"
        BY <3>1 DEF HInv, Denied
      <4>4. outcome' \in {"unknown", "retryable"}
        BY <2>1, <3>3, <4>2, <4>3 DEF IInv, TypeOK, MemoryOK, Outcomes
      <4> QED BY <3>1, <4>4 DEF Behind
    <3> QED BY <1>3, <1>7, <3>2, <3>3
  <2> QED BY <2>2, <2>3, <2>4, <2>5, <2>6 DEF HInv
<1> QED BY <1>1, <1>4, <1>5, <1>6, <1>7 DEF AdvancePointer

\* The review leaves the Store for the history.
LEMMA CompleteDecisionHistory ==
  ASSUME IInv, JInv, HInv, [Next]_vars, CompleteDecision
  PROVE  HInv'
<1>1. /\ UNCHANGED <<order, chain, pointer, row>> /\ pc = "complete" /\ op.proposal \in Proposals
  BY DEF CompleteDecision, sidecar, store, IInv, Control
<1>2. CASE Abort
  BY <1>1, <1>2, AbortHistory
<1>3. CASE /\ history' = Append(history, op.proposal)
           /\ active' = None /\ outcome' = "pending" /\ pc' = "idle" /\ op' = NoOp
           /\ UNCHANGED <<phase, index, revision>>
  <2> DEFINE p == op.proposal
             n == Len(history)
  <2>1. op.kind \in {"decide", "reconcile"}
    BY <1>1 DEF IInv, TypeOK, ControlOK, Control, Kinds, JInv, Pursued, Creating, HInv, Reread
  <2>2. p = active /\ row[p] = "committed" /\ active # None
    BY <1>1, <2>1, ConstantsAssumption DEF JInv, Pursued, HInv, Denied
  <2>3. /\ history \in Seq(Proposals) /\ n \in Nat /\ DOMAIN history = 1..n
        /\ Len(chain) \in Nat /\ DOMAIN chain = 1..Len(chain)
    BY Sequences
  <2>4. /\ Len(history') = n + 1 /\ DOMAIN history' = 1..n + 1 /\ history'[n + 1] = p
        /\ \A i \in 1..n : history'[i] = history[i]
    BY <1>1, <1>3, <2>3, AppendProperties, LenProperties
  <2>5. p \in Decided
    BY <1>1, <2>2 DEF JInv, Registered
  <2>6. op'.kind = "none"
    BY <1>3 DEF NoOp, Handler
  <2>7. Directories'
    BY <1>1, <1>3, <2>6, DirectoriesCarry
  <2>8. Denied' /\ Reread'
    BY <1>3, <2>6 DEF Denied, Reread
  <2>9. Behind'
    BY <1>1, <1>3 DEF Behind, JInv, Pursued
  <2>10. Phased'
    BY <1>3, <2>1, <2>6 DEF HInv, Phased
  <2>11. \A i \in DOMAIN history' : history'[i] \in Decided' /\ history'[i] # active'
    <3>1. Decided' = Decided
      BY <1>1 DEF Decided
    <3>2. Decided \subseteq Proposals
      BY Sequences DEF Decided, DecidedIn
    <3>3. \A i \in DOMAIN history' : i = n + 1 \/ i \in DOMAIN history
      BY <2>3, <2>4
    <3> QED BY <1>3, <2>3, <2>4, <2>5, <3>1, <3>2, <3>3, ConstantsAssumption DEF HInv, Remembered
  <2>12. Orderly' => Orderly
    BY OrderlyStays
  <2>13. Remembered'
    <3>1. CASE Orderly
      <4>1. \A i \in 1..n : i \in DOMAIN chain /\ history[i] = chain[i].proposal
        BY <2>3, <3>1 DEF HInv, Remembered
      <4>2. phase = "up"
        BY <1>1, <2>1 DEF HInv, Phased, IInv, TypeOK, ControlOK, Control
      <4>3. Len(chain) # n
        <5>1. PICK i \in DOMAIN chain : chain[i].proposal = p
          BY <2>5 DEF Decided, DecidedIn
        <5>2. ASSUME Len(chain) = n PROVE i \in DOMAIN history /\ history[i] = active
          BY <2>2, <2>3, <4>1, <5>1, <5>2
        <5> QED BY <5>2 DEF HInv, Remembered
      <4>4. Len(chain) = n + 1 /\ chain[n + 1].proposal = p
        BY <2>2, <3>1, <4>2, <4>3 DEF HInv, Remembered
      <4>5. \A i \in DOMAIN history' : i \in DOMAIN chain /\ history'[i] = chain[i].proposal
        <5> SUFFICES ASSUME NEW i \in DOMAIN history'
                     PROVE  i \in DOMAIN chain /\ history'[i] = chain[i].proposal
          OBVIOUS
        <5>1. CASE i = n + 1
          BY <2>3, <2>4, <4>4, <5>1
        <5>2. CASE i \in 1..n
          BY <2>4, <4>1, <5>2
        <5> QED BY <2>3, <2>4, <5>1, <5>2
      <4> QED BY <1>1, <1>3, <2>4, <2>11, <4>2, <4>4, <4>5 DEF Remembered
    <3>2. CASE ~Orderly
      BY <1>1, <1>3, <2>11, <2>12, <3>2 DEF Remembered, IInv, Control
    <3> QED BY <3>1, <3>2
  <2> QED BY <2>7, <2>8, <2>9, <2>10, <2>13 DEF HInv
<1> QED BY <1>2, <1>3 DEF CompleteDecision

-----------------------------------------------------------------------------
(* Process death and startup. *)

LEMMA HaltHistory ==
  ASSUME IInv, JInv, HInv, [Next]_vars, NEW h \in {"down", "refused"}, Halt(h),
         UNCHANGED <<order, chain, pointer>>
  PROVE  HInv'
<1>1. /\ phase' = h /\ pc' = "idle" /\ op'.kind = "none" /\ active' = None /\ history' = << >>
  BY DEF Halt, NoOp, Handler
<1>2. Directories'
  BY <1>1, DirectoriesCarry
<1> QED BY <1>1, <1>2 DEF HInv, Denied, Behind, Phased, Reread, Remembered

LEMMA StartHistory ==
  ASSUME IInv, JInv, HInv, [Next]_vars, Start
  PROVE  HInv'
<1>1. /\ UNCHANGED <<order, chain, pointer, row>> /\ phase \in {"down", "refused"}
      /\ active = None /\ history = << >>
  BY DEF Start, disk, sidecar, JInv, Pursued, HInv, Remembered
<1>2. CASE Halt("refused")
  BY <1>1, <1>2, HaltHistory
<1>3. CASE order = << >> /\ phase' = "up" /\ pc' = "idle" /\ op' = NoOp
           /\ revision' = pointer /\ UNCHANGED <<active, outcome, history>>
  <2>1. op'.kind = "none"
    BY <1>3 DEF NoOp, Handler
  <2>2. Directories'
    BY <1>1, <1>3, <2>1, DirectoriesCarry
  <2>3. Denied' /\ Behind' /\ Phased' /\ Reread'
    BY <1>1, <1>3, <2>1 DEF Denied, Behind, Phased, Reread
  <2>4. Orderly' => Len(chain) = 0
    <3>1. OnDisk = {}
      BY <1>3 DEF OnDisk
    <3>2. Orderly => Decided = {}
      BY <3>1 DEF HInv, Directories, Orderly
    <3>3. Decided = {} => DOMAIN chain = {}
      BY DEF Decided, DecidedIn
    <3>4. Orderly' => DOMAIN chain = {}
      BY <3>2, <3>3, OrderlyStays
    <3> QED BY <3>4, Sequences
  <2>5. Len(history) = 0 /\ DOMAIN history = {}
    BY <1>1
  <2>6. Remembered'
    BY <1>1, <1>3, <2>4, <2>5 DEF Remembered
  <2> QED BY <2>2, <2>3, <2>6 DEF HInv
<1>4. CASE /\ order # << >> /\ phase' = "starting" /\ pc' = "lineage" /\ index' = 1
           /\ op' = Handler("startup", None, None) /\ UNCHANGED <<active, outcome, history>>
  <2>1. op'.kind = "startup"
    BY <1>4 DEF Handler
  <2>2. Len(history) = 0 /\ DOMAIN history = {}
    BY <1>1
  <2>3. Directories'
    BY <1>1, <1>4, <2>1, DirectoriesCarry
  <2>4. Denied' /\ Behind' /\ Phased'
    BY <1>1, <1>4, <2>1 DEF Denied, Behind, Phased
  <2>5. Reread'
    BY <1>1, <1>4, <2>2 DEF Reread, Reviewing
  <2>6. Remembered'
    BY <1>1, <1>4, <2>2 DEF Remembered
  <2> QED BY <2>3, <2>4, <2>5, <2>6 DEF HInv
<1> QED BY <1>2, <1>3, <1>4 DEF Start

LEMMA RecoverProposalHistory ==
  ASSUME IInv, JInv, KInv, HInv, [Next]_vars, RecoverProposal
  PROVE  HInv'
<1>1. UNCHANGED <<order, chain, pointer>> /\ pc = "lineage" /\ op.kind = "startup"
  BY DEF RecoverProposal, disk, sidecar, store, IInv, Control
<1>2. CASE Halt("refused")
  BY <1>1, <1>2, HaltHistory
<1>3. CASE /\ op' = [op EXCEPT !.proposal = order[index]]
           /\ pc' \in {"query", "publish"}
           /\ UNCHANGED <<phase, index, memory>>
  <2>1. op'.kind = op.kind
    BY <1>3 DEF IInv, TypeOK, ControlOK
  <2> QED BY <1>1, <1>3, <2>1, OnwardKeeps DEF Reviewing
<1> QED BY <1>2, <1>3 DEF RecoverProposal

LEMMA RecoverAcceptedHistory ==
  ASSUME IInv, JInv, KInv, HInv, [Next]_vars, RecoverAccepted
  PROVE  HInv'
<1>1. UNCHANGED <<order, chain, pointer>> /\ pc = "recommit" /\ op.kind = "startup"
  BY DEF RecoverAccepted, disk, sidecar, store, IInv, Control
<1>2. CASE Halt("refused")
  BY <1>1, <1>2, HaltHistory
<1>3. CASE Goto("completions")
  BY <1>1, <1>3, GotoHistory DEF Labels, Reviewing
<1>4. CASE /\ op' = [op EXCEPT !.proposal = Logical(Len(order))]
           /\ pc' = "materialize"
           /\ UNCHANGED <<phase, index, memory>>
  <2>1. op'.kind = op.kind
    BY <1>4 DEF IInv, TypeOK, ControlOK
  <2> QED BY <1>1, <1>4, <2>1, OnwardKeeps DEF Reviewing
<1> QED BY <1>2, <1>3, <1>4 DEF RecoverAccepted

\* The last step of a startup: every directory has been read, so nothing on the Ref
\* is missing from the history but the Decision under reconciliation.
LEMMA RecoverCompletionsHistory ==
  ASSUME IInv, JInv, KInv, HInv, [Next]_vars, RecoverCompletions
  PROVE  HInv'
<1>1. UNCHANGED <<order, chain, pointer, row>> /\ pc = "completions" /\ op.kind = "startup"
  BY DEF RecoverCompletions, sidecar, store, IInv, Control
<1>2. CASE Halt("refused")
  BY <1>1, <1>2, HaltHistory
<1>3. CASE Abort
  BY <1>1, <1>3, AbortHistory
<1>4. CASE Goto("completions")
  BY <1>1, <1>4, GotoHistory DEF Labels, Reviewing
<1>5. CASE phase' = "up" /\ pc' = "idle" /\ op' = NoOp /\ UNCHANGED memory
  <2> DEFINE n == Len(history)
             m == Len(chain)
  <2>1. op'.kind = "none" /\ UNCHANGED <<revision, active, outcome, history>>
    BY <1>5 DEF NoOp, Handler, memory
  <2>2. /\ n \in Nat /\ DOMAIN history = 1..n /\ m \in Nat /\ DOMAIN chain = 1..m
        /\ DOMAIN order = 1..Len(order) /\ Len(order) \in Nat
    BY Sequences
  <2>3. index = Len(order) /\ \A i \in 1..n : history[i] = order[i]
    BY <1>1, <2>2 DEF KInv, Lineage, HInv, Reread, Reviewing
  <2>4. \/ active = None /\ n = Len(order)
        \/ active # None /\ n = Len(order) - 1 /\ active = order[Len(order)]
    BY <1>1, <2>3 DEF HInv, Reread, Reviewing
  <2>5. \A i \in 1..Len(order) : (\E k \in 1..n : order[i] = history[k]) \/ (active # None /\ order[i] = active)
    <3> SUFFICES ASSUME NEW i \in 1..Len(order), i \notin 1..n PROVE active # None /\ order[i] = active
      BY <2>3
    <3>1. n # Len(order)
      OBVIOUS
    <3>2. n = Len(order) - 1
      BY <2>4, <3>1
    <3>3. i = Len(order)
      <4>1. n \in Nat /\ Len(order) \in Nat
        BY <2>2
      <4> QED BY <3>2, <4>1
    <3> QED BY <2>4, <3>1, <3>3
  <2>6. Directories'
    BY <1>1, <1>5, <2>1, DirectoriesCarry
  <2>7. Denied' /\ Phased' /\ Reread'
    BY <1>1, <1>5, <2>1 DEF HInv, Denied, Phased, Reread
  <2>8. Behind'
    BY <1>1, <2>1 DEF Behind, JInv, Pursued
  <2>9. Orderly' => Orderly
    BY OrderlyStays
  <2>10. ASSUME Orderly
         PROVE  m = n \/ (m = n + 1 /\ active # None /\ chain[m].proposal = active)
    <3>1. \A i \in 1..n : i \in 1..m /\ history[i] = chain[i].proposal
      BY <2>2, <2>10 DEF HInv, Remembered
    <3>2. \A i \in 1..m : expected[chain[i].proposal] = i - 1
      BY <2>2 DEF JInv, Registered
    <3>3. \A c \in 1..m : c > n => active # None /\ chain[c].proposal = active
      <4> SUFFICES ASSUME NEW c \in 1..m, c > n PROVE active # None /\ chain[c].proposal = active
        OBVIOUS
      <4>1. chain[c].proposal \in Decided
        BY <2>2 DEF Decided, DecidedIn
      <4>2. PICK i \in 1..Len(order) : order[i] = chain[c].proposal
        BY <2>2, <2>10, <4>1 DEF Orderly, HInv, Directories, OnDisk
      <4>3. \A k \in 1..n : chain[k].proposal # chain[c].proposal
        <5> SUFFICES ASSUME NEW k \in 1..n, chain[k].proposal = chain[c].proposal PROVE FALSE
          OBVIOUS
        <5>1. k \in 1..m /\ k - 1 = c - 1
          BY <3>1, <3>2
        <5> QED BY <2>2, <5>1
      <4> QED BY <2>5, <3>1, <4>2, <4>3
    <3>4. n <= m
      <4>1. CASE n = 0
        BY <2>2, <4>1
      <4>2. CASE n # 0
        <5>1. n \in 1..n
          BY <2>2, <4>2
        <5> QED BY <2>2, <3>1, <5>1
      <4> QED BY <4>1, <4>2
    <3>5. ~ (m > n + 1)
      <4> SUFFICES ASSUME m > n + 1 PROVE FALSE
        OBVIOUS
      <4>1. n + 1 \in 1..m /\ n + 2 \in 1..m
        BY <2>2
      <4>2. chain[n + 1].proposal = active /\ chain[n + 2].proposal = active
        BY <2>2, <3>3, <4>1
      <4>3. expected[active] = (n + 1) - 1 /\ expected[active] = (n + 2) - 1
        BY <3>2, <4>1, <4>2
      <4> QED BY <2>2, <4>3
    <3>6. CASE m = n + 1
      <4>1. m \in 1..m /\ m > n
        BY <2>2, <3>6
      <4> QED BY <3>3, <3>6, <4>1
    <3>7. m = n \/ m = n + 1
      <4>1. n \in Nat /\ m \in Nat
        BY <2>2
      <4> HIDE DEF n, m
      <4> QED BY <3>4, <3>5, <4>1
    <3> QED BY <3>6, <3>7
  <2>11. Remembered'
    <3>1. Decided' = Decided
      BY <1>1 DEF Decided
    <3>2. phase' \notin {"down", "refused"}
      BY <1>5
    <3>3. \A i \in DOMAIN history' : history'[i] \in Decided' /\ history'[i] # active'
      BY <2>1, <3>1 DEF HInv, Remembered
    <3>4. ASSUME Orderly' PROVE \A i \in DOMAIN history' : i \in DOMAIN chain' /\ history'[i] = chain'[i].proposal
      BY <1>1, <2>1, <2>9, <3>4 DEF HInv, Remembered
    <3>5. ASSUME Orderly'
          PROVE  m = n \/ (m = n + 1 /\ active # None /\ chain[m].proposal = active)
      BY <2>9, <2>10, <3>5
    <3>6. m' = m /\ n' = n /\ chain'[m'].proposal = chain[m].proposal /\ active' = active
      BY <1>1, <2>1
    <3> QED BY <3>2, <3>3, <3>4, <3>5, <3>6 DEF Remembered
  <2> QED BY <2>6, <2>7, <2>8, <2>11 DEF HInv
<1> QED BY <1>2, <1>3, <1>4, <1>5 DEF RecoverCompletions

-----------------------------------------------------------------------------
(* The theorem. *)

LEMMA InitHistory == Init => HInv
<1> SUFFICES ASSUME Init PROVE HInv
  OBVIOUS
<1>1. order = << >> /\ chain = << >> /\ history = << >> /\ active = None
      /\ phase = "up" /\ pc = "idle" /\ op.kind = "none" /\ revision = pointer
  BY DEF Init, NoOp, Handler
<1>2. DOMAIN chain = {} /\ DOMAIN history = {} /\ Len(chain) = 0 /\ Len(history) = 0
      /\ DOMAIN order = {}
  BY <1>1
<1>3. Decided = {}
  BY <1>2 DEF Decided, DecidedIn
<1>4. Directories
  BY <1>1, <1>2, <1>3 DEF Directories
<1>5. Denied /\ Behind /\ Phased /\ Reread
  BY <1>1 DEF Denied, Behind, Phased, Reread
<1>6. Remembered
  BY <1>1, <1>2 DEF Remembered
<1> QED BY <1>4, <1>5, <1>6 DEF HInv

LEMMA StepHistory ==
  ASSUME IInv, JInv, KInv, HInv, [Next]_vars, Step
  PROVE  HInv'
BY PrepareProposalHistory, CreationHistory, BindProposalHistory, RegisterIntentHistory,
   QueryReviewHistory, CallSynapseHistory, RequeryReviewHistory, PersistDecisionHistory,
   CommitHistory, AdvancePointerHistory, CompleteDecisionHistory, RecoverProposalHistory,
   RecoverAcceptedHistory, RecoverCompletionsHistory
   DEF Step

LEMMA RequestHistory ==
  ASSUME IInv, JInv, KInv, HInv, [Next]_vars, Request
  PROVE  HInv'
<1>1. ASSUME NEW p \in Proposals, CreateProposal(p) PROVE HInv'
  <2>1. /\ Serving /\ Verified /\ Enter(Handler("create", p, None), "prepare")
        /\ p \notin OnDisk /\ UNCHANGED <<revision, active, outcome, history>>
    BY <1>1 DEF CreateProposal, memory
  <2> QED BY <2>1, EnterKeeps
<1>2. ASSUME NEW t \in Tokens, NEW d \in Dispositions, CreateApproval(t, d) PROVE HInv'
  BY <1>2, GrantsHistory DEF CreateApproval
<1>3. ASSUME NEW t \in Tokens, ExpireApproval(t) PROVE HInv'
  BY <1>3, GrantsHistory DEF ExpireApproval
<1>4. ASSUME NEW t \in Tokens, CreateDecision(t) PROVE HInv'
  <2>1. /\ Serving /\ Verified
        /\ Enter(Handler("decide", active, grants[t].disposition), "intent")
        /\ UNCHANGED <<revision, active, outcome, history>>
    BY <1>4 DEF CreateDecision
  <2> QED BY <2>1, EnterKeeps
<1>5. ASSUME ReconcileReview PROVE HInv'
  <2>1. /\ Serving /\ Verified /\ Enter(Handler("reconcile", active, None), "query")
        /\ UNCHANGED <<revision, active, outcome, history>>
    BY <1>5 DEF ReconcileReview, memory
  <2> QED BY <2>1, EnterKeeps
<1> QED BY <1>1, <1>2, <1>3, <1>4, <1>5, CleanupFailedProposalHistory DEF Request

LEMMA NextHistory == IInv /\ JInv /\ KInv /\ HInv /\ [Next]_vars => HInv'
<1> SUFFICES ASSUME IInv, JInv, KInv, HInv, [Next]_vars PROVE HInv'
  OBVIOUS
<1>1. CASE Crash \/ Stop
  BY <1>1, HaltHistory DEF Crash, Stop, disk, store, sidecar
<1>2. CASE UNCHANGED vars
  BY <1>2, GrantsHistory DEF vars, memory
<1> QED BY <1>1, <1>2, StepHistory, RequestHistory, StartHistory DEF Next

LEMMA HistoryInvariance == Spec => []HInv
<1> QED BY InitHistory, NextHistory, Invariance, RecordsInvariance, StoresInvariance, PTL DEF Spec

\* Whatever failed between the stores and memory, and at which directory a startup
\* was when it died: the history a served project shows is what SynapseGit
\* decided, and where memory is behind it says so.
THEOREM MemoryShowsTheStores == Spec => []MemoryFollows
<1>1. IInv /\ JInv /\ HInv => MemoryFollows
  <2> SUFFICES ASSUME IInv, JInv, HInv PROVE MemoryFollows
    OBVIOUS
  <2>1. OpenReviewHasNoIntent
    BY DEF OpenReviewHasNoIntent, JInv, Reviewed, Serving, IInv, Control
  <2>2. MemoryBehindOnlyWhileUnsettled
    BY DEF MemoryBehindOnlyWhileUnsettled, Serving, HInv, Behind
  <2>3. HistoryIsDecisionChain
    <3> SUFFICES ASSUME Serving, CommittedNeverDenied, ~Disordered
                 PROVE  LET decided == [i \in DOMAIN chain |-> chain[i].proposal]
                        IN  \/ history = decided
                            \/ /\ active # None /\ outcome # "pending"
                               /\ Append(history, active) = decided
      BY DEF HistoryIsDecisionChain
    <3> DEFINE decided == [i \in DOMAIN chain |-> chain[i].proposal]
               n == Len(history)
    <3>1. Orderly /\ phase = "up" /\ op.kind = "none"
      BY DEF Orderly, Shuffled, Disordered, Serving, IInv, Control
    <3>2. /\ history \in Seq(Proposals) /\ n \in Nat /\ DOMAIN history = 1..n
          /\ DOMAIN chain = 1..Len(chain) /\ Len(chain) \in Nat
          /\ \A i \in 1..Len(chain) : chain[i].proposal \in Proposals
      BY Sequences
    <3>3. \A i \in 1..n : history[i] = chain[i].proposal
      BY <3>1, <3>2 DEF HInv, Remembered
    <3>4. decided \in Seq(Proposals) /\ Len(decided) = Len(chain)
      BY <3>2, IsASeq
    <3>5. CASE Len(chain) = n
      <4>1. \A i \in 1..n : history[i] = decided[i]
        BY <3>2, <3>3, <3>5
      <4> HIDE DEF decided
      <4>2. history = decided
        BY <3>2, <3>4, <3>5, <4>1, SeqEqual
      <4> QED BY <4>2 DEF decided
    <3>6. CASE Len(chain) = n + 1 /\ active # None /\ chain[Len(chain)].proposal = active
      <4>1. active \in Proposals
        BY <3>6 DEF IInv, TypeOK, MemoryOK
      <4>2. /\ Append(history, active) \in Seq(Proposals)
            /\ Len(Append(history, active)) = n + 1
            /\ \A i \in 1..n : Append(history, active)[i] = history[i]
            /\ Append(history, active)[n + 1] = active
        BY <3>2, <4>1, AppendProperties
      <4>3. \A i \in 1..n + 1 : Append(history, active)[i] = decided[i]
        BY <3>2, <3>3, <3>6, <4>2
      <4>4. outcome # "pending"
        <5>1. active \in Decided
          BY <3>2, <3>6 DEF Decided, DecidedIn
        <5> QED BY <3>1, <3>6, <5>1, OpenForDecision
      <4> HIDE DEF decided
      <4>5. Append(history, active) = decided
        BY <3>4, <3>6, <4>2, <4>3, SeqEqual
      <4> QED BY <3>6, <4>4, <4>5 DEF decided
    <3> QED BY <3>1, <3>5, <3>6 DEF HInv, Remembered
  <2> QED BY <2>1, <2>2, <2>3 DEF MemoryFollows
<1> QED BY <1>1, Invariance, RecordsInvariance, HistoryInvariance, PTL

-----------------------------------------------------------------------------
(* How a Decision that SynapseGit has comes to be denied in the journal: the     *)
(* repository cannot be read twice, before and after a repeated call.             *)

Twice == faults >= 2 /\ "repository" \in FaultSites

\* A handler that calls SynapseGit about a decided Proposal, and is refused, could
\* not read the repository before.
DInv ==
  /\ CommittedNeverDenied \/ Twice
  /\ /\ pc = "call" \/ (pc = "requery" /\ op.error = "refused")
     /\ op.proposal \in Decided
     => faults >= 1 /\ "repository" \in FaultSites

LEMMA FaultsCounted == IInv => faults \in Nat
BY ConstantsAssumption DEF IInv, TypeOK, BoundsOK

LEMMA FaultsGrow ==
  ASSUME IInv, [Next]_vars
  PROVE  faults \in Nat /\ faults' \in Nat /\ faults' >= faults
<1>1. faults \in Nat /\ faults' \in Nat
  <2>1. IInv'
    BY NextInv
  <2>2. (IInv => faults \in Nat)'
    BY FaultsCounted, PTL
  <2> QED BY <2>1, <2>2, FaultsCounted
<1>2. UNCHANGED faults \/ \E s \in FaultSites : Fault(s)
  <2>1. CASE Request
    BY <2>1 DEF Request, CreateProposal, CreateApproval, ExpireApproval, CreateDecision,
       ReconcileReview, CleanupFailedProposal, Enter, Sound, Fault
  <2>2. CASE PrepareProposal \/ PublishProposal \/ RegisterReview \/ BindProposal
    BY <2>2 DEF PrepareProposal, PublishProposal, RegisterReview, BindProposal, Sound, Fault
  <2>3. CASE RegisterIntent \/ QueryReview
    BY <2>3 DEF RegisterIntent, QueryReview, Sound, Fault
  <2>4. CASE CallSynapse \/ RequeryReview
    BY <2>4 DEF CallSynapse, RequeryReview, Sound, Fault
  <2>5. CASE PersistDecision \/ MaterializeRevision \/ UnlinkSite \/ LinkSite
    BY <2>5 DEF PersistDecision, MaterializeRevision, UnlinkSite, LinkSite, Sound, Fault
  <2>6. CASE AdvancePointer \/ CompleteDecision
    BY <2>6 DEF AdvancePointer, CompleteDecision, Sound, Fault
  <2>7. CASE RecoverProposal \/ RecoverAccepted \/ RecoverCompletions
    BY <2>7 DEF RecoverProposal, RecoverAccepted, RecoverCompletions, Sound, Fault
  <2>8. CASE Crash \/ Stop \/ Start
    BY <2>8 DEF Crash, Stop, Start
  <2> QED BY <2>1, <2>2, <2>3, <2>4, <2>5, <2>6, <2>7, <2>8 DEF Next, Step, vars
<1> QED BY <1>1, <1>2 DEF Fault

LEMMA CallSteps ==
  ASSUME Next, ~QueryReview, ~CallSynapse
  PROVE  pc' \notin {"call", "requery"}
<1>1. ASSUME NEW h, Halt(h) PROVE pc' = "idle"
  BY <1>1 DEF Halt
<1>2. ASSUME Abort \/ Reject PROVE pc' = "idle"
  BY <1>2, <1>1 DEF Abort, Reject, Answer
<1>3. ASSUME NEW o, Open(o) PROVE pc' \in {"idle", "recommit"}
  BY <1>3, <1>1 DEF Open, Settle, Answer
<1>4. CASE Request
  BY <1>4 DEF Request, CreateProposal, CreateApproval, ExpireApproval, CreateDecision,
     ReconcileReview, CleanupFailedProposal, Enter, Serving, control
<1>5. CASE PrepareProposal \/ PublishProposal \/ RegisterReview \/ BindProposal \/ RegisterIntent
  BY <1>2, <1>5 DEF PrepareProposal, PublishProposal, RegisterReview, BindProposal, RegisterIntent, Goto
<1>6. CASE RequeryReview
  BY <1>2, <1>3, <1>6 DEF RequeryReview, Goto
<1>7. CASE PersistDecision \/ MaterializeRevision \/ UnlinkSite \/ LinkSite
  BY <1>2, <1>7 DEF PersistDecision, MaterializeRevision, UnlinkSite, LinkSite, Goto, AfterDecision
<1>8. CASE AdvancePointer \/ CompleteDecision
  BY <1>2, <1>8 DEF AdvancePointer, CompleteDecision
<1>9. CASE RecoverProposal \/ RecoverAccepted \/ RecoverCompletions
  BY <1>1, <1>2, <1>9 DEF RecoverProposal, RecoverAccepted, RecoverCompletions, Goto
<1>10. CASE Crash \/ Stop \/ Start
  BY <1>1, <1>10 DEF Crash, Stop, Start
<1> QED BY <1>4, <1>5, <1>6, <1>7, <1>8, <1>9, <1>10 DEF Next, Step

\* What is on the Ref is observed, whatever the row said.
LEMMA DecidedIsObserved ==
  ASSUME IInv, JInv, NEW p \in Decided
  PROVE  Observed(p) = "committed" /\ expected[p] # Len(chain) /\ p \in Proposals
<1>1. PICK i \in DOMAIN chain : chain[i].proposal = p
  BY DEF Decided, DecidedIn
<1>2. expected[p] = i - 1 /\ intent[p] = chain[i].disposition
  BY <1>1 DEF JInv, Registered
<1>3. chain[i] \in Verdicts /\ i \in 1..Len(chain) /\ Len(chain) \in Nat
  BY Sequences, ElementOfSeq
<1>4. chain[i] = Verdict(p, intent[p]) /\ p \in Proposals
  BY <1>1, <1>2, <1>3 DEF Verdict, Verdicts
<1>5. intent[p] # None
  BY <1>2, <1>3, NoneAssumption DEF Verdicts
<1>6. i > expected[p] /\ expected[p] # Len(chain)
  BY <1>2, <1>3
<1> QED BY <1>4, <1>5, <1>6 DEF Observed

\* Only RequeryReview can deny a decided Proposal.
LEMMA RowDenied ==
  ASSUME IInv, JInv, DInv, [Next]_vars, NEW q \in Decided,
         row'[q] = "denied", row[q] # "denied"
  PROVE  Twice'
<1>1. q \in Proposals /\ row \in [Proposals -> Outcomes \cup {"committed", None}]
  BY DecidedIsObserved DEF IInv, TypeOK, SidecarOK
<1>2. ~UNCHANGED row
  OBVIOUS
<1>3. CASE RegisterReview
  BY <1>1, <1>3 DEF RegisterReview
<1>4. CASE QueryReview
  <2>1. op.proposal = q
    BY <1>1, <1>4 DEF QueryReview
  <2>2. Observed(q) = "committed"
    BY DecidedIsObserved
  <2> QED BY <1>1, <1>4, <2>1, <2>2 DEF QueryReview, Contradicted
<1>5. CASE RequeryReview
  <2>1. op.proposal = q
    BY <1>1, <1>5 DEF RequeryReview
  <2>2. Observed(q) = "committed" /\ Resolve("committed") = "committed"
    BY DecidedIsObserved DEF Resolve
  <2>3. Fault("repository") /\ Resolve("unknown") = "denied"
    BY <1>1, <1>5, <2>1, <2>2 DEF RequeryReview
  <2>4. op.error = "refused"
    BY <2>3 DEF Resolve, IInv, TypeOK, ControlOK
  <2>5. faults >= 1 /\ "repository" \in FaultSites
    BY <1>5, <2>1, <2>4 DEF DInv, RequeryReview
  <2> QED BY <2>3, <2>5, FaultsGrow DEF Fault, Twice
<1> QED BY <1>2, <1>3, <1>4, <1>5, SidecarSteps
        DEF vars, sidecar, PublishProposal, RegisterIntent, CallSynapse

LEMMA NextDenials == IInv /\ JInv /\ DInv /\ [Next]_vars => DInv'
<1> SUFFICES ASSUME IInv, JInv, DInv, [Next]_vars PROVE DInv'
  OBVIOUS
<1>1. Twice => Twice'
  BY FaultsGrow DEF Twice
<1>2. CASE CallSynapse
  <2> DEFINE p == op.proposal
  <2>1. /\ pc = "call" /\ row[p] \in Unsettled /\ p \in Proposals
        /\ UNCHANGED row /\ pc' = "requery" /\ op'.proposal = p
    <3>1. op \in [kind : Kinds, proposal : Proposals \cup {None},
                  disposition : Dispositions \cup {None},
                  error : {"none", "storage", "refused"}]
      BY DEF IInv, TypeOK, ControlOK
    <3> QED BY <1>2, <3>1 DEF CallSynapse, Called, JInv, Pursued, IInv, Control
  <2>2. Decided' \subseteq Decided \cup {p}
    <3>1. CASE UNCHANGED chain
      BY <3>1 DEF Decided
    <3>2. CASE chain' = Append(chain, Verdict(p, intent[p]))
      <4>1. Verdict(p, intent[p]) \in Verdicts /\ Verdict(p, intent[p]).proposal = p
        BY <2>1 DEF IInv, Control, Verdict, Verdicts
      <4>2. /\ Len(chain') = Len(chain) + 1 /\ DOMAIN chain' = 1..Len(chain) + 1
            /\ chain'[Len(chain) + 1] = Verdict(p, intent[p])
            /\ \A i \in 1..Len(chain) : chain'[i] = chain[i]
            /\ Len(chain) \in Nat /\ DOMAIN chain = 1..Len(chain)
        BY <3>2, <4>1, Sequences, AppendProperties, LenProperties
      <4>3. \A i \in DOMAIN chain' : i = Len(chain) + 1 \/ i \in DOMAIN chain
        BY <4>2
      <4> QED BY <4>1, <4>2, <4>3 DEF Decided, DecidedIn
    <3> QED BY <1>2, <3>1, <3>2 DEF CallSynapse
  <2>3. CommittedNeverDenied => CommittedNeverDenied'
    BY <2>1, <2>2 DEF CommittedNeverDenied, Unsettled
  <2>4. ASSUME op'.error = "refused", p \in Decided'
        PROVE  faults' >= 1 /\ "repository" \in FaultSites
    <3>1. UNCHANGED chain
      <4>1. op \in [kind : Kinds, proposal : Proposals \cup {None},
                    disposition : Dispositions \cup {None},
                    error : {"none", "storage", "refused"}]
        BY DEF IInv, TypeOK, ControlOK
      <4> QED BY <1>2, <2>4, <4>1 DEF CallSynapse, Called
    <3>2. p \in Decided
      BY <2>4, <3>1 DEF Decided
    <3> QED BY <2>1, <3>2, FaultsGrow DEF DInv
  <2> QED BY <1>1, <2>1, <2>3, <2>4 DEF DInv
<1>3. ASSUME ~CallSynapse PROVE Decided' = Decided
  BY <1>3, SidecarSteps
     DEF vars, sidecar, PublishProposal, RegisterReview, RegisterIntent, QueryReview,
         RequeryReview, Decided
<1>4. ASSUME ~CallSynapse PROVE CommittedNeverDenied' \/ Twice'
  BY <1>1, <1>3, <1>4, RowDenied DEF DInv, CommittedNeverDenied
<1>5. CASE QueryReview
  <2> DEFINE p == op.proposal
  <2>1. pc = "query" /\ UNCHANGED chain
    BY <1>5 DEF QueryReview
  <2>2. ~CallSynapse
    BY <2>1 DEF CallSynapse
  <2>3. pc' # "requery"
    <3>1. Goto("receipt") \/ Goto("call") \/ Abort \/ Reject \/ \E o : Open(o)
      BY <1>5 DEF QueryReview
    <3> QED BY <3>1 DEF Goto, Abort, Reject, Open, Settle, Halt, Answer
  <2>4. ASSUME pc' = "call", op'.proposal \in Decided
        PROVE  faults' >= 1 /\ "repository" \in FaultSites
    <3>1. op' = op
      <4>1. Goto("receipt") \/ Goto("call") \/ Abort \/ Reject \/ \E o : Open(o)
        BY <1>5 DEF QueryReview
      <4> QED BY <2>4, <4>1 DEF Goto, Abort, Reject, Open, Settle, Halt, Answer
    <3>2. Observed(p) = "committed"
      BY <2>4, <3>1, DecidedIsObserved
    <3>3. Fault("repository")
      BY <1>5, <2>4, <3>2 DEF QueryReview, Goto, Abort, Reject, Halt, Answer
    <3> QED BY <3>3, FaultsGrow DEF Fault
  <2> QED BY <1>3, <1>4, <2>2, <2>3, <2>4 DEF DInv
<1>6. CASE UNCHANGED vars
  BY <1>6 DEF vars, disk, store, sidecar, control, DInv, Twice, Decided, CommittedNeverDenied
<1>7. CASE Next /\ ~CallSynapse /\ ~QueryReview
  BY <1>4, <1>7, CallSteps DEF DInv
<1> QED BY <1>2, <1>5, <1>6, <1>7

LEMMA DenialInvariance == Spec => []DInv
<1>1. Init => DInv
  <2> SUFFICES ASSUME Init PROVE DInv
    OBVIOUS
  <2>1. DOMAIN chain = {} /\ pc = "idle"
    BY DEF Init
  <2> QED BY <2>1 DEF DInv, CommittedNeverDenied, Decided, DecidedIn
<1> QED BY <1>1, NextDenials, Invariance, RecordsInvariance, PTL DEF Spec

\* As long as the SynapseGit repository can be read, or with one error of any kind,
\* no Decision that is on the Ref is denied in the journal: neither a retry nor a
\* lost answer nor a crash is enough.
THEOREM DenialNeedsTwoFaults ==
  Spec => [](CommittedNeverDenied \/ (faults >= 2 /\ "repository" \in FaultSites))
BY DenialInvariance, PTL DEF DInv, Twice
=============================================================================
