--------------------------- MODULE ChangeSetProofs ---------------------------
(* Proofs about ChangeSetApplication, for any finite set of paths, any        *)
(* contents with any references, any Accepted site and any ChangeSet: the     *)
(* checks of the operations are enough to apply them in order, the review     *)
(* lists every difference, and what carries no blocking warning breaks no     *)
(* reference a scan can find or knows of, and runs nothing new.              *)
EXTENDS ChangeSetApplication, FiniteSetTheorems, TLAPS

-----------------------------------------------------------------------------
(* The inductive invariant.                                                  *)

Early == {"envelope", "operations", "cycle?", "graph", "preconditions"}
EarlyRefusals == {"protocol", "limit", "conflict", "cycle", "precondition"}
Done == {"entry?", "references", "checks", "proposed", "entry", "reference"} \cup Exports

\* The path an operation takes its file from, and what it leaves at its path.
Source(op) == IF op.op = "rename" THEN op.from ELSE op.path
Left(op) ==
  IF op.op \in {"create", "replace"} THEN op.content
  ELSE IF op.op = "rename" THEN accepted[op.from] ELSE None

SiteFunctions == [Paths -> Contents \cup {None}]

WellFormed ==
  /\ accepted \in SiteFunctions
  /\ files \in SiteFunctions
  /\ operations \in Seq(Operations)
  /\ applied \in 0..Len(operations)

\* No two paths of the Accepted site differ in case only.
DistinctIn(f) == \A p, q \in Present(f) : Fold[p] = Fold[q] => p = q

\* What the checks before the application have established.
RenamesMove ==
  \A i \in DOMAIN operations : operations[i].op = "rename" => operations[i].from # operations[i].path
OneOwner ==
  \A i, k \in DOMAIN operations :
    i # k => Folded(Claims(operations[i])) \cap Folded(Claims(operations[k])) = {}
Possible ==
  \A i \in DOMAIN operations :
    /\ operations[i].op # "create" => accepted[Source(operations[i])] # None
    /\ operations[i].op \in {"create", "rename"} =>
         Fold[operations[i].path] \notin Folded(Present(accepted))

\* The stages in their order.
Staged ==
  /\ stage \in Early \cup EarlyRefusals \cup {"apply"} \cup Done
  /\ stage \in Early \cup EarlyRefusals => applied = 0
  /\ stage \in Done => applied = Len(operations)
  /\ stage \in {"cycle?", "graph", "preconditions", "apply"} \cup Done => RenamesMove
  /\ stage \in {"preconditions", "apply"} \cup Done => OneOwner
  /\ stage \in {"apply"} \cup Done => Possible

\* The clone differs from the Accepted site by the operations applied so far,
\* each of which left its path as it asks for and is listed so.
Untouched ==
  \A p \in Paths : (\A i \in 1..applied : p \notin Claims(operations[i])) => files[p] = accepted[p]
Touched ==
  \A i \in 1..applied :
    /\ files[operations[i].path] = Left(operations[i])
    /\ operations[i].op = "rename" => files[operations[i].from] = None
Change(op) ==
  [path |-> op.path, from |-> Source(op), before |-> accepted[Source(op)], after |-> Left(op)]
Listed ==
  /\ changes \in Seq([path : Paths, from : Paths, before : Contents \cup {None},
                      after : Contents \cup {None}])
  /\ Len(changes) = applied
  /\ \A i \in 1..applied : changes[i] = Change(operations[i])

\* What the last checks have established.
Reviewed ==
  /\ stage \in {"checks", "proposed"} \cup Exports => LocalReferencesHold(files)
  /\ Proposed => warnings = (BehaviorFeatures(files) \ BehaviorFeatures(accepted))
                            \cup {<<"incomplete", p>> : p \in IntroducedIncomplete}
  /\ stage = "export refused" => Profile(files) = "refused"
  /\ stage = "export offline" => Profile(files) = "offline"

IInv ==
  /\ WellFormed /\ DistinctIn(accepted) /\ Staged
  /\ Untouched /\ Touched /\ Listed /\ Reviewed

-----------------------------------------------------------------------------
(* Paths that differ in case only, by counting.                              *)

\* As many folded paths as paths: no two paths share a fold, and conversely.
LEMMA FoldCounts ==
  ASSUME NEW f \in SiteFunctions
  PROVE  DistinctIn(f) <=> Cardinality(Folded(Present(f))) = Cardinality(Present(f))
  <1> DEFINE S == Present(f)
             T == Folded(S)
             g == [p \in S |-> Fold[p]]
  <1>1. S \subseteq Paths
    BY DEF Present, SiteFunctions
  <1>2. IsFiniteSet(S)
    BY <1>1, FS_Subset, ChangeSetAssumption
  <1>3. g \in [S -> T]
    BY DEF Folded
  <1>4. \A t \in T : \E s \in S : g[s] = t
    BY DEF Folded
  <1>5. g \in Surjection(S, T)
    BY <1>3, <1>4 DEF Surjection
  <1>6. Cardinality(T) = Cardinality(S) <=> g \in Injection(S, T)
    BY <1>2, <1>5, FS_Surjection
  <1>7. g \in Injection(S, T) <=> \A p, q \in S : g[p] = g[q] => p = q
    BY <1>3 DEF Injection, IsInjective
  <1>8. (\A p, q \in S : g[p] = g[q] => p = q) <=> DistinctIn(f)
    BY DEF DistinctIn
  <1> QED
    BY <1>6, <1>7, <1>8

-----------------------------------------------------------------------------
(* Initial states and the checks before the application.                     *)

LEMMA EmptySeq == ASSUME NEW S PROVE << >> \in Seq(S) /\ Len(<< >>) = 0
  OBVIOUS

LEMMA InitInv == Init => IInv
  <1> SUFFICES ASSUME Init PROVE IInv
    OBVIOUS
  <1>1. accepted \in SiteFunctions /\ files = accepted
    BY DEF Init, Sites, SiteFunctions
  <1>2. operations \in Seq(Operations)
    BY ChangeSetAssumption DEF Init
  <1>3. applied = 0 /\ Len(operations) \in Nat
    BY <1>2 DEF Init
  <1>4. WellFormed
    BY <1>1, <1>2, <1>3 DEF WellFormed
  <1>5. DistinctIn(accepted)
    BY <1>1, FoldCounts DEF Init
  <1>6. stage = "envelope"
    BY DEF Init
  <1>7. Staged /\ Reviewed
    BY <1>3, <1>6 DEF Staged, Reviewed, Proposed, Exports, Early, EarlyRefusals, Done
  <1>8. Untouched /\ Touched
    BY <1>1, <1>3 DEF Untouched, Touched
  <1>9. Listed
    BY <1>3, EmptySeq DEF Init, Listed
  <1> QED
    BY <1>4, <1>5, <1>7, <1>8, <1>9 DEF IInv

\* What does not depend on the stage stays when only the stage changes.
Site == <<accepted, operations, files, applied, changes, warnings>>

LEMMA SiteKept ==
  ASSUME IInv, UNCHANGED Site
  PROVE  /\ WellFormed' /\ DistinctIn(accepted)' /\ Untouched' /\ Touched' /\ Listed'
         /\ RenamesMove => RenamesMove'
         /\ OneOwner => OneOwner'
         /\ Possible => Possible'
  BY DEF IInv, Site, WellFormed, DistinctIn, Untouched, Touched, Listed, RenamesMove, OneOwner,
         Possible, Present, Left, Change, Source

\* A stage before the application, or a refusal there, has nothing to review.
LEMMA EarlyReviewed ==
  ASSUME stage \in Early \cup EarlyRefusals \cup {"apply", "entry?", "references", "entry", "reference"}
  PROVE  Reviewed
  BY DEF Reviewed, Proposed, Exports, Early, EarlyRefusals

LEMMA ChecksStep ==
  ASSUME IInv,
         ValidateEnvelope \/ ValidateOperations \/ ValidateCycles \/ ValidateGraph
           \/ ValidatePreconditions
  PROVE  IInv'
  <1>1. UNCHANGED Site
    BY DEF ValidateEnvelope, ValidateOperations, ValidateCycles, ValidateGraph,
           ValidatePreconditions, Check, Site
  <1>2. stage' \in Early \cup EarlyRefusals \cup {"apply"} /\ stage \in Early
    BY DEF ValidateEnvelope, ValidateOperations, ValidateCycles, ValidateGraph,
           ValidatePreconditions, Check, Early, EarlyRefusals
  <1>3. Reviewed'
    BY <1>2, EarlyReviewed DEF Reviewed, Proposed, Exports, Early, EarlyRefusals
  <1>4. applied' = 0
    BY <1>1, <1>2 DEF IInv, Staged, Site
  <1>5. stage' \in {"cycle?", "graph", "preconditions", "apply"} => RenamesMove
    <2>1. CASE ValidateEnvelope
      BY <2>1 DEF ValidateEnvelope, Check
    <2>2. CASE ValidateOperations
      BY <2>2 DEF ValidateOperations, Check, RenamesMove, Ops
    <2>3. CASE ValidateCycles \/ ValidateGraph \/ ValidatePreconditions
      BY <2>3 DEF ValidateCycles, ValidateGraph, ValidatePreconditions, Check, IInv, Staged
    <2> QED
      BY <2>1, <2>2, <2>3
  <1>6. stage' \in {"preconditions", "apply"} => OneOwner
    <2>1. CASE ValidateEnvelope \/ ValidateOperations \/ ValidateCycles
      BY <2>1 DEF ValidateEnvelope, ValidateOperations, ValidateCycles, Check
    <2>2. CASE ValidateGraph
      BY <2>2 DEF ValidateGraph, Check, OneOwner
    <2>3. CASE ValidatePreconditions
      BY <2>3 DEF ValidatePreconditions, Check, IInv, Staged
    <2> QED
      BY <2>1, <2>2, <2>3
  <1>7. stage' = "apply" => Possible
    <2>1. CASE ValidateEnvelope \/ ValidateOperations \/ ValidateCycles \/ ValidateGraph
      BY <2>1 DEF ValidateEnvelope, ValidateOperations, ValidateCycles, ValidateGraph, Check
    <2>2. CASE ValidatePreconditions
      BY <2>2 DEF ValidatePreconditions, Check, Possible, Ops, HashMatches, Source
    <2> QED
      BY <2>1, <2>2
  <1>8. Staged'
    BY <1>2, <1>4, <1>5, <1>6, <1>7, <1>1, SiteKept
    DEF Staged, Early, EarlyRefusals, Done, Exports
  <1> QED
    BY <1>1, <1>3, <1>8, SiteKept DEF IInv

-----------------------------------------------------------------------------
(* The application.                                                          *)

LEMMA AppendChange ==
  ASSUME NEW S, NEW s \in Seq(S), NEW x \in S
  PROVE  /\ Append(s, x) \in Seq(S)
         /\ Len(Append(s, x)) = Len(s) + 1
         /\ \A i \in 1..Len(s) : Append(s, x)[i] = s[i]
         /\ Append(s, x)[Len(s) + 1] = x
  OBVIOUS

\* What an operation claims and the ones before it do not, is still as it was
\* accepted when its turn comes.
LEMMA NextIsUntouched ==
  ASSUME IInv, stage = "apply", applied < Len(operations)
  PROVE  LET op == operations[applied + 1]
         IN  /\ op \in Operations
             /\ files[op.path] = accepted[op.path]
             /\ files[Source(op)] = accepted[Source(op)]
             /\ \A i \in 1..applied : Claims(operations[i]) \cap Claims(op) = {}
  <1> DEFINE op == operations[applied + 1]
  <1>1. applied + 1 \in DOMAIN operations /\ op \in Operations /\ 1..applied \subseteq DOMAIN operations
        /\ applied \in Nat
    BY DEF IInv, WellFormed
  <1>2. OneOwner
    BY DEF IInv, Staged
  <1>3. ASSUME NEW i \in 1..applied PROVE Claims(operations[i]) \cap Claims(op) = {}
    <2>1. Folded(Claims(operations[i])) \cap Folded(Claims(op)) = {}
      BY <1>1, <1>2 DEF OneOwner
    <2> QED
      BY <2>1 DEF Folded
  <1>4. op.path \in Paths /\ Source(op) \in Paths /\ op.path \in Claims(op) /\ Source(op) \in Claims(op)
    BY <1>1 DEF Operations, Source, Claims
  <1> QED
    BY <1>1, <1>3, <1>4 DEF IInv, Untouched

LEMMA ApplyStep == ASSUME IInv, ApplyOperation PROVE IInv'
  <1> DEFINE op == operations[applied + 1]
  <1>1. stage = "apply" /\ applied < Len(operations) /\ UNCHANGED <<accepted, operations, warnings>>
    BY DEF ApplyOperation
  <1>2. /\ op \in Operations /\ files[op.path] = accepted[op.path]
        /\ files[Source(op)] = accepted[Source(op)]
        /\ \A i \in 1..applied : Claims(operations[i]) \cap Claims(op) = {}
    BY <1>1, NextIsUntouched
  <1>3. RenamesMove /\ OneOwner /\ Possible
    BY <1>1 DEF IInv, Staged
  <1>4. applied \in Nat /\ applied + 1 \in DOMAIN operations /\ 1..applied \subseteq DOMAIN operations
        /\ applied + 1 \in 0..Len(operations) /\ 1..(applied + 1) = 1..applied \cup {applied + 1}
    BY <1>1 DEF IInv, WellFormed
  <1>5. op.op \in {"create", "replace", "rename", "delete"} /\ op.path \in Paths /\ op.from \in Paths
        /\ op.content \in Contents \cup {None}
    BY <1>2 DEF Operations
  <1>6. op.op \in {"create", "rename"} => files[op.path] = None
    BY <1>2, <1>3, <1>4, <1>5 DEF Possible, Folded, Present, IInv, WellFormed, SiteFunctions
  <1>7. op.op # "create" => files[Source(op)] # None
    BY <1>2, <1>3, <1>4 DEF Possible
  <1>8. op.op = "rename" => op.from # op.path
    BY <1>3, <1>4 DEF RenamesMove
  <1>9. Left(op) \in Contents \cup {None} /\ Source(op) \in Paths
    BY <1>5 DEF Left, Source, IInv, WellFormed, SiteFunctions
  <1> DEFINE after == [p \in Paths |-> IF p = op.path THEN Left(op)
                                       ELSE IF op.op = "rename" /\ p = op.from THEN None ELSE files[p]]
  <1>10. /\ files' = after /\ applied' = applied + 1 /\ UNCHANGED stage
         /\ changes' = Append(changes, [path |-> op.path, from |-> Source(op),
                                        before |-> files[Source(op)], after |-> Left(op)])
    <2>0. files \in [Paths -> Contents \cup {None}]
      BY DEF IInv, WellFormed, SiteFunctions
    <2>1. CASE op.op = "create"
      <3>1. /\ files' = [files EXCEPT ![op.path] = op.content] /\ applied' = applied + 1
            /\ changes' = Append(changes, [path |-> op.path, from |-> op.path, before |-> files[op.path],
                 after |-> [files EXCEPT ![op.path] = op.content][op.path]]) /\ UNCHANGED stage
        BY <2>1, <1>6 DEF ApplyOperation
      <3> QED
        BY <2>0, <2>1, <3>1, <1>5 DEF Left, Source
    <2>2. CASE op.op = "replace"
      <3>1. /\ files' = [files EXCEPT ![op.path] = op.content] /\ applied' = applied + 1
            /\ changes' = Append(changes, [path |-> op.path, from |-> op.path, before |-> files[op.path],
                 after |-> [files EXCEPT ![op.path] = op.content][op.path]]) /\ UNCHANGED stage
        BY <2>2, <1>7 DEF ApplyOperation, Source
      <3> QED
        BY <2>0, <2>2, <3>1, <1>5 DEF Left, Source
    <2>3. CASE op.op = "rename"
      <3>1. /\ files' = Moved(files, op) /\ applied' = applied + 1
            /\ changes' = Append(changes, [path |-> op.path, from |-> op.from, before |-> files[op.from],
                 after |-> Moved(files, op)[op.path]]) /\ UNCHANGED stage
        BY <2>3, <1>6, <1>7 DEF ApplyOperation, Source
      <3>2. files[op.from] = accepted[op.from]
        BY <2>3, <1>2 DEF Source
      <3> QED
        BY <2>0, <2>3, <3>1, <3>2, <1>5, <1>8 DEF Left, Source, Moved
    <2>4. CASE op.op = "delete"
      <3>1. /\ files' = [files EXCEPT ![op.path] = None] /\ applied' = applied + 1
            /\ changes' = Append(changes, [path |-> op.path, from |-> op.path, before |-> files[op.path],
                 after |-> [files EXCEPT ![op.path] = None][op.path]]) /\ UNCHANGED stage
        BY <2>4, <1>7 DEF ApplyOperation, Source
      <3> QED
        BY <2>0, <2>4, <3>1, <1>5 DEF Left, Source
    <2> QED
      BY <2>1, <2>2, <2>3, <2>4, <1>5
  <1>11. WellFormed'
    BY <1>1, <1>4, <1>9, <1>10 DEF IInv, WellFormed, SiteFunctions
  <1>12. Untouched'
    <2> SUFFICES ASSUME NEW p \in Paths, \A i \in 1..(applied + 1) : p \notin Claims(operations[i])
                 PROVE  after[p] = accepted[p]
      BY <1>1, <1>10 DEF Untouched, Claims
    <2>1. files[p] = accepted[p] /\ p \notin Claims(op)
      BY <1>4 DEF IInv, Untouched
    <2> QED
      BY <2>1 DEF Claims
  <1>13. Touched'
    <2> SUFFICES ASSUME NEW i \in 1..(applied + 1)
                 PROVE  /\ after[operations[i].path] = Left(operations[i])
                        /\ operations[i].op = "rename" => after[operations[i].from] = None
      BY <1>1, <1>10 DEF Touched, Left
    <2>1. CASE i = applied + 1
      BY <2>1, <1>5, <1>8
    <2>2. CASE i \in 1..applied
      <3>1. operations[i] \in Operations
        BY <2>2, <1>4 DEF IInv, WellFormed
      <3>2. operations[i].path \in Paths /\ operations[i].from \in Paths
        BY <3>1 DEF Operations
      <3>3. operations[i].path \notin Claims(op)
            /\ (operations[i].op = "rename" => operations[i].from \notin Claims(op))
        BY <2>2, <1>2 DEF Claims
      <3>4. files[operations[i].path] = Left(operations[i])
            /\ (operations[i].op = "rename" => files[operations[i].from] = None)
        BY <2>2 DEF IInv, Touched
      <3> QED
        BY <3>2, <3>3, <3>4 DEF Claims
    <2> QED
      BY <2>1, <2>2, <1>4
  <1>14. Listed'
    <2> DEFINE Record == [path : Paths, from : Paths, before : Contents \cup {None},
                          after : Contents \cup {None}]
    <2>1. changes' = Append(changes, Change(op))
      BY <1>2, <1>10 DEF Change
    <2>2. Change(op) \in Record
      BY <1>5, <1>9 DEF Change, IInv, WellFormed, SiteFunctions
    <2>3. changes \in Seq(Record) /\ Len(changes) = applied
          /\ \A i \in 1..applied : changes[i] = Change(operations[i])
      BY DEF IInv, Listed
    <2>4. changes' \in Seq(Record) /\ Len(changes') = applied + 1
      BY <2>1, <2>2, <2>3, AppendChange
    <2>5. \A i \in 1..(applied + 1) : changes'[i] = Change(operations[i])
      BY <2>1, <2>2, <2>3, <1>4, AppendChange
    <2>6. \A i \in 1..(applied + 1) : Change(operations[i])' = Change(operations[i])
      BY <1>1 DEF Change, Left, Source
    <2> QED
      BY <2>4, <2>5, <2>6, <1>1, <1>10 DEF Listed, Change, Left, Source
  <1>15. Staged' /\ Reviewed'
    <2>1. RenamesMove' /\ OneOwner' /\ Possible' /\ stage' = "apply"
      BY <1>1, <1>3, <1>10 DEF RenamesMove, OneOwner, Possible, Claims, Source, Present
    <2> QED
      BY <2>1 DEF Staged, Reviewed, Proposed, Exports, Early, EarlyRefusals, Done
  <1>16. DistinctIn(accepted)'
    BY <1>1 DEF IInv, DistinctIn, Present
  <1> QED
    BY <1>11, <1>12, <1>13, <1>14, <1>15, <1>16 DEF IInv

-----------------------------------------------------------------------------
(* The checks of the result.                                                 *)

\* No two files of the result differ in case only: a path that was claimed is
\* the operation's own, and a path that was not is where it was accepted.
LEMMA ResultIsDistinct ==
  ASSUME IInv, stage = "apply", applied = Len(operations)
  PROVE  DistinctIn(files)
  <1>1. OneOwner /\ Possible /\ Len(operations) \in Nat /\ DOMAIN operations = 1..applied
    BY DEF IInv, Staged, WellFormed
  <1>2. \A i \in DOMAIN operations : operations[i].op \in {"create", "replace", "rename", "delete"}
    <2>1. \A i \in DOMAIN operations : operations[i] \in Operations
      BY DEF IInv, WellFormed
    <2> QED
      BY <2>1 DEF Operations
  <1>3. ASSUME NEW p \in Present(files), NEW i \in 1..applied, p \in Claims(operations[i])
        PROVE  p = operations[i].path /\ operations[i].op # "delete"
    <2>1. files[p] # None
      BY <1>3 DEF Present
    <2> QED
      BY <1>1, <1>2, <1>3, <2>1 DEF IInv, Touched, Claims, Left
  <1>4. ASSUME NEW p \in Present(files), \A i \in 1..applied : p \notin Claims(operations[i])
        PROVE  p \in Present(accepted)
    BY <1>4 DEF Present, IInv, WellFormed, SiteFunctions, Untouched
  <1>5. ASSUME NEW p \in Present(files), NEW q \in Present(files), Fold[p] = Fold[q],
               NEW i \in 1..applied, p \in Claims(operations[i])
        PROVE  p = q
    <2>1. p = operations[i].path /\ operations[i].op # "delete"
      BY <1>3, <1>5
    <2>2. CASE \E k \in 1..applied : q \in Claims(operations[k])
      <3>1. PICK k \in 1..applied : q \in Claims(operations[k])
        BY <2>2
      <3>2. q = operations[k].path
        BY <1>3, <3>1
      <3>3. Fold[p] \in Folded(Claims(operations[i])) \cap Folded(Claims(operations[k]))
        BY <1>5, <3>1 DEF Folded
      <3>4. i = k
        BY <3>3, <1>1 DEF OneOwner
      <3> QED
        BY <2>1, <3>2, <3>4
    <2>3. CASE \A k \in 1..applied : q \notin Claims(operations[k])
      <3>1. q \in Present(accepted)
        BY <2>3, <1>4
      <3>2. operations[i].op = "replace"
        <4>1. Fold[operations[i].path] \in Folded(Present(accepted))
          BY <1>5, <2>1, <3>1 DEF Folded
        <4> QED
          BY <4>1, <1>1, <1>2, <2>1 DEF Possible
      <3>3. p \in Present(accepted)
        BY <3>2, <2>1, <1>1, <1>5 DEF Possible, Source, Present, IInv, WellFormed, SiteFunctions
      <3> QED
        BY <3>1, <3>3, <1>5 DEF IInv, DistinctIn
    <2> QED
      BY <2>2, <2>3
  <1> SUFFICES ASSUME NEW p \in Present(files), NEW q \in Present(files), Fold[p] = Fold[q]
               PROVE  p = q
    BY DEF DistinctIn
  <1>6. CASE \E i \in 1..applied : p \in Claims(operations[i])
    BY <1>5, <1>6
  <1>7. CASE \E i \in 1..applied : q \in Claims(operations[i])
    BY <1>5, <1>7
  <1>8. CASE \A i \in 1..applied : p \notin Claims(operations[i]) /\ q \notin Claims(operations[i])
    BY <1>4, <1>8 DEF IInv, DistinctIn
  <1> QED
    BY <1>6, <1>7, <1>8

LEMMA CollisionsStep == ASSUME IInv, ValidateCollisions PROVE IInv'
  <1>1. stage = "apply" /\ applied = Len(operations) /\ UNCHANGED Site
    BY DEF ValidateCollisions, Check, Site
  <1>2. Cardinality(Folded(Present(files))) = Cardinality(Present(files))
    BY <1>1, ResultIsDistinct, FoldCounts DEF IInv, WellFormed
  <1>3. stage' = "entry?"
    BY <1>2 DEF ValidateCollisions, Check
  <1>4. applied' = Len(operations')
    BY <1>1 DEF Site
  <1>5. RenamesMove' /\ OneOwner' /\ Possible'
    BY <1>1, SiteKept DEF IInv, Staged
  <1>6. Staged' /\ Reviewed'
    BY <1>3, <1>4, <1>5 DEF Staged, Reviewed, Proposed, Exports, Early, EarlyRefusals, Done
  <1> QED
    BY <1>1, <1>6, SiteKept DEF IInv

LEMMA ResultStep ==
  ASSUME IInv, ValidateEntryPoint \/ ValidateReferences \/ CollectWarnings \/ Export
  PROVE  IInv'
  <1>1. UNCHANGED <<accepted, operations, files, applied, changes>>
    BY DEF ValidateEntryPoint, ValidateReferences, CollectWarnings, Export, Check
  <1>2. stage \in Done /\ stage' \in Done
    BY DEF ValidateEntryPoint, ValidateReferences, CollectWarnings, Export, Check, Done, Exports,
           Profile
  <1>3. WellFormed' /\ DistinctIn(accepted)' /\ Untouched' /\ Touched' /\ Listed'
    BY <1>1 DEF IInv, WellFormed, DistinctIn, Untouched, Touched, Listed, Present, Left, Change, Source
  <1>4. RenamesMove' /\ OneOwner' /\ Possible' /\ applied' = Len(operations')
    BY <1>1, <1>2
    DEF IInv, Staged, RenamesMove, OneOwner, Possible, Claims, Source, Present
  <1>5. Staged'
    BY <1>2, <1>4 DEF Staged, Early, EarlyRefusals, Done, Exports
  <1>6. LocalReferencesHold(files)' <=> LocalReferencesHold(files)
    BY <1>1
  <1>7. Reviewed'
    <2>1. CASE ValidateEntryPoint
      <3>1. stage' \in {"references", "entry"}
        BY <2>1 DEF ValidateEntryPoint, Check
      <3> QED
        BY <3>1 DEF Reviewed, Proposed, Exports
    <2>2. CASE ValidateReferences
      <3>1. stage' = "reference" \/ (stage' = "checks" /\ LocalReferencesHold(files))
        BY <2>2 DEF ValidateReferences, Check
      <3> QED
        BY <3>1, <1>6 DEF Reviewed, Proposed, Exports
    <2>3. CASE CollectWarnings
      <3>1. stage' = "proposed" /\ LocalReferencesHold(files)
        BY <2>3 DEF CollectWarnings, IInv, Reviewed
      <3>2. BehaviorFeatures(files)' = BehaviorFeatures(files)
            /\ BehaviorFeatures(accepted)' = BehaviorFeatures(accepted)
            /\ IntroducedIncomplete' = IntroducedIncomplete
        BY <1>1 DEF IntroducedIncomplete
      <3>3. warnings' = (BehaviorFeatures(files) \ BehaviorFeatures(accepted))
                        \cup {<<"incomplete", p>> : p \in IntroducedIncomplete}
        BY <2>3 DEF CollectWarnings
      <3> QED
        BY <3>1, <3>2, <3>3, <1>6 DEF Reviewed, Proposed, Exports
    <2>4. CASE Export
      <3>1. stage = "proposed" /\ warnings' = warnings
        BY <2>4 DEF Export
      <3>2. LocalReferencesHold(files)
            /\ warnings = (BehaviorFeatures(files) \ BehaviorFeatures(accepted))
                          \cup {<<"incomplete", p>> : p \in IntroducedIncomplete}
        BY <3>1 DEF IInv, Reviewed, Proposed
      <3>3. BehaviorFeatures(files)' = BehaviorFeatures(files)
            /\ BehaviorFeatures(accepted)' = BehaviorFeatures(accepted)
            /\ IntroducedIncomplete' = IntroducedIncomplete
            /\ Profile(files)' = Profile(files)
        BY <1>1 DEF IntroducedIncomplete
      <3>4. Profile(files) \in {"refused", "standalone", "offline"}
        BY DEF Profile
      <3>5. /\ stage' \in Exports
            /\ stage' = "export refused" => Profile(files) = "refused"
            /\ stage' = "export offline" => Profile(files) = "offline"
        BY <2>4, <3>4 DEF Export, Exports
      <3> QED
        BY <3>1, <3>2, <3>3, <3>5, <1>6 DEF Reviewed, Proposed
    <2> QED
      BY <2>1, <2>2, <2>3, <2>4
  <1> QED
    BY <1>3, <1>5, <1>7 DEF IInv

LEMMA StutterStep == ASSUME IInv, UNCHANGED vars PROVE IInv'
  <1>1. UNCHANGED Site /\ stage' = stage
    BY DEF vars, Site
  <1>2. Staged'
    BY <1>1, SiteKept DEF IInv, Staged, Site
  <1>3. BehaviorFeatures(files)' = BehaviorFeatures(files)
        /\ BehaviorFeatures(accepted)' = BehaviorFeatures(accepted)
        /\ IntroducedIncomplete' = IntroducedIncomplete
        /\ Profile(files)' = Profile(files)
        /\ LocalReferencesHold(files)' = LocalReferencesHold(files)
    BY <1>1 DEF IntroducedIncomplete, Site
  <1>4. Reviewed'
    BY <1>1, <1>3 DEF IInv, Reviewed, Proposed, Site
  <1> QED
    BY <1>1, <1>2, <1>4, SiteKept DEF IInv

THEOREM Invariance == Spec => []IInv
  <1>1. IInv /\ [Next]_vars => IInv'
    BY ChecksStep, ApplyStep, CollisionsStep, ResultStep, StutterStep DEF Next
  <1> QED
    BY InitInv, <1>1, PTL DEF Spec

-----------------------------------------------------------------------------
(* What the review may rely on.                                              *)

\* An operation that was applied left its path as it asks for.
LEMMA AppliedOperations ==
  ASSUME IInv, applied = Len(operations)
  PROVE  \A op \in Ops :
           /\ op.path \in Paths /\ op.op \in {"create", "replace", "rename", "delete"}
           /\ files[op.path] = Left(op)
           /\ op.op = "rename" => files[op.from] = None
  <1>1. \A i \in DOMAIN operations : operations[i] \in Operations /\ i \in 1..applied
    BY DEF IInv, WellFormed
  <1>2. \A i \in DOMAIN operations :
          /\ operations[i].path \in Paths
          /\ operations[i].op \in {"create", "replace", "rename", "delete"}
    BY <1>1 DEF Operations
  <1> QED
    BY <1>1, <1>2 DEF IInv, Touched, Ops

\* The checks of the operations, made on the list as a whole and on the Accepted
\* site, are enough: applying them one by one never fails, and it makes the site
\* they ask for.
THEOREM OperationsApplyAsAsked == Spec => []AppliesAsAsked
  <1>1. ASSUME IInv PROVE AppliesAsAsked
    <2>1. stage \notin {"apply refused", "collision"}
      BY <1>1 DEF IInv, Staged, Early, EarlyRefusals, Done, Exports
    <2>2. ASSUME applied = Len(operations) PROVE files = Result
      <3>1. \A op \in Ops :
              /\ op.path \in Paths /\ op.op \in {"create", "replace", "rename", "delete"}
              /\ files[op.path] = Left(op)
              /\ op.op = "rename" => files[op.from] = None
        BY <1>1, <2>2, AppliedOperations
      <3>2. ASSUME NEW p \in Paths PROVE files[p] = Result[p]
        <4> DEFINE Fills(op) == op.path = p /\ op.op \in {"create", "replace"}
                   Renames(op) == op.path = p /\ op.op = "rename"
                   Removes(op) == \/ op.op = "delete" /\ op.path = p
                                  \/ op.op = "rename" /\ op.from = p
        <4>1. CASE \E op \in Ops : Fills(op)
          <5> DEFINE chosen == CHOOSE op \in Ops : Fills(op)
          <5>1. chosen \in Ops /\ Fills(chosen)
            BY <4>1
          <5>2. Result[p] = chosen.content
            BY <4>1 DEF Result
          <5> QED
            BY <3>1, <5>1, <5>2 DEF Left
        <4>2. CASE (~\E op \in Ops : Fills(op)) /\ \E op \in Ops : Renames(op)
          <5> DEFINE chosen == CHOOSE op \in Ops : Renames(op)
          <5>1. chosen \in Ops /\ Renames(chosen)
            BY <4>2
          <5>2. Result[p] = accepted[chosen.from]
            BY <4>2 DEF Result
          <5> QED
            BY <3>1, <5>1, <5>2 DEF Left
        <4>3. CASE (~\E op \in Ops : Fills(op)) /\ (~\E op \in Ops : Renames(op))
                   /\ \E op \in Ops : Removes(op)
          <5>1. Result[p] = None
            BY <4>3 DEF Result
          <5> QED
            BY <3>1, <4>3, <5>1 DEF Left
        <4>4. CASE (~\E op \in Ops : Fills(op)) /\ (~\E op \in Ops : Renames(op))
                   /\ (~\E op \in Ops : Removes(op))
          <5>1. Result[p] = accepted[p]
            BY <4>4 DEF Result
          <5>2. \A op \in Ops : p \notin Claims(op)
            BY <3>1, <4>4 DEF Claims
          <5>3. \A i \in 1..applied : operations[i] \in Ops
            BY <1>1, <2>2 DEF Ops, IInv, WellFormed
          <5> QED
            BY <1>1, <5>1, <5>2, <5>3 DEF IInv, Untouched
        <4> QED
          BY <4>1, <4>2, <4>3, <4>4
      <3> QED
        BY <1>1, <3>2 DEF Result, IInv, WellFormed, SiteFunctions
    <2> QED
      BY <2>1, <2>2 DEF AppliesAsAsked
  <1> QED
    BY <1>1, Invariance, PTL

\* The changes listed for the creator name every file that differs, with what it
\* was and what it becomes.
THEOREM ReviewIsComplete == Spec => []ReviewShowsEverything
  <1>1. ASSUME IInv PROVE ReviewShowsEverything
    <2> SUFFICES ASSUME Proposed
                 PROVE  /\ \A p \in Paths : files[p] # accepted[p] =>
                             \E i \in DOMAIN changes : p \in {changes[i].path, changes[i].from}
                        /\ \A i \in DOMAIN changes :
                             /\ changes[i].before = accepted[changes[i].from]
                             /\ changes[i].after = files[changes[i].path]
      BY DEF ReviewShowsEverything
    <2>1. DOMAIN changes = 1..applied /\ \A i \in 1..applied : changes[i] = Change(operations[i])
      BY <1>1 DEF IInv, Listed
    <2>2. \A i \in 1..applied :
            /\ changes[i].path = operations[i].path /\ changes[i].from = Source(operations[i])
            /\ changes[i].before = accepted[Source(operations[i])]
            /\ changes[i].after = Left(operations[i])
      BY <2>1 DEF Change
    <2>3. ASSUME NEW p \in Paths, files[p] # accepted[p]
          PROVE  \E i \in DOMAIN changes : p \in {changes[i].path, changes[i].from}
      <3>1. PICK i \in 1..applied : p \in Claims(operations[i])
        BY <1>1, <2>3 DEF IInv, Untouched
      <3> QED
        BY <2>1, <2>2, <3>1 DEF Claims, Source
    <2> QED
      BY <1>1, <2>1, <2>2, <2>3 DEF IInv, Touched
  <1> QED
    BY <1>1, Invariance, PTL

\* Where the ChangeSet does not refuse a reference, the export leads it inside the
\* site to the same place, but for a query alone, which is the file itself; and it
\* refuses an unusual one only, or one the ChangeSet refuses.
LEMMA ResolutionsAgree ==
  ASSUME NEW p, NEW ref
  PROVE  LET to == ResolveReference(p, ref)
             own == ResolveLocal(p, ref)
         IN  /\ to.kind = "local" /\ own.kind # "refused" =>
                  to = own \/ (to = Local(p) /\ Bare(ref, {"query"}))
             /\ to.kind = "refused" => own.kind = "refused" \/ Unusual(ref)
  <1> DEFINE walked == Walked(p, ref)
             own == ResolveLocal(p, ref)
             to == ResolveReference(p, ref)
  <1>1. /\ Refused.kind = "refused" /\ Ignored.kind = "ignored" /\ Local(p).kind = "local"
        /\ [kind |-> "runtime"].kind = "runtime" /\ [kind |-> "external"].kind = "external"
    BY DEF Refused, Ignored, Local
  <1>2. CASE Bare(ref, {"", "fragment"})
    BY <1>1, <1>2 DEF ResolveReference
  <1>3. CASE ~Bare(ref, {"", "fragment"}) /\ (ref.text \in {"control", "backslash"}
               \/ ref.scheme \in {"javascript", "unknown", "malformed http"})
    <2>1. to = Refused
      BY <1>3 DEF ResolveReference
    <2>2. Unusual(ref) \/ own = Refused
      BY <1>3 DEF Unusual, ResolveLocal, Away
    <2> QED
      BY <1>1, <2>1, <2>2
  <1>4. CASE /\ ~Bare(ref, {"", "fragment"}) /\ ref.text \notin {"control", "backslash"}
             /\ ref.scheme \in {"data", "blob", "http"}
    <2>1. to \in {Ignored, [kind |-> "runtime"], [kind |-> "external"]}
      BY <1>4 DEF ResolveReference
    <2> QED
      BY <1>1, <2>1
  <1>5. CASE /\ ~Bare(ref, {"", "fragment"}) /\ ref.text \notin {"control", "backslash"}
             /\ ref.scheme \notin {"javascript", "unknown", "malformed http", "data", "blob", "http"}
    <2>1. to = IF Bare(ref, {"query"}) THEN Local(p) ELSE walked
      BY <1>5 DEF ResolveReference
    <2>2. own = IF walked.kind = "local" /\ Reserved(walked.path) THEN Refused ELSE walked
      BY <1>5 DEF ResolveLocal, Away
    <2> HIDE DEF walked, own, to
    <2> QED
      BY <1>1, <2>1, <2>2 DEF own, to
  <1> QED
    BY <1>2, <1>3, <1>4, <1>5

\* In a site whose scanned references hold, what the export finds is met.
LEMMA ScannedReferencesAreMet ==
  ASSUME NEW f, LocalReferencesHold(f), NEW p \in Present(f), NEW ref \in Refs[f[p]]
  PROVE  LET to == ResolveReference(p, ref)
         IN  /\ to.kind = "local" => Meets(f, to.path)
             /\ to.kind = "refused" => Unusual(ref)
  <1> DEFINE to == ResolveReference(p, ref)
             own == ResolveLocal(p, ref)
  <1>1. own.kind # "refused" /\ (own.kind = "local" => Meets(f, own.path))
    BY DEF LocalReferencesHold, Scan
  <1>2. to.kind = "local" => to \in {own, Local(p)}
    BY <1>1, ResolutionsAgree
  <1>3. to.kind = "refused" => own.kind = "refused" \/ Unusual(ref)
    BY ResolutionsAgree
  <1>4. Meets(f, Local(p).path)
    BY DEF Meets, Local
  <1> HIDE DEF own, to
  <1> QED
    BY <1>1, <1>2, <1>3, <1>4 DEF own, to

\* A table of references, file by file.
LEMMA InTable ==
  ASSUME NEW f, NEW table, NEW x
  PROVE  x \in In(f, table) <=> \E p \in Present(f) : \E ref \in table[f[p]] : x = <<p, ref>>
  BY DEF In

\* A Proposal without blocking warnings leaves no reference of a sound site
\* dangling that the program looks for: one that is found is checked, and a file
\* with syntax that cannot be classified is unchanged and nothing was removed.
THEOREM NoReferenceIsBroken == Spec => []ReferencesHold
  <1>1. ASSUME IInv PROVE ReferencesHold
    <2> SUFFICES ASSUME Proposed, warnings = {}, Dangling(accepted) = {},
                        NEW x \in Dangling(files), x \notin In(files, Runtime)
                 PROVE  FALSE
      BY DEF ReferencesHold, Adoptable
    <2>1. LocalReferencesHold(files)
      BY <1>1 DEF IInv, Reviewed, Proposed
    <2>2. x \in In(files, Refs) \cup In(files, Hidden)
      BY DEF Dangling, All
    <2>3. CASE x \in In(files, Refs)
      <3>1a. PICK p \in Present(files) : \E ref \in Refs[files[p]] : x = <<p, ref>>
        BY <2>3, InTable
      <3>1. PICK ref \in Refs[files[p]] : x = <<p, ref>>
        BY <3>1a
      <3>2. ResolveReference(p, ref).kind = "local" /\ ~Meets(files, ResolveReference(p, ref).path)
        BY <3>1 DEF Dangling
      <3> QED
        BY <2>1, <3>1, <3>2, ScannedReferencesAreMet
    <2>4. CASE x \in In(files, Hidden)
      <3>1a. PICK p \in Present(files) : \E ref \in Hidden[files[p]] : x = <<p, ref>>
        BY <2>4, InTable
      <3>1. PICK ref \in Hidden[files[p]] : x = <<p, ref>>
        BY <3>1a
      <3>2. files[p] \in Contents
        BY <1>1, <3>1 DEF Present, IInv, WellFormed, SiteFunctions
      <3>3. p \in IncompleteSources(files)
        BY <3>1, <3>2, SiteReferencesAssumption DEF IncompleteSources, Scan
      <3>4. IntroducedIncomplete = {}
        BY <1>1 DEF IInv, Reviewed
      <3>5. Present(accepted) \subseteq Present(files) /\ accepted[p] = files[p]
        BY <3>3, <3>4 DEF IntroducedIncomplete
      <3>6. p \in Present(accepted)
        BY <1>1, <3>1, <3>5 DEF Present, IInv, WellFormed, SiteFunctions
      <3>7. x \in All(accepted)
        BY <3>1, <3>5, <3>6, InTable DEF All
      <3>8. ResolveReference(x[1], x[2]).kind = "local"
            => Meets(accepted, ResolveReference(x[1], x[2]).path)
        BY <3>7 DEF Dangling
      <3>9. ResolveReference(x[1], x[2]).kind = "local"
            /\ ~Meets(files, ResolveReference(x[1], x[2]).path)
        BY DEF Dangling
      <3> QED
        BY <3>5, <3>8, <3>9 DEF Meets
    <2> QED
      BY <2>2, <2>3, <2>4
  <1> QED
    BY <1>1, Invariance, PTL

\* An archive that claims to work offline leaves the site by nothing the program
\* looks for, and names the files whose scripts may; an adopted result is refused
\* only for an unusual reference.
THEOREM ExportsAreTruthful == Spec => []ExportIsTruthful
  <1>1. ASSUME IInv PROVE ExportIsTruthful
    <2>1. ASSUME stage = "export offline", NEW x \in Leaving(files)
          PROVE  x \in In(files, Runtime) /\ (x[1] \in DynamicSources(files) \/ files[x[1]] \in Unread)
      <3>1. Profile(files) = "offline"
        BY <1>1, <2>1 DEF IInv, Reviewed
      <3>2. IncompleteSources(files) = {} /\ \A r \in Resolutions(files) : r.to.kind # "external"
        BY <3>1 DEF Profile
      <3>3. x \in All(files) /\ ResolveReference(x[1], x[2]).kind = "external"
        BY DEF Leaving
      <3>4. \A p \in Present(files) : files[p] \in Contents
        BY <1>1 DEF Present, IInv, WellFormed, SiteFunctions
      <3>5. x \notin In(files, Refs)
        <4> SUFFICES ASSUME NEW p \in Present(files), NEW ref \in Refs[files[p]], x = <<p, ref>>
                     PROVE  FALSE
          BY InTable
        <4>1. [from |-> p, to |-> ResolveReference(p, ref)] \in Resolutions(files)
          BY DEF Resolutions, Scan
        <4> QED
          BY <3>2, <3>3, <4>1
      <3>6. x \notin In(files, Hidden)
        <4> SUFFICES ASSUME NEW p \in Present(files), NEW ref \in Hidden[files[p]]
                     PROVE  FALSE
          BY InTable
        <4> QED
          BY <3>2, <3>4, SiteReferencesAssumption DEF IncompleteSources, Scan
      <3>7. x \in In(files, Runtime)
        BY <3>3, <3>5, <3>6 DEF All
      <3>8a. PICK p \in Present(files) : \E ref \in Runtime[files[p]] : x = <<p, ref>>
        BY <3>7, InTable
      <3>8. PICK ref \in Runtime[files[p]] : x = <<p, ref>>
        BY <3>8a
      <3>9. files[p] \in Dynamic \cup Unread
        BY <3>4, <3>8, SiteReferencesAssumption
      <3> QED
        BY <3>7, <3>8, <3>9 DEF DynamicSources, Scan
    <2>2. ASSUME stage = "export refused"
          PROVE  \E x \in In(files, Refs) : Unusual(x[2])
      <3>1. Profile(files) = "refused" /\ LocalReferencesHold(files)
        BY <1>1, <2>2 DEF IInv, Reviewed, Exports
      <3>2. PICK r \in Resolutions(files) :
               r.to.kind = "refused" \/ (r.to.kind = "local" /\ ~Meets(files, r.to.path))
        BY <3>1 DEF Profile
      <3>3. PICK p \in Present(files) :
               \E ref \in Refs[files[p]] : r = [from |-> p, to |-> ResolveReference(p, ref)]
        BY DEF Resolutions, Scan
      <3>4. PICK ref \in Refs[files[p]] : r.to = ResolveReference(p, ref)
        BY <3>3
      <3>5. Unusual(ref)
        BY <3>1, <3>2, <3>4, ScannedReferencesAreMet
      <3>6. <<p, ref>> \in In(files, Refs)
        BY InTable
      <3> QED
        BY <3>5, <3>6
    <2> QED
      BY <2>1, <2>2 DEF ExportIsTruthful
  <1> QED
    BY <1>1, Invariance, PTL

\* No script is named by a query alone, which the two resolutions read
\* differently.
ScriptsAreNamed ==
  \A c \in Contents : \A ref \in Scripts[c] : ~Bare(ref, {"query"})

\* Where scripts have names, a Proposal without blocking warnings makes no page
\* run anything it did not run before: each inline script and each script tag is an
\* old one, and so is the content the tag leads to.
THEOREM NothingNewRuns == Spec => [](ScriptsAreNamed => NoNewScripts)
  <1>1. ASSUME IInv, ScriptsAreNamed PROVE NoNewScripts
    <2> SUFFICES ASSUME Proposed, warnings = {}, NEW p \in Paths, NEW x \in Executed(files, p)
                 PROVE  x \in Executed(accepted, p)
      BY DEF NoNewScripts, Adoptable
    <2>1. files[p] # None /\ p \in Present(files) /\ files[p] \in Contents
      BY <1>1 DEF Executed, Present, IInv, WellFormed, SiteFunctions
    <2>2. BehaviorFeatures(files) \subseteq BehaviorFeatures(accepted)
      BY <1>1 DEF IInv, Reviewed
    <2>3. LocalReferencesHold(files)
      BY <1>1 DEF IInv, Reviewed, Proposed
    <2>4. CASE x \in Inline[files[p]]
      <3>1. <<"inline", p, x>> \in BehaviorFeatures(files)
        BY <2>1, <2>4 DEF BehaviorFeatures, ScriptTags
      <3>2. <<"inline", p, x>> \notin ScriptContents(accepted)
        BY DEF ScriptContents
      <3>3. <<"inline", p, x>> \in ScriptTags(accepted)
        BY <2>2, <3>1, <3>2 DEF BehaviorFeatures
      <3>4. p \in Present(accepted) /\ x \in Inline[accepted[p]]
        BY <3>3 DEF ScriptTags
      <3> QED
        BY <3>4 DEF Executed, Present
    <2>5. CASE x \notin Inline[files[p]]
      <3>1. PICK q \in Present(files) : /\ x = files[q]
                                        /\ \E ref \in Scripts[files[p]] : ResolveReference(p, ref) = Local(q)
        BY <2>1, <2>5 DEF Executed
      <3>2. PICK ref \in Scripts[files[p]] : ResolveReference(p, ref) = Local(q)
        BY <3>1
      <3>3. ResolveLocal(p, ref) = Local(q)
        <4>1. ref \in Refs[files[p]] /\ ~Bare(ref, {"query"})
          BY <1>1, <2>1, SiteReferencesAssumption DEF ScriptsAreNamed
        <4>2. ResolveLocal(p, ref).kind # "refused"
          BY <2>1, <2>3, <4>1 DEF LocalReferencesHold, Scan
        <4>3. Local(q).kind = "local"
          BY DEF Local
        <4> QED
          BY <3>2, <4>1, <4>2, <4>3, ResolutionsAgree
      <3>4. <<"script", p, ref>> \in ScriptTags(accepted)
        <4>1. <<"script", p, ref>> \in BehaviorFeatures(files)
          BY <2>1 DEF BehaviorFeatures, ScriptTags
        <4>2. <<"script", p, ref>> \notin ScriptContents(accepted)
          BY DEF ScriptContents
        <4> QED
          BY <2>2, <4>1, <4>2 DEF BehaviorFeatures
      <3>5. p \in Present(accepted) /\ ref \in Scripts[accepted[p]]
        BY <3>4 DEF ScriptTags
      <3>6. <<"content", q, files[q]>> \in ScriptContents(accepted)
        <4>1. <<"content", q, files[q]>> \in ScriptContents(files)
          BY <2>1, <3>3 DEF ScriptContents
        <4>2. <<"content", q, files[q]>> \notin ScriptTags(accepted)
          BY DEF ScriptTags
        <4> QED
          BY <2>2, <4>1, <4>2 DEF BehaviorFeatures
      <3>7. q \in Present(accepted) /\ accepted[q] = files[q]
        BY <3>6 DEF ScriptContents
      <3> QED
        BY <3>1, <3>2, <3>5, <3>7 DEF Executed, Present
    <2> QED
      BY <2>4, <2>5
  <1>2. IInv => (ScriptsAreNamed => NoNewScripts)
    BY <1>1
  <1> QED
    BY <1>2, Invariance, PTL
=============================================================================
