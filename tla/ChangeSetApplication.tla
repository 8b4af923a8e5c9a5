------------------------ MODULE ChangeSetApplication ------------------------
(***************************************************************************)
(* The application of a provider's ChangeSet to the Accepted site, and what *)
(* the review of the result may rely on (parse_and_apply_change_set).  The  *)
(* operations are checked as a whole, applied in order to a clone, and the  *)
(* result is checked again; what the scan cannot vouch for becomes a        *)
(* blocking warning, with which the Proposal cannot be adopted.             *)
(***************************************************************************)
EXTENDS SiteReferences, Naturals, FiniteSets

CONSTANTS
  Paths,         \* paths of the model, IndexHtml among them
  Fold,          \* Fold[p]: the case-folded path
  Extension,     \* Extension[p]
  Holds,         \* Holds[p]: the contents a file at p may have
  OperationLists,\* the ChangeSets a provider may answer with
  MaxOperations  \* limit on the operations of a ChangeSet

\* An operation of a ChangeSet.  from is read for a rename only, content for a
\* create and a replace, expected (the hash the provider names) for the others
\* than a create.
Operations ==
  [op : {"create", "replace", "rename", "delete"}, path : Paths, from : Paths,
   content : Contents \cup {None}, expected : {"current", "stale", "none"}]

ASSUME ChangeSetAssumption ==
  /\ IndexHtml \in Paths
  /\ IsFiniteSet(Paths)
  /\ Holds \in [Paths -> SUBSET Contents]
  /\ \A list \in OperationLists : list \in Seq(Operations)

VARIABLES
  accepted,    \* the Accepted site
  operations,  \* the ChangeSet
  stage,       \* the check it has reached, or the error it was refused with
  files,       \* the clone
  applied,     \* the operations applied so far
  changes,     \* the changes the review lists
  warnings     \* the blocking warnings

vars == <<accepted, operations, stage, files, applied, changes, warnings>>

Sites == {f \in [Paths -> Contents \cup {None}] : \A p \in Paths : f[p] \in Holds[p] \cup {None}}

Refusals == {"protocol", "limit", "conflict", "cycle", "precondition", "apply", "collision",
             "entry", "reference"}

Ops == {operations[i] : i \in DOMAIN operations}

\* Mutant: what a rename moves away is not claimed.
Claims_TargetOnly(op) == {op.path}

\* operation_claims
Claims(op) == IF op.op = "rename" THEN {op.from, op.path} ELSE {op.path}

Folded(S) == {Fold[p] : p \in S}

-----------------------------------------------------------------------------
\* An Accepted site has an index and no two paths that differ in case only: it
\* is the blank page, an import or an adopted result.
Init ==
  /\ accepted \in {f \in Sites : /\ f[IndexHtml] # None
                                 /\ Cardinality(Folded(Present(f))) = Cardinality(Present(f))}
  /\ operations \in OperationLists
  /\ stage = "envelope"
  /\ files = accepted
  /\ applied = 0
  /\ changes = << >>
  /\ warnings = {}

\* One check: the next stage, or the refusal.
Check(now, ok, next, refusal) ==
  /\ stage = now
  /\ stage' = IF ok THEN next ELSE refusal
  /\ UNCHANGED <<accepted, operations, files, applied, changes, warnings>>

\* validate_envelope
ValidateEnvelope ==
  Check("envelope", operations # << >> /\ Len(operations) <= MaxOperations, "operations",
        IF operations = << >> THEN "protocol" ELSE "limit")

\* validate_operations: a rename keeps the extension.
ValidateOperations ==
  Check("operations",
        \A op \in Ops : op.op = "rename" =>
          op.from # op.path /\ Extension[op.from] = Extension[op.path],
        "cycle?", "conflict")

\* contains_rename_cycle: the edges are a map of folded paths, in which a later
\* rename of the same source replaces an earlier one.
Edges ==
  LET renames == {i \in DOMAIN operations : operations[i].op = "rename"}
      last(x) == CHOOSE i \in renames :
                   /\ Fold[operations[i].from] = x
                   /\ \A k \in renames : Fold[operations[k].from] = x => k <= i
  IN  [x \in {Fold[operations[i].from] : i \in renames} |-> Fold[operations[last(x)].path]]

\* Following the edges for as many steps as there are comes back only in a cycle.
HasCycle ==
  LET step == [S \in SUBSET Folded(Paths) |-> {Edges[x] : x \in S \cap DOMAIN Edges}]
      reach[n \in 0..Cardinality(DOMAIN Edges)] ==
        IF n = 0 THEN DOMAIN Edges ELSE step[reach[n - 1]] \cap DOMAIN Edges
  IN  reach[Cardinality(DOMAIN Edges)] # {}

ValidateCycles == Check("cycle?", ~HasCycle, "graph", "cycle")

\* Mutant: paths are compared as they are written.
ValidateGraph_CaseSensitive ==
  Check("graph",
        \A i, k \in DOMAIN operations : i # k => Claims(operations[i]) \cap Claims(operations[k]) = {},
        "preconditions", "conflict")

\* validate_operation_graph: a path, whatever its case, has one owner.
ValidateGraph ==
  Check("graph",
        \A i, k \in DOMAIN operations :
          i # k => Folded(Claims(operations[i])) \cap Folded(Claims(operations[k])) = {},
        "preconditions", "conflict")

\* require_file_hash
HashMatches(op) ==
  LET p == IF op.op = "rename" THEN op.from ELSE op.path
  IN  accepted[p] # None /\ op.expected = "current"

\* validate_preconditions, all against the Accepted site.
ValidatePreconditions ==
  Check("preconditions",
        \A op \in Ops :
          /\ op.op # "create" => HashMatches(op)
          /\ op.op \in {"create", "rename"} => Fold[op.path] \notin Folded(Present(accepted)),
        "apply", "precondition")

Moved(f, op) == [f EXCEPT ![op.from] = None, ![op.path] = f[op.from]]

\* apply_to_clone, one operation.
ApplyOperation ==
  /\ stage = "apply" /\ applied < Len(operations)
  /\ LET op == operations[applied + 1]
         target == files[op.path]
         ok == CASE op.op = "create" -> target = None
                 [] op.op = "rename" -> files[op.from] # None /\ target = None
                 [] OTHER -> target # None
         after == CASE op.op \in {"create", "replace"} -> [files EXCEPT ![op.path] = op.content]
                    [] op.op = "rename" -> Moved(files, op)
                    [] op.op = "delete" -> [files EXCEPT ![op.path] = None]
         source == IF op.op = "rename" THEN op.from ELSE op.path
     IN  IF ok
         THEN /\ files' = after
              /\ applied' = applied + 1
              /\ changes' = Append(changes, [path |-> op.path, from |-> source,
                                             before |-> files[source], after |-> after[op.path]])
              /\ UNCHANGED stage
         ELSE stage' = "apply refused" /\ UNCHANGED <<files, applied, changes>>
  /\ UNCHANGED <<accepted, operations, warnings>>

\* validate_final_case_collisions
ValidateCollisions ==
  /\ applied = Len(operations)
  /\ Check("apply", Cardinality(Folded(Present(files))) = Cardinality(Present(files)),
           "entry?", "collision")

ValidateEntryPoint == Check("entry?", files[IndexHtml] # None, "references", "entry")

ValidateReferences == Check("references", LocalReferencesHold(files), "checks", "reference")

\* Mutant: only the files that were changed are looked at.
IntroducedIncomplete_ChangedOnly == {p \in IncompleteSources(files) : accepted[p] # files[p]}

\* An incomplete source is reviewed anew when it changed, and all of them when
\* something they may refer to is gone.
IntroducedIncomplete ==
  LET removes == Present(accepted) \ Present(files) # {}
  IN  {p \in IncompleteSources(files) : removes \/ accepted[p] # files[p]}

\* behavior_features: scripts by the page and the source that is written there,
\* inline ones and event handlers by the page and what they say.
ScriptTags(f) ==
  UNION {{<<"script", p, ref>> : ref \in Scripts[f[p]]}
         \cup {<<"inline", p, body>> : body \in Inline[f[p]]} : p \in Present(f)}

\* Mutant: only files that are scripts by their name are looked at.
ScriptContents_ByName(f) ==
  {<<"content", p, f[p]>> : p \in {q \in Present(f) : Extension[q] = "js"}}

\* And the content of every file a script tag leads to, whatever its name.
ScriptContents(f) ==
  {<<"content", p, f[p]>> : p \in {q \in Present(f) : Extension[q] = "js"}}
  \cup {<<"content", q, f[q]>> : q \in {x \in Present(f) :
           \E p \in Present(f) : \E ref \in Scripts[f[p]] : ResolveLocal(p, ref) = Local(x)}}

BehaviorFeatures(f) == ScriptTags(f) \cup ScriptContents(f)

\* active_behavior_warnings, and the sources that could not be classified.
CollectWarnings ==
  /\ stage = "checks"
  /\ warnings' = (BehaviorFeatures(files) \ BehaviorFeatures(accepted))
                 \cup {<<"incomplete", p>> : p \in IntroducedIncomplete}
  /\ stage' = "proposed"
  /\ UNCHANGED <<accepted, operations, files, applied, changes>>

\* An adopted result is exported as it is (create_export).
Export ==
  /\ stage = "proposed" /\ warnings = {}
  /\ stage' = CASE Profile(files) = "refused" -> "export refused"
                [] Profile(files) = "standalone" -> "export standalone"
                [] Profile(files) = "offline" -> "export offline"
  /\ UNCHANGED <<accepted, operations, files, applied, changes, warnings>>

Next ==
  \/ ValidateEnvelope \/ ValidateOperations \/ ValidateCycles \/ ValidateGraph
  \/ ValidatePreconditions \/ ApplyOperation \/ ValidateCollisions \/ ValidateEntryPoint
  \/ ValidateReferences \/ CollectWarnings \/ Export

Spec == Init /\ [][Next]_vars

-----------------------------------------------------------------------------
(* Properties. *)

Exports == {"export offline", "export standalone", "export refused"}
Proposed == stage \in {"proposed"} \cup Exports
Adoptable == Proposed /\ warnings = {}

\* The site a ChangeSet asks for, whatever the order of its operations.
Result ==
  [p \in Paths |->
     IF \E op \in Ops : op.path = p /\ op.op \in {"create", "replace"}
     THEN (CHOOSE op \in Ops : op.path = p /\ op.op \in {"create", "replace"}).content
     ELSE IF \E op \in Ops : op.path = p /\ op.op = "rename"
     THEN accepted[(CHOOSE op \in Ops : op.path = p /\ op.op = "rename").from]
     ELSE IF \E op \in Ops : (op.op = "delete" /\ op.path = p) \/ (op.op = "rename" /\ op.from = p)
     THEN None ELSE accepted[p]]

\* A ChangeSet that passed the checks of its operations can be applied in any
\* order: no operation fails half-way, no two paths collide, and the result is
\* the one the operations ask for one by one.
AppliesAsAsked ==
  /\ stage \notin {"apply refused", "collision"}
  /\ (stage \notin Refusals /\ applied = Len(operations) /\ applied > 0) => files = Result

\* What the creator reviews is all there is: every file that differs from the
\* Accepted site is named by a listed change, with what it was and becomes.
ReviewShowsEverything ==
  Proposed =>
    /\ \A p \in Paths : files[p] # accepted[p] =>
         \E i \in DOMAIN changes : p \in {changes[i].path, changes[i].from}
    /\ \A i \in DOMAIN changes :
         /\ changes[i].before = accepted[changes[i].from]
         /\ changes[i].after = files[changes[i].path]

\* A Proposal without blocking warnings breaks no reference of a site that had
\* none broken, also where an unchanged file may name what was removed in syntax
\* the scan cannot classify; but for what scripts and unread files refer to,
\* which no check looks at.
ReferencesHold ==
  Adoptable /\ Dangling(accepted) = {} => Dangling(files) \subseteq In(files, Runtime)

\* A Proposal without blocking warnings makes no page run anything it did not
\* run before, also when only the script it loads was changed or appeared.
NoNewScripts ==
  Adoptable => \A p \in Paths : Executed(files, p) \subseteq Executed(accepted, p)

\* The two resolutions part over these: an address that does not parse, an unknown
\* scheme, a control character, or a backslash where the ChangeSet does not look.
Unusual(ref) ==
  \/ ref.scheme \in {"malformed http", "unknown"}
  \/ ref.text = "control"
  \/ ref.text = "backslash" /\ ref.scheme \in Away

\* An export that claims to work offline leaves the site only by what scripts and
\* unread files refer to, and its receipt names the files of those scripts; an
\* adopted result is refused by the export for an unusual reference only.
ExportIsTruthful ==
  /\ stage = "export offline" =>
       \A x \in Leaving(files) :
         x \in In(files, Runtime) /\ (x[1] \in DynamicSources(files) \/ files[x[1]] \in Unread)
  /\ stage = "export refused" => \E x \in In(files, Refs) : Unusual(x[2])
=============================================================================
