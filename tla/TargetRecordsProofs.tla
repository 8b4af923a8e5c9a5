------------------------- MODULE TargetRecordsProofs -------------------------
(* Proofs about TargetRecords, for any Targets, values, names, limit and      *)
(* bounds on errors and deaths: what was answered outlives every error and    *)
(* death, the Store follows the disk, a Target in use is not recycled, and    *)
(* the records implement the shelf.                                           *)
EXTENDS TargetRecords, FiniteSetTheorems, TLAPS

-----------------------------------------------------------------------------
(* The inductive invariant.                                                  *)

Then(step, rest) == <<step>> \o rest

\* What a request is about, and the steps it takes once the directory is clean.
Kinds == {"load", "recycle", "write", "answer"}
End(kind) ==
  IF kind = "load" THEN <<"load">>
  ELSE IF kind = "recycle" THEN <<"stage", "journal", "complete", "answer">>
  ELSE IF kind = "write" THEN <<"write", "add", "answer">>
  ELSE <<"answer">>

\* The steps before them: a replacement in the journal is completed.
Unjournaling(kind) == Then("unjournal", End(kind))
Unlinking(kind) == Then("unlink", Unjournaling(kind))
Linking(kind) == Then("link", Unlinking(kind))

Shape ==
  /\ disk \in Disks
  /\ disk.journal # None => disk.journal.old \in Targets /\ disk.journal.old # disk.journal.new
  /\ mem \in [records : Records, name : Names \cup {None}, contexts : SUBSET Targets]
  /\ phase \in {"down", "opening", "serving", "refused"}
  /\ answered \in [records : Records, name : Names \cup {None}]
  /\ failed \in BOOLEAN

\* A context refers to a record of the Store, and there is none without it.
ContextsRefer ==
  /\ phase # "serving" => mem.contexts = {}
  /\ \A t \in mem.contexts : mem.records[t] # None

\* Nothing is half written.
Clean == disk.journal = None /\ disk.staged = {} /\ ~disk.stray

InStep == mem.records = disk.records /\ mem.name = disk.name

\* The records of the Store once the running request is answered.
Exchanged ==
  [t \in Targets |-> IF t = job.new THEN job.value
                     ELSE IF t = job.old THEN None ELSE mem.records[t]]

Recycles == job.old \in Targets /\ job.old # job.new

\* The request: the record it recycles is promised to nobody and in no use.
Request(kind) ==
  IF kind = "load" THEN phase = "opening" /\ job = None
  ELSE /\ phase = "serving" /\ job \in Jobs /\ job # None
       /\ kind = "recycle" => Recycles
       /\ kind = "write" => job.old = None
       /\ job.old \in Targets =>
            job.old # job.new /\ answered.records[job.old] = None /\ job.old \notin mem.contexts
       /\ mem.records[job.new] = None

\* A journal is being completed: a recovery, which no request sees that
\* follows no failure, or the end of the running replacement.
Completing(kind) ==
  IF kind = "answer"
  THEN /\ disk.journal = job
       /\ ~failed => /\ Completable(disk) /\ Effective(disk) = Exchanged
                     /\ mem.name = disk.name
  ELSE kind = "load" \/ failed

\* The new record is in place, so the staging is gone.
Linked == Completable(disk) /\ disk.records[disk.journal.new] # None

\* How far the request is.
Progress(kind) ==
  \/ /\ kind = "load" /\ todo = Then("preflight", Then("recover", End("load")))
  \/ /\ kind # "answer" /\ todo = Then("recover", End(kind))
     /\ kind # "load" /\ ~failed => Clean /\ InStep
  \/ /\ todo = Then("complete", End(kind)) /\ Completing(kind)
  \/ /\ todo = Linking(kind) /\ Completing(kind)
     /\ disk.journal # None /\ Completable(disk) /\ disk.records[disk.journal.new] = None
  \/ /\ todo = Unlinking(kind) /\ Completing(kind)
     /\ disk.journal # None /\ Linked
  \/ /\ todo = Unjournaling(kind) /\ Completing(kind)
     /\ disk.journal # None /\ Linked /\ disk.records[disk.journal.old] = None
  \/ /\ todo = End(kind) /\ Clean
     /\ kind \in {"recycle", "write"} /\ ~failed => InStep
     /\ kind = "answer" =>
          /\ disk.records[job.new] = job.value
          /\ ~failed => disk.records = Exchanged /\ mem.name = disk.name
  \/ /\ kind = "recycle" /\ todo = <<"journal", "complete", "answer">>
     /\ disk.journal = None /\ ~disk.stray /\ disk.staged = {job.new}
     /\ disk.records[job.old] = job.expected /\ job.expected # None
     /\ disk.records[job.new] = None
     /\ ~failed => InStep
  \/ /\ kind = "write" /\ todo = <<"add", "answer">>
     /\ disk.journal = None /\ disk.staged = {}
     /\ IF disk.records[job.new] = None THEN ~Full(disk.records)
        ELSE disk.records[job.new] = job.value /\ ~disk.stray
     /\ ~failed => InStep

Control ==
  \/ /\ todo = << >> /\ job = None /\ phase # "opening"
     /\ phase = "serving" /\ ~failed => Clean /\ InStep
  \/ \E kind \in Kinds : Request(kind) /\ Progress(kind)

IInv == Shape /\ ContextsRefer /\ Control /\ AnsweredRecordsKept

-----------------------------------------------------------------------------
(* Lists of steps.                                                           *)

StepNames == {"preflight", "recover", "complete", "link", "unlink", "unjournal", "load",
              "stage", "journal", "write", "add", "answer"}

LEMMA ThenFacts ==
  ASSUME NEW step \in StepNames, NEW rest \in Seq(StepNames)
  PROVE  /\ Then(step, rest) \in Seq(StepNames) /\ Then(step, rest) # << >>
         /\ Head(Then(step, rest)) = step /\ Tail(Then(step, rest)) = rest
  BY DEF Then

LEMMA ListIsThen ==
  ASSUME NEW list \in Seq(StepNames), list # << >>
  PROVE  list = Then(Head(list), Tail(list))
  BY DEF Then

LEMMA TailList ==
  ASSUME NEW list \in Seq(StepNames), list # << >>
  PROVE  Tail(list) \in Seq(StepNames) /\ << >> \o Tail(list) = Tail(list)
  OBVIOUS

LEMMA ThreeThen ==
  ASSUME NEW a \in StepNames, NEW b \in StepNames, NEW c \in StepNames, NEW rest \in Seq(StepNames)
  PROVE  /\ (<<a>> \o <<b>> \o <<c>>) \o rest = Then(a, Then(b, Then(c, rest)))
         /\ (<< >> \o <<b>> \o <<c>>) \o rest = Then(b, Then(c, rest))
         /\ (<< >> \o << >> \o <<c>>) \o rest = Then(c, rest)
  BY DEF Then

LEMMA OneStep ==
  ASSUME NEW a \in StepNames
  PROVE  /\ <<a>> \in Seq(StepNames) /\ <<a>> # << >>
         /\ Head(<<a>>) = a /\ Tail(<<a>>) = << >>
  OBVIOUS

LEMMA TwoSteps ==
  ASSUME NEW a \in StepNames, NEW b \in StepNames
  PROVE  /\ <<a, b>> \in Seq(StepNames) /\ <<a, b>> # << >>
         /\ Head(<<a, b>>) = a /\ Tail(<<a, b>>) = <<b>>
  OBVIOUS

LEMMA ThreeSteps ==
  ASSUME NEW a \in StepNames, NEW b \in StepNames, NEW c \in StepNames
  PROVE  /\ <<a, b, c>> \in Seq(StepNames) /\ <<a, b, c>> # << >>
         /\ Head(<<a, b, c>>) = a /\ Tail(<<a, b, c>>) = <<b, c>>
  OBVIOUS

LEMMA EndFacts ==
  /\ \A kind \in Kinds : End(kind) \in Seq(StepNames) /\ End(kind) # << >>
  /\ Head(End("load")) = "load" /\ End("load") = <<"load">>
  /\ Head(End("recycle")) = "stage" /\ Tail(End("recycle")) = <<"journal", "complete", "answer">>
  /\ Head(End("write")) = "write" /\ Tail(End("write")) = <<"add", "answer">>
  /\ Head(End("answer")) = "answer" /\ End("answer") = <<"answer">>
  <1> USE DEF End, Kinds
  <1>1. /\ "load" \in StepNames /\ "stage" \in StepNames /\ "journal" \in StepNames
        /\ "complete" \in StepNames /\ "answer" \in StepNames /\ "write" \in StepNames
        /\ "add" \in StepNames
    BY DEF StepNames
  <1>2. End("load") = <<"load">> /\ End("recycle") = <<"stage", "journal", "complete", "answer">>
        /\ End("write") = <<"write", "add", "answer">> /\ End("answer") = <<"answer">>
    OBVIOUS
  <1> HIDE DEF End
  <1>3. End("load") \in Seq(StepNames) /\ End("load") # << >> /\ Head(End("load")) = "load"
    BY <1>1, <1>2, OneStep
  <1>4. End("recycle") \in Seq(StepNames) /\ End("recycle") # << >> /\ Head(End("recycle")) = "stage"
        /\ Tail(End("recycle")) = <<"journal", "complete", "answer">>
    <2>1. LET list == <<"stage", "journal", "complete", "answer">>
          IN  /\ list \in Seq(StepNames) /\ list # << >> /\ Head(list) = "stage"
              /\ Tail(list) = <<"journal", "complete", "answer">>
      BY <1>1
    <2> QED
      BY <1>2, <2>1, Zenon
  <1>5. End("write") \in Seq(StepNames) /\ End("write") # << >> /\ Head(End("write")) = "write"
        /\ Tail(End("write")) = <<"add", "answer">>
    <2>1. LET list == <<"write", "add", "answer">>
          IN  /\ list \in Seq(StepNames) /\ list # << >> /\ Head(list) = "write"
              /\ Tail(list) = <<"add", "answer">>
      BY <1>1
    <2> QED
      BY <1>2, <2>1, Zenon
  <1>6. End("answer") \in Seq(StepNames) /\ End("answer") # << >> /\ Head(End("answer")) = "answer"
    BY <1>1, <1>2, OneStep
  <1> QED
    BY <1>2, <1>3, <1>4, <1>5, <1>6

LEMMA CompletionLists ==
  ASSUME NEW kind \in Kinds
  PROVE  /\ Unjournaling(kind) \in Seq(StepNames) /\ Unjournaling(kind) # << >>
         /\ Head(Unjournaling(kind)) = "unjournal" /\ Tail(Unjournaling(kind)) = End(kind)
         /\ Unlinking(kind) \in Seq(StepNames) /\ Unlinking(kind) # << >>
         /\ Head(Unlinking(kind)) = "unlink" /\ Tail(Unlinking(kind)) = Unjournaling(kind)
         /\ Linking(kind) \in Seq(StepNames) /\ Linking(kind) # << >>
         /\ Head(Linking(kind)) = "link" /\ Tail(Linking(kind)) = Unlinking(kind)
         /\ Then("complete", End(kind)) \in Seq(StepNames) /\ Then("complete", End(kind)) # << >>
         /\ Head(Then("complete", End(kind))) = "complete"
         /\ Tail(Then("complete", End(kind))) = End(kind)
         /\ Then("recover", End(kind)) \in Seq(StepNames) /\ Then("recover", End(kind)) # << >>
         /\ Head(Then("recover", End(kind))) = "recover"
         /\ Tail(Then("recover", End(kind))) = End(kind)
         /\ Then("preflight", Then("recover", End(kind))) \in Seq(StepNames)
         /\ Then("preflight", Then("recover", End(kind))) # << >>
         /\ Head(Then("preflight", Then("recover", End(kind)))) = "preflight"
         /\ Tail(Then("preflight", Then("recover", End(kind)))) = Then("recover", End(kind))
  <1>0. /\ "preflight" \in StepNames /\ "recover" \in StepNames /\ "complete" \in StepNames
        /\ "link" \in StepNames /\ "unlink" \in StepNames /\ "unjournal" \in StepNames
        /\ End(kind) \in Seq(StepNames)
    BY EndFacts DEF StepNames
  <1>1. /\ Unjournaling(kind) \in Seq(StepNames) /\ Unjournaling(kind) # << >>
        /\ Head(Unjournaling(kind)) = "unjournal" /\ Tail(Unjournaling(kind)) = End(kind)
    BY <1>0, ThenFacts DEF Unjournaling
  <1>2. /\ Unlinking(kind) \in Seq(StepNames) /\ Unlinking(kind) # << >>
        /\ Head(Unlinking(kind)) = "unlink" /\ Tail(Unlinking(kind)) = Unjournaling(kind)
    BY <1>0, <1>1, ThenFacts DEF Unlinking
  <1>3. /\ Linking(kind) \in Seq(StepNames) /\ Linking(kind) # << >>
        /\ Head(Linking(kind)) = "link" /\ Tail(Linking(kind)) = Unlinking(kind)
    BY <1>0, <1>2, ThenFacts DEF Linking
  <1>4. \A x \in StepNames : /\ Then(x, End(kind)) \in Seq(StepNames) /\ Then(x, End(kind)) # << >>
                             /\ Head(Then(x, End(kind))) = x /\ Tail(Then(x, End(kind))) = End(kind)
    BY <1>0, ThenFacts
  <1>5. /\ Then("preflight", Then("recover", End(kind))) \in Seq(StepNames)
        /\ Then("preflight", Then("recover", End(kind))) # << >>
        /\ Head(Then("preflight", Then("recover", End(kind)))) = "preflight"
        /\ Tail(Then("preflight", Then("recover", End(kind)))) = Then("recover", End(kind))
    BY <1>0, <1>4, ThenFacts
  <1> QED
    BY <1>0, <1>1, <1>2, <1>3, <1>4, <1>5

\* Where the control is, told by the step at its head.
At(kind) ==
  /\ Request(kind)
  /\ Head(todo) = "preflight" => kind = "load" /\ Tail(todo) = Then("recover", End("load"))
  /\ Head(todo) = "recover" =>
       /\ kind # "answer" /\ Tail(todo) = End(kind)
       /\ kind # "load" /\ ~failed => Clean /\ InStep
  /\ Head(todo) = "complete" => Tail(todo) = End(kind) /\ Completing(kind)
  /\ Head(todo) = "link" =>
       /\ Tail(todo) = Unlinking(kind) /\ Completing(kind)
       /\ disk.journal # None /\ Completable(disk) /\ disk.records[disk.journal.new] = None
  /\ Head(todo) = "unlink" =>
       Tail(todo) = Unjournaling(kind) /\ Completing(kind) /\ disk.journal # None /\ Linked
  /\ Head(todo) = "unjournal" =>
       /\ Tail(todo) = End(kind) /\ Completing(kind) /\ disk.journal # None /\ Linked
       /\ disk.records[disk.journal.old] = None
  /\ Head(todo) = "load" => kind = "load" /\ todo = <<"load">> /\ Clean
  /\ Head(todo) = "stage" =>
       /\ kind = "recycle" /\ Tail(todo) = <<"journal", "complete", "answer">> /\ Clean
       /\ ~failed => InStep
  /\ Head(todo) = "journal" =>
       /\ kind = "recycle" /\ Tail(todo) = Then("complete", End("answer"))
       /\ disk.journal = None /\ ~disk.stray /\ disk.staged = {job.new}
       /\ disk.records[job.old] = job.expected /\ job.expected # None
       /\ disk.records[job.new] = None
       /\ ~failed => InStep
  /\ Head(todo) = "write" =>
       /\ kind = "write" /\ Tail(todo) = <<"add", "answer">> /\ Clean
       /\ ~failed => InStep
  /\ Head(todo) = "add" =>
       /\ kind = "write" /\ Tail(todo) = End("answer")
       /\ disk.journal = None /\ disk.staged = {}
       /\ IF disk.records[job.new] = None THEN ~Full(disk.records)
          ELSE disk.records[job.new] = job.value /\ ~disk.stray
       /\ ~failed => InStep
  /\ Head(todo) = "answer" =>
       /\ kind = "answer" /\ todo = <<"answer">> /\ Clean
       /\ disk.records[job.new] = job.value
       /\ ~failed => disk.records = Exchanged /\ mem.name = disk.name

LEMMA Located ==
  ASSUME Control, todo # << >>
  PROVE  todo \in Seq(StepNames) /\ \E kind \in Kinds : At(kind)
  <1>1. PICK kind \in Kinds : Request(kind) /\ Progress(kind)
    BY DEF Control
  <1> SUFFICES todo \in Seq(StepNames) /\ At(kind)
    OBVIOUS
  <1>2. CASE kind = "load" /\ todo = Then("preflight", Then("recover", End("load")))
    BY <1>1, <1>2, CompletionLists DEF At
  <1>3. CASE /\ kind # "answer" /\ todo = Then("recover", End(kind))
             /\ kind # "load" /\ ~failed => Clean /\ InStep
    BY <1>1, <1>3, CompletionLists DEF At
  <1>4. CASE todo = Then("complete", End(kind)) /\ Completing(kind)
    BY <1>1, <1>4, CompletionLists DEF At
  <1>5. CASE /\ todo = Linking(kind) /\ Completing(kind)
             /\ disk.journal # None /\ Completable(disk) /\ disk.records[disk.journal.new] = None
    BY <1>1, <1>5, CompletionLists DEF At
  <1>6. CASE todo = Unlinking(kind) /\ Completing(kind) /\ disk.journal # None /\ Linked
    BY <1>1, <1>6, CompletionLists DEF At
  <1>7. CASE /\ todo = Unjournaling(kind) /\ Completing(kind)
             /\ disk.journal # None /\ Linked /\ disk.records[disk.journal.old] = None
    BY <1>1, <1>7, CompletionLists DEF At
  <1>8. CASE /\ todo = End(kind) /\ Clean
             /\ kind \in {"recycle", "write"} /\ ~failed => InStep
             /\ kind = "answer" =>
                  /\ disk.records[job.new] = job.value
                  /\ ~failed => disk.records = Exchanged /\ mem.name = disk.name
    <2>1. Head(todo) \in {"load", "stage", "write", "answer"}
      BY <1>8, EndFacts DEF Kinds
    <2>2. CASE kind = "load"
      BY <1>1, <1>8, <2>2, EndFacts DEF At
    <2>3. CASE kind = "recycle"
      BY <1>1, <1>8, <2>3, EndFacts DEF At
    <2>4. CASE kind = "write"
      BY <1>1, <1>8, <2>4, EndFacts DEF At
    <2>5. CASE kind = "answer"
      BY <1>1, <1>8, <2>5, EndFacts DEF At
    <2> QED
      BY <2>2, <2>3, <2>4, <2>5 DEF Kinds
  <1>9. CASE /\ kind = "recycle" /\ todo = <<"journal", "complete", "answer">>
             /\ disk.journal = None /\ ~disk.stray /\ disk.staged = {job.new}
             /\ disk.records[job.old] = job.expected /\ job.expected # None
             /\ disk.records[job.new] = None
             /\ ~failed => InStep
    <2>1. "journal" \in StepNames /\ "complete" \in StepNames /\ "answer" \in StepNames
      BY DEF StepNames
    <2>2. /\ todo \in Seq(StepNames) /\ Head(todo) = "journal"
          /\ Tail(todo) = <<"complete", "answer">>
      BY <1>9, <2>1, ThreeSteps
    <2>3. <<"complete", "answer">> = Then("complete", End("answer"))
      <3>1. LET list == <<"complete", "answer">>
            IN  /\ list \in Seq(StepNames) /\ list # << >> /\ Head(list) = "complete"
                /\ Tail(list) = <<"answer">>
        BY <2>1, TwoSteps, Zenon
      <3> QED
        BY <3>1, ListIsThen, EndFacts, Zenon
    <2> QED
      BY <1>1, <1>9, <2>2, <2>3 DEF At
  <1>10. CASE /\ kind = "write" /\ todo = <<"add", "answer">>
              /\ disk.journal = None /\ disk.staged = {}
              /\ IF disk.records[job.new] = None THEN ~Full(disk.records)
                 ELSE disk.records[job.new] = job.value /\ ~disk.stray
              /\ ~failed => InStep
    <2>1. "add" \in StepNames /\ "answer" \in StepNames
      BY DEF StepNames
    <2>2. todo \in Seq(StepNames) /\ Head(todo) = "add" /\ Tail(todo) = End("answer")
      BY <1>10, <2>1, TwoSteps, EndFacts
    <2> QED
      BY <1>1, <1>10, <2>2 DEF At
  <1> QED
    BY <1>1, <1>2, <1>3, <1>4, <1>5, <1>6, <1>7, <1>8, <1>9, <1>10, Zenon DEF Progress

-----------------------------------------------------------------------------
(* How a step ends.                                                          *)

LEMMA InitInv == Init => IInv
  <1> SUFFICES ASSUME Init PROVE IInv
    OBVIOUS
  <1>1. /\ disk.records = [t \in Targets |-> None] /\ disk.staged = {} /\ disk.stray = FALSE
        /\ disk.journal = None /\ disk.name \in Names /\ disk \in Disks
    BY DEF Init, Disks, Records
  <1>2. Shape
    BY <1>1 DEF Init, Shape, Records
  <1>3. ContextsRefer /\ Control
    BY <1>1 DEF Init, ContextsRefer, Control, Clean, InStep
  <1>4. AnsweredRecordsKept
    BY <1>1 DEF Init, AnsweredRecordsKept
  <1> QED
    BY <1>2, <1>3, <1>4 DEF IInv

DiskShape(d) ==
  d \in Disks /\ (d.journal # None => d.journal.old \in Targets /\ d.journal.old # d.journal.new)

\* The disk d says the same of what was answered.
Keeps(d) ==
  /\ \A t \in Targets : answered.records[t] # None => Effective(d)[t] = Effective(disk)[t]
  /\ d.name = disk.name

\* The running operation is over, and the Store has taken nothing of it.
Stopped ==
  /\ todo' = << >> /\ job' = None /\ UNCHANGED answered
  /\ mem' \in {mem, [records |-> [t \in Targets |-> None], name |-> None, contexts |-> {}]}
  /\ \/ phase = "opening" /\ phase' \in {"down", "refused"} /\ failed' = failed
     \/ phase # "opening" /\ phase' = phase /\ mem' = mem /\ failed' = TRUE
     \/ phase' = "down" /\ mem'.contexts = {} /\ failed' = failed

LEMMA StoppedInv ==
  ASSUME IInv, Stopped, DiskShape(disk'), Keeps(disk')
  PROVE  IInv'
  <1>1. Shape'
    <2>1. mem' \in [records : Records, name : Names \cup {None}, contexts : SUBSET Targets]
      <3>1. [t \in Targets |-> None] \in Records
        BY DEF Records
      <3> QED
        BY <3>1 DEF IInv, Shape, Stopped
    <2>2. phase' \in {"down", "opening", "serving", "refused"} /\ failed' \in BOOLEAN
          /\ answered' = answered
      BY DEF IInv, Shape, Stopped
    <2> QED
      BY <2>1, <2>2 DEF IInv, Shape, DiskShape
  <1>2. ContextsRefer'
    BY DEF IInv, ContextsRefer, Stopped
  <1>3. Control'
    BY DEF Control, Stopped
  <1>4. AnsweredRecordsKept'
    BY DEF IInv, AnsweredRecordsKept, Stopped, Keeps
  <1> QED
    BY <1>1, <1>2, <1>3, <1>4 DEF IInv

LEMMA WentInv ==
  ASSUME IInv, UNCHANGED <<mem, phase, failed, answered>>, Control',
         DiskShape(disk'), Keeps(disk')
  PROVE  IInv'
  <1>1. Shape' /\ ContextsRefer'
    BY DEF IInv, Shape, ContextsRefer, DiskShape
  <1>2. AnsweredRecordsKept'
    BY DEF IInv, AnsweredRecordsKept, Keeps
  <1> QED
    BY <1>1, <1>2 DEF IInv

\* A step goes on or stops.
LEMMA StepOutcome ==
  ASSUME IInv, NEW name, NEW ok, NEW done, NEW error, NEW death, NEW then,
         Step(name, ok, done, error, death, then)
  PROVE  /\ todo # << >> /\ Head(todo) = name
         /\ disk' \in {disk, done} \cup error \cup death
         /\ ok \/ disk' = disk
         /\ \/ /\ ok /\ disk' = done /\ todo' = then \o Tail(todo)
               /\ UNCHANGED <<mem, phase, job, failed, answered>>
            \/ Stopped
  BY DEF Step, Fail, Die, Stopped

\* A step of which every outcome keeps what was answered.
LEMMA StepKeeps ==
  ASSUME IInv, NEW name, NEW ok, NEW done, NEW error, NEW death, NEW then,
         Step(name, ok, done, error, death, then),
         \A d \in {disk, done} \cup error \cup death :
           ok \/ d = disk => DiskShape(d) /\ Keeps(d),
         ok /\ disk' = done /\ todo' = then \o Tail(todo)
           /\ UNCHANGED <<mem, phase, job, failed, answered>> => Control'
  PROVE  IInv'
  <1>1. DiskShape(disk') /\ Keeps(disk')
    BY StepOutcome
  <1>2. CASE Stopped
    BY <1>1, <1>2, StoppedInv
  <1>3. CASE ok /\ disk' = done /\ todo' = then \o Tail(todo)
             /\ UNCHANGED <<mem, phase, job, failed, answered>>
    BY <1>1, <1>3, WentInv
  <1> QED
    BY <1>2, <1>3, StepOutcome

LEMMA Same == ASSUME IInv PROVE DiskShape(disk) /\ Keeps(disk)
  BY DEF IInv, Shape, DiskShape, Keeps

\* The request goes on as it is.
LEMMA RequestKept ==
  ASSUME NEW kind, Request(kind), UNCHANGED <<mem, phase, job, failed, answered>>
  PROVE  Request(kind)'
  BY DEF Request, Recycles

LEMMA CompletingKept ==
  ASSUME NEW kind, Completing(kind), UNCHANGED <<mem, phase, job, failed, answered>>,
         disk'.journal = disk.journal, disk'.name = disk.name,
         Completable(disk) => Completable(disk'),
         Completable(disk) => Effective(disk') = Effective(disk)
  PROVE  Completing(kind)'
  BY DEF Completing, Exchanged

-----------------------------------------------------------------------------
(* The recovery and the completion of a journal.                             *)

LEMMA NoJournal == \A d : d.journal = None => Effective(d) = d.records
  BY DEF Effective

LEMMA RecoverInv == ASSUME IInv, Recover PROVE IInv'
  <1> DEFINE clean == [disk EXCEPT !.staged = {}, !.stray = FALSE]
  <1>1. CASE disk.journal # None
    <2>1. Step("recover", TRUE, disk, {disk}, {disk}, <<"complete">>)
      BY <1>1 DEF Recover
    <2>2. ASSUME disk' = disk, todo' = <<"complete">> \o Tail(todo),
                 UNCHANGED <<mem, phase, job, failed, answered>>
          PROVE  Control'
      <3>1. PICK kind \in Kinds : At(kind)
        BY <2>1, StepOutcome, Located DEF IInv
      <3>2. kind # "answer" /\ Tail(todo) = End(kind) /\ (kind # "load" /\ ~failed => Clean)
        BY <3>1, <2>1, StepOutcome DEF At
      <3>3. todo' = Then("complete", End(kind)) /\ Completing(kind)'
        BY <1>1, <2>2, <3>2 DEF Then, Completing, Clean
      <3>4. Request(kind)'
        BY <2>2, <3>1, RequestKept DEF At
      <3> QED
        BY <3>3, <3>4 DEF Control, Progress
    <2>3. \A d \in {disk, disk} \cup {disk} \cup {disk} : DiskShape(d) /\ Keeps(d)
      BY Same
    <2> QED
      BY <2>1, <2>2, <2>3, StepKeeps
  <1>2. CASE disk.journal = None
    <2>1. Step("recover", TRUE, clean, {disk, clean}, {disk, clean}, << >>)
      BY <1>2 DEF Recover
    <2>2. clean \in Disks /\ clean.journal = None /\ clean.records = disk.records
          /\ clean.name = disk.name /\ clean.staged = {} /\ clean.stray = FALSE
      BY <1>2 DEF IInv, Shape, Disks
    <2>3. DiskShape(clean) /\ Keeps(clean)
      BY <1>2, <2>2, NoJournal DEF DiskShape, Keeps
    <2>4. ASSUME disk' = clean, todo' = << >> \o Tail(todo),
                 UNCHANGED <<mem, phase, job, failed, answered>>
          PROVE  Control'
      <3>1. PICK kind \in Kinds : At(kind)
        BY <2>1, StepOutcome, Located DEF IInv
      <3>2. kind # "answer" /\ Tail(todo) = End(kind) /\ (kind # "load" /\ ~failed => InStep)
        BY <3>1, <2>1, StepOutcome DEF At
      <3>3. todo' = End(kind)
        BY <2>4, <3>2, EndFacts
      <3>4. Clean' /\ (kind # "load" /\ ~failed' => InStep')
        BY <2>2, <2>4, <3>2 DEF Clean, InStep
      <3>5. Request(kind)'
        BY <2>4, <3>1, RequestKept DEF At
      <3> QED
        BY <3>2, <3>3, <3>4, <3>5 DEF Control, Progress
    <2> QED
      BY <2>1, <2>3, <2>4, Same, StepKeeps
  <1> QED
    BY <1>1, <1>2

LEMMA CompleteInv == ASSUME IInv, Complete PROVE IInv'
  <1>1. Step("complete", Completable(disk), disk, {disk}, {disk}, Completion(disk))
        /\ disk.journal # None
    BY DEF Complete
  <1>2. ASSUME Completable(disk), disk' = disk, todo' = Completion(disk) \o Tail(todo),
               UNCHANGED <<mem, phase, job, failed, answered>>
        PROVE  Control'
    <2>1. PICK kind \in Kinds : At(kind)
      BY <1>1, StepOutcome, Located DEF IInv
    <2>2. Tail(todo) = End(kind) /\ Completing(kind)
      BY <2>1, <1>1, StepOutcome DEF At
    <2>3. Request(kind)' /\ Completing(kind)'
      BY <1>2, <2>1, <2>2, RequestKept, CompletingKept DEF At
    <2>4. End(kind) \in Seq(StepNames)
      BY EndFacts
    <2>5. "link" \in StepNames /\ "unlink" \in StepNames /\ "unjournal" \in StepNames
      BY DEF StepNames
    <2>6. CASE disk.records[disk.journal.new] = None
      <3>1. disk.records[disk.journal.old] # None
        BY <1>2, <2>6 DEF Completable
      <3>2. todo' = (<<"link">> \o <<"unlink">> \o <<"unjournal">>) \o End(kind)
        BY <1>2, <2>2, <2>6, <3>1 DEF Completion
      <3>3. todo' = Linking(kind)
        BY <3>2, <2>4, <2>5, ThreeThen DEF Linking, Unlinking, Unjournaling
      <3> QED
        BY <1>1, <1>2, <2>3, <2>6, <3>3 DEF Control, Progress
    <2>7. CASE disk.records[disk.journal.new] # None /\ disk.records[disk.journal.old] # None
      <3>1. todo' = (<< >> \o <<"unlink">> \o <<"unjournal">>) \o End(kind)
        BY <1>2, <2>2, <2>7 DEF Completion
      <3>2. todo' = Unlinking(kind)
        BY <3>1, <2>4, <2>5, ThreeThen DEF Unlinking, Unjournaling
      <3> QED
        BY <1>1, <1>2, <2>3, <2>7, <3>2 DEF Control, Progress, Linked
    <2>8. CASE disk.records[disk.journal.new] # None /\ disk.records[disk.journal.old] = None
      <3>1. todo' = (<< >> \o << >> \o <<"unjournal">>) \o End(kind)
        BY <1>2, <2>2, <2>8 DEF Completion
      <3>2. todo' = Unjournaling(kind)
        BY <3>1, <2>4, <2>5, ThreeThen DEF Unjournaling
      <3> QED
        BY <1>1, <1>2, <2>3, <2>8, <3>2 DEF Control, Progress, Linked
    <2> QED
      BY <2>6, <2>7, <2>8
  <1> QED
    BY <1>1, <1>2, Same, StepKeeps

\* The journal of a recovery is well formed, its records are Targets.
LEMMA JournalTargets ==
  ASSUME IInv, disk.journal # None
  PROVE  /\ disk.journal.old \in Targets /\ disk.journal.new \in Targets
         /\ disk.journal.old # disk.journal.new /\ disk.journal.value \in Values
         /\ disk.journal \in Jobs /\ disk.records \in [Targets -> Values \cup {None}]
         /\ disk.staged \in SUBSET Targets /\ disk.stray \in BOOLEAN /\ disk.name \in Names
  BY DEF IInv, Shape, Disks, Jobs, Records

\* What Link leaves is still to be completed, to the same records.
LEMMA LinkLeaves ==
  ASSUME IInv, Link
  PROVE  LET j == disk.journal
             done == [disk EXCEPT !.records[j.new] = j.value, !.staged = {}]
         IN  /\ Step("link", TRUE, done, {disk, done}, {disk}, << >>)
             /\ \E kind \in Kinds :
                  At(kind) /\ Tail(todo) = Unlinking(kind) /\ Completing(kind)
             /\ j # None /\ done.journal = j /\ done.name = disk.name
             /\ Completable(done) /\ done.records[j.new] # None
             /\ Effective(done) = Effective(disk) /\ DiskShape(done) /\ Keeps(done)
  <1> DEFINE j == disk.journal
             done == [disk EXCEPT !.records[j.new] = j.value, !.staged = {}]
  <1>1. Step("link", TRUE, done, {disk, done}, {disk}, << >>)
    BY DEF Link
  <1>2. PICK kind \in Kinds : At(kind)
    BY <1>1, StepOutcome, Located DEF IInv
  <1>3. /\ Tail(todo) = Unlinking(kind) /\ Completing(kind)
        /\ j # None /\ Completable(disk) /\ disk.records[j.new] = None
    BY <1>1, <1>2, StepOutcome DEF At
  <1>4. /\ j.old \in Targets /\ j.new \in Targets /\ j.old # j.new /\ j.value \in Values
        /\ j \in Jobs /\ disk.records \in [Targets -> Values \cup {None}]
        /\ disk.staged \in SUBSET Targets /\ disk.stray \in BOOLEAN /\ disk.name \in Names
    BY <1>3, JournalTargets
  <1>5. /\ done.records = [disk.records EXCEPT ![j.new] = j.value] /\ done.staged = {}
        /\ done.stray = disk.stray /\ done.journal = j /\ done.name = disk.name /\ done \in Disks
    BY <1>4 DEF Disks, Records, IInv, Shape
  <1>6. done.records[j.new] = j.value /\ done.records[j.old] = disk.records[j.old] /\ j.value # None
    BY <1>4, <1>5, TargetRecordsAssumption
  <1>7. Completable(done) /\ done.records[j.new] # None
    BY <1>3, <1>5, <1>6 DEF Completable
  <1>8. Effective(done) = Effective(disk)
    BY <1>3, <1>4, <1>5, <1>7 DEF Effective
  <1>9. DiskShape(done) /\ Keeps(done)
    BY <1>4, <1>5, <1>8 DEF DiskShape, Keeps
  <1> QED
    BY <1>1, <1>2, <1>3, <1>5, <1>6, <1>7, <1>8, <1>9

LEMMA LinkInv == ASSUME IInv, Link PROVE IInv'
  <1> DEFINE j == disk.journal
             done == [disk EXCEPT !.records[j.new] = j.value, !.staged = {}]
  <1>1. /\ Step("link", TRUE, done, {disk, done}, {disk}, << >>)
        /\ j # None /\ done.journal = j /\ done.name = disk.name
        /\ Completable(done) /\ done.records[j.new] # None
        /\ Effective(done) = Effective(disk) /\ DiskShape(done) /\ Keeps(done)
    BY LinkLeaves
  <1>2. PICK kind \in Kinds : At(kind) /\ Tail(todo) = Unlinking(kind) /\ Completing(kind)
    BY LinkLeaves
  <1>3. ASSUME disk' = done, todo' = << >> \o Tail(todo),
                UNCHANGED <<mem, phase, job, failed, answered>>
         PROVE  Control'
    <2>1. todo' = Unlinking(kind)
      BY <1>2, <1>3, CompletionLists
    <2>2. Request(kind)' /\ Completing(kind)'
      BY <1>1, <1>2, <1>3, RequestKept, CompletingKept DEF At
    <2>3. disk'.journal # None /\ Linked'
      BY <1>1, <1>3 DEF Linked
    <2> QED
      BY <2>1, <2>2, <2>3 DEF Control, Progress
  <1>4. \A d \in {disk, done} \cup {disk, done} \cup {disk} : DiskShape(d) /\ Keeps(d)
    BY <1>1, Same
  <1> QED
    BY <1>1, <1>3, <1>4, StepKeeps

\* What Unlink leaves is still to be completed, to the same records.
LEMMA UnlinkLeaves ==
  ASSUME IInv, Unlink
  PROVE  LET j == disk.journal
             done == [disk EXCEPT !.records[j.old] = None]
         IN  /\ Step("unlink", TRUE, done, {disk, done}, {disk}, << >>)
             /\ \E kind \in Kinds :
                  At(kind) /\ Tail(todo) = Unjournaling(kind) /\ Completing(kind)
             /\ j # None /\ done.journal = j /\ done.name = disk.name
             /\ Completable(done) /\ done.records[j.new] # None /\ done.records[j.old] = None
             /\ Effective(done) = Effective(disk) /\ DiskShape(done) /\ Keeps(done)
  <1> DEFINE j == disk.journal
             done == [disk EXCEPT !.records[j.old] = None]
  <1>1. Step("unlink", TRUE, done, {disk, done}, {disk}, << >>)
    BY DEF Unlink
  <1>2. PICK kind \in Kinds : At(kind)
    BY <1>1, StepOutcome, Located DEF IInv
  <1>3. /\ Tail(todo) = Unjournaling(kind) /\ Completing(kind)
        /\ j # None /\ Completable(disk) /\ disk.records[j.new] # None
    BY <1>1, <1>2, StepOutcome DEF At, Linked
  <1>4. /\ j.old \in Targets /\ j.new \in Targets /\ j.old # j.new /\ j.value \in Values
        /\ j \in Jobs /\ disk.records \in [Targets -> Values \cup {None}]
        /\ disk.staged \in SUBSET Targets /\ disk.stray \in BOOLEAN /\ disk.name \in Names
    BY <1>3, JournalTargets
  <1>5. /\ done.records = [disk.records EXCEPT ![j.old] = None] /\ done.staged = disk.staged
        /\ done.stray = disk.stray /\ done.journal = j /\ done.name = disk.name /\ done \in Disks
    BY <1>4 DEF Disks, Records, IInv, Shape
  <1>6. done.records[j.new] = disk.records[j.new] /\ done.records[j.old] = None
    BY <1>4, <1>5
  <1>7. Completable(done) /\ done.records[j.new] # None
    BY <1>3, <1>5, <1>6 DEF Completable
  <1>8. Effective(done) = Effective(disk)
    BY <1>3, <1>4, <1>5, <1>7 DEF Effective
  <1>9. DiskShape(done) /\ Keeps(done)
    BY <1>4, <1>5, <1>8 DEF DiskShape, Keeps
  <1> QED
    BY <1>1, <1>2, <1>3, <1>5, <1>6, <1>7, <1>8, <1>9

LEMMA UnlinkInv == ASSUME IInv, Unlink PROVE IInv'
  <1> DEFINE j == disk.journal
             done == [disk EXCEPT !.records[j.old] = None]
  <1>1. /\ Step("unlink", TRUE, done, {disk, done}, {disk}, << >>)
        /\ j # None /\ done.journal = j /\ done.name = disk.name
        /\ Completable(done) /\ done.records[j.new] # None /\ done.records[j.old] = None
        /\ Effective(done) = Effective(disk) /\ DiskShape(done) /\ Keeps(done)
    BY UnlinkLeaves
  <1>2. PICK kind \in Kinds : At(kind) /\ Tail(todo) = Unjournaling(kind) /\ Completing(kind)
    BY UnlinkLeaves
  <1>3. ASSUME disk' = done, todo' = << >> \o Tail(todo),
                UNCHANGED <<mem, phase, job, failed, answered>>
         PROVE  Control'
    <2>1. todo' = Unjournaling(kind)
      BY <1>2, <1>3, CompletionLists
    <2>2. Request(kind)' /\ Completing(kind)'
      BY <1>1, <1>2, <1>3, RequestKept, CompletingKept DEF At
    <2>3. disk'.journal # None /\ Linked' /\ disk'.records[disk'.journal.old] = None
      BY <1>1, <1>3 DEF Linked
    <2> QED
      BY <2>1, <2>2, <2>3 DEF Control, Progress
  <1>4. \A d \in {disk, done} \cup {disk, done} \cup {disk} : DiskShape(d) /\ Keeps(d)
    BY <1>1, Same
  <1> QED
    BY <1>1, <1>3, <1>4, StepKeeps

\* What Unjournal leaves: the records are those of the journal.
LEMMA Unjournaled ==
  ASSUME IInv, Unjournal
  PROVE  LET done == [disk EXCEPT !.journal = None]
         IN  /\ Head(todo) = "unjournal" /\ todo # << >> /\ disk.journal # None /\ Linked
             /\ done \in Disks /\ done.journal = None /\ done.staged = {} /\ ~done.stray
             /\ done.records = disk.records /\ done.name = disk.name
             /\ Effective(disk) = disk.records /\ Effective(done) = disk.records
             /\ DiskShape(done) /\ Keeps(done)
             /\ disk.records[disk.journal.new] = disk.journal.value
  <1> DEFINE done == [disk EXCEPT !.journal = None]
             j == disk.journal
  <1>1. todo # << >> /\ Head(todo) = "unjournal"
    BY DEF Unjournal
  <1>2. PICK kind \in Kinds : At(kind)
    BY <1>1, Located DEF IInv
  <1>3. j # None /\ Completable(disk) /\ disk.records[j.new] # None /\ disk.records[j.old] = None
    BY <1>1, <1>2 DEF At, Linked
  <1>4. disk.records[j.new] = j.value /\ disk.staged = {} /\ ~disk.stray
    BY <1>3 DEF Completable
  <1>5. /\ j.old \in Targets /\ j.new \in Targets /\ j.old # j.new
        /\ disk.records \in [Targets -> Values \cup {None}]
    BY <1>3, JournalTargets
  <1>6. done \in Disks /\ done.journal = None /\ done.staged = {} /\ ~done.stray
        /\ done.records = disk.records /\ done.name = disk.name
    BY <1>4 DEF IInv, Shape, Disks
  <1>7. Effective(disk) = disk.records
    <2>1. [disk.records EXCEPT ![j.old] = None, ![j.new] = j.value] = disk.records
      BY <1>3, <1>4, <1>5
    <2> QED
      BY <2>1 DEF Effective
  <1>8. Effective(done) = disk.records
    BY <1>6, NoJournal
  <1>9. DiskShape(done) /\ Keeps(done)
    BY <1>6, <1>7, <1>8 DEF DiskShape, Keeps
  <1> QED
    BY <1>1, <1>3, <1>4, <1>6, <1>7, <1>8, <1>9 DEF Linked

LEMMA UnjournalInv == ASSUME IInv, Unjournal PROVE IInv'
  <1> DEFINE done == [disk EXCEPT !.journal = None]
  <1>1. /\ Head(todo) = "unjournal" /\ todo # << >> /\ disk.journal # None /\ Linked
        /\ done \in Disks /\ done.journal = None /\ done.staged = {} /\ ~done.stray
        /\ done.records = disk.records /\ done.name = disk.name
        /\ Effective(disk) = disk.records /\ Effective(done) = disk.records
        /\ DiskShape(done) /\ Keeps(done)
        /\ disk.records[disk.journal.new] = disk.journal.value
    BY Unjournaled
  <1>2. CASE Step("unjournal", TRUE, done, {disk, done}, {disk}, << >>)
    <2>1. ASSUME disk' = done, todo' = << >> \o Tail(todo),
                 UNCHANGED <<mem, phase, job, failed, answered>>
          PROVE  Control'
      <3>1. PICK kind \in Kinds : At(kind)
        BY <1>1, Located DEF IInv
      <3>2. Tail(todo) = End(kind) /\ Completing(kind)
        BY <1>1, <3>1 DEF At
      <3>3. todo' = End(kind) /\ Request(kind)' /\ Clean'
        BY <1>1, <2>1, <3>1, <3>2, EndFacts, RequestKept DEF At, Clean
      <3>4. kind \in {"recycle", "write"} => failed'
        BY <2>1, <3>2 DEF Completing
      <3>5. ASSUME kind = "answer"
            PROVE  /\ disk'.records[job'.new] = job'.value
                   /\ ~failed' => disk'.records = Exchanged' /\ mem'.name = disk'.name
        <4>1. disk.journal = job /\ (~failed => Effective(disk) = Exchanged /\ mem.name = disk.name)
          BY <3>2, <3>5 DEF Completing
        <4>2. Exchanged' = Exchanged
          BY <2>1 DEF Exchanged
        <4> QED
          BY <1>1, <2>1, <4>1, <4>2
      <3> QED
        BY <3>3, <3>4, <3>5 DEF Control, Progress
    <2>2. \A d \in {disk, done} \cup {disk, done} \cup {disk} : DiskShape(d) /\ Keeps(d)
      BY <1>1, Same
    <2> QED
      BY <1>2, <2>1, <2>2, StepKeeps
  <1>3. CASE disk' = done /\ Fail("refused") /\ UNCHANGED <<answered, faults, crashes>>
    <2>1. Stopped
      BY <1>3 DEF Stopped, Fail
    <2> QED
      BY <1>1, <1>3, <2>1, StoppedInv
  <1> QED
    BY <1>2, <1>3 DEF Unjournal

-----------------------------------------------------------------------------
(* The steps of a creation.                                                  *)

\* Without a journal, a start loads the records as they are.
LEMMA Unjournalled ==
  ASSUME IInv, disk.journal = None, NEW d \in Disks, d.journal = None, d.name = disk.name,
         \A t \in Targets : answered.records[t] # None => d.records[t] = disk.records[t]
  PROVE  DiskShape(d) /\ Keeps(d)
  BY NoJournal DEF DiskShape, Keeps

LEMMA JobShape ==
  ASSUME NEW kind \in Kinds, Request(kind), kind # "load"
  PROVE  /\ job \in Jobs /\ job.new \in Targets /\ job.value \in Values /\ job.value # None
         /\ job.old \in Targets \cup {None} /\ job.expected \in Values \cup {None}
         /\ phase = "serving" /\ mem.records[job.new] = None
         /\ kind = "recycle" => job.old \in Targets
         /\ job.old \in Targets =>
              job.old # job.new /\ answered.records[job.old] = None /\ job.old \notin mem.contexts
  BY TargetRecordsAssumption DEF Request, Jobs, Recycles

LEMMA WriteInv == ASSUME IInv, Write PROVE IInv'
  <1> DEFINE there == disk.records[job.new] # None
             done == IF there THEN disk ELSE [disk EXCEPT !.stray = TRUE]
             ok == IF there THEN disk.records[job.new] = job.value ELSE ~Full(disk.records)
  <1>1. Step("write", ok, done, {disk, done}, {disk, done}, << >>)
    BY DEF Write
  <1>2. PICK kind \in Kinds : At(kind)
    BY <1>1, StepOutcome, Located DEF IInv
  <1>3. kind = "write" /\ Tail(todo) = <<"add", "answer">> /\ Clean /\ (~failed => InStep)
        /\ Request(kind)
    BY <1>1, <1>2, StepOutcome DEF At
  <1>4. /\ done \in Disks /\ done.journal = None /\ done.staged = {} /\ done.records = disk.records
        /\ done.name = disk.name /\ (there => ~done.stray)
    BY <1>3 DEF Clean, IInv, Shape, Disks
  <1>5. DiskShape(done) /\ Keeps(done)
    BY <1>3, <1>4, Unjournalled DEF Clean
  <1>6. ASSUME ok, disk' = done, todo' = << >> \o Tail(todo),
               UNCHANGED <<mem, phase, job, failed, answered>>
        PROVE  Control'
    <2>1. "add" \in StepNames /\ "answer" \in StepNames
      BY DEF StepNames
    <2>2. todo' = <<"add", "answer">>
      BY <1>3, <1>6, <2>1, TwoSteps
    <2>3. Request(kind)'
      BY <1>3, <1>6, RequestKept
    <2>4. /\ disk'.journal = None /\ disk'.staged = {}
          /\ IF disk'.records[job'.new] = None THEN ~Full(disk'.records)
             ELSE disk'.records[job'.new] = job'.value /\ ~disk'.stray
          /\ ~failed' => InStep'
      BY <1>3, <1>4, <1>6 DEF InStep
    <2> QED
      BY <1>3, <2>2, <2>3, <2>4 DEF Control, Progress, Full, Kept
  <1>7. \A d \in {disk, done} \cup {disk, done} \cup {disk, done} : DiskShape(d) /\ Keeps(d)
    BY <1>5, Same
  <1> QED
    BY <1>1, <1>6, <1>7, StepKeeps

\* What Add leaves: the new record, beside fewer than the limit if it was absent.
LEMMA Adding ==
  ASSUME IInv, Add
  PROVE  LET there == disk.records[job.new] # None
             done == IF there THEN disk
                     ELSE [disk EXCEPT !.records[job.new] = job.value, !.stray = FALSE]
             swept == [disk EXCEPT !.stray = FALSE]
         IN  /\ Step("add", TRUE, done, {disk, done, swept}, {disk}, << >>)
             /\ Request("write") /\ Tail(todo) = End("answer")
             /\ disk.journal = None /\ (~failed => InStep)
             /\ there \/ ~Full(disk.records)
             /\ done \in Disks /\ done.journal = None /\ done.staged = {} /\ ~done.stray
             /\ done.name = disk.name /\ done.records = [disk.records EXCEPT ![job.new] = job.value]
             /\ swept \in Disks /\ swept.journal = None /\ swept.records = disk.records
             /\ DiskShape(done) /\ Keeps(done) /\ DiskShape(swept) /\ Keeps(swept)
  <1> DEFINE there == disk.records[job.new] # None
             done == IF there THEN disk
                     ELSE [disk EXCEPT !.records[job.new] = job.value, !.stray = FALSE]
             swept == [disk EXCEPT !.stray = FALSE]
  <1>1. Step("add", TRUE, done, {disk, done, swept}, {disk}, << >>)
    BY DEF Add
  <1>2. PICK kind \in Kinds : At(kind)
    BY <1>1, StepOutcome, Located DEF IInv
  <1>3. /\ kind = "write" /\ Tail(todo) = End("answer") /\ Request(kind)
        /\ disk.journal = None /\ disk.staged = {}
        /\ IF disk.records[job.new] = None THEN ~Full(disk.records)
           ELSE disk.records[job.new] = job.value /\ ~disk.stray
        /\ ~failed => InStep
    BY <1>1, <1>2, StepOutcome DEF At
  <1>4. job.new \in Targets /\ job.value \in Values
    BY <1>3, JobShape
  <1>5. disk.records \in [Targets -> Values \cup {None}] /\ disk.stray \in BOOLEAN /\ disk \in Disks
        /\ disk.name \in Names
    BY DEF IInv, Shape, Disks, Records
  <1>6. /\ done \in Disks /\ done.journal = None /\ done.staged = {} /\ ~done.stray
        /\ done.name = disk.name /\ done.records = [disk.records EXCEPT ![job.new] = job.value]
    <2>1. CASE there
      BY <1>3, <1>4, <1>5, <2>1
    <2>2. CASE ~there
      BY <1>3, <1>4, <1>5, <2>2 DEF Disks, Records
    <2> QED
      BY <2>1, <2>2
  <1>7. swept \in Disks /\ swept.journal = None /\ swept.records = disk.records
        /\ swept.name = disk.name
    BY <1>3, <1>5 DEF Disks
  <1>8. DiskShape(swept) /\ Keeps(swept)
    BY <1>3, <1>7, Unjournalled
  <1>9. DiskShape(done) /\ Keeps(done)
    <2>1. ASSUME NEW t \in Targets, answered.records[t] # None
          PROVE  done.records[t] = disk.records[t]
      <3>1. disk.records[t] = answered.records[t]
        BY <1>3, <2>1, NoJournal DEF IInv, AnsweredRecordsKept
      <3> QED
        BY <1>3, <1>4, <1>5, <1>6, <2>1, <3>1
    <2> QED
      BY <1>3, <1>6, <2>1, Unjournalled
  <1> QED
    BY <1>1, <1>3, <1>6, <1>7, <1>8, <1>9

LEMMA AddInv == ASSUME IInv, Add PROVE IInv'
  <1> DEFINE there == disk.records[job.new] # None
             done == IF there THEN disk
                     ELSE [disk EXCEPT !.records[job.new] = job.value, !.stray = FALSE]
             swept == [disk EXCEPT !.stray = FALSE]
  <1>1. /\ Step("add", TRUE, done, {disk, done, swept}, {disk}, << >>)
        /\ Request("write") /\ Tail(todo) = End("answer") /\ (~failed => InStep)
        /\ done \in Disks /\ done.journal = None /\ done.staged = {} /\ ~done.stray
        /\ done.name = disk.name /\ done.records = [disk.records EXCEPT ![job.new] = job.value]
        /\ DiskShape(done) /\ Keeps(done) /\ DiskShape(swept) /\ Keeps(swept)
    BY Adding
  <1>2. job.new \in Targets /\ job.old = None /\ job.old \notin Targets
    BY <1>1, JobShape, TargetRecordsAssumption DEF Kinds, Request
  <1>3. ASSUME disk' = done, todo' = << >> \o Tail(todo),
               UNCHANGED <<mem, phase, job, failed, answered>>
        PROVE  Control'
    <2>1. todo' = End("answer")
      BY <1>1, <1>3, EndFacts DEF Kinds
    <2>2. Request("write")'
      BY <1>1, <1>3, RequestKept
    <2>3. Request("answer")'
      BY <2>2 DEF Request
    <2>4. Clean' /\ disk'.records[job'.new] = job'.value
      BY <1>1, <1>2, <1>3 DEF Clean, IInv, Shape, Disks, Records
    <2>5. ASSUME ~failed' PROVE disk'.records = Exchanged' /\ mem'.name = disk'.name
      <3>1. mem.records = disk.records /\ mem.name = disk.name
        BY <1>1, <1>3, <2>5 DEF InStep
      <3>2. disk.records \in [Targets -> Values \cup {None}]
        BY DEF IInv, Shape, Disks, Records
      <3>3. Exchanged = [disk.records EXCEPT ![job.new] = job.value]
        BY <1>2, <3>1, <3>2 DEF Exchanged
      <3>4. Exchanged' = Exchanged
        BY <1>3 DEF Exchanged
      <3> QED
        BY <1>1, <1>3, <3>1, <3>3, <3>4
    <2> QED
      BY <2>1, <2>3, <2>4, <2>5 DEF Control, Progress, Kinds
  <1>4. \A d \in {disk, done} \cup {disk, done, swept} \cup {disk} : DiskShape(d) /\ Keeps(d)
    BY <1>1, Same
  <1> QED
    BY <1>1, <1>3, <1>4, StepKeeps

LEMMA StageInv == ASSUME IInv, Stage PROVE IInv'
  <1> DEFINE done == [disk EXCEPT !.staged = @ \cup {job.new}]
             ok == /\ Cardinality(Kept(disk.records)) = MaxTargets
                   /\ disk.records[job.old] # None /\ disk.records[job.new] = None
                   /\ disk.records[job.old] = job.expected
  <1>1. Step("stage", ok, done, {disk, done}, {disk, done}, << >>)
    BY DEF Stage
  <1>2. PICK kind \in Kinds : At(kind)
    BY <1>1, StepOutcome, Located DEF IInv
  <1>3. kind = "recycle" /\ Tail(todo) = <<"journal", "complete", "answer">> /\ Clean
        /\ (~failed => InStep) /\ Request(kind)
    BY <1>1, <1>2, StepOutcome DEF At
  <1>4. job.new \in Targets
    BY <1>3, JobShape
  <1>5. /\ done \in Disks /\ done.journal = None /\ done.staged = {job.new} /\ ~done.stray
        /\ done.records = disk.records /\ done.name = disk.name
    BY <1>3, <1>4 DEF Clean, IInv, Shape, Disks
  <1>6. DiskShape(done) /\ Keeps(done)
    BY <1>3, <1>5, Unjournalled DEF Clean
  <1>7. ASSUME ok, disk' = done, todo' = << >> \o Tail(todo),
               UNCHANGED <<mem, phase, job, failed, answered>>
        PROVE  Control'
    <2>1. "journal" \in StepNames /\ "complete" \in StepNames /\ "answer" \in StepNames
      BY DEF StepNames
    <2>2. todo' = <<"journal", "complete", "answer">>
      BY <1>3, <1>7, <2>1, ThreeSteps
    <2>3. Request(kind)'
      BY <1>3, <1>7, RequestKept
    <2>4. /\ disk'.journal = None /\ ~disk'.stray /\ disk'.staged = {job'.new}
          /\ disk'.records[job'.old] = job'.expected /\ job'.expected # None
          /\ disk'.records[job'.new] = None
          /\ ~failed' => InStep'
      BY <1>3, <1>5, <1>7 DEF InStep
    <2> QED
      BY <1>3, <2>2, <2>3, <2>4 DEF Control, Progress
  <1>8. \A d \in {disk, done} \cup {disk, done} \cup {disk, done} : DiskShape(d) /\ Keeps(d)
    BY <1>6, Same
  <1> QED
    BY <1>1, <1>7, <1>8, StepKeeps

\* What Journal leaves: the exchange, or, without the staging, nothing of it.
LEMMA Journaling ==
  ASSUME IInv, Journal
  PROVE  LET done == [disk EXCEPT !.journal = job]
             bare == [disk EXCEPT !.staged = {}]
             lost == [done EXCEPT !.staged = {}]
         IN  /\ Step("journal", TRUE, done, {disk, done, bare, lost}, {disk}, << >>)
             /\ Request("recycle") /\ Tail(todo) = Then("complete", End("answer"))
             /\ ~failed => InStep
             /\ disk.journal = None /\ disk.records[job.old] # None /\ disk.records[job.new] = None
             /\ job.new \in Targets /\ job.old \in Targets /\ job.old # job.new /\ job.value \in Values
             /\ done.journal = job /\ done.name = disk.name /\ Completable(done)
             /\ Effective(done) = [disk.records EXCEPT ![job.old] = None, ![job.new] = job.value]
             /\ Effective(bare) = disk.records /\ Effective(lost) = disk.records
             /\ DiskShape(done) /\ Keeps(done) /\ DiskShape(bare) /\ Keeps(bare)
             /\ DiskShape(lost) /\ Keeps(lost)
  <1> DEFINE done == [disk EXCEPT !.journal = job]
             bare == [disk EXCEPT !.staged = {}]
             lost == [done EXCEPT !.staged = {}]
  <1>1. Step("journal", TRUE, done, {disk, done, bare, lost}, {disk}, << >>)
    BY DEF Journal
  <1>2. PICK kind \in Kinds : At(kind)
    BY <1>1, StepOutcome, Located DEF IInv
  <1>3. /\ kind = "recycle" /\ Tail(todo) = Then("complete", End("answer")) /\ Request(kind)
        /\ disk.journal = None /\ ~disk.stray /\ disk.staged = {job.new}
        /\ disk.records[job.old] = job.expected /\ job.expected # None
        /\ disk.records[job.new] = None
        /\ ~failed => InStep
    BY <1>1, <1>2, StepOutcome DEF At
  <1>4. /\ job \in Jobs /\ job # None /\ job.new \in Targets /\ job.old \in Targets /\ job.old # job.new
        /\ answered.records[job.old] = None /\ job.value \in Values /\ job.value # None
    BY <1>3, JobShape DEF Request, Recycles
  <1>5. disk \in Disks /\ disk.records \in [Targets -> Values \cup {None}]
    BY DEF IInv, Shape, Disks, Records
  <1>6. /\ done \in Disks /\ done.journal = job /\ done.records = disk.records
        /\ done.staged = {job.new} /\ ~done.stray /\ done.name = disk.name
    BY <1>3, <1>4, <1>5 DEF Disks
  <1>7. /\ lost \in Disks /\ lost.journal = job /\ lost.records = disk.records
        /\ lost.staged = {} /\ lost.name = disk.name
    BY <1>3, <1>4, <1>5 DEF Disks
  <1>8. /\ bare \in Disks /\ bare.journal = None /\ bare.records = disk.records
        /\ bare.name = disk.name
    BY <1>3, <1>5 DEF Disks
  <1>9. Completable(done)
    BY <1>3, <1>4, <1>6 DEF Completable
  <1>10. Effective(done) = [disk.records EXCEPT ![job.old] = None, ![job.new] = job.value]
    BY <1>4, <1>6, <1>9 DEF Effective
  <1>11. ~Completable(lost)
    BY <1>3, <1>7 DEF Completable
  <1>12. Effective(lost) = disk.records /\ Effective(bare) = disk.records /\ Effective(disk) = disk.records
    BY <1>3, <1>7, <1>8, <1>11, NoJournal DEF Effective
  <1>13. DiskShape(done) /\ DiskShape(lost) /\ DiskShape(bare)
    BY <1>4, <1>6, <1>7, <1>8 DEF DiskShape
  <1>14. answered.records[job.new] = None
    BY <1>3, <1>4, <1>12 DEF IInv, AnsweredRecordsKept
  <1>15. Keeps(done) /\ Keeps(lost) /\ Keeps(bare)
    BY <1>4, <1>5, <1>6, <1>7, <1>8, <1>10, <1>12, <1>14 DEF Keeps
  <1> QED
    BY <1>1, <1>3, <1>4, <1>6, <1>9, <1>10, <1>12, <1>13, <1>15

LEMMA JournalInv == ASSUME IInv, Journal PROVE IInv'
  <1> DEFINE done == [disk EXCEPT !.journal = job]
             bare == [disk EXCEPT !.staged = {}]
             lost == [done EXCEPT !.staged = {}]
  <1>1. /\ Step("journal", TRUE, done, {disk, done, bare, lost}, {disk}, << >>)
        /\ Request("recycle") /\ Tail(todo) = Then("complete", End("answer"))
        /\ ~failed => InStep
        /\ job.new \in Targets /\ job.old \in Targets /\ job.old # job.new
        /\ done.journal = job /\ done.name = disk.name /\ Completable(done)
        /\ Effective(done) = [disk.records EXCEPT ![job.old] = None, ![job.new] = job.value]
        /\ DiskShape(done) /\ Keeps(done) /\ DiskShape(bare) /\ Keeps(bare)
        /\ DiskShape(lost) /\ Keeps(lost)
    BY Journaling
  <1>2. ASSUME disk' = done, todo' = << >> \o Tail(todo),
               UNCHANGED <<mem, phase, job, failed, answered>>
        PROVE  Control'
    <2>1. todo' = Then("complete", End("answer"))
      BY <1>1, <1>2, CompletionLists DEF Kinds
    <2>2. Request("recycle")'
      BY <1>1, <1>2, RequestKept
    <2>3. Request("answer")'
      BY <2>2 DEF Request
    <2>4. ASSUME ~failed' PROVE Effective(disk') = Exchanged' /\ mem'.name = disk'.name
      <3>1. mem.records = disk.records /\ mem.name = disk.name
        BY <1>1, <1>2, <2>4 DEF InStep
      <3>2. disk.records \in [Targets -> Values \cup {None}]
        BY DEF IInv, Shape, Disks, Records
      <3>3. Exchanged = [disk.records EXCEPT ![job.old] = None, ![job.new] = job.value]
        BY <1>1, <3>1, <3>2 DEF Exchanged
      <3>4. Exchanged' = Exchanged
        BY <1>2 DEF Exchanged
      <3> QED
        BY <1>1, <1>2, <3>1, <3>3, <3>4
    <2>5. Completing("answer")'
      BY <1>1, <1>2, <2>4 DEF Completing
    <2> QED
      BY <2>1, <2>3, <2>5 DEF Control, Progress, Kinds
  <1>3. \A d \in {disk, done} \cup {disk, done, bare, lost} \cup {disk} : DiskShape(d) /\ Keeps(d)
    BY <1>1, Same
  <1> QED
    BY <1>1, <1>2, <1>3, StepKeeps

LEMMA AnswerInv == ASSUME IInv, Answer PROVE IInv'
  <1>1. /\ todo = <<"answer">> /\ UNCHANGED <<disk, phase, failed>>
        /\ mem' = [mem EXCEPT !.records = Exchanged]
        /\ answered' = [answered EXCEPT !.records[job.new] = job.value]
        /\ todo' = << >> /\ job' = None
    BY DEF Answer, Exchanged, IInv, Shape, Records
  <1>2. todo # << >> /\ Head(todo) = "answer"
    BY <1>1
  <1>3. PICK kind \in Kinds : At(kind)
    BY <1>2, Located DEF IInv
  <1>4. /\ kind = "answer" /\ Clean /\ Request(kind) /\ disk.records[job.new] = job.value
        /\ ~failed => disk.records = Exchanged /\ mem.name = disk.name
    BY <1>2, <1>3 DEF At
  <1>5. /\ job.new \in Targets /\ job.value \in Values /\ job.value # None /\ phase = "serving"
        /\ mem.records[job.new] = None
        /\ job.old \in Targets =>
             job.old # job.new /\ answered.records[job.old] = None /\ job.old \notin mem.contexts
    BY <1>4, JobShape
  <1>6. mem \in [records : Records, name : Names \cup {None}, contexts : SUBSET Targets]
        /\ answered \in [records : Records, name : Names \cup {None}]
    BY DEF IInv, Shape
  <1>7. Exchanged \in Records
    BY <1>5, <1>6 DEF Exchanged, Records
  <1>8. /\ mem'.records = Exchanged /\ mem'.name = mem.name /\ mem'.contexts = mem.contexts
        /\ answered'.records = [answered.records EXCEPT ![job.new] = job.value]
        /\ answered'.name = answered.name
    BY <1>1, <1>6
  <1>9. Shape'
    <2>1. mem' \in [records : Records, name : Names \cup {None}, contexts : SUBSET Targets]
      BY <1>1, <1>6, <1>7
    <2>2. answered' \in [records : Records, name : Names \cup {None}]
      BY <1>1, <1>5, <1>6 DEF Records
    <2> QED
      BY <1>1, <2>1, <2>2 DEF IInv, Shape
  <1>10. ContextsRefer'
    BY <1>1, <1>5, <1>6, <1>8 DEF IInv, ContextsRefer, Exchanged
  <1>11. Control'
    BY <1>1, <1>4, <1>5, <1>8 DEF Control, Clean, InStep
  <1>12. AnsweredRecordsKept'
    <2>1. Effective(disk) = disk.records
      BY <1>4, NoJournal DEF Clean
    <2>2. ASSUME NEW t \in Targets, answered'.records[t] # None
          PROVE  /\ Effective(disk)[t] = answered'.records[t]
                 /\ mem'.records[t] = answered'.records[t]
      <3>1. CASE t = job.new
        BY <1>4, <1>5, <1>6, <1>8, <2>1, <3>1 DEF Exchanged, Records
      <3>2. CASE t # job.new
        BY <1>5, <1>6, <1>8, <2>2, <3>2 DEF Exchanged, Records, IInv, AnsweredRecordsKept
      <3> QED
        BY <3>1, <3>2
    <2> QED
      BY <1>1, <1>8, <2>2 DEF IInv, AnsweredRecordsKept
  <1> QED
    BY <1>9, <1>10, <1>11, <1>12 DEF IInv

-----------------------------------------------------------------------------
(* Requests begin, contexts, starts and deaths.                              *)

LEMMA RecoverLists ==
  /\ <<"recover", "stage", "journal", "complete", "answer">> = Then("recover", End("recycle"))
  /\ <<"recover", "write", "add", "answer">> = Then("recover", End("write"))
  /\ <<"preflight", "recover", "load">> = Then("preflight", Then("recover", End("load")))
  /\ <<"load">> = End("load")
  BY DEF Then, End

LEMMA CreateTargetInv ==
  ASSUME IInv, NEW t \in Targets, NEW v \in Values, CreateTarget(t, v)
  PROVE  IInv'
  <1>1. /\ phase = "serving" /\ todo = << >> /\ mem.records[t] = None
        /\ UNCHANGED <<disk, mem, phase, failed>>
    BY DEF CreateTarget, Idle
  <1>2. ~failed => Clean /\ InStep
    <2>1. \A kind \in Kinds : ~Progress(kind)
      <3> SUFFICES ASSUME NEW kind \in Kinds PROVE ~Progress(kind)
        OBVIOUS
      <3>1. End(kind) # << >> /\ <<"journal", "complete", "answer">> # << >> /\ <<"add", "answer">> # << >>
        BY EndFacts
      <3> QED
        BY <1>1, <3>1, CompletionLists DEF Progress
    <2> QED
      BY <1>1, <2>1 DEF IInv, Control
  <1>3. /\ disk \in Disks /\ mem \in [records : Records, name : Names \cup {None}, contexts : SUBSET Targets]
        /\ answered \in [records : Records, name : Names \cup {None}]
    BY DEF IInv, Shape
  <1>4. CASE Full(mem.records)
    <2>1. PICK old \in First(Recyclable) :
            /\ job' = [old |-> old, new |-> t, value |-> v, expected |-> mem.records[old]]
            /\ answered' = [answered EXCEPT !.records[old] = None]
            /\ todo' = <<"recover", "stage", "journal", "complete", "answer">>
      BY <1>4 DEF CreateTarget
    <2>2. old \in Targets /\ mem.records[old] # None /\ old \notin mem.contexts /\ old # t
      BY <1>1 DEF First, Recyclable, Kept
    <2>3. /\ answered'.records = [answered.records EXCEPT ![old] = None]
          /\ answered'.name = answered.name
          /\ answered' \in [records : Records, name : Names \cup {None}]
      BY <1>3, <2>1, <2>2 DEF Records
    <2>4. job' \in Jobs /\ job'.old = old /\ job'.new = t /\ job'.value = v
      BY <1>3, <2>1, <2>2 DEF Jobs, Records
    <2>5. job' # None
      BY <2>4, NoneIsNoJob
    <2>6. Request("recycle")'
      BY <1>1, <1>3, <2>2, <2>3, <2>4, <2>5 DEF Request, Recycles, Records
    <2>7. Progress("recycle")'
      BY <1>1, <1>2, <2>1, RecoverLists DEF Progress, Clean, InStep
    <2>8. Control'
      BY <2>6, <2>7 DEF Control, Kinds
    <2>9. Shape' /\ ContextsRefer'
      BY <1>1, <2>3 DEF IInv, Shape, ContextsRefer
    <2>10. AnsweredRecordsKept'
      BY <1>1, <1>3, <2>2, <2>3 DEF IInv, AnsweredRecordsKept, Records
    <2> QED
      BY <2>8, <2>9, <2>10 DEF IInv
  <1>5. CASE ~Full(mem.records)
    <2>1. /\ job' = [old |-> None, new |-> t, value |-> v, expected |-> None]
          /\ todo' = <<"recover", "write", "add", "answer">> /\ answered' = answered
      BY <1>5 DEF CreateTarget
    <2>2. job' \in Jobs /\ job'.old = None /\ job'.new = t
      BY <2>1 DEF Jobs
    <2>3. job' # None /\ None \notin Targets
      BY <2>2, TargetRecordsAssumption, NoneIsNoJob
    <2>4. Request("write")'
      BY <1>1, <2>2, <2>3 DEF Request
    <2>5. Progress("write")'
      BY <1>1, <1>2, <2>1, RecoverLists DEF Progress, Clean, InStep
    <2>6. Control'
      BY <2>4, <2>5 DEF Control, Kinds
    <2>7. Shape' /\ ContextsRefer' /\ AnsweredRecordsKept'
      BY <1>1, <2>1 DEF IInv, Shape, ContextsRefer, AnsweredRecordsKept
    <2> QED
      BY <2>6, <2>7 DEF IInv
  <1> QED
    BY <1>4, <1>5

\* Nothing runs: the Store is in step with the disk, unless a request failed.
LEMMA IdleFacts ==
  ASSUME IInv, todo = << >>
  PROVE  /\ job = None /\ phase # "opening"
         /\ phase = "serving" /\ ~failed => Clean /\ InStep
  <1>1. \A kind \in Kinds : ~Progress(kind)
    <2> SUFFICES ASSUME NEW kind \in Kinds PROVE ~Progress(kind)
      OBVIOUS
    <2>1. End(kind) # << >> /\ <<"journal", "complete", "answer">> # << >> /\ <<"add", "answer">> # << >>
      BY EndFacts
    <2> QED
      BY <2>1, CompletionLists DEF Progress
  <1> QED
    BY <1>1 DEF IInv, Control

\* The records of a disk do not depend on its name.
LEMMA NameAside ==
  ASSUME NEW d \in Disks, NEW n \in Names
  PROVE  LET renamed == [d EXCEPT !.name = n]
         IN  /\ Effective(renamed) = Effective(d) /\ renamed \in Disks /\ renamed.name = n
             /\ renamed.journal = d.journal /\ renamed.records = d.records
             /\ renamed.staged = d.staged /\ renamed.stray = d.stray
  <1> DEFINE renamed == [d EXCEPT !.name = n]
  <1>1. /\ renamed.journal = d.journal /\ renamed.records = d.records /\ renamed.name = n
        /\ renamed.staged = d.staged /\ renamed.stray = d.stray /\ renamed \in Disks
    BY DEF Disks
  <1>2. Completable(renamed) <=> Completable(d)
    BY <1>1 DEF Completable
  <1> QED
    BY <1>1, <1>2 DEF Effective

LEMMA RenameInv ==
  ASSUME IInv, NEW expected \in Names, NEW n \in Names, RenameProject(expected, n)
  PROVE  IInv'
  <1> DEFINE renamed == [disk EXCEPT !.name = n]
  <1>1. phase = "serving" /\ todo = << >> /\ job = None /\ (~failed => Clean /\ InStep)
    BY IdleFacts DEF RenameProject, Idle
  <1>2. /\ disk \in Disks /\ mem \in [records : Records, name : Names \cup {None}, contexts : SUBSET Targets]
        /\ answered \in [records : Records, name : Names \cup {None}]
    BY DEF IInv, Shape
  <1>3. /\ Effective(renamed) = Effective(disk) /\ renamed \in Disks /\ renamed.name = n
        /\ renamed.journal = disk.journal /\ renamed.records = disk.records
        /\ renamed.staged = disk.staged /\ renamed.stray = disk.stray
    BY <1>2, NameAside
  <1>4. DiskShape(renamed) /\ DiskShape(disk)
    BY <1>3, Same DEF DiskShape
  <1>5. CASE /\ disk' = [disk EXCEPT !.name = IF Renamed(n) THEN @ ELSE n]
             /\ mem' = [mem EXCEPT !.name = n]
             /\ answered' = [answered EXCEPT !.name = n]
             /\ UNCHANGED <<phase, todo, job, failed, faults, crashes>>
    <2>1. disk' = renamed
      BY <1>2, <1>5 DEF Renamed, Disks
    <2>2. /\ mem'.records = mem.records /\ mem'.contexts = mem.contexts /\ mem'.name = n
          /\ mem' \in [records : Records, name : Names \cup {None}, contexts : SUBSET Targets]
          /\ answered'.records = answered.records /\ answered'.name = n
          /\ answered' \in [records : Records, name : Names \cup {None}]
      BY <1>2, <1>5
    <2>3. Shape' /\ ContextsRefer'
      BY <1>4, <1>5, <2>1, <2>2 DEF IInv, Shape, ContextsRefer, DiskShape
    <2>4. Control'
      BY <1>1, <1>3, <1>5, <2>1, <2>2 DEF Control, Clean, InStep
    <2>5. AnsweredRecordsKept'
      <3>1. Effective(disk') = Effective(disk) /\ disk'.name = n /\ phase' = phase
        BY <1>3, <1>5, <2>1
      <3>2. \A t \in Targets :
              answered.records[t] # None =>
                /\ Effective(disk)[t] = answered.records[t]
                /\ phase = "serving" => mem.records[t] = answered.records[t]
        BY DEF IInv, AnsweredRecordsKept
      <3> QED
        BY <2>2, <3>1, <3>2, Zenon DEF AnsweredRecordsKept
    <2> QED
      BY <2>3, <2>4, <2>5 DEF IInv
  <1>6. CASE /\ answered' = [answered EXCEPT !.name = None]
             /\ disk' \in {disk, renamed}
             /\ \/ UNCHANGED <<mem, phase, todo, job>> /\ failed' = TRUE
                \/ Die
    <2>1. /\ answered'.records = answered.records /\ answered'.name = None
          /\ answered' \in [records : Records, name : Names \cup {None}]
      BY <1>2, <1>6
    <2>2. DiskShape(disk') /\ Effective(disk') = Effective(disk)
      BY <1>3, <1>4, <1>6
    <2>3. CASE UNCHANGED <<mem, phase, todo, job>> /\ failed' = TRUE
      <3>1. Shape' /\ ContextsRefer' /\ Control'
        BY <1>1, <2>1, <2>2, <2>3 DEF IInv, Shape, ContextsRefer, DiskShape, Control
      <3>2. AnsweredRecordsKept'
        BY <2>1, <2>2, <2>3 DEF IInv, AnsweredRecordsKept
      <3> QED
        BY <3>1, <3>2 DEF IInv
    <2>4. CASE Die
      <3>1. /\ mem' = [records |-> [u \in Targets |-> None], name |-> None, contexts |-> {}]
            /\ phase' = "down" /\ todo' = << >> /\ job' = None /\ failed' = failed
        BY <2>4 DEF Die
      <3>2. Shape'
        BY <2>1, <2>2, <3>1 DEF IInv, Shape, DiskShape, Records
      <3>3. ContextsRefer' /\ Control'
        BY <3>1 DEF ContextsRefer, Control
      <3>4. AnsweredRecordsKept'
        BY <2>1, <2>2, <3>1 DEF IInv, AnsweredRecordsKept
      <3> QED
        BY <3>2, <3>3, <3>4 DEF IInv
    <2> QED
      BY <1>6, <2>3, <2>4
  <1> QED
    BY <1>5, <1>6 DEF RenameProject

LEMMA ContextsInv ==
  ASSUME IInv, ClearContexts \/ \E t \in Targets : UseTarget(t)
  PROVE  IInv'
  <1>1. /\ phase = "serving" /\ todo = << >>
        /\ UNCHANGED <<disk, phase, todo, job, answered, failed>>
    BY DEF ClearContexts, UseTarget, Idle
  <1>2. job = None /\ (~failed => Clean /\ InStep)
    BY <1>1, IdleFacts
  <1>3. mem \in [records : Records, name : Names \cup {None}, contexts : SUBSET Targets]
    BY DEF IInv, Shape
  <1>4. /\ mem'.records = mem.records /\ mem'.name = mem.name
        /\ mem' \in [records : Records, name : Names \cup {None}, contexts : SUBSET Targets]
        /\ \A t \in mem'.contexts : mem.records[t] # None
    BY <1>3 DEF ClearContexts, UseTarget, IInv, ContextsRefer
  <1>5. Shape' /\ ContextsRefer'
    BY <1>1, <1>4 DEF IInv, Shape, ContextsRefer
  <1>6. Control'
    BY <1>1, <1>2, <1>4 DEF Control, Clean, InStep
  <1>7. AnsweredRecordsKept'
    BY <1>1, <1>4 DEF IInv, AnsweredRecordsKept
  <1> QED
    BY <1>5, <1>6, <1>7 DEF IInv

LEMMA StartInv == ASSUME IInv, Start PROVE IInv'
  <1>1. /\ phase \in {"down", "refused"} /\ phase' = "opening"
        /\ todo' = <<"preflight", "recover", "load">>
        /\ UNCHANGED <<disk, mem, job, answered, failed>>
    BY DEF Start
  <1>2. job = None
    BY <1>1 DEF IInv, Control, Request
  <1>3. Request("load")' /\ Progress("load")'
    BY <1>1, <1>2, RecoverLists DEF Request, Progress
  <1>4. Control'
    BY <1>3 DEF Control, Kinds
  <1>5. Shape' /\ ContextsRefer' /\ AnsweredRecordsKept'
    BY <1>1 DEF IInv, Shape, ContextsRefer, AnsweredRecordsKept
  <1> QED
    BY <1>4, <1>5 DEF IInv

LEMMA PreflightInv == ASSUME IInv, Preflight PROVE IInv'
  <1>1. Step("preflight", Accepted(disk), disk, {}, {}, << >>)
    BY DEF Preflight
  <1>2. ASSUME todo' = << >> \o Tail(todo), disk' = disk,
               UNCHANGED <<mem, phase, job, failed, answered>>
        PROVE  Control'
    <2>1. PICK kind \in Kinds : At(kind)
      BY <1>1, StepOutcome, Located DEF IInv
    <2>2. kind = "load" /\ Tail(todo) = Then("recover", End("load")) /\ Request("load")
      BY <1>1, <2>1, StepOutcome DEF At
    <2>3. todo' = Then("recover", End("load"))
      <3>1. "load" \in Kinds
        BY DEF Kinds
      <3>2. Then("recover", End("load")) \in Seq(StepNames)
        BY <3>1, CompletionLists
      <3> QED
        BY <1>2, <2>2, <3>2
    <2>4. Request("load")'
      BY <1>2, <2>2, RequestKept
    <2> QED
      BY <2>3, <2>4 DEF Control, Progress, Kinds
  <1>3. \A d \in {disk, disk} \cup {} \cup {} : DiskShape(d) /\ Keeps(d)
    BY Same
  <1> QED
    BY <1>1, <1>2, <1>3, StepKeeps

LEMMA LoadInv == ASSUME IInv, Load PROVE IInv'
  <1>1. todo = <<"load">> /\ todo # << >> /\ Head(todo) = "load" /\ UNCHANGED <<disk, answered>>
    BY DEF Load
  <1>2. PICK kind \in Kinds : At(kind)
    BY <1>1, Located DEF IInv
  <1>3. Clean /\ phase = "opening" /\ job = None
    BY <1>1, <1>2 DEF At, Request
  <1>4. CASE /\ phase' = "serving"
             /\ mem' = [records |-> disk.records, name |-> disk.name, contexts |-> {}]
             /\ failed' = FALSE /\ todo' = << >> /\ UNCHANGED job
    <2>1. mem'.records = disk.records /\ mem'.name = disk.name /\ mem'.contexts = {}
          /\ mem' \in [records : Records, name : Names \cup {None}, contexts : SUBSET Targets]
      BY <1>4 DEF IInv, Shape, Disks
    <2>2. Shape' /\ ContextsRefer'
      BY <1>1, <1>4, <2>1 DEF IInv, Shape, ContextsRefer
    <2>3. Control'
      BY <1>1, <1>3, <1>4, <2>1 DEF Control, Clean, InStep
    <2>4. Effective(disk) = disk.records
      BY <1>3, NoJournal DEF Clean
    <2>5. AnsweredRecordsKept'
      BY <1>1, <1>4, <2>1, <2>4 DEF IInv, AnsweredRecordsKept
    <2> QED
      BY <2>2, <2>3, <2>5 DEF IInv
  <1>5. CASE Fail("refused")
    <2>1. Stopped
      BY <1>1, <1>3, <1>5 DEF Fail, Stopped
    <2> QED
      BY <1>1, <2>1, Same, StoppedInv
  <1> QED
    BY <1>4, <1>5 DEF Load

LEMMA CrashInv == ASSUME IInv, Crash PROVE IInv'
  <1>1. Stopped /\ disk' = disk
    BY DEF Crash, Die, Stopped
  <1> QED
    BY <1>1, Same, StoppedInv

LEMMA StutterInv == ASSUME IInv, UNCHANGED vars PROVE IInv'
  <1>1. UNCHANGED <<disk, mem, phase, todo, job, answered, failed>>
    BY DEF vars
  <1>2. Shape' /\ ContextsRefer' /\ AnsweredRecordsKept'
    BY <1>1 DEF IInv, Shape, ContextsRefer, AnsweredRecordsKept
  <1>3. \A kind \in Kinds : Request(kind) => Request(kind)'
    BY <1>1, RequestKept
  <1>4. \A kind \in Kinds : Completing(kind) => Completing(kind)'
    BY <1>1, CompletingKept
  <1>5. \A kind \in Kinds : Progress(kind) => Progress(kind)'
    BY <1>1, <1>4 DEF Progress, Clean, InStep, Exchanged, Linked
  <1>6. Control'
    BY <1>1, <1>3, <1>5 DEF IInv, Control, Clean, InStep
  <1> QED
    BY <1>2, <1>6 DEF IInv

THEOREM Invariance == Spec => []IInv
  <1>1. IInv /\ [Next]_vars => IInv'
    BY CreateTargetInv, RenameInv, ContextsInv, RecoverInv, CompleteInv, LinkInv, UnlinkInv,
       UnjournalInv, WriteInv, AddInv, StageInv, JournalInv, AnswerInv, StartInv, PreflightInv,
       LoadInv, CrashInv, StutterInv
    DEF Next
  <1> QED
    BY InitInv, <1>1, PTL DEF Spec

-----------------------------------------------------------------------------
(* Theorems.                                                                 *)

\* What create_target and update_project_metadata answered with success is what
\* every later start finds and what the Store serves, through all errors and
\* deaths of replacements, until its recycling begins.
THEOREM AnswersOutliveCrashes == Spec => []AnsweredRecordsKept
  <1>1. IInv => AnsweredRecordsKept
    BY DEF IInv
  <1> QED
    BY <1>1, Invariance, PTL

\* Between two requests the Store is what a restart would find, unless one failed.
THEOREM StoreFollowsDisk == Spec => []MemoryIsDisk
  <1>1. ASSUME IInv PROVE MemoryIsDisk
    <2> SUFFICES ASSUME Idle, ~failed
                 PROVE  /\ mem.records = Effective(disk)
                        /\ mem.name = disk.name
                        /\ disk.journal = None /\ disk.staged = {} /\ ~disk.stray
      BY DEF MemoryIsDisk
    <2>1. Clean /\ InStep
      BY <1>1, IdleFacts DEF Idle
    <2> QED
      BY <2>1, NoJournal DEF Clean, InStep
  <1> QED
    BY <1>1, Invariance, PTL

\* A Target a context refers to is neither recycled nor lost on the way.
THEOREM UsedTargetsStay == Spec => []ContextsKeepTheirTarget
  <1>1. ASSUME IInv PROVE ContextsKeepTheirTarget
    <2> SUFFICES ASSUME NEW t \in mem.contexts, ~failed
                 PROVE  Effective(disk)[t] # None
      BY <1>1 DEF ContextsKeepTheirTarget, IInv, ContextsRefer
    <2>1. t \in Targets /\ mem.records[t] # None /\ phase = "serving"
      BY <1>1 DEF IInv, Shape, ContextsRefer
    <2>2. mem.records \in [Targets -> Values \cup {None}]
      BY <1>1 DEF IInv, Shape, Records
    <2>3. CASE todo = << >>
      BY <1>1, <2>1, <2>3, IdleFacts, NoJournal DEF Clean, InStep
    <2>4. CASE todo # << >>
      <3>1. PICK kind \in Kinds : Request(kind) /\ Progress(kind)
        BY <1>1, <2>4 DEF IInv, Control
      <3>2. kind # "load"
        BY <2>1, <3>1 DEF Request
      <3>3. t # job.new /\ t # job.old /\ job.new \in Targets
        BY <2>1, <3>1, <3>2, JobShape
      <3>4. Exchanged[t] = mem.records[t]
        BY <2>1, <3>3 DEF Exchanged
      <3>5. CASE Completing(kind)
        BY <2>1, <3>2, <3>4, <3>5 DEF Completing
      <3>6. CASE Clean /\ InStep
        BY <2>1, <3>6, NoJournal DEF Clean, InStep
      <3>7. CASE disk.journal = None /\ InStep
        BY <2>1, <3>7, NoJournal DEF InStep
      <3>8. CASE Clean /\ disk.records = Exchanged
        BY <2>1, <3>4, <3>8, NoJournal DEF Clean
      <3> QED
        BY <3>1, <3>2, <3>5, <3>6, <3>7, <3>8 DEF Progress, Kinds
    <2> QED
      BY <2>3, <2>4
  <1> QED
    BY <1>1, Invariance, PTL

-----------------------------------------------------------------------------
(* The shelf.                                                                *)

LEMMA ShelfCardinality == \A S : Shelf!Cardinality(S) = Cardinality(S)
  BY DEF Shelf!Cardinality, Cardinality

LEMMA ShelfBeside == \A k \in Targets : Shelf!Beside(k) = Kept(Effective(disk))
  BY DEF Shelf!Beside, Kept

LEMMA ShelfInit == Init => Shelf!RInit
  <1> SUFFICES ASSUME Init PROVE Shelf!RInit
    OBVIOUS
  <1>1. disk.records = [t \in Targets |-> None] /\ disk.journal = None
    BY DEF Init
  <1>2. Effective(disk) = [t \in Targets |-> None]
    BY <1>1, NoJournal
  <1>3. \A k \in Targets : Shelf!Beside(k) = {}
    BY <1>2, ShelfBeside DEF Kept
  <1>4. Shelf!Cardinality({}) = 0
    BY ShelfCardinality, FS_EmptySet
  <1> QED
    BY <1>2, <1>3, <1>4, TargetRecordsAssumption DEF Shelf!RInit

\* No step of a recovery changes what a start would load.
LEMMA CompletionStays ==
  ASSUME IInv, Recover \/ Complete \/ Link \/ Unlink \/ Unjournal
  PROVE  Effective(disk') = Effective(disk)
  <1>1. CASE Recover
    <2> DEFINE clean == [disk EXCEPT !.staged = {}, !.stray = FALSE]
    <2>1. CASE disk.journal # None
      <3>1. Step("recover", TRUE, disk, {disk}, {disk}, <<"complete">>)
        BY <1>1, <2>1 DEF Recover
      <3>2. disk' \in {disk, disk} \cup {disk} \cup {disk}
        BY <3>1, StepOutcome
      <3> QED
        BY <3>2
    <2>2. CASE disk.journal = None
      <3>1. Step("recover", TRUE, clean, {disk, clean}, {disk, clean}, << >>)
        BY <1>1, <2>2 DEF Recover
      <3>2. clean.journal = None /\ clean.records = disk.records
        BY <2>2 DEF IInv, Shape, Disks
      <3>3. Effective(clean) = Effective(disk)
        BY <2>2, <3>2, NoJournal
      <3>4. disk' \in {disk, clean} \cup {disk, clean} \cup {disk, clean}
        BY <3>1, StepOutcome
      <3> QED
        BY <3>3, <3>4
    <2> QED
      BY <2>1, <2>2
  <1>2. CASE Complete
    <2>1. disk' \in {disk, disk} \cup {disk} \cup {disk}
      BY <1>2, StepOutcome DEF Complete
    <2> QED
      BY <2>1
  <1>3. CASE Link
    <2> DEFINE done == [disk EXCEPT !.records[disk.journal.new] = disk.journal.value, !.staged = {}]
    <2>1. Step("link", TRUE, done, {disk, done}, {disk}, << >>) /\ Effective(done) = Effective(disk)
      BY <1>3, LinkLeaves
    <2>2. disk' \in {disk, done} \cup {disk, done} \cup {disk}
      BY <2>1, StepOutcome
    <2> QED
      BY <2>1, <2>2
  <1>4. CASE Unlink
    <2> DEFINE done == [disk EXCEPT !.records[disk.journal.old] = None]
    <2>1. Step("unlink", TRUE, done, {disk, done}, {disk}, << >>) /\ Effective(done) = Effective(disk)
      BY <1>4, UnlinkLeaves
    <2>2. disk' \in {disk, done} \cup {disk, done} \cup {disk}
      BY <2>1, StepOutcome
    <2> QED
      BY <2>1, <2>2
  <1>5. CASE Unjournal
    <2> DEFINE done == [disk EXCEPT !.journal = None]
    <2>1. Effective(done) = Effective(disk)
      BY <1>5, Unjournaled
    <2>2. disk' \in {disk, done}
      <3>1. CASE Step("unjournal", TRUE, done, {disk, done}, {disk}, << >>)
        <4>1. disk' \in {disk, done} \cup {disk, done} \cup {disk}
          BY <3>1, StepOutcome
        <4> QED
          BY <4>1
      <3> QED
        BY <1>5, <3>1 DEF Unjournal
    <2> QED
      BY <2>1, <2>2
  <1> QED
    BY <1>1, <1>2, <1>3, <1>4, <1>5

LEMMA CreationStays ==
  ASSUME IInv, Write \/ Stage
  PROVE  Effective(disk') = Effective(disk)
  <1>1. todo # << >> /\ Head(todo) \in {"write", "stage"}
    BY DEF Write, Stage
  <1>2. disk.journal = None
    <2>1. PICK kind \in Kinds : At(kind)
      BY <1>1, Located DEF IInv
    <2> QED
      BY <1>1, <2>1 DEF At, Clean
  <1>3. disk'.journal = None /\ disk'.records = disk.records
    <2>1. CASE Write
      <3> DEFINE done == IF disk.records[job.new] # None THEN disk ELSE [disk EXCEPT !.stray = TRUE]
      <3>1. disk' \in {disk, done} \cup {disk, done} \cup {disk, done}
        BY <2>1, StepOutcome DEF Write
      <3>2. done.journal = None /\ done.records = disk.records
        BY <1>2 DEF IInv, Shape, Disks
      <3> QED
        BY <1>2, <3>1, <3>2
    <2>2. CASE Stage
      <3> DEFINE done == [disk EXCEPT !.staged = @ \cup {job.new}]
      <3>1. disk' \in {disk, done} \cup {disk, done} \cup {disk, done}
        BY <2>2, StepOutcome DEF Stage
      <3>2. done.journal = None /\ done.records = disk.records
        BY <1>2 DEF IInv, Shape, Disks
      <3> QED
        BY <1>2, <3>1, <3>2
    <2> QED
      BY <2>1, <2>2
  <1> QED
    BY <1>2, <1>3, NoJournal

\* The creation below the limit adds one record at once.
LEMMA AddPuts == ASSUME IInv, Add PROVE [Shelf!RNext]_(Effective(disk))
  <1> DEFINE there == disk.records[job.new] # None
             done == IF there THEN disk
                     ELSE [disk EXCEPT !.records[job.new] = job.value, !.stray = FALSE]
             swept == [disk EXCEPT !.stray = FALSE]
  <1>1. /\ Step("add", TRUE, done, {disk, done, swept}, {disk}, << >>)
        /\ Request("write") /\ disk.journal = None
        /\ there \/ ~Full(disk.records)
        /\ done.journal = None /\ done.records = [disk.records EXCEPT ![job.new] = job.value]
        /\ swept.journal = None /\ swept.records = disk.records
    BY Adding
  <1>2. /\ Effective(done) = [disk.records EXCEPT ![job.new] = job.value]
        /\ Effective(swept) = disk.records /\ Effective(disk) = disk.records
    BY <1>1, NoJournal
  <1>3. job.new \in Targets /\ job.value \in Values
    BY <1>1, JobShape DEF Kinds
  <1>4. disk' \in {disk, done} \cup {disk, done, swept} \cup {disk}
    BY <1>1, StepOutcome
  <1>5. CASE disk' = done /\ ~there
    <2>1. IsFiniteSet(Kept(disk.records))
      BY FS_Subset, TargetRecordsAssumption DEF Kept
    <2>2. Cardinality(Kept(disk.records)) \in Nat
      BY <2>1, FS_CardinalityType
    <2>3. Cardinality(Kept(disk.records)) < MaxTargets
      BY <1>1, <1>5, <2>2, TargetRecordsAssumption DEF Full
    <2>4. Shelf!Cardinality(Shelf!Beside(job.new)) < MaxTargets
      BY <1>2, <1>3, <2>3, ShelfBeside, ShelfCardinality
    <2>5. Shelf!Put(job.new, job.value)
      BY <1>2, <1>5, <2>4 DEF Shelf!Put
    <2> QED
      BY <1>3, <2>5 DEF Shelf!RNext
  <1>6. CASE disk' = done /\ there
    BY <1>6
  <1>7. CASE disk' \in {disk, swept}
    BY <1>2, <1>7
  <1> QED
    BY <1>4, <1>5, <1>6, <1>7

\* The creation at the limit exchanges two records with the rename of its
\* journal, and without its staging nothing.
LEMMA JournalExchanges == ASSUME IInv, Journal PROVE [Shelf!RNext]_(Effective(disk))
  <1> DEFINE done == [disk EXCEPT !.journal = job]
             bare == [disk EXCEPT !.staged = {}]
             lost == [done EXCEPT !.staged = {}]
  <1>1. /\ Step("journal", TRUE, done, {disk, done, bare, lost}, {disk}, << >>)
        /\ disk.journal = None /\ disk.records[job.old] # None /\ disk.records[job.new] = None
        /\ job.new \in Targets /\ job.old \in Targets /\ job.old # job.new /\ job.value \in Values
        /\ Effective(done) = [disk.records EXCEPT ![job.old] = None, ![job.new] = job.value]
        /\ Effective(bare) = disk.records /\ Effective(lost) = disk.records
    BY Journaling
  <1>2. Effective(disk) = disk.records
    BY <1>1, NoJournal
  <1>3. disk' \in {disk, done} \cup {disk, done, bare, lost} \cup {disk}
    BY <1>1, StepOutcome
  <1>4. CASE disk' = done
    <2>1. Shelf!Exchange(job.old, job.new, job.value)
      BY <1>1, <1>2, <1>4 DEF Shelf!Exchange
    <2> QED
      BY <1>1, <2>1 DEF Shelf!RNext
  <1>5. CASE disk' \in {disk, bare, lost}
    BY <1>1, <1>2, <1>5
  <1> QED
    BY <1>3, <1>4, <1>5

LEMMA RenameStays ==
  ASSUME IInv, NEW expected \in Names, NEW n \in Names, RenameProject(expected, n)
  PROVE  Effective(disk') = Effective(disk)
  <1> DEFINE renamed == [disk EXCEPT !.name = n]
  <1>1. Effective(renamed) = Effective(disk)
    BY NameAside DEF IInv, Shape
  <1>2. [disk EXCEPT !.name = IF Renamed(n) THEN @ ELSE n] = renamed
    BY DEF IInv, Shape, Disks, Renamed
  <1>3. disk' \in {disk, renamed}
    BY <1>2 DEF RenameProject
  <1> QED
    BY <1>1, <1>3

LEMMA ShelfStep == IInv /\ [Next]_vars => [Shelf!RNext]_(Effective(disk))
  <1> SUFFICES ASSUME IInv, [Next]_vars PROVE [Shelf!RNext]_(Effective(disk))
    OBVIOUS
  <1>1. ASSUME disk' = disk PROVE Effective(disk') = Effective(disk)
    BY <1>1
  <1>2. CASE \/ \E t \in Targets : UseTarget(t) \/ \E v \in Values : CreateTarget(t, v)
             \/ ClearContexts \/ Answer \/ Start \/ Load \/ Crash \/ UNCHANGED vars
    <2>1. disk' = disk \/ Load
      BY <1>2 DEF UseTarget, CreateTarget, ClearContexts, Answer, Start, Crash, vars
    <2>2. disk' = disk
      BY <2>1 DEF Load
    <2> QED
      BY <1>1, <2>2
  <1>3. CASE Preflight
    <2>1. disk' \in {disk, disk} \cup {} \cup {}
      BY <1>3, StepOutcome DEF Preflight
    <2> QED
      BY <1>1, <2>1
  <1>4. CASE Recover \/ Complete \/ Link \/ Unlink \/ Unjournal
    BY <1>4, CompletionStays
  <1>5. CASE Write \/ Stage
    BY <1>5, CreationStays
  <1>6. CASE Add
    BY <1>6, AddPuts
  <1>7. CASE Journal
    BY <1>7, JournalExchanges
  <1>8. CASE \E e, n \in Names : RenameProject(e, n)
    BY <1>8, RenameStays
  <1> QED
    BY <1>2, <1>3, <1>4, <1>5, <1>6, <1>7, <1>8 DEF Next

\* A replacement behind its journal implements one exchange, and every creation,
\* error, death and recovery implements at most one step of the shelf.
THEOREM RecordsImplementShelf == Spec => ImplementsShelf
  <1>1. Init => Shelf!RInit
    BY ShelfInit
  <1>2. IInv /\ [Next]_vars => [Shelf!RNext]_(Effective(disk))
    BY ShelfStep
  <1> QED
    BY <1>1, <1>2, Invariance, PTL DEF Spec, ImplementsShelf, Shelf!RSpec

-----------------------------------------------------------------------------
(* What a start refuses.                                                     *)

\* The staging of the journal was removed after the rename that made it last.
StagingLost(d) ==
  /\ d.journal # None /\ d.staged = {}
  /\ d.records[d.journal.new] = None /\ d.records[d.journal.old] # None

\* The records fit, those a completion leaves exactly.
Fits(d) ==
  IF d.journal = None THEN Cardinality(Kept(d.records)) <= MaxTargets
  ELSE StagingLost(d) \/ (Completable(d) /\ Cardinality(Kept(Effective(d))) = MaxTargets)

\* A journal is about to be written only where the records are at the limit.
AtLimit ==
  todo # << >> /\ Head(todo) = "journal" => Cardinality(Kept(disk.records)) = MaxTargets

\* Past the preflight, a start does not see the lost staging.
Preflighted ==
  phase = "opening" /\ todo # << >> /\ Head(todo) # "preflight" => ~StagingLost(disk)

Refusals == Fits(disk) /\ AtLimit /\ Preflighted /\ RefusalNeedsLostStaging

RInv == IInv /\ Refusals

LEMMA KeptCounts ==
  \A r : IsFiniteSet(Kept(r)) /\ Cardinality(Kept(r)) \in Nat
  BY FS_Subset, FS_CardinalityType, TargetRecordsAssumption DEF Kept

\* One record more is one more at most.
LEMMA AddCounts ==
  ASSUME NEW r \in [Targets -> Values \cup {None}], NEW t \in Targets, NEW v,
         Cardinality(Kept(r)) < MaxTargets
  PROVE  Cardinality(Kept([r EXCEPT ![t] = v])) <= MaxTargets
  <1>1. Kept([r EXCEPT ![t] = v]) \subseteq Kept(r) \cup {t}
    BY DEF Kept
  <1>2. IsFiniteSet(Kept(r) \cup {t}) /\ Cardinality(Kept(r) \cup {t}) <= Cardinality(Kept(r)) + 1
    BY KeptCounts, FS_AddElement
  <1>3. Cardinality(Kept([r EXCEPT ![t] = v])) <= Cardinality(Kept(r) \cup {t})
    BY <1>1, <1>2, FS_Subset
  <1>4. Cardinality(Kept(r) \cup {t}) \in Nat
    BY <1>2, FS_CardinalityType
  <1> QED
    BY <1>2, <1>3, <1>4, KeptCounts, TargetRecordsAssumption

\* An exchange leaves as many records.
LEMMA ExchangeCounts ==
  ASSUME NEW r \in [Targets -> Values \cup {None}], NEW old \in Targets, NEW new \in Targets,
         NEW v \in Values, r[old] # None, r[new] = None
  PROVE  Cardinality(Kept([r EXCEPT ![old] = None, ![new] = v])) = Cardinality(Kept(r))
  <1>1. old # new /\ v # None
    BY TargetRecordsAssumption
  <1>2. Kept([r EXCEPT ![old] = None, ![new] = v]) = (Kept(r) \ {old}) \cup {new}
    BY <1>1 DEF Kept
  <1>3. old \in Kept(r) /\ new \notin Kept(r) \ {old}
    BY DEF Kept
  <1>4. /\ IsFiniteSet(Kept(r) \ {old})
        /\ Cardinality(Kept(r) \ {old}) = Cardinality(Kept(r)) - 1
    BY <1>3, KeptCounts, FS_RemoveElement
  <1>5. Cardinality((Kept(r) \ {old}) \cup {new}) = Cardinality(Kept(r) \ {old}) + 1
    BY <1>3, <1>4, FS_AddElement
  <1>6. Cardinality(Kept(r)) \in Nat
    BY KeptCounts
  <1>7. Cardinality((Kept(r) \ {old}) \cup {new}) = Cardinality(Kept(r))
    BY <1>4, <1>5, <1>6
  <1> QED
    BY <1>2, <1>7, Zenon

\* The preflight refuses nothing but the lost staging.
LEMMA FitsIsAccepted ==
  ASSUME IInv, Fits(disk), ~StagingLost(disk)
  PROVE  Accepted(disk)
  <1>1. CASE disk.journal = None
    BY <1>1 DEF Fits, Accepted
  <1>2. CASE disk.journal # None
    <2> DEFINE left == Effective(disk)
    <2>1. Completable(disk) /\ Cardinality(Kept(left)) = MaxTargets
      BY <1>2 DEF Fits
    <2>2. /\ disk.journal.old \in Targets /\ disk.journal.new \in Targets
          /\ disk.journal.value \in Values /\ disk.journal.value # None
          /\ disk.records \in [Targets -> Values \cup {None}]
      BY <1>2, JournalTargets, TargetRecordsAssumption
    <2>3. Kept(disk.records) \subseteq Kept(left) \cup {disk.journal.old}
      BY <1>2, <2>1, <2>2 DEF Kept, Effective
    <2>4. /\ IsFiniteSet(Kept(left) \cup {disk.journal.old})
          /\ Cardinality(Kept(left) \cup {disk.journal.old}) <= Cardinality(Kept(left)) + 1
      BY KeptCounts, FS_AddElement
    <2>5. Cardinality(Kept(disk.records)) <= Cardinality(Kept(left) \cup {disk.journal.old})
      BY <2>3, <2>4, FS_Subset
    <2>6. Cardinality(Kept(left) \cup {disk.journal.old}) \in Nat
      BY <2>4, FS_CardinalityType
    <2>7. Cardinality(Kept(disk.records)) <= MaxTargets + 1
      BY <2>1, <2>4, <2>5, <2>6, KeptCounts, TargetRecordsAssumption
    <2> QED
      BY <1>2, <2>1, <2>7 DEF Accepted
  <1> QED
    BY <1>1, <1>2

\* Only the journal is written from a staging, and only by a request.
LEMMA AtJournal ==
  IInv /\ todo # << >> /\ Head(todo) = "journal" =>
    disk.journal = None /\ disk.staged # {} /\ phase = "serving"
  <1> SUFFICES ASSUME IInv, todo # << >>, Head(todo) = "journal"
               PROVE  disk.journal = None /\ disk.staged # {} /\ phase = "serving"
    OBVIOUS
  <1>1. PICK kind \in Kinds : At(kind)
    BY Located DEF IInv
  <1> QED
    BY <1>1, JobShape DEF At

LEMMA Running ==
  ASSUME IInv, todo # << >>
  PROVE  phase \in {"opening", "serving"}
  <1>1. PICK kind \in Kinds : At(kind)
    BY Located DEF IInv
  <1> QED
    BY <1>1 DEF At, Request

\* A step of which every outcome fits and no refusal is without lost staging.
LEMMA StepRefuses ==
  ASSUME RInv, NEW name, NEW ok, NEW done, NEW error, NEW death, NEW then,
         Step(name, ok, done, error, death, then),
         ok \/ phase = "serving" \/ StagingLost(disk),
         \A d \in {disk, done} \cup error \cup death : ok \/ d = disk => Fits(d),
         ok /\ disk' = done /\ todo' = then \o Tail(todo) /\ phase' = phase =>
           AtLimit' /\ Preflighted'
  PROVE  Refusals'
  <1>1. phase \in {"opening", "serving"}
    BY Running DEF RInv, Step
  <1>2. Fits(disk')
    BY DEF Step
  <1>3. CASE ok /\ disk' = done /\ todo' = then \o Tail(todo) /\ phase' = phase
    BY <1>1, <1>2, <1>3 DEF Refusals, RefusalNeedsLostStaging
  <1>4. CASE todo' = << >> /\ phase' \in {"down", "serving"}
    BY <1>2, <1>4 DEF Refusals, AtLimit, Preflighted, RefusalNeedsLostStaging
  <1>5. CASE ~ok /\ Fail("refused") /\ UNCHANGED disk
    <2>1. todo' = << >> /\ (phase' = phase \/ phase = "opening")
      BY <1>5 DEF Fail
    <2>2. RefusalNeedsLostStaging'
      BY <1>1, <1>5, <2>1 DEF RefusalNeedsLostStaging, StagingLost
    <2> QED
      BY <1>2, <2>1, <2>2 DEF Refusals, AtLimit, Preflighted
  <1>6. CASE Fail("down")
    <2>1. todo' = << >> /\ phase' \in {"down", "serving"}
      BY <1>1, <1>6 DEF Fail
    <2> QED
      BY <1>4, <2>1
  <1>7. CASE Die
    BY <1>4, <1>7 DEF Die
  <1> QED
    BY <1>3, <1>5, <1>6, <1>7 DEF Step

LEMMA RecoverRefuses == ASSUME RInv, IInv', Recover PROVE Refusals'
  <1> DEFINE clean == [disk EXCEPT !.staged = {}, !.stray = FALSE]
  <1>1. todo # << >> /\ Head(todo) = "recover" /\ Fits(disk)
    BY DEF Recover, Step, RInv, Refusals
  <1>2. PICK kind \in Kinds : At(kind)
    BY <1>1, Located DEF RInv, IInv
  <1>3. kind # "answer" /\ Tail(todo) = End(kind)
    BY <1>1, <1>2 DEF At
  <1>4. CASE disk.journal # None
    <2>1. Step("recover", TRUE, disk, {disk}, {disk}, <<"complete">>)
      BY <1>4 DEF Recover
    <2>2. ASSUME disk' = disk, todo' = <<"complete">> \o Tail(todo), phase' = phase
          PROVE  AtLimit' /\ Preflighted'
      <3>1. Head(todo') = "complete"
        BY <1>3, <2>2, CompletionLists DEF Then
      <3>2. phase = "opening" => ~StagingLost(disk')
        BY <1>1, <2>2 DEF RInv, Refusals, Preflighted
      <3> QED
        BY <2>2, <3>1, <3>2 DEF AtLimit, Preflighted
    <2>3. \A d \in {disk, disk} \cup {disk} \cup {disk} : Fits(d)
      BY <1>1
    <2> QED
      BY <2>1, <2>2, <2>3, StepRefuses
  <1>5. CASE disk.journal = None
    <2>1. Step("recover", TRUE, clean, {disk, clean}, {disk, clean}, << >>)
      BY <1>5 DEF Recover
    <2>2. clean.journal = None /\ clean.records = disk.records /\ clean.staged = {}
      BY <1>5 DEF RInv, IInv, Shape, Disks
    <2>3. Fits(clean) /\ ~StagingLost(clean)
      BY <1>1, <1>5, <2>2 DEF Fits, StagingLost
    <2>4. ASSUME disk' = clean PROVE AtLimit' /\ Preflighted'
      <3>1. disk'.staged = {}
        BY <2>2, <2>4
      <3>2. (IInv /\ todo # << >> /\ Head(todo) = "journal" =>
               disk.journal = None /\ disk.staged # {} /\ phase = "serving")'
        BY AtJournal, PTL
      <3> QED
        BY <2>3, <2>4, <3>1, <3>2 DEF AtLimit, Preflighted
    <2> QED
      BY <1>1, <2>1, <2>3, <2>4, StepRefuses
  <1> QED
    BY <1>4, <1>5

LEMMA CompleteRefuses == ASSUME RInv, IInv', Complete PROVE Refusals'
  <1>1. /\ Step("complete", Completable(disk), disk, {disk}, {disk}, Completion(disk))
        /\ disk.journal # None /\ todo # << >> /\ Head(todo) = "complete" /\ Fits(disk)
    BY DEF Complete, RInv, Refusals
  <1>2. Completable(disk) \/ phase = "serving" \/ StagingLost(disk)
    BY <1>1 DEF Fits
  <1>3. ASSUME disk' = disk, phase' = phase PROVE AtLimit' /\ Preflighted'
    <2>1. phase = "opening" => ~StagingLost(disk')
      BY <1>1, <1>3 DEF RInv, Refusals, Preflighted
    <2>2. (IInv /\ todo # << >> /\ Head(todo) = "journal" =>
             disk.journal = None /\ disk.staged # {} /\ phase = "serving")'
      BY AtJournal, PTL
    <2> QED
      BY <1>1, <1>3, <2>1, <2>2 DEF AtLimit, Preflighted
  <1>4. \A d \in {disk, disk} \cup {disk} \cup {disk} : Fits(d)
    BY <1>1
  <1> QED
    BY <1>1, <1>2, <1>3, <1>4, StepRefuses

LEMMA LinkRefuses == ASSUME RInv, IInv', Link \/ Unlink PROVE Refusals'
  <1>1. Fits(disk) /\ todo # << >> /\ Head(todo) \in {"link", "unlink"}
    BY DEF Link, Unlink, RInv, Refusals
  <1>2. PICK kind \in Kinds : At(kind)
    BY <1>1, Located DEF RInv, IInv
  <1>3. disk.journal # None /\ Completable(disk)
    BY <1>1, <1>2 DEF At, Linked
  <1>4. Cardinality(Kept(Effective(disk))) = MaxTargets
    BY <1>1, <1>3 DEF Fits, StagingLost, Completable
  <1>5. ASSUME NEW done, NEW name, Step(name, TRUE, done, {disk, done}, {disk}, << >>),
               done.journal = disk.journal, Completable(done), done.records[done.journal.new] # None,
               Effective(done) = Effective(disk)
        PROVE  Refusals'
    <2>1. Fits(done) /\ ~StagingLost(done)
      BY <1>3, <1>4, <1>5 DEF Fits, StagingLost
    <2>2. ASSUME disk' = done PROVE AtLimit' /\ Preflighted'
      <3>1. (IInv /\ todo # << >> /\ Head(todo) = "journal" =>
               disk.journal = None /\ disk.staged # {} /\ phase = "serving")'
        BY AtJournal, PTL
      <3> QED
        BY <1>3, <1>5, <2>1, <2>2, <3>1 DEF AtLimit, Preflighted
    <2>3. \A d \in {disk, done} \cup {disk, done} \cup {disk} : Fits(d)
      BY <1>1, <2>1
    <2> QED
      BY <1>5, <2>2, <2>3, StepRefuses
  <1>6. CASE Link
    BY <1>5, <1>6, LinkLeaves DEF RInv
  <1>7. CASE Unlink
    BY <1>5, <1>7, UnlinkLeaves DEF RInv
  <1> QED
    BY <1>6, <1>7

\* The count after a completion is what the preflight found.
LEMMA UnjournalRefuses == ASSUME RInv, IInv', Unjournal PROVE Refusals'
  <1> DEFINE done == [disk EXCEPT !.journal = None]
  <1>1. /\ Head(todo) = "unjournal" /\ todo # << >> /\ disk.journal # None /\ Linked
        /\ done.journal = None /\ done.staged = {} /\ done.records = disk.records
        /\ Effective(disk) = disk.records
    BY Unjournaled DEF RInv
  <1>2. Cardinality(Kept(disk.records)) = MaxTargets
    BY <1>1 DEF RInv, Refusals, Fits, StagingLost, Linked
  <1>3. Step("unjournal", TRUE, done, {disk, done}, {disk}, << >>)
    BY <1>2 DEF Unjournal
  <1>4. Fits(disk) /\ Fits(done) /\ ~StagingLost(done)
    BY <1>1, <1>2, TargetRecordsAssumption DEF RInv, Refusals, Fits, StagingLost
  <1>5. ASSUME disk' = done PROVE AtLimit' /\ Preflighted'
    <2>1. (IInv /\ todo # << >> /\ Head(todo) = "journal" =>
             disk.journal = None /\ disk.staged # {} /\ phase = "serving")'
      BY AtJournal, PTL
    <2> QED
      BY <1>1, <1>4, <1>5, <2>1 DEF AtLimit, Preflighted
  <1>6. \A d \in {disk, done} \cup {disk, done} \cup {disk} : Fits(d)
    BY <1>4
  <1> QED
    BY <1>3, <1>5, <1>6, StepRefuses

LEMMA WriteRefuses == ASSUME RInv, IInv', Write PROVE Refusals'
  <1> DEFINE there == disk.records[job.new] # None
             done == IF there THEN disk ELSE [disk EXCEPT !.stray = TRUE]
             ok == IF there THEN disk.records[job.new] = job.value ELSE ~Full(disk.records)
  <1>1. /\ Step("write", ok, done, {disk, done}, {disk, done}, << >>)
        /\ todo # << >> /\ Head(todo) = "write" /\ Fits(disk)
    BY DEF Write, RInv, Refusals
  <1>2. PICK kind \in Kinds : At(kind)
    BY <1>1, Located DEF RInv, IInv
  <1>3. Clean /\ phase = "serving"
    BY <1>1, <1>2, JobShape DEF At
  <1>4. done.journal = None /\ done.staged = {} /\ done.records = disk.records
    BY <1>3 DEF Clean, RInv, IInv, Shape, Disks
  <1>5. Fits(done)
    BY <1>1, <1>3, <1>4 DEF Fits, Clean
  <1>6. ASSUME disk' = done, phase' = phase PROVE AtLimit' /\ Preflighted'
    <2>1. (IInv /\ todo # << >> /\ Head(todo) = "journal" =>
             disk.journal = None /\ disk.staged # {} /\ phase = "serving")'
      BY AtJournal, PTL
    <2>2. disk'.staged = {}
      BY <1>4, <1>6
    <2> QED
      BY <1>3, <1>6, <2>1, <2>2 DEF AtLimit, Preflighted
  <1>7. \A d \in {disk, done} \cup {disk, done} \cup {disk, done} : Fits(d)
    BY <1>1, <1>5
  <1> QED
    BY <1>1, <1>3, <1>6, <1>7, StepRefuses

LEMMA AddRefuses == ASSUME RInv, IInv', Add PROVE Refusals'
  <1> DEFINE there == disk.records[job.new] # None
             done == IF there THEN disk
                     ELSE [disk EXCEPT !.records[job.new] = job.value, !.stray = FALSE]
             swept == [disk EXCEPT !.stray = FALSE]
  <1>1. /\ Step("add", TRUE, done, {disk, done, swept}, {disk}, << >>)
        /\ Request("write") /\ disk.journal = None
        /\ there \/ ~Full(disk.records)
        /\ done.journal = None /\ done.staged = {}
        /\ done.records = [disk.records EXCEPT ![job.new] = job.value]
        /\ swept.journal = None /\ swept.records = disk.records
    BY Adding DEF RInv
  <1>2. job.new \in Targets /\ phase = "serving"
    BY <1>1, JobShape DEF Kinds
  <1>3. Fits(disk) /\ Fits(swept)
    BY <1>1 DEF RInv, Refusals, Fits
  <1>4. Fits(done)
    <2>1. CASE there
      BY <1>3, <2>1
    <2>2. CASE ~there
      <3>1. disk.records \in [Targets -> Values \cup {None}]
        BY DEF RInv, IInv, Shape, Disks, Records
      <3>2. Cardinality(Kept(disk.records)) < MaxTargets
        BY <1>1, <2>2, KeptCounts, TargetRecordsAssumption DEF Full
      <3>3. Cardinality(Kept([disk.records EXCEPT ![job.new] = job.value])) <= MaxTargets
        BY <1>2, <3>1, <3>2, AddCounts
      <3> QED
        BY <1>1, <3>3 DEF Fits
    <2> QED
      BY <2>1, <2>2
  <1>5. ASSUME disk' = done, phase' = phase PROVE AtLimit' /\ Preflighted'
    <2>1. (IInv /\ todo # << >> /\ Head(todo) = "journal" =>
             disk.journal = None /\ disk.staged # {} /\ phase = "serving")'
      BY AtJournal, PTL
    <2>2. disk'.staged = {}
      BY <1>1, <1>5
    <2> QED
      BY <1>2, <1>5, <2>1, <2>2 DEF AtLimit, Preflighted
  <1>6. \A d \in {disk, done} \cup {disk, done, swept} \cup {disk} : Fits(d)
    BY <1>3, <1>4
  <1> QED
    BY <1>1, <1>5, <1>6, StepRefuses

LEMMA StageRefuses == ASSUME RInv, IInv', Stage PROVE Refusals'
  <1> DEFINE done == [disk EXCEPT !.staged = @ \cup {job.new}]
             ok == /\ Cardinality(Kept(disk.records)) = MaxTargets
                   /\ disk.records[job.old] # None /\ disk.records[job.new] = None
                   /\ disk.records[job.old] = job.expected
  <1>1. /\ Step("stage", ok, done, {disk, done}, {disk, done}, << >>)
        /\ todo # << >> /\ Head(todo) = "stage" /\ Fits(disk)
    BY DEF Stage, RInv, Refusals
  <1>2. PICK kind \in Kinds : At(kind)
    BY <1>1, Located DEF RInv, IInv
  <1>3. Clean /\ phase = "serving"
    BY <1>1, <1>2, JobShape DEF At
  <1>4. done.journal = None /\ done.records = disk.records
    BY <1>3 DEF Clean, RInv, IInv, Shape, Disks
  <1>5. Fits(done)
    BY <1>1, <1>3, <1>4 DEF Fits, Clean
  <1>6. ASSUME ok, disk' = done, phase' = phase PROVE AtLimit' /\ Preflighted'
    <2>1. Cardinality(Kept(disk'.records)) = MaxTargets
      BY <1>4, <1>6
    <2> QED
      BY <1>3, <1>6, <2>1 DEF AtLimit, Preflighted, Kept
  <1>7. \A d \in {disk, done} \cup {disk, done} \cup {disk, done} : Fits(d)
    BY <1>1, <1>5
  <1> QED
    BY <1>1, <1>3, <1>6, <1>7, StepRefuses

\* The only step that leaves a disk a start refuses, and a request takes it.
LEMMA JournalRefuses == ASSUME RInv, IInv', Journal PROVE Refusals'
  <1> DEFINE done == [disk EXCEPT !.journal = job]
             bare == [disk EXCEPT !.staged = {}]
             lost == [done EXCEPT !.staged = {}]
  <1>1. /\ Step("journal", TRUE, done, {disk, done, bare, lost}, {disk}, << >>)
        /\ Request("recycle")
        /\ disk.journal = None /\ disk.records[job.old] # None /\ disk.records[job.new] = None
        /\ job.new \in Targets /\ job.old \in Targets /\ job.old # job.new /\ job.value \in Values
        /\ done.journal = job /\ Completable(done)
        /\ Effective(done) = [disk.records EXCEPT ![job.old] = None, ![job.new] = job.value]
    BY Journaling DEF RInv
  <1>2. /\ disk.records \in [Targets -> Values \cup {None}] /\ job # None /\ phase = "serving"
        /\ disk \in Disks
    BY <1>1, JobShape DEF Kinds, Request, RInv, IInv, Shape, Disks, Records
  <1>3. Cardinality(Kept(disk.records)) = MaxTargets
    BY <1>1 DEF RInv, Refusals, AtLimit, Step
  <1>4. Fits(done)
    <2>1. Cardinality(Kept(Effective(done))) = Cardinality(Kept(disk.records))
      BY <1>1, <1>2, ExchangeCounts
    <2> QED
      BY <1>1, <1>2, <1>3, <2>1 DEF Fits
  <1>5. Fits(disk) /\ Fits(bare)
    <2>1. bare.journal = None /\ bare.records = disk.records
      BY <1>1, <1>2 DEF Disks
    <2> QED
      BY <1>1, <2>1 DEF Fits, RInv, Refusals
  <1>6. Fits(lost)
    <2>1. lost.journal = job /\ lost.records = disk.records /\ lost.staged = {}
      BY <1>1, <1>2 DEF Disks
    <2> QED
      BY <1>1, <1>2, <2>1 DEF Fits, StagingLost
  <1>7. ASSUME disk' = done, phase' = phase PROVE AtLimit' /\ Preflighted'
    <2>1. (IInv /\ todo # << >> /\ Head(todo) = "journal" =>
             disk.journal = None /\ disk.staged # {} /\ phase = "serving")'
      BY AtJournal, PTL
    <2> QED
      BY <1>1, <1>2, <1>7, <2>1 DEF AtLimit, Preflighted
  <1>8. \A d \in {disk, done} \cup {disk, done, bare, lost} \cup {disk} : Fits(d)
    BY <1>4, <1>5, <1>6
  <1> QED
    BY <1>1, <1>7, <1>8, StepRefuses

\* A step of the Store, and a death, leave the disk's records as they are.
LEMMA StoreRefuses ==
  ASSUME RInv, Fits(disk'), phase' \in {"down", "serving"},
         todo' # << >> => Head(todo') # "journal"
  PROVE  Refusals'
  BY DEF Refusals, AtLimit, Preflighted, RefusalNeedsLostStaging

LEMMA RequestRefuses ==
  ASSUME RInv, \/ Answer \/ ClearContexts \/ Crash
               \/ \E t \in Targets : UseTarget(t) \/ \E v \in Values : CreateTarget(t, v)
  PROVE  Refusals'
  <1>1. Fits(disk') /\ disk' = disk
    BY DEF RInv, Refusals, Answer, ClearContexts, Crash, UseTarget, CreateTarget
  <1>2. todo' = << >> \/ Head(todo') = "recover"
    BY DEF Answer, ClearContexts, Crash, Die, UseTarget, CreateTarget, Idle
  <1>3. phase' \in {"down", "serving"}
    <2>1. CASE Answer
      <3>1. todo # << >> /\ Head(todo) = "answer"
        BY <2>1 DEF Answer
      <3>2. PICK kind \in Kinds : At(kind)
        BY <3>1, Located DEF RInv, IInv
      <3>3. phase = "serving"
        BY <3>1, <3>2, JobShape DEF At
      <3> QED
        BY <2>1, <3>3 DEF Answer
    <2> QED
      BY <2>1 DEF ClearContexts, Crash, Die, UseTarget, CreateTarget, Idle
  <1> QED
    BY <1>1, <1>2, <1>3, StoreRefuses

LEMMA RenameRefuses ==
  ASSUME RInv, NEW expected \in Names, NEW n \in Names, RenameProject(expected, n)
  PROVE  Refusals'
  <1> DEFINE renamed == [disk EXCEPT !.name = n]
  <1>1. disk \in Disks /\ Fits(disk)
    BY DEF RInv, IInv, Shape, Refusals
  <1>2. /\ Effective(renamed) = Effective(disk)
        /\ renamed.journal = disk.journal /\ renamed.records = disk.records
        /\ renamed.staged = disk.staged /\ renamed.stray = disk.stray
    BY <1>1, NameAside
  <1>3. Fits(renamed)
    BY <1>1, <1>2 DEF Fits, StagingLost, Completable
  <1>4. [disk EXCEPT !.name = IF Renamed(n) THEN @ ELSE n] = renamed
    BY <1>1 DEF Disks, Renamed
  <1>5. disk' \in {disk, renamed} /\ todo' = << >> /\ phase' \in {"down", "serving"}
    BY <1>4 DEF RenameProject, Idle, Die
  <1> QED
    BY <1>1, <1>3, <1>5, StoreRefuses

LEMMA StartRefuses ==
  ASSUME RInv, Start \/ Preflight \/ Load
  PROVE  Refusals'
  <1>1. Fits(disk) /\ IInv
    BY DEF RInv, Refusals
  <1>2. CASE Start
    <2>1. /\ disk' = disk /\ phase' = "opening"
          /\ todo' # << >> /\ Head(todo') = "preflight"
      BY <1>2 DEF Start
    <2> QED
      BY <1>1, <2>1 DEF Refusals, AtLimit, Preflighted, RefusalNeedsLostStaging
  <1>3. CASE Preflight
    <2>1. Step("preflight", Accepted(disk), disk, {}, {}, << >>)
      BY <1>3 DEF Preflight
    <2>2. todo # << >> /\ Head(todo) = "preflight"
      BY <2>1 DEF Step
    <2>3. PICK kind \in Kinds : At(kind)
      BY <1>1, <2>2, Located DEF IInv
    <2>4. kind = "load" /\ Tail(todo) = Then("recover", End("load"))
      BY <2>2, <2>3 DEF At
    <2>5. Accepted(disk) \/ phase = "serving" \/ StagingLost(disk)
      BY <1>1, FitsIsAccepted
    <2>6. ASSUME Accepted(disk), disk' = disk, todo' = << >> \o Tail(todo)
          PROVE  AtLimit' /\ Preflighted'
      <3>1. Head(todo') = "recover"
        <4>1. Then("recover", End(kind)) \in Seq(StepNames) /\ Head(Then("recover", End(kind))) = "recover"
          BY CompletionLists
        <4>2. << >> \o Then("recover", End(kind)) = Then("recover", End(kind))
          BY <4>1
        <4> QED
          BY <2>4, <2>6, <4>1, <4>2
      <3>2. ~StagingLost(disk')
        BY <2>6 DEF Accepted, StagingLost, Completable
      <3> QED
        BY <3>1, <3>2 DEF AtLimit, Preflighted
    <2>7. \A d \in {disk, disk} \cup {} \cup {} : Fits(d)
      BY <1>1
    <2> QED
      BY <2>1, <2>5, <2>6, <2>7, StepRefuses
  <1>4. CASE Load
    <2>1. todo = <<"load">> /\ todo # << >> /\ Head(todo) = "load" /\ disk' = disk
      BY <1>4 DEF Load
    <2>2. PICK kind \in Kinds : At(kind)
      BY <1>1, <2>1, Located DEF IInv
    <2>3. Cardinality(Kept(disk.records)) <= MaxTargets
      BY <1>1, <2>1, <2>2 DEF At, Clean, Fits
    <2>4. phase' = "serving" /\ todo' = << >>
      BY <1>4, <2>3 DEF Load
    <2> QED
      BY <1>1, <2>1, <2>4, StoreRefuses
  <1> QED
    BY <1>2, <1>3, <1>4

LEMMA RefusalsStep == IInv' /\ RInv /\ [Next]_vars => Refusals'
  <1> SUFFICES ASSUME IInv', RInv, [Next]_vars PROVE Refusals'
    OBVIOUS
  <1>1. CASE UNCHANGED vars
    BY <1>1 DEF vars, RInv, Refusals, AtLimit, Preflighted, RefusalNeedsLostStaging
  <1>2. CASE Next
    BY <1>2, RecoverRefuses, CompleteRefuses, LinkRefuses, UnjournalRefuses, WriteRefuses,
       AddRefuses, StageRefuses, JournalRefuses, RequestRefuses, RenameRefuses, StartRefuses
    DEF Next
  <1> QED
    BY <1>1, <1>2

LEMMA RefusalsInit == Init => Refusals
  <1> SUFFICES ASSUME Init PROVE Refusals
    OBVIOUS
  <1>1. /\ disk.journal = None /\ disk.records = [t \in Targets |-> None]
        /\ todo = << >> /\ phase = "serving"
    BY DEF Init
  <1>2. Kept(disk.records) = {}
    BY <1>1 DEF Kept
  <1>3. Cardinality(Kept(disk.records)) <= MaxTargets
    BY <1>2, FS_EmptySet, TargetRecordsAssumption
  <1> QED
    BY <1>1, <1>3 DEF Refusals, Fits, AtLimit, Preflighted, RefusalNeedsLostStaging

\* preflight_target_inventory, the completion and the load refuse a project only
\* where replace_target removed the staging of a journal whose rename was done:
\* no other error, death or interrupted recovery makes its records unreadable.
THEOREM RefusalsAreExplained == Spec => []RefusalNeedsLostStaging
  <1>1. Init => Refusals
    BY RefusalsInit
  <1>2. IInv' /\ IInv /\ Refusals /\ [Next]_vars => Refusals'
    BY RefusalsStep DEF RInv
  <1>3. Refusals => RefusalNeedsLostStaging
    BY DEF Refusals
  <1> QED
    BY <1>1, <1>2, <1>3, Invariance, PTL DEF Spec
=============================================================================
