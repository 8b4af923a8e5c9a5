---------------------------- MODULE NameAutosave ----------------------------
(***************************************************************************)
(* The autosave of a project's display name: the editor of the studio page *)
(* (apps/web/src/App.tsx, ProjectDisplayNameEditor) and the PATCH handler  *)
(* it calls (local-server lib.rs and storage.rs).  The page debounces what *)
(* is typed, numbers every draft, and chains its saves so that one request *)
(* is out at a time; the server compares and sets, first in its Store,     *)
(* then in project.json.  Requests and answers get lost, writes fail after *)
(* their rename, the page is reloaded while a request is out, and the      *)
(* server restarts.                                                        *)
(*                                                                         *)
(* The continuation of the save chain runs in the same turn of the event   *)
(* loop as the timer or the answer that released it, so releasing a save   *)
(* and sending it are one step.  The editor's projectGeneration never      *)
(* changes while it is mounted (the page opens one project until it is     *)
(* reloaded) and is left out.                                              *)
(*                                                                         *)
(* EditorSpec and its parts have names of their own, so that a module may  *)
(* extend this one and StudioPage.                                         *)
(***************************************************************************)
EXTENDS Naturals, Sequences, FiniteSetsExt

CONSTANTS
    Names,          \* the display names the contract accepts
    FirstName,      \* the name the project was created with
    BadName,        \* any draft the contract refuses
    MaxSequence,    \* bound: drafts numbered by one mounted editor
    MaxSaveFaults,  \* bound: failed writes and lost requests or answers
    MaxReloads      \* bound: reloads of the page and restarts of the server

ASSUME NameAutosaveAssumption ==
    /\ FirstName \in Names
    /\ BadName \notin Names
    /\ MaxSequence \in Nat \ {0}
    /\ MaxSaveFaults \in Nat
    /\ MaxReloads \in Nat

VARIABLES
    draft,          \* what the field shows (draft, draftRef)
    confirmed,      \* confirmedName
    sequence,       \* requestSequence
    saveState,      \* the status beside the field
    timer,          \* the sequence number the debounce timer holds, 0 for none
    chain,          \* saves released by the debounce and not yet sent
    request,        \* the save that is out: at most one, as a sequence
    strays,         \* requests no page waits for and the server still may run
    memory,         \* display_name in the server's Store
    disk,           \* display_name in project.json
    \* what happened, for the properties
    lastQueued,     \* the last name the debounce released
    draftSequence,  \* the number of the present draft, 0 for one taken as saved
    failed,         \* a save of this page failed, or it opened on a stale Store
    overtaken,      \* a stray changed the name under this page
    \* bounds
    saveFaults, reloads

editor == <<draft, confirmed, sequence, saveState, timer, chain>>
server == <<memory, disk>>
history == <<lastQueued, draftSequence, failed, overtaken>>
bounds == <<saveFaults, reloads>>
editorVars == <<editor, request, strays, server, history, bounds>>

Patch == [expected : Names, name : Names]

\* Nothing left to do unless the creator types, reloads or something fails.
Quiet == timer = 0 /\ chain = <<>> /\ request = <<>>

(***************************************************************************)
(* The editor.                                                             *)
(***************************************************************************)
\* A freshly mounted editor for a project whose name reads n.
Mount(n) ==
    /\ draft' = n
    /\ confirmed' = n
    /\ sequence' = 1
    /\ saveState' = "saved"
    /\ timer' = 0
    /\ chain' = <<>>
    /\ request' = <<>>
    /\ lastQueued' = n
    /\ draftSequence' = 0

EditorInit ==
    /\ draft = FirstName
    /\ confirmed = FirstName
    /\ sequence = 1
    /\ saveState = "saved"
    /\ timer = 0
    /\ chain = <<>>
    /\ request = <<>>
    /\ strays = {}
    /\ memory = FirstName
    /\ disk = FirstName
    /\ lastQueued = FirstName
    /\ draftSequence = 0
    /\ failed = FALSE
    /\ overtaken = FALSE
    /\ saveFaults = 0
    /\ reloads = 0

\* The draft is what the page believes is stored: nothing is numbered.
TypeConfirmedName ==
    /\ draft # confirmed
    /\ draft' = confirmed
    /\ saveState' = "saved"
    /\ timer' = 0
    /\ draftSequence' = 0
    /\ UNCHANGED <<confirmed, sequence, chain, request, strays, server,
                   lastQueued, failed, overtaken, bounds>>

NumberDraft(d) ==
    /\ d \notin {draft, confirmed}
    /\ sequence < MaxSequence
    /\ draft' = d
    /\ sequence' = sequence + 1
    /\ draftSequence' = sequence + 1
    /\ UNCHANGED <<confirmed, chain, request, strays, server,
                   lastQueued, failed, overtaken, bounds>>

TypeBadName ==
    /\ NumberDraft(BadName)
    /\ saveState' = "error"
    /\ timer' = 0

TypeName(n) ==
    /\ NumberDraft(n)
    /\ saveState' = "waiting"
    /\ timer' = sequence + 1

\* What is left of the saves in c once those that ask for the confirmed name
\* have returned at once.
FromFirstChange(c, name) ==
    LET changes == {i \in DOMAIN c : c[i].name # name}
    IN  IF changes = {} THEN <<>> ELSE SubSeq(c, Min(changes), Len(c))

\* Mutant: a save whose draft has been superseded is given up.
SendNext_DropsSuperseded(c, name, status) ==
    LET left == SelectSeq(FromFirstChange(c, name),
                          LAMBDA save : save.sequence = sequence)
    IN  IF left = <<>>
        THEN chain' = <<>> /\ request' = <<>> /\ saveState' = status
        ELSE /\ chain' = Tail(left)
             /\ request' = <<[expected |-> name, name |-> Head(left).name,
                              sequence |-> Head(left).sequence,
                              answer |-> "none"]>>
             /\ saveState' = "saving"

\* Sends the next save of c against the confirmed name, the status being
\* `status` before.
SendNext(c, name, status) ==
    LET left == FromFirstChange(c, name)
    IN  IF left = <<>>
        THEN /\ chain' = <<>>
             /\ request' = <<>>
             /\ saveState' = status
        ELSE /\ chain' = Tail(left)
             /\ request' = <<[expected |-> name, name |-> Head(left).name,
                              sequence |-> Head(left).sequence,
                              answer |-> "none"]>>
             /\ saveState' = IF Head(left).sequence = sequence
                             THEN "saving" ELSE status

\* The timer of the present draft fires (a change of the draft clears it, which
\* is why the numbers the callback compares agree): the save joins the chain,
\* and leaves at once if none is out.
DebounceEnds ==
    /\ timer # 0
    /\ timer' = 0
    /\ lastQueued' = draft
    /\ LET queued == Append(chain, [name |-> draft, sequence |-> timer])
       IN  IF request = <<>>
           THEN SendNext(queued, confirmed, saveState)
           ELSE chain' = queued /\ UNCHANGED <<request, saveState>>
    /\ UNCHANGED <<draft, confirmed, sequence, strays, server,
                   draftSequence, failed, overtaken, bounds>>

\* The answer names the name that was asked for.
ReceiveSaved ==
    /\ request # <<>>
    /\ Head(request).answer = "saved"
    /\ LET r == Head(request)
       IN  /\ confirmed' = r.name
           /\ SendNext(chain, r.name,
                       IF r.sequence = sequence /\ draft = r.name
                       THEN "saved" ELSE saveState)
    /\ UNCHANGED <<draft, sequence, timer, strays, server, history, bounds>>

\* Mutant: the error is not caught inside the chain, which stays rejected.
SaveThrows_BreaksChain ==
    /\ request' = <<>>
    /\ saveState' = "error"
    /\ failed' = TRUE
    /\ UNCHANGED <<draft, confirmed, sequence, timer, chain, server,
                   lastQueued, draftSequence, overtaken, reloads>>

\* The save throws in the page, whatever the server made of it.
SaveThrows ==
    /\ SendNext(chain, confirmed,
                IF Head(request).sequence = sequence THEN "error" ELSE saveState)
    /\ failed' = TRUE
    /\ UNCHANGED <<draft, confirmed, sequence, timer, server,
                   lastQueued, draftSequence, overtaken, reloads>>

ReceiveError ==
    /\ request # <<>>
    /\ Head(request).answer = "error"
    /\ SaveThrows
    /\ UNCHANGED <<strays, saveFaults>>

\* The request out, as one the server may still run after the page let go.
Abandoned ==
    {[expected |-> request[i].expected, name |-> request[i].name] :
        i \in {j \in DOMAIN request : request[j].answer = "none"}}

\* The connection breaks: before the server runs the request, or after.
LoseConnection ==
    /\ request # <<>>
    /\ saveFaults < MaxSaveFaults
    /\ saveFaults' = saveFaults + 1
    /\ strays' \in {strays, strays \cup Abandoned}
    /\ SaveThrows

(***************************************************************************)
(* The server.  A request is refused when neither name it carries is the   *)
(* stored one; a name already in project.json is acknowledged again.       *)
(***************************************************************************)
StoreRefuses(r) == memory \notin {r.expected, r.name}

\* Mutant: only the Store is compared.
FileRefuses_Never(r) == FALSE

FileRefuses(r) == disk \notin {r.expected, r.name}

PatchSucceeds(r) ==
    /\ ~StoreRefuses(r)
    /\ ~FileRefuses(r)
    /\ disk' = r.name
    /\ memory' = r.name
    /\ UNCHANGED saveFaults

PatchRefused(r) ==
    /\ StoreRefuses(r) \/ FileRefuses(r)
    /\ UNCHANGED <<server, saveFaults>>

\* The revision does not verify, or the replacement of project.json fails: it
\* may have happened all the same, when reading it back fails too.
PatchFails(r) ==
    /\ ~StoreRefuses(r)
    /\ saveFaults < MaxSaveFaults
    /\ saveFaults' = saveFaults + 1
    /\ disk' \in IF FileRefuses(r) THEN {disk} ELSE {disk, r.name}
    /\ UNCHANGED memory

AnswerWith(a) == request' = <<[Head(request) EXCEPT !.answer = a]>>

UpdateProjectMetadata ==
    /\ request # <<>>
    /\ LET r == Head(request)
       IN  /\ r.answer = "none"
           /\ \/ PatchSucceeds(r) /\ AnswerWith("saved")
              \/ (PatchRefused(r) \/ PatchFails(r)) /\ AnswerWith("error")
    /\ UNCHANGED <<editor, strays, history, reloads>>

UpdateForStray(r) ==
    /\ strays' = strays \ {r}
    /\ PatchSucceeds(r) \/ PatchRefused(r) \/ PatchFails(r)
    /\ overtaken' = (overtaken \/ server' # server)
    /\ UNCHANGED <<editor, request, lastQueued, draftSequence, failed, reloads>>

(***************************************************************************)
(* The page is opened again, on the same server or on a restarted one,     *)
(* which reads its Store from the files and has no request left.           *)
(***************************************************************************)
Reload ==
    /\ reloads < MaxReloads
    /\ reloads' = reloads + 1
    /\ strays' = strays \cup Abandoned
    /\ Mount(memory)
    /\ failed' = (memory # disk)
    /\ overtaken' = FALSE
    /\ UNCHANGED <<server, saveFaults>>

Restart ==
    /\ reloads < MaxReloads
    /\ reloads' = reloads + 1
    /\ strays' = {}
    /\ memory' = disk
    /\ Mount(disk)
    /\ failed' = FALSE
    /\ overtaken' = FALSE
    /\ UNCHANGED <<disk, saveFaults>>

EditorNext ==
    \/ TypeConfirmedName
    \/ TypeBadName
    \/ \E n \in Names : TypeName(n)
    \/ DebounceEnds
    \/ ReceiveSaved
    \/ ReceiveError
    \/ LoseConnection
    \/ UpdateProjectMetadata
    \/ \E r \in strays : UpdateForStray(r)
    \/ Reload
    \/ Restart

\* The timer fires, the handler runs to its end and an answer is delivered.
\* Nothing makes the creator type or reload, or anything fail.
EditorFairness ==
    /\ WF_editorVars(DebounceEnds)
    /\ WF_editorVars(UpdateProjectMetadata)
    /\ WF_editorVars(ReceiveSaved)
    /\ WF_editorVars(ReceiveError)

EditorSpec == EditorInit /\ [][EditorNext]_editorVars /\ EditorFairness

(***************************************************************************)
(* Properties.                                                             *)
(***************************************************************************)
\* Ordering: however edits, debounces and answers interleave, when the page
\* comes to rest without a failure the project has the last name the debounce
\* released, never an earlier one whose save was slower, and the page agrees.
LastQueuedIsStored ==
    Quiet /\ ~failed /\ ~overtaken =>
        disk = lastQueued /\ memory = disk /\ confirmed = disk

\* "Saved" beside a draft that got a number of its own is true at every moment,
\* whatever was lost or failed: the draft is in project.json.  (A draft taken
\* as saved when it was typed, and a page overtaken by a request it does not
\* wait for, are not covered.)
OwnSavedIsStored ==
    saveState = "saved" /\ draftSequence # 0 /\ ~overtaken => disk = draft

\* What the editor tells the creator about the name holds.
StoredAsShown == LastQueuedIsStored /\ OwnSavedIsStored

\* A page whose idea of the name is stale (an answer was lost, a stray ran)
\* never replaces the name it does not know of: its own save changes
\* project.json only from the name it had confirmed.
NoBlindOverwrite ==
    [][ /\ disk' # disk
        /\ request # <<>> /\ strays' = strays
        => disk = confirmed /\ disk' = Head(request).name ]_editorVars

\* The autosave comes to an end: every draft's timer, every chained save and
\* every request out is followed by a page at rest, unless the creator keeps
\* typing.
AutosaveSettles == ~Quiet ~> Quiet
=============================================================================
