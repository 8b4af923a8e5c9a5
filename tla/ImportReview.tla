---------------------------- MODULE ImportReview ----------------------------
(***************************************************************************)
(* The import of a directory as a new project: a session asks for a         *)
(* preview, its creator reviews it, and confirms it by its digest.  The     *)
(* directory belongs to the creator, who may change it at any time, also    *)
(* while it is read.  Reading it holds no lock, so requests of several      *)
(* sessions interleave between their sections under the Store mutex;        *)
(* sessions and previews expire by the clock and are lost at a restart.     *)
(***************************************************************************)
EXTENDS Naturals, Sequences, FiniteSets

CONSTANTS
  Sessions, Previews,   \* identifiers, random and fresh
  Requests,             \* the requests under way at one time
  Files, Index,         \* paths of the directory; Index is index.html
  Versions, None,       \* bytes of a file; no file
  MaxSessions,          \* limit on sessions
  MaxPreviews,          \* limit on import previews
  MaxProjects,          \* limit on projects
  SessionTtl, PreviewTtl,
  MaxTime,              \* bound on the clock
  MaxEdits,             \* bound on the changes of the directory
  MaxFaults,            \* bound on the number of failing project creations
  MaxCrashes            \* bound on the number of restarts

ASSUME ImportReviewAssumption ==
  /\ Index \in Files /\ None \notin Versions
  /\ {MaxSessions, MaxPreviews, MaxProjects, SessionTtl, PreviewTtl,
      MaxTime, MaxEdits, MaxFaults, MaxCrashes} \subseteq Nat

VARIABLES
  now,       \* the clock, in units of the shorter lifetime
  source,    \* the import directory
  sessions,  \* expiry of each session of the Store, or None
  previews,  \* the import previews of the Store, or None for each identifier
  requests,  \* what each request under way has in hand, or None
  imported,  \* the projects created from previews, on disk, in order
  loaded,    \* those of them that are in the Store
  shown,     \* history: the previews ever answered
  known,     \* history: the session identifiers given out
  edits, faults, crashes

vars == <<now, source, sessions, previews, requests, imported, loaded, shown, known, edits,
          faults, crashes>>

Contents == [Files -> Versions \cup {None}]
PreviewRecords == [session : Sessions, digest : Contents, expires : Nat]

Live(s) == sessions[s] # None

-----------------------------------------------------------------------------
Init ==
  /\ now = 0
  /\ source \in {c \in Contents : c[Index] # None}
  /\ sessions = [s \in Sessions |-> None]
  /\ previews = [p \in Previews |-> None]
  /\ requests = [r \in Requests |-> None]
  /\ imported = << >>
  /\ loaded = {}
  /\ shown = [p \in Previews |-> None]
  /\ known = {}
  /\ edits = 0
  /\ faults = 0
  /\ crashes = 0

-----------------------------------------------------------------------------
(* The creator, the clock and the process *)

Edit(f) ==
  /\ \E v \in Versions \cup {None} : v # source[f] /\ source' = [source EXCEPT ![f] = v]
  /\ edits < MaxEdits /\ edits' = edits + 1
  /\ UNCHANGED <<now, sessions, previews, requests, imported, loaded, shown, known,
                 faults, crashes>>

Tick ==
  /\ now < MaxTime
  /\ now' = now + 1
  /\ UNCHANGED <<source, sessions, previews, requests, imported, loaded, shown, known, edits,
                 faults, crashes>>

\* Sessions, previews and requests live in memory; every project on disk is
\* loaded.
Restart ==
  /\ crashes < MaxCrashes /\ crashes' = crashes + 1
  /\ sessions' = [s \in Sessions |-> None]
  /\ previews' = [p \in Previews |-> None]
  /\ requests' = [r \in Requests |-> None]
  /\ loaded' = DOMAIN imported
  /\ UNCHANGED <<now, source, imported, shown, known, edits, faults>>

-----------------------------------------------------------------------------
(* bootstrap, authenticate *)

\* sweep_expired_sessions, then the limit.
Bootstrap(s) ==
  /\ s \notin known
  /\ known' = known \cup {s}
  /\ LET swept == [q \in Sessions |-> IF sessions[q] # None /\ sessions[q] < now
                                      THEN None ELSE sessions[q]]
     IN  IF Cardinality({q \in Sessions : swept[q] # None}) < MaxSessions
         THEN sessions' = [swept EXCEPT ![s] = now + SessionTtl]
         ELSE sessions' = swept
  /\ UNCHANGED <<now, source, previews, requests, imported, loaded, shown, edits, faults, crashes>>

\* A request of s enters with what it has in hand; an expired session is
\* removed and the request refused.
Enter(r, s, hand) ==
  /\ requests[r] = None /\ Live(s)
  /\ IF sessions[s] < now
     THEN sessions' = [sessions EXCEPT ![s] = None] /\ UNCHANGED requests
     ELSE requests' = [requests EXCEPT ![r] = hand] /\ UNCHANGED sessions
  /\ UNCHANGED <<now, source, previews, imported, loaded, shown, known, edits, faults, crashes>>

Nothing == [f \in Files |-> None]

\* The request ends with an error.
Refuse(r) == requests' = [requests EXCEPT ![r] = None]

-----------------------------------------------------------------------------
(* scan_import, without a lock *)

\* One file after the other is read; between two the directory may change.
ScanFile(r, f) ==
  /\ requests[r] # None /\ requests[r].at = "scan" /\ f \in requests[r].left
  /\ requests' = [requests EXCEPT ![r].left = @ \ {f}, ![r].files[f] = source[f]]
  /\ UNCHANGED <<now, source, sessions, previews, imported, loaded, shown, known, edits,
                 faults, crashes>>

\* A file that is replaced while it is read, or anything else the walk does not
\* admit, ends the request (UnsafeImport, ImportLimit).
ScanRefused(r) ==
  /\ requests[r] # None /\ requests[r].at = "scan"
  /\ Refuse(r)
  /\ UNCHANGED <<now, source, sessions, previews, imported, loaded, shown, known, edits,
                 faults, crashes>>

Scanned(r) == requests[r] # None /\ requests[r].at = "scan" /\ requests[r].left = {}

-----------------------------------------------------------------------------
(* create_import_preview *)

BeginPreview(r, s) ==
  Enter(r, s, [kind |-> "preview", at |-> "scan", session |-> s, preview |-> None,
               digest |-> Nothing, files |-> Nothing, left |-> Files])

\* The expired previews go, then the limit; the answer shows what was read.
FinishPreview(r, p) ==
  /\ Scanned(r) /\ requests[r].kind = "preview" /\ shown[p] = None
  /\ LET kept == [q \in Previews |-> IF previews[q] # None /\ previews[q].expires < now
                                     THEN None ELSE previews[q]]
         record == [session |-> requests[r].session, digest |-> requests[r].files,
                    expires |-> now + PreviewTtl]
     IN  IF Cardinality({q \in Previews : kept[q] # None}) < MaxPreviews
         THEN previews' = [kept EXCEPT ![p] = record] /\ shown' = [shown EXCEPT ![p] = record]
         ELSE previews' = kept /\ UNCHANGED shown
  /\ Refuse(r)
  /\ UNCHANGED <<now, source, sessions, imported, loaded, known, edits, faults, crashes>>

-----------------------------------------------------------------------------
(* confirm_import_preview *)

\* The digest is the one the creator's browser was shown with some preview.
BeginConfirm(r, s, p, q) ==
  /\ shown[p] # None /\ shown[q] # None
  /\ Enter(r, s, [kind |-> "confirm", at |-> "check", session |-> s, preview |-> p,
                  digest |-> shown[q].digest, files |-> Nothing, left |-> Files])

\* The preview is there and of this session.
Bound(r) ==
  LET p == previews[requests[r].preview]
  IN  p # None /\ p.session = requests[r].session

Expired(r) == previews[requests[r].preview].expires < now

\* One section under the mutex: the request goes on at the given stage if what
\* follows the section is in order too; a preview found expired is removed.
Section(r, stage, ok) ==
  /\ IF Bound(r) /\ Expired(r) THEN previews' = [previews EXCEPT ![requests[r].preview] = None]
     ELSE UNCHANGED previews
  /\ IF Bound(r) /\ ~Expired(r) /\ ok THEN requests' = [requests EXCEPT ![r].at = stage]
     ELSE Refuse(r)

\* The digest of the request must be that of the preview.
CheckPreview(r) ==
  /\ requests[r] # None /\ requests[r].at = "check"
  /\ Section(r, "scan", requests[r].digest = shown[requests[r].preview].digest)
  /\ UNCHANGED <<now, source, sessions, imported, loaded, shown, known, edits, faults, crashes>>

\* Mutant: what was read is not compared.
RecheckPreview_Uncompared(r) ==
  /\ Scanned(r) /\ requests[r].kind = "confirm"
  /\ Section(r, "create", TRUE)
  /\ UNCHANGED <<now, source, sessions, imported, loaded, shown, known, edits, faults, crashes>>

\* After the scan: what was read must be what the preview shows, with an entry
\* point.
RecheckPreview(r) ==
  /\ Scanned(r) /\ requests[r].kind = "confirm"
  /\ Section(r, "create",
             requests[r].files = requests[r].digest /\ requests[r].files[Index] # None)
  /\ UNCHANGED <<now, source, sessions, imported, loaded, shown, known, edits, faults, crashes>>

Project(r, ok) ==
  [preview |-> requests[r].preview, session |-> requests[r].session,
   files |-> requests[r].files, at |-> now, answered |-> ok]

\* Mutant: the preview is not looked at again with the mutex held.
ImportProject_Unchecked(r) ==
  /\ requests[r] # None /\ requests[r].at = "create"
  /\ Cardinality(loaded) < MaxProjects
  /\ imported' = Append(imported, Project(r, TRUE))
  /\ loaded' = loaded \cup {Len(imported) + 1}
  /\ previews' = [previews EXCEPT ![requests[r].preview] = None]
  /\ Refuse(r)
  /\ UNCHANGED <<now, source, sessions, shown, known, edits, faults, crashes>>

\* The last section holds the mutex through the creation: the limit, the
\* preview once more, then the project, the end of the preview and the answer.
ImportProject(r) ==
  /\ requests[r] # None /\ requests[r].at = "create"
  /\ IF Cardinality(loaded) < MaxProjects /\ Bound(r) /\ ~Expired(r)
     THEN /\ imported' = Append(imported, Project(r, TRUE))
          /\ loaded' = loaded \cup {Len(imported) + 1}
          /\ previews' = [previews EXCEPT ![requests[r].preview] = None]
     ELSE /\ previews' = IF Cardinality(loaded) < MaxProjects /\ Bound(r)
                         THEN [previews EXCEPT ![requests[r].preview] = None] ELSE previews
          /\ UNCHANGED <<imported, loaded>>
  /\ Refuse(r)
  /\ UNCHANGED <<now, source, sessions, shown, known, edits, faults, crashes>>

\* The creation fails: the preview stays, and the project may be on disk all
\* the same, where the next start finds it.
ImportFails(r) ==
  /\ requests[r] # None /\ requests[r].at = "create"
  /\ Cardinality(loaded) < MaxProjects /\ Bound(r) /\ ~Expired(r)
  /\ faults < MaxFaults /\ faults' = faults + 1
  /\ imported' \in {imported, Append(imported, Project(r, FALSE))}
  /\ Refuse(r)
  /\ UNCHANGED <<now, source, sessions, previews, loaded, shown, known, edits, crashes>>

RequestSteps(r) ==
  \/ \E s \in Sessions :
       BeginPreview(r, s) \/ \E p, q \in Previews : BeginConfirm(r, s, p, q)
  \/ \E f \in Files : ScanFile(r, f)
  \/ ScanRefused(r)
  \/ \E p \in Previews : FinishPreview(r, p)
  \/ CheckPreview(r) \/ RecheckPreview(r) \/ ImportProject(r) \/ ImportFails(r)

Next ==
  \/ \E f \in Files : Edit(f)
  \/ Tick \/ Restart
  \/ \E s \in Sessions : Bootstrap(s)
  \/ \E r \in Requests : RequestSteps(r)

Spec == Init /\ [][Next]_vars

-----------------------------------------------------------------------------
(* Properties. *)

Hands ==
  [kind : {"preview", "confirm"}, at : {"check", "scan", "create"}, session : Sessions,
   preview : Previews \cup {None}, digest : Contents, files : Contents, left : SUBSET Files]

Projects ==
  [preview : Previews, session : Sessions, files : Contents, at : Nat, answered : BOOLEAN]

\* Memory, disk and clock keep their shape.
TypeOK ==
  /\ now \in Nat
  /\ source \in Contents
  /\ previews \in [Previews -> PreviewRecords \cup {None}]
  /\ shown \in [Previews -> PreviewRecords \cup {None}]
  /\ requests \in [Requests -> Hands \cup {None}]
  /\ imported \in Seq(Projects)

\* However requests interleave, one review makes at most one project that was
\* answered; what an earlier failed creation left on disk comes before it.
ConfirmedOnce ==
  \A i, k \in DOMAIN imported :
    i < k /\ imported[i].preview = imported[k].preview => ~imported[i].answered

\* A project has exactly the files its creator was shown in the review it came
\* from, as confirmed by the session that asked for the review and before the
\* review expired, whatever was changed in the directory in between.
ImportedIsReviewed ==
  \A i \in DOMAIN imported :
    LET review == shown[imported[i].preview]
    IN  /\ review # None
        /\ imported[i].files = review.digest /\ imported[i].files[Index] # None
        /\ imported[i].session = review.session
        /\ imported[i].at <= review.expires

=============================================================================
