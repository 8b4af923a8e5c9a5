--------------------------- MODULE SiteReferences ---------------------------
(***************************************************************************)
(* The references between the files of a site, as two parts of the program  *)
(* read them: the application of a ChangeSet (change_set.rs), which refuses *)
(* a site whose local references dangle, and the static export              *)
(* (static_export.rs), which refuses it too and classifies what is left.    *)
(* A path is a sequence of segments.  A reference has a scheme, may be      *)
(* rooted, has the segments before its query or fragment (the first of them *)
(* with an unknown scheme in front), and says what its text holds that an   *)
(* address should not.  What a file holds is given by tables over contents, *)
(* and so is what the bounded scan of it reports.                           *)
(***************************************************************************)
EXTENDS Sequences, SequencesExt

CONSTANTS
  Contents,  \* what a file may hold
  None,      \* no file
  Refs,      \* Refs[c]: the references the scan of c finds
  Scripts,   \* Scripts[c]: those of them that are the source of a script
  Inline,    \* Inline[c]: its inline scripts and event handlers
  Hidden,    \* Hidden[c]: its references in syntax the scan cannot classify
  Ambiguous, \* the contents with such syntax
  Runtime,   \* Runtime[c]: the references no scan looks for in c: those its
             \* scripts make, and all of them in a file of an unread type
  Dynamic,   \* the contents with a script, an event handler or a refresh
  Unread     \* the contents of files whose type is not scanned (JSON, text)

ASSUME SiteReferencesAssumption ==
  /\ None \notin Contents
  /\ \A c \in Contents :
       /\ Scripts[c] \subseteq Refs[c]
       /\ Hidden[c] # {} => c \in Ambiguous
       /\ Runtime[c] # {} => c \in Dynamic \cup Unread

IndexHtml == <<"index.html">>

\* scan_references: what the bounded scanner finds, whether the file can make
\* references while it runs, and whether it has syntax that is not classified.
\* A script is dynamic and never incomplete; a file of an unread type is neither.
Scan(c) == [references |-> Refs[c], dynamic |-> c \in Dynamic, incomplete |-> c \in Ambiguous]

-----------------------------------------------------------------------------
(* Paths. *)

\* A walk over segments from a directory; it fails above the root.
Walk(from, segments) ==
  FoldLeft(LAMBDA at, s :
             CASE s \in {"", "."} -> at
               [] s = ".." -> IF at.path = << >> THEN [at EXCEPT !.ok = FALSE]
                              ELSE [at EXCEPT !.path = Front(@)]
               [] OTHER -> [at EXCEPT !.path = Append(@, s)],
           [ok |-> TRUE, path |-> from], segments)

Refused == [kind |-> "refused"]
Ignored == [kind |-> "ignored"]
Local(path) == [kind |-> "local", path |-> path]

\* A segment no path may have: a Windows name, a colon, a space at its end.
Unsafe(path) == \E i \in DOMAIN path : path[i] \in {"con", "foo:x", "trailing "}

\* And one that validate_path of a ChangeSet refuses besides.
Reserved(path) == \E i \in DOMAIN path : path[i] = ".git"

Directory(source) == Front(source)

Walked(source, ref) ==
  LET end == Walk(IF ref.rooted THEN << >> ELSE Directory(source), ref.segments)
  IN  IF ref.text = "badly encoded" \/ ~end.ok \/ Unsafe(end.path) THEN Refused
      ELSE Local(IF end.path = << >> THEN IndexHtml ELSE end.path)

-----------------------------------------------------------------------------
(* The two resolutions of a reference. *)

\* No more than one of these suffixes.
Bare(ref, suffixes) ==
  ref.scheme = "none" /\ ~ref.rooted /\ ref.segments = << >> /\ ref.suffix \in suffixes

\* Schemes that a ChangeSet does not look into (data stands for mailto and tel,
\* http for an address without a scheme too).
Away == {"http", "malformed http", "data", "blob"}

\* resolve_local_reference of a ChangeSet.  A control character counts in what
\* is left of the path only, an unknown scheme is a segment like others, and a
\* query alone is walked from the directory.
ResolveLocal(source, ref) ==
  IF ref.scheme \in Away \/ Bare(ref, {"", "fragment"}) THEN Ignored
  ELSE IF ref.scheme = "javascript" \/ ref.text = "backslash" THEN Refused
  ELSE LET to == Walked(source, ref)
       IN  IF to.kind = "local" /\ Reserved(to.path) THEN Refused ELSE to

\* resolve_reference of an export.  The text is looked at before the scheme, and
\* a query alone is the file itself.
ResolveReference(source, ref) ==
  IF Bare(ref, {"", "fragment"}) THEN Ignored
  ELSE IF \/ ref.text \in {"control", "backslash"}
          \/ ref.scheme \in {"javascript", "unknown", "malformed http"} THEN Refused
  ELSE CASE ref.scheme = "data" -> Ignored
         [] ref.scheme = "blob" -> [kind |-> "runtime"]
         [] ref.scheme = "http" -> [kind |-> "external"]
         [] OTHER -> IF Bare(ref, {"query"}) THEN Local(source) ELSE Walked(source, ref)

-----------------------------------------------------------------------------
(* Sites: functions from paths to a content or None. *)

Present(files) == {p \in DOMAIN files : files[p] # None}

\* A local reference is met by a file or by the index of a directory.
Meets(files, target) ==
  target \in Present(files) \/ target \o IndexHtml \in Present(files)

\* validate_local_references, but for the sources it reports as incomplete.
LocalReferencesHold(files) ==
  \A p \in Present(files) : \A ref \in Scan(files[p]).references :
    LET to == ResolveLocal(p, ref)
    IN  to.kind # "refused" /\ (to.kind = "local" => Meets(files, to.path))

IncompleteSources(files) == {p \in Present(files) : Scan(files[p]).incomplete}

\* The references of the export's analysis, each with its source.
Resolutions(files) ==
  UNION {{[from |-> p, to |-> ResolveReference(p, ref)] : ref \in Scan(files[p]).references} :
           p \in Present(files)}

\* dynamic_reference_sources of the export's receipt.
DynamicSources(files) ==
  {p \in Present(files) : Scan(files[p]).dynamic \/ Scan(files[p]).incomplete}
  \cup {r.from : r \in {x \in Resolutions(files) : x.to.kind = "runtime"}}

\* Mutant: syntax that could not be classified does not count.
Profile_Optimistic(files) ==
  IF \E r \in Resolutions(files) : r.to.kind = "external"
  THEN "standalone" ELSE "offline"

\* analyze_references: the export is refused, or it claims to work offline, or it
\* does not.  A dynamic source does not keep it from the claim.
Profile(files) ==
  IF \E r \in Resolutions(files) :
       r.to.kind = "refused" \/ (r.to.kind = "local" /\ ~Meets(files, r.to.path))
  THEN "refused"
  ELSE IF IncompleteSources(files) # {} \/ \E r \in Resolutions(files) : r.to.kind = "external"
  THEN "standalone" ELSE "offline"

-----------------------------------------------------------------------------
(* What a browser does with a site, for the properties. *)

\* References by the file they are in.
In(files, table) == UNION {{<<p, ref>> : ref \in table[files[p]]} : p \in Present(files)}
All(files) == In(files, Refs) \cup In(files, Hidden) \cup In(files, Runtime)

\* Those that lead to no file of the site, and those that lead out of it.
Dangling(files) ==
  {x \in All(files) : LET to == ResolveReference(x[1], x[2])
                      IN  to.kind = "local" /\ ~Meets(files, to.path)}
Leaving(files) == {x \in All(files) : ResolveReference(x[1], x[2]).kind = "external"}

\* What page p runs: its own scripts and handlers, and the files it loads.
Executed(files, p) ==
  IF files[p] = None THEN {}
  ELSE Inline[files[p]] \cup
       {files[q] : q \in {x \in Present(files) :
          \E ref \in Scripts[files[p]] : ResolveReference(p, ref) = Local(x)}}
=============================================================================
