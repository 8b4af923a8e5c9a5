--------------------------- MODULE StateRootProofs ---------------------------
(***************************************************************************)
(* Theorems about StateRoot: no deletion, cleanup or migration takes an     *)
(* object from an existing project; the steps of the operations, with their *)
(* errors, deaths and restarts, implement ProjectCatalog; a migration is    *)
(* readable at every boundary, and an answer outlives what comes later.     *)
(***************************************************************************)
EXTENDS StateRoot, TLAPS, FiniteSetTheorems

-----------------------------------------------------------------------------
(* The inductive invariant, in parts: first the disk, whatever operation is   *)
(* under way.                                                                 *)

\* The objects a project needs to be there.
Needs(d, j) == Manifests(d, j) \cup Workspaces(d, j, {"kept"})

\* A project that does not exist has no Proposal.
Fresh(d) ==
  \A j \in Projects : d.tree[j] \in {"absent", "creating"} /\ j \notin d.aside =>
    \A p \in Of(j) : p \notin d.revised /\ d.workspace[p] # "kept"

Retained(d) == \A j \in Exists(d) : Needs(d, j) \subseteq d.objects

\* One migration is open at a time.
OneMigration(d) ==
  /\ d.journal # {} => \E k \in Projects : d.journal = {k}
  /\ \A j \in d.aside : d.journal = {j} /\ d.tree[j] \in {"absent", "active"}

SoundDisk(d) == d \in Disks /\ Fresh(d) /\ Retained(d) /\ OneMigration(d)

-----------------------------------------------------------------------------
(* Then the queue q of the steps an operation has left, with the disk d. *)

\* The steps of a request, and those of a start; the others belong to both.
Serves == {"stage", "fill", "publish", "unstage", "created", "stageWorkspace", "fillWorkspace",
           "publishWorkspace", "hideWorkspace", "fillRevision", "manifest", "hide", "deleted"}
Opens == {"preflight", "migrations", "resume", "orphans", "deletions", "hidden", "projects",
          "load", "migrate", "serve", "copyBackup", "publishBackup", "copyTree", "setAside",
          "swap", "removeAside", "endJournal"}

Phased(d, q, ph) ==
  /\ ph \in {"down", "refused"} => q = << >>
  /\ ph = "serving" => d.journal = {}
  /\ \A i \in DOMAIN q :
       /\ q[i][1] \in Serves => ph = "serving"
       /\ q[i][1] \in Opens => ph = "opening"

\* Step x waits behind step b only as the operations have it.
Prepares == {"stage", "fill", "sweep", "stageWorkspace", "fillWorkspace", "fillRevision",
             "hideWorkspace", "collect", "removeAside", "setAside", "preflight"}
MayFollow(x, b) ==
  /\ x[1] = "fill" => b = <<"stage", x[2]>>
  /\ x[1] = "publish" => b = <<"fill", x[2]>>
  /\ x[1] = "stageWorkspace" => b = <<"sweep", ProjectOf[x[2]]>>
  /\ x[1] = "fillWorkspace" => b = <<"stageWorkspace", x[2]>>
  /\ x[1] = "publishWorkspace" => b = <<"fillWorkspace", x[2]>>
  /\ x[1] = "manifest" => b = <<"fillRevision", x[2]>>
  /\ x[1] = "collect" => b = <<"hideWorkspace", x[2]>>
  /\ x[1] = "removeWorkspace" => b = <<"collect", x[2]>>
  /\ x[1] = "endJournal" => b = <<"removeAside", x[2]>>
  /\ x[1] = "migrations" => b = <<"preflight", "all">>
  /\ b[1] = "setAside" => x = <<"swap", b[2]>>
  /\ x[1] \notin {"unstage", "resume", "preflight"}
Preceded(q) == \A i \in DOMAIN q : i > 1 => MayFollow(q[i], q[i - 1])

\* What may be ahead of a step whose condition must not be disturbed.
Sweeps == {"validate", "sweep", "collect", "removeWorkspace"}
Copies == Sweeps \cup {"copyBackup", "publishBackup", "copyTree"}
Moves == Copies \cup {"setAside", "swap", "removeAside"}
Ahead ==
  [setAside |-> Copies, migrate |-> Sweeps, hideWorkspace |-> Sweeps,
   fillRevision |-> {"fillRevision"}, manifest |-> {"fillRevision"},
   removeTree |-> {"collectProject", "hideBackup", "removeBackup"}]

\* The condition of step x, from when it is queued until it is taken.
Holds(d, x) ==
  /\ x[1] = "setAside" => d.journal = {x[2]} /\ d.tree[x[2]] = "active"
  /\ x[1] = "migrate" => d.journal = {}
  /\ x[1] = "hideWorkspace" => x[2] \notin d.revised
  /\ x[1] \in {"fillRevision", "manifest"} =>
       x[2] \notin d.revised /\ d.workspace[x[2]] = "kept"
  /\ x[1] = "removeTree" => d.tree[x[2]] = "deleting"

Waiting(d, q) ==
  \A i \in DOMAIN q : q[i][1] \in DOMAIN Ahead =>
    Holds(d, q[i]) /\ \A h \in 1..i - 1 : q[h][1] \in Ahead[q[i][1]]

\* The condition of the step x at the head.
Relies(d, x) ==
  /\ x[1] \in {"fill", "publish", "unstage"} => d.tree[x[2]] = "creating"
  /\ x[1] = "publish" => Base[x[2]] \subseteq d.objects
  /\ x[1] \in {"stageWorkspace", "fillWorkspace", "publishWorkspace"} =>
       d.tree[ProjectOf[x[2]]] = "active"
  /\ x[1] \in {"fillWorkspace", "publishWorkspace"} => d.workspace[x[2]] = "creating"
  /\ x[1] \in {"publishWorkspace", "manifest"} => Site[x[2]] \subseteq d.objects
  /\ x[1] = "manifest" => d.tree[ProjectOf[x[2]]] = "active"
  /\ x[1] \in {"collect", "removeWorkspace"} => d.workspace[x[2]] # "kept"
  /\ x[1] = "resume" => d.journal = {x[2]}
  /\ x[1] = "endJournal" => x[2] \notin d.aside
Ready(d, q) ==
  q # << >> =>
    /\ Relies(d, q[1])
    /\ q[1][1] = "preflight" => q = Opening
    /\ q[1][1] = "migrations" => q = Tail(Opening)

\* The open migration is what a start is about, until its journal ends; between
\* the two renames the swap comes next.
Ends(q, k, i) ==
  /\ i \in DOMAIN q /\ q[i] \in {<<"endJournal", k>>, <<"resume", k>>}
  /\ \A h \in 1..i - 1 : q[h][1] \in Moves
Early(q) == q[1][1] \in {"preflight", "migrations"}
Migrating(d, q, ph) ==
  ph = "opening" =>
    /\ q # << >> /\ q[Len(q)] = <<"serve", "all">>
    /\ Early(q) \/ \A k \in d.journal : \E i \in DOMAIN q : Ends(q, k, i)
    /\ \A j \in d.aside : d.tree[j] = "absent" =>
         \/ Early(q) \/ q[1] \in {<<"resume", j>>, <<"swap", j>>}
         \/ q[1] = <<"copyTree", j>> /\ Len(q) > 1 /\ q[2] = <<"swap", j>>

\* A queue of whatever steps.
IsQueue(q) == \E S : q \in Seq(S)

Control(d, q, ph) ==
  /\ IsQueue(q) /\ Phased(d, q, ph) /\ Preceded(q) /\ Waiting(d, q) /\ Ready(d, q)
  /\ Migrating(d, q, ph)

\* What is being dropped is nobody's, and nothing that waits for it is published.
Unneeded ==
  /\ \A j \in Exists(disk) : doomed \cap Needs(disk, j) = {}
  /\ doomed # {} /\ todo # << >> =>
       todo[1][1] \notin {"publish", "publishWorkspace", "manifest"}

IInv ==
  /\ SoundDisk(disk) /\ phase \in {"down", "opening", "serving", "refused"}
  /\ Control(disk, todo, phase) /\ Unneeded

-----------------------------------------------------------------------------
(* Queues.  A step takes itself off the queue q and puts then before the rest. *)

LEMMA QueueFacts ==
  ASSUME NEW q, IsQueue(q)
  PROVE  /\ Len(q) \in Nat /\ DOMAIN q = 1..Len(q)
         /\ q # << >> => Head(q) = q[1] /\ 1 \in DOMAIN q /\ Len(q) > 0
  BY DEF IsQueue

LEMMA EmptyQueue == IsQueue(<< >>) /\ DOMAIN << >> = {} /\ Len(<< >>) = 0
  <1>1. << >> \in Seq({})
    OBVIOUS
  <1> QED
    BY <1>1 DEF IsQueue

\* Queues of a few steps.
LEMMA Tuples ==
  /\ \A a : IsQueue(<<a>>) /\ DOMAIN <<a>> = {1} /\ Len(<<a>>) = 1 /\ <<a>> # << >>
  /\ \A a, b : /\ IsQueue(<<a, b>>) /\ DOMAIN <<a, b>> = {1, 2} /\ Len(<<a, b>>) = 2
              /\ <<a, b>> # << >>
  /\ \A a, b, c : /\ IsQueue(<<a, b, c>>) /\ DOMAIN <<a, b, c>> = {1, 2, 3}
                 /\ Len(<<a, b, c>>) = 3 /\ <<a, b, c>> # << >>
  /\ \A a, b, c, d : /\ IsQueue(<<a, b, c, d>>) /\ DOMAIN <<a, b, c, d>> = {1, 2, 3, 4}
                    /\ Len(<<a, b, c, d>>) = 4 /\ <<a, b, c, d>> # << >>
  <1>1. ASSUME NEW a
        PROVE  IsQueue(<<a>>) /\ DOMAIN <<a>> = {1} /\ Len(<<a>>) = 1 /\ <<a>> # << >>
    <2>1. <<a>> \in Seq({a})
      OBVIOUS
    <2>2. IsQueue(<<a>>)
      BY <2>1 DEF IsQueue
    <2>3. DOMAIN <<a>> = {1}
      OBVIOUS
    <2>4. Len(<<a>>) = 1
      OBVIOUS
    <2> QED
      BY <2>2, <2>3, <2>4, EmptyQueue
  <1>2. ASSUME NEW a, NEW b
        PROVE  /\ IsQueue(<<a, b>>) /\ DOMAIN <<a, b>> = {1, 2} /\ Len(<<a, b>>) = 2
               /\ <<a, b>> # << >>
    <2>1. <<a, b>> \in Seq({a, b})
      OBVIOUS
    <2>2. IsQueue(<<a, b>>)
      BY <2>1 DEF IsQueue
    <2>3. DOMAIN <<a, b>> = {1, 2}
      OBVIOUS
    <2>4. Len(<<a, b>>) = 2
      OBVIOUS
    <2> QED
      BY <2>2, <2>3, <2>4, EmptyQueue
  <1>3. ASSUME NEW a, NEW b, NEW c
        PROVE  /\ IsQueue(<<a, b, c>>) /\ DOMAIN <<a, b, c>> = {1, 2, 3}
               /\ Len(<<a, b, c>>) = 3 /\ <<a, b, c>> # << >>
    <2>1. <<a, b, c>> \in Seq({a, b, c})
      OBVIOUS
    <2>2. IsQueue(<<a, b, c>>)
      BY <2>1 DEF IsQueue
    <2>3. DOMAIN <<a, b, c>> = {1, 2, 3}
      OBVIOUS
    <2>4. Len(<<a, b, c>>) = 3
      OBVIOUS
    <2> QED
      BY <2>2, <2>3, <2>4, EmptyQueue
  <1>4. ASSUME NEW a, NEW b, NEW c, NEW d
        PROVE  /\ IsQueue(<<a, b, c, d>>) /\ DOMAIN <<a, b, c, d>> = {1, 2, 3, 4}
               /\ Len(<<a, b, c, d>>) = 4 /\ <<a, b, c, d>> # << >>
    <2>1. <<a, b, c, d>> \in Seq({a, b, c, d})
      OBVIOUS
    <2>2. IsQueue(<<a, b, c, d>>)
      BY <2>1 DEF IsQueue
    <2>3. DOMAIN <<a, b, c, d>> = {1, 2, 3, 4}
      OBVIOUS
    <2>4. Len(<<a, b, c, d>>) = 4
      OBVIOUS
    <2> QED
      BY <2>2, <2>3, <2>4, EmptyQueue
  <1> QED
    BY <1>1, <1>2, <1>3, <1>4

LEMMA SameQueue ==
  ASSUME NEW u, IsQueue(u), NEW v, IsQueue(v), Len(u) = Len(v), \A i \in 1..Len(u) : u[i] = v[i]
  PROVE  u = v
  <1>1. PICK S : u \in Seq(S)
    BY DEF IsQueue
  <1>2. PICK T : v \in Seq(T)
    BY DEF IsQueue
  <1>3. u \in Seq(S \cup T) /\ v \in Seq(S \cup T)
    BY <1>1, <1>2
  <1> QED
    BY <1>3

LEMMA Glue ==
  ASSUME NEW u, IsQueue(u), NEW v, IsQueue(v)
  PROVE  /\ IsQueue(u \o v) /\ Len(u \o v) = Len(u) + Len(v)
         /\ Len(u) \in Nat /\ Len(v) \in Nat
         /\ \A i \in 1..Len(u) + Len(v) :
              (u \o v)[i] = IF i <= Len(u) THEN u[i] ELSE v[i - Len(u)]
  <1>1. PICK S : u \in Seq(S)
    BY DEF IsQueue
  <1>2. PICK T : v \in Seq(T)
    BY DEF IsQueue
  <1> DEFINE U == S \cup T
  <1>3. u \in Seq(U) /\ v \in Seq(U)
    BY <1>1, <1>2
  <1> HIDE DEF U
  <1>4. u \o v \in Seq(U) /\ Len(u \o v) = Len(u) + Len(v) /\ Len(u) \in Nat /\ Len(v) \in Nat
    BY <1>3
  <1>5. \A i \in 1..Len(u) + Len(v) :
          (u \o v)[i] = IF i <= Len(u) THEN u[i] ELSE v[i - Len(u)]
    BY <1>3, <1>4
  <1> QED
    BY <1>4, <1>5 DEF IsQueue

LEMMA GluedTuples ==
  ASSUME NEW x, NEW y, NEW z
  PROVE  <<x, y>> \o <<z>> = <<x, y, z>> /\ << >> \o <<z>> = <<z>>
  <1>1. IsQueue(<<x, y>>) /\ IsQueue(<<z>>) /\ IsQueue(<<x, y, z>>) /\ Len(<<x, y>>) = 2
        /\ Len(<<z>>) = 1 /\ Len(<<x, y, z>>) = 3
    BY Tuples
  <1> DEFINE r == <<x, y>> \o <<z>>
  <1>2. IsQueue(r) /\ Len(r) = 3
        /\ \A i \in 1..3 : r[i] = IF i <= 2 THEN <<x, y>>[i] ELSE <<z>>[i - 2]
    BY <1>1, Glue
  <1> HIDE DEF r
  <1>3. r[1] = x /\ r[2] = y /\ r[3] = z
    BY <1>2
  <1>4. \A i \in 1..3 : r[i] = <<x, y, z>>[i]
    BY <1>3
  <1>5. r = <<x, y, z>>
    BY <1>1, <1>2, <1>4, SameQueue
  <1> DEFINE s == << >> \o <<z>>
  <1>6. IsQueue(s) /\ Len(s) = 1 /\ s[1] = <<z>>[1]
    BY <1>1, EmptyQueue, Glue
  <1> HIDE DEF s
  <1>7. s = <<z>>
    BY <1>1, <1>6, SameQueue
  <1> QED
    BY <1>5, <1>7 DEF r, s

\* Where the steps of r = then \o Tail(q) come from.
Joins(q, then, r) ==
  /\ IsQueue(r) /\ Len(r) = Len(then) + Len(q) - 1
  /\ \A i \in DOMAIN then : i \in DOMAIN r /\ r[i] = then[i]
  /\ \A k \in DOMAIN q : k > 1 =>
       k + Len(then) - 1 \in DOMAIN r /\ r[k + Len(then) - 1] = q[k]
  /\ \A i \in DOMAIN r :
       \/ i \in DOMAIN then
       \/ /\ i > Len(then) /\ i - Len(then) + 1 \in DOMAIN q
          /\ i - Len(then) + 1 > 1 /\ r[i] = q[i - Len(then) + 1]

LEMMA Join ==
  ASSUME NEW q, IsQueue(q), q # << >>, NEW then, IsQueue(then)
  PROVE  Joins(q, then, then \o Tail(q))
  <1> DEFINE r == then \o Tail(q)
  <1>1. PICK S : q \in Seq(S)
    BY DEF IsQueue
  <1>2. PICK T : then \in Seq(T)
    BY DEF IsQueue
  <1> DEFINE U == S \cup T
  <1>3. q \in Seq(U) /\ then \in Seq(U)
    BY <1>1, <1>2
  <1>4. Tail(q) \in Seq(U) /\ Len(Tail(q)) = Len(q) - 1
        /\ \A i \in 1..Len(q) - 1 : Tail(q)[i] = q[i + 1]
    BY <1>3
  <1>5. r \in Seq(U) /\ Len(r) = Len(then) + Len(q) - 1
    BY <1>3, <1>4
  <1>6. \A i \in 1..Len(r) : r[i] = IF i <= Len(then) THEN then[i] ELSE Tail(q)[i - Len(then)]
    BY <1>3, <1>4
  <1>7. Len(q) \in Nat /\ Len(q) > 0 /\ Len(then) \in Nat /\ DOMAIN q = 1..Len(q)
        /\ DOMAIN then = 1..Len(then) /\ DOMAIN r = 1..Len(r)
    BY <1>3, <1>5
  <1>8. ASSUME NEW i \in DOMAIN then PROVE i \in DOMAIN r /\ r[i] = then[i]
    BY <1>8, <1>5, <1>6, <1>7
  <1>9. ASSUME NEW k \in DOMAIN q, k > 1
        PROVE  k + Len(then) - 1 \in DOMAIN r /\ r[k + Len(then) - 1] = q[k]
    <2>1. k + Len(then) - 1 \in 1..Len(r) /\ k + Len(then) - 1 > Len(then)
          /\ (k + Len(then) - 1) - Len(then) = k - 1 /\ k - 1 \in 1..Len(q) - 1 /\ (k - 1) + 1 = k
      BY <1>9, <1>5, <1>7
    <2>2. r[k + Len(then) - 1] = Tail(q)[k - 1]
      BY <2>1, <1>6, <1>7
    <2> QED
      BY <2>1, <2>2, <1>4, <1>7
  <1>10. ASSUME NEW i \in DOMAIN r, i \notin DOMAIN then
         PROVE  /\ i > Len(then) /\ i - Len(then) + 1 \in DOMAIN q
                /\ i - Len(then) + 1 > 1 /\ r[i] = q[i - Len(then) + 1]
    <2>1. i \in Nat /\ i > Len(then) /\ i - Len(then) \in 1..Len(q) - 1
      BY <1>10, <1>5, <1>7
    <2>2. r[i] = Tail(q)[i - Len(then)]
      BY <2>1, <1>6, <1>7
    <2> QED
      BY <2>1, <2>2, <1>4, <1>7
  <1>11. IsQueue(r)
    BY <1>5 DEF IsQueue
  <1> QED
    BY <1>5, <1>8, <1>9, <1>10, <1>11 DEF Joins

\* What nothing waits behind but as its step, may have anything behind it.
LEMMA NothingFollows ==
  ASSUME NEW x, NEW b, MayFollow(x, b), b[1] \notin Prepares
  PROVE  /\ \A d : Relies(d, x)
         /\ x[1] \notin {"preflight", "migrations", "publish", "publishWorkspace", "manifest"}
         /\ \A c : c[1] # "setAside" => MayFollow(x, c)
  <1>1. x[1] \notin {"fill", "publish", "stageWorkspace", "fillWorkspace", "publishWorkspace",
                     "manifest", "collect", "removeWorkspace", "endJournal", "migrations",
                     "unstage", "resume", "preflight"}
    <2>1. \A n, s : b = <<n, s>> => b[1] = n
      OBVIOUS
    <2> QED
      BY <2>1 DEF MayFollow, Prepares
  <1>2. \A d : Relies(d, x)
    BY <1>1 DEF Relies
  <1>3. \A c : c[1] # "setAside" => MayFollow(x, c)
    BY <1>1 DEF MayFollow
  <1> QED
    BY <1>1, <1>2, <1>3

LEMMA PrecededStep ==
  ASSUME NEW q, IsQueue(q), q # << >>, Preceded(q), NEW then, IsQueue(then), Preceded(then),
         then = << >> \/ then[Len(then)] = q[1]
           \/ (q[1][1] \notin Prepares /\ then[Len(then)][1] # "setAside")
  PROVE  Preceded(then \o Tail(q))
  <1> DEFINE r == then \o Tail(q)
  <1>0. Joins(q, then, r)
    BY Join
  <1> HIDE DEF r
  <1>1. SUFFICES ASSUME NEW i \in DOMAIN r, i > 1 PROVE MayFollow(r[i], r[i - 1])
    BY DEF Preceded, r
  <1>2. /\ IsQueue(r) /\ Len(r) = Len(then) + Len(q) - 1
        /\ \A h \in DOMAIN then : h \in DOMAIN r /\ r[h] = then[h]
        /\ \A k \in DOMAIN q : k > 1 =>
             k + Len(then) - 1 \in DOMAIN r /\ r[k + Len(then) - 1] = q[k]
        /\ \A h \in DOMAIN r :
             \/ h \in DOMAIN then
             \/ /\ h > Len(then) /\ h - Len(then) + 1 \in DOMAIN q
                /\ h - Len(then) + 1 > 1 /\ r[h] = q[h - Len(then) + 1]
    BY <1>0 DEF Joins
  <1>3. /\ Len(q) \in Nat /\ DOMAIN q = 1..Len(q) /\ 1 \in DOMAIN q
        /\ Len(then) \in Nat /\ DOMAIN then = 1..Len(then)
        /\ Len(r) \in Nat /\ DOMAIN r = 1..Len(r)
    BY <1>2, QueueFacts
  <1>4. CASE i \in DOMAIN then
    <2>1. i - 1 \in DOMAIN then
      BY <1>1, <1>3, <1>4
    <2> QED
      BY <2>1, <1>1, <1>2, <1>4 DEF Preceded
  <1>5. CASE i \notin DOMAIN then
    <2> DEFINE k == i - Len(then) + 1
    <2>1. k \in DOMAIN q /\ k > 1 /\ r[i] = q[k] /\ i > Len(then)
      BY <1>2, <1>5
    <2>2. MayFollow(q[k], q[k - 1])
      BY <2>1 DEF Preceded
    <2>3. CASE k > 2
      <3>1. k - 1 \in DOMAIN q /\ k - 1 > 1 /\ (k - 1) + Len(then) - 1 = i - 1
        BY <2>1, <2>3, <1>3
      <3>2. r[i - 1] = q[k - 1]
        BY <3>1, <1>2
      <3> QED
        BY <3>2, <2>1, <2>2
    <2>4. CASE k = 2
      <3>1. Len(then) = i - 1 /\ Len(then) \in DOMAIN then /\ then # << >>
        BY <2>1, <2>4, <1>1, <1>3
      <3>2. r[i - 1] = then[Len(then)]
        BY <3>1, <1>2
      <3>3. MayFollow(q[2], q[1])
        BY <2>2, <2>4
      <3>4. CASE then[Len(then)] = q[1]
        BY <3>2, <3>3, <3>4, <2>1, <2>4
      <3>5. CASE q[1][1] \notin Prepares /\ then[Len(then)][1] # "setAside"
        <4>1. MayFollow(q[2], then[Len(then)])
          BY <3>3, <3>5, NothingFollows
        <4> QED
          BY <4>1, <3>2, <2>1, <2>4
      <3> QED
        BY <3>1, <3>4, <3>5
    <2> QED
      BY <2>1, <2>3, <2>4, <1>3
  <1> QED
    BY <1>4, <1>5

LEMMA PhasedStep ==
  ASSUME NEW d, NEW e, NEW q, IsQueue(q), q # << >>, NEW ph, Phased(d, q, ph),
         NEW then, IsQueue(then), ph = "serving" => e.journal = {},
         \A i \in DOMAIN then :
           (then[i][1] \in Serves => ph = "serving") /\ (then[i][1] \in Opens => ph = "opening")
  PROVE  Phased(e, then \o Tail(q), ph)
  <1> DEFINE r == then \o Tail(q)
  <1>1. Joins(q, then, r)
    BY Join
  <1> HIDE DEF r
  <1>2. ph \notin {"down", "refused"}
    BY DEF Phased
  <1>3. ASSUME NEW i \in DOMAIN r
        PROVE  (r[i][1] \in Serves => ph = "serving") /\ (r[i][1] \in Opens => ph = "opening")
    <2>1. CASE i \in DOMAIN then
      BY <1>1, <2>1 DEF Joins
    <2>2. CASE i \notin DOMAIN then
      BY <1>1, <1>3, <2>2 DEF Joins, Phased
    <2> QED
      BY <2>1, <2>2
  <1> QED
    BY <1>2, <1>3 DEF Phased, r

LEMMA WaitingStep ==
  ASSUME NEW d, NEW e, NEW q, IsQueue(q), q # << >>, Waiting(d, q),
         NEW then, IsQueue(then), Waiting(e, then),
         \A k \in DOMAIN q :
           k > 1 /\ q[k][1] \in DOMAIN Ahead /\ q[1][1] \in Ahead[q[k][1]] /\ Holds(d, q[k]) =>
             Holds(e, q[k]) /\ \A i \in DOMAIN then : then[i][1] \in Ahead[q[k][1]]
  PROVE  Waiting(e, then \o Tail(q))
  <1> DEFINE r == then \o Tail(q)
  <1>1. Joins(q, then, r)
    BY Join
  <1>2. /\ Len(q) \in Nat /\ DOMAIN q = 1..Len(q) /\ 1 \in DOMAIN q
        /\ Len(then) \in Nat /\ DOMAIN then = 1..Len(then)
        /\ Len(r) \in Nat /\ DOMAIN r = 1..Len(r)
    BY <1>1, QueueFacts DEF Joins
  <1> HIDE DEF r
  <1>3. SUFFICES ASSUME NEW i \in DOMAIN r, r[i][1] \in DOMAIN Ahead
                 PROVE  Holds(e, r[i]) /\ \A h \in 1..i - 1 : r[h][1] \in Ahead[r[i][1]]
    BY DEF Waiting, r
  <1>4. CASE i \in DOMAIN then
    <2>1. r[i] = then[i] /\ \A h \in DOMAIN then : r[h] = then[h]
      BY <1>1, <1>4 DEF Joins
    <2>2. \A h \in 1..i - 1 : h \in DOMAIN then
      BY <1>2, <1>4
    <2>3. Holds(e, then[i]) /\ \A h \in 1..i - 1 : then[h][1] \in Ahead[then[i][1]]
      BY <2>1, <1>3, <1>4 DEF Waiting
    <2> QED
      BY <2>1, <2>2, <2>3
  <1>5. CASE i \notin DOMAIN then
    <2> DEFINE k == i - Len(then) + 1
    <2>1. k \in DOMAIN q /\ k > 1 /\ r[i] = q[k] /\ i > Len(then)
      BY <1>1, <1>5 DEF Joins
    <2>2. Holds(d, q[k]) /\ \A h \in 1..k - 1 : q[h][1] \in Ahead[q[k][1]]
      BY <2>1, <1>3 DEF Waiting
    <2>3. 1 \in 1..k - 1
      BY <2>1, <1>2
    <2>4. Holds(e, q[k]) /\ \A h \in DOMAIN then : then[h][1] \in Ahead[q[k][1]]
      BY <2>1, <2>2, <2>3, <1>3
    <2>5. ASSUME NEW h \in 1..i - 1 PROVE r[h][1] \in Ahead[r[i][1]]
      <3>1. CASE h \in DOMAIN then
        BY <3>1, <2>1, <2>4, <1>1 DEF Joins
      <3>2. CASE h \notin DOMAIN then
        <4>1. h \in DOMAIN r
          BY <2>5, <1>2, <1>3
        <4>2. r[h] = q[h - Len(then) + 1] /\ h - Len(then) + 1 \in DOMAIN q
          BY <4>1, <3>2, <1>1 DEF Joins
        <4>3. h - Len(then) + 1 \in 1..k - 1
          BY <4>2, <2>1, <2>5, <1>2, <3>2
        <4> QED
          BY <4>2, <4>3, <2>1, <2>2
      <3> QED
        BY <3>1, <3>2
    <2> QED
      BY <2>1, <2>4, <2>5
  <1> QED
    BY <1>4, <1>5

\* The head after a step.
LEMMA NextHead ==
  ASSUME NEW q, IsQueue(q), q # << >>, Preceded(q), NEW then, IsQueue(then)
  PROVE  LET r == then \o Tail(q)
         IN  /\ then # << >> => r # << >> /\ r[1] = then[1]
             /\ then = << >> /\ r # << >> =>
                  2 \in DOMAIN q /\ r[1] = q[2] /\ MayFollow(q[2], q[1])
             /\ then = << >> => r = Tail(q)
  <1> DEFINE r == then \o Tail(q)
  <1>1. Joins(q, then, r)
    BY Join
  <1>2. /\ Len(q) \in Nat /\ DOMAIN q = 1..Len(q) /\ 1 \in DOMAIN q
        /\ Len(then) \in Nat /\ DOMAIN then = 1..Len(then)
        /\ IsQueue(r) /\ Len(r) \in Nat /\ DOMAIN r = 1..Len(r)
    BY <1>1, QueueFacts DEF Joins
  <1>3. then = << >> => r = Tail(q)
    <2>1. PICK S : q \in Seq(S)
      BY DEF IsQueue
    <2>2. Tail(q) \in Seq(S)
      BY <2>1
    <2> QED
      BY <2>2
  <1> HIDE DEF r
  <1>4. ASSUME then # << >> PROVE r # << >> /\ r[1] = then[1]
    <2>1. 1 \in DOMAIN then
      BY <1>4, QueueFacts
    <2>2. 1 \in DOMAIN r /\ r[1] = then[1]
      BY <2>1, <1>1 DEF Joins
    <2> QED
      BY <2>2
  <1>5. ASSUME then = << >>, r # << >>
        PROVE  2 \in DOMAIN q /\ r[1] = q[2] /\ MayFollow(q[2], q[1])
    <2>1. 1 \in DOMAIN r /\ Len(then) = 0 /\ 1 \notin DOMAIN then
      BY <1>5, <1>2, QueueFacts, EmptyQueue
    <2>2. 1 - Len(then) + 1 \in DOMAIN q /\ r[1] = q[1 - Len(then) + 1]
      BY <2>1, <1>1 DEF Joins
    <2>3. 1 - Len(then) + 1 = 2 /\ 2 > 1 /\ 2 - 1 = 1
      BY <2>1
    <2>4. 2 \in DOMAIN q /\ r[1] = q[2]
      BY <2>2, <2>3
    <2>5. MayFollow(q[2], q[2 - 1])
      BY <2>4, <2>3 DEF Preceded
    <2> QED
      BY <2>3, <2>4, <2>5
  <1> QED
    BY <1>3, <1>4, <1>5 DEF r

LEMMA OpeningFacts ==
  /\ IsQueue(Opening) /\ Opening # << >> /\ Opening[1] = <<"preflight", "all">>
  /\ Len(Opening) = 7 /\ DOMAIN Opening = 1..7
  /\ Opening[2] = <<"migrations", "all">> /\ Opening[3] = <<"orphans", "all">>
  /\ Opening[4] = <<"deletions", "all">> /\ Opening[5] = <<"hidden", "all">>
  /\ Opening[6] = <<"projects", "all">> /\ Opening[7] = <<"serve", "all">>
  <1>1. Opening \in Seq({"preflight", "migrations", "orphans", "deletions", "hidden", "projects",
                         "serve"} \X {"all"})
    BY DEF Opening
  <1>2. IsQueue(Opening)
    BY <1>1 DEF IsQueue
  <1>3. Len(Opening) = 7
    BY DEF Opening
  <1>4. Opening # << >> /\ DOMAIN Opening = 1..7
    BY <1>2, <1>3, QueueFacts, EmptyQueue
  <1>5. Opening[1] = <<"preflight", "all">> /\ Opening[2] = <<"migrations", "all">>
        /\ Opening[3] = <<"orphans", "all">>
    BY DEF Opening
  <1>6. Opening[4] = <<"deletions", "all">> /\ Opening[5] = <<"hidden", "all">>
        /\ Opening[6] = <<"projects", "all">> /\ Opening[7] = <<"serve", "all">>
    BY DEF Opening
  <1> QED
    BY <1>2, <1>3, <1>4, <1>5, <1>6

LEMMA ReadyStep ==
  ASSUME NEW d, NEW e, NEW q, IsQueue(q), q # << >>, Preceded(q), Ready(d, q),
         NEW then, IsQueue(then),
         then # << >> => Relies(e, then[1]) /\ then[1][1] \notin {"preflight", "migrations"},
         \A x : then = << >> /\ q[1][1] \in Prepares /\ MayFollow(x, q[1]) /\ 2 \in DOMAIN q
                /\ x = q[2] => Relies(e, x)
  PROVE  Ready(e, then \o Tail(q))
  <1> DEFINE r == then \o Tail(q)
  <1>1. SUFFICES ASSUME r # << >>
                 PROVE  /\ Relies(e, r[1])
                        /\ r[1][1] = "preflight" => r = Opening
                        /\ r[1][1] = "migrations" => r = Tail(Opening)
    BY DEF Ready
  <1>2. CASE then # << >>
    <2>1. r[1] = then[1]
      BY <1>2, NextHead
    <2> QED
      BY <1>2, <2>1
  <1>3. CASE then = << >>
    <2>1. 2 \in DOMAIN q /\ r[1] = q[2] /\ MayFollow(q[2], q[1]) /\ r = Tail(q)
      BY <1>1, <1>3, NextHead
    <2> HIDE DEF r
    <2>2. Relies(e, r[1])
      <3>1. CASE q[1][1] \in Prepares
        BY <2>1, <3>1, <1>3
      <3>2. CASE q[1][1] \notin Prepares
        BY <2>1, <3>2, NothingFollows
      <3> QED
        BY <3>1, <3>2
    <2>3. r[1][1] # "preflight"
      BY <2>1 DEF MayFollow
    <2>4. r[1][1] = "migrations" => q[1] = <<"preflight", "all">>
      BY <2>1 DEF MayFollow
    <2>5. q[1] = <<"preflight", "all">> => q = Opening
      BY DEF Ready
    <2> QED
      BY <2>1, <2>2, <2>3, <2>4, <2>5
  <1> QED
    BY <1>2, <1>3

\* Where the open migration ends, in the queue after a step.
LEMMA EndsStep ==
  ASSUME NEW q, IsQueue(q), q # << >>, NEW then, IsQueue(then), NEW k, NEW i
  PROVE  /\ Ends(then, k, i) => Ends(then \o Tail(q), k, i)
         /\ Ends(q, k, i) /\ i > 1 /\ (\A h \in DOMAIN then : then[h][1] \in Moves) =>
              Ends(then \o Tail(q), k, i + Len(then) - 1)
  <1> DEFINE r == then \o Tail(q)
  <1>1. Joins(q, then, r)
    BY Join
  <1>2. /\ Len(q) \in Nat /\ DOMAIN q = 1..Len(q) /\ 1 \in DOMAIN q
        /\ Len(then) \in Nat /\ DOMAIN then = 1..Len(then)
        /\ Len(r) \in Nat /\ DOMAIN r = 1..Len(r)
    BY <1>1, QueueFacts DEF Joins
  <1> HIDE DEF r
  <1>3. ASSUME Ends(then, k, i) PROVE Ends(r, k, i)
    <2>1. i \in DOMAIN r /\ r[i] = then[i] /\ \A h \in DOMAIN then : r[h] = then[h]
      BY <1>1, <1>3 DEF Joins, Ends
    <2>2. \A h \in 1..i - 1 : h \in DOMAIN then
      BY <1>2, <1>3 DEF Ends
    <2> QED
      BY <2>1, <2>2, <1>3 DEF Ends
  <1>4. ASSUME Ends(q, k, i), i > 1, \A h \in DOMAIN then : then[h][1] \in Moves
        PROVE  Ends(r, k, i + Len(then) - 1)
    <2> DEFINE n == i + Len(then) - 1
    <2>1. n \in DOMAIN r /\ r[n] = q[i] /\ i \in DOMAIN q
      BY <1>1, <1>4 DEF Joins, Ends
    <2>2. ASSUME NEW h \in 1..n - 1 PROVE r[h][1] \in Moves
      <3>1. CASE h \in DOMAIN then
        BY <3>1, <1>1, <1>4 DEF Joins
      <3>2. CASE h \notin DOMAIN then
        <4>1. h \in DOMAIN r
          BY <2>1, <2>2, <1>2
        <4>2. r[h] = q[h - Len(then) + 1] /\ h - Len(then) + 1 \in DOMAIN q
          BY <4>1, <3>2, <1>1 DEF Joins
        <4>3. h - Len(then) + 1 \in 1..i - 1
          BY <4>2, <2>1, <2>2, <1>2, <3>2
        <4> QED
          BY <4>2, <4>3, <1>4 DEF Ends
      <3> QED
        BY <3>1, <3>2
    <2> HIDE DEF n
    <2>3. Ends(r, k, n)
      BY <2>1, <2>2, <1>4 DEF Ends
    <2> QED
      BY <2>3 DEF n
  <1> QED
    BY <1>3, <1>4 DEF r

\* No step of q but the last serves.
LEMMA LastStep ==
  ASSUME NEW q, IsQueue(q), q # << >>, q[Len(q)] = <<"serve", "all">>, q[1][1] # "serve",
         NEW then, IsQueue(then)
  PROVE  LET r == then \o Tail(q)
         IN  r # << >> /\ r[Len(r)] = <<"serve", "all">>
  <1> DEFINE r == then \o Tail(q)
  <1>1. Joins(q, then, r)
    BY Join
  <1>2. /\ Len(q) \in Nat /\ DOMAIN q = 1..Len(q) /\ 1 \in DOMAIN q
        /\ Len(then) \in Nat
    BY QueueFacts
  <1> HIDE DEF r
  <1>3. Len(q) # 1
    BY <1>2
  <1>4. Len(q) \in DOMAIN q /\ Len(q) > 1
    BY <1>2, <1>3
  <1>5. Len(r) \in DOMAIN r /\ r[Len(r)] = q[Len(q)]
    BY <1>1, <1>2, <1>4 DEF Joins
  <1> QED
    BY <1>5, EmptyQueue DEF r

\* What a step does to the open migration.
Migrates(d, e, q, then) ==
  /\ q[1][1] # "serve"
  /\ q[1][1] # "preflight" =>
       \A k \in e.journal :
         \/ \E i \in DOMAIN then : Ends(then, k, i)
         \/ /\ k \in d.journal /\ ~Early(q) /\ \A h \in DOMAIN then : then[h][1] \in Moves
            /\ q[1] \notin {<<"endJournal", k>>, <<"resume", k>>}
  /\ q[1][1] = "preflight" => then = << >>
  /\ \A j \in e.aside : e.tree[j] = "absent" =>
       \/ q[1][1] = "preflight"
       \/ /\ then # << >>
          /\ \/ then[1] \in {<<"resume", j>>, <<"swap", j>>}
             \/ then[1] = <<"copyTree", j>> /\ Len(then) > 1 /\ then[2] = <<"swap", j>>
       \/ /\ then = << >>
          /\ 2 \in DOMAIN q => q[2] = <<"swap", j>>

LEMMA MigratingStep ==
  ASSUME NEW d, NEW e, NEW q, IsQueue(q), q # << >>, Preceded(q), Ready(d, q),
         NEW then, IsQueue(then),
         NEW ph, Migrating(d, q, ph), ph = "opening" => Migrates(d, e, q, then)
  PROVE  Migrating(e, then \o Tail(q), ph)
  <1> DEFINE r == then \o Tail(q)
  <1>1. SUFFICES ASSUME ph = "opening"
                 PROVE  /\ r # << >> /\ r[Len(r)] = <<"serve", "all">>
                        /\ Early(r) \/ \A k \in e.journal : \E i \in DOMAIN r : Ends(r, k, i)
                        /\ \A j \in e.aside : e.tree[j] = "absent" =>
                             \/ Early(r) \/ r[1] \in {<<"resume", j>>, <<"swap", j>>}
                             \/ r[1] = <<"copyTree", j>> /\ Len(r) > 1 /\ r[2] = <<"swap", j>>
    BY DEF Migrating
  <1>2. r # << >> /\ r[Len(r)] = <<"serve", "all">>
    BY <1>1, LastStep DEF Migrating, Migrates
  <1>3. Joins(q, then, r)
    BY Join
  <1>4. /\ then # << >> => r[1] = then[1]
        /\ then = << >> => 2 \in DOMAIN q /\ r[1] = q[2] /\ r = Tail(q)
    BY <1>2, NextHead
  <1>5. CASE q[1][1] = "preflight"
    <2>1. then = << >> /\ q = Opening
      BY <1>1, <1>5 DEF Migrates, Ready
    <2>2. r[1] = <<"migrations", "all">>
      BY <2>1, <1>4, OpeningFacts
    <2> QED
      BY <1>2, <2>2 DEF Early
  <1>6. CASE q[1][1] # "preflight"
    <2>1. ASSUME NEW k \in e.journal PROVE \E i \in DOMAIN r : Ends(r, k, i)
      <3>1. CASE \E i \in DOMAIN then : Ends(then, k, i)
        <4>1. PICK i \in DOMAIN then : Ends(then, k, i)
          BY <3>1
        <4>2. Ends(r, k, i)
          BY <4>1, EndsStep
        <4> QED
          BY <4>2 DEF Ends
      <3>2. CASE /\ k \in d.journal /\ ~Early(q) /\ \A h \in DOMAIN then : then[h][1] \in Moves
                 /\ q[1] \notin {<<"endJournal", k>>, <<"resume", k>>}
        <4>1. PICK i \in DOMAIN q : Ends(q, k, i)
          BY <1>1, <3>2 DEF Migrating
        <4>2. i # 1
          BY <4>1, <3>2 DEF Ends
        <4>3. i > 1
          BY <4>1, <4>2, QueueFacts
        <4>4. Ends(r, k, i + Len(then) - 1)
          BY <4>1, <4>3, <3>2, EndsStep
        <4> QED
          BY <4>4 DEF Ends
      <3> QED
        BY <1>1, <1>6, <2>1, <3>1, <3>2 DEF Migrates
    <2>2. ASSUME NEW j \in e.aside, e.tree[j] = "absent"
          PROVE  \/ r[1] \in {<<"resume", j>>, <<"swap", j>>}
                 \/ r[1] = <<"copyTree", j>> /\ Len(r) > 1 /\ r[2] = <<"swap", j>>
      <3>1. CASE then # << >> /\ then[1] \in {<<"resume", j>>, <<"swap", j>>}
        BY <3>1, <1>4
      <3>2. CASE then # << >> /\ then[1] = <<"copyTree", j>> /\ Len(then) > 1
                 /\ then[2] = <<"swap", j>>
        <4>1. 2 \in DOMAIN then
          BY <3>2, QueueFacts
        <4>2. 2 \in DOMAIN r /\ r[2] = then[2]
          BY <4>1, <1>3 DEF Joins
        <4>3. Len(r) > 1
          BY <4>2, <1>3, QueueFacts DEF Joins
        <4> QED
          BY <3>2, <1>4, <4>2, <4>3
      <3>3. CASE then = << >> /\ (2 \in DOMAIN q => q[2] = <<"swap", j>>)
        BY <3>3, <1>4
      <3> QED
        BY <1>1, <1>6, <2>2, <3>1, <3>2, <3>3 DEF Migrates
    <2> QED
      BY <1>2, <2>1, <2>2
  <1> QED
    BY <1>5, <1>6

\* What a step b does to the steps that wait behind it, and to the next one.
Undisturbed(d, e, b, then) ==
  \A x : x[1] \in DOMAIN Ahead /\ b[1] \in Ahead[x[1]] /\ Holds(d, x) =>
    Holds(e, x) /\ \A i \in DOMAIN then : then[i][1] \in Ahead[x[1]]
Prepared(e, b, then) ==
  /\ then # << >> => Relies(e, then[1]) /\ then[1][1] \notin {"preflight", "migrations"}
  /\ then = << >> /\ b[1] \in Prepares => \A x : MayFollow(x, b) => Relies(e, x)

\* The queue then fits in the place of step b.
Fits(e, b, then, ph) ==
  /\ IsQueue(then) /\ Preceded(then) /\ Waiting(e, then)
  /\ then = << >> \/ then[Len(then)] = b
       \/ (b[1] \notin Prepares /\ then[Len(then)][1] # "setAside")
  /\ \A i \in DOMAIN then :
       (then[i][1] \in Serves => ph = "serving") /\ (then[i][1] \in Opens => ph = "opening")

LEMMA Advance ==
  ASSUME NEW d, NEW e, NEW q, NEW ph, NEW then, q # << >>, Control(d, q, ph),
         ph = "serving" => e.journal = {}, Fits(e, q[1], then, ph),
         Undisturbed(d, e, q[1], then), Prepared(e, q[1], then),
         ph = "opening" => Migrates(d, e, q, then)
  PROVE  Control(e, then \o Tail(q), ph)
  <1> DEFINE r == then \o Tail(q)
  <1>1. IsQueue(q) /\ Phased(d, q, ph) /\ Preceded(q) /\ Waiting(d, q) /\ Ready(d, q)
        /\ Migrating(d, q, ph)
    BY DEF Control
  <1>2. IsQueue(then) /\ Preceded(then) /\ Waiting(e, then)
    BY DEF Fits
  <1>3. IsQueue(r)
    BY <1>1, <1>2, Join DEF Joins
  <1>4. Phased(e, r, ph)
    BY <1>1, <1>2, PhasedStep DEF Fits
  <1>5. Preceded(r)
    BY <1>1, <1>2, PrecededStep DEF Fits
  <1>6. Waiting(e, r)
    BY <1>1, <1>2, WaitingStep DEF Undisturbed
  <1>7. Ready(e, r)
    BY <1>1, <1>2, ReadyStep DEF Prepared
  <1>8. Migrating(e, r, ph)
    BY <1>1, <1>2, MigratingStep
  <1> QED
    BY <1>3, <1>4, <1>5, <1>6, <1>7, <1>8 DEF Control

LEMMA AheadFacts ==
  /\ DOMAIN Ahead = {"setAside", "migrate", "hideWorkspace", "fillRevision", "manifest", "removeTree"}
  /\ Ahead["setAside"] = Copies /\ Ahead["migrate"] = Sweeps /\ Ahead["hideWorkspace"] = Sweeps
  /\ Ahead["fillRevision"] = {"fillRevision"} /\ Ahead["manifest"] = {"fillRevision"}
  /\ Ahead["removeTree"] = {"collectProject", "hideBackup", "removeBackup"}
  BY DEF Ahead

-----------------------------------------------------------------------------
(* How operations begin and end. *)

LEMMA NothingLeft ==
  ASSUME NEW d, NEW ph, ph # "opening", ph = "serving" => d.journal = {}
  PROVE  Control(d, << >>, ph)
  BY EmptyQueue DEF Control, Phased, Preceded, Waiting, Ready, Migrating

LEMMA RescueControl ==
  ASSUME NEW c, NEW x, c.journal = {}
  PROVE  Control(c, Rescue(c, x), "serving")
  <1>1. CASE Rescue(c, x) = << <<"unstage", x[2]>> >> /\ c.tree[x[2]] = "creating"
    <2> DEFINE q == << <<"unstage", x[2]>> >>
    <2>1. IsQueue(q) /\ DOMAIN q = {1} /\ q[1] = <<"unstage", x[2]>>
      BY Tuples
    <2>2. q[1][1] = "unstage" /\ q[1][2] = x[2]
      BY <2>1
    <2> HIDE DEF q
    <2>3. Phased(c, q, "serving") /\ Preceded(q) /\ Waiting(c, q) /\ Migrating(c, q, "serving")
      BY <2>1, <2>2, AheadFacts DEF Phased, Preceded, Waiting, Migrating, Opens
    <2>4. Ready(c, q)
      BY <2>1, <2>2, <1>1 DEF Ready, Relies
    <2> QED
      BY <2>1, <2>3, <2>4, <1>1 DEF Control, q
  <1>2. CASE Rescue(c, x) = Cleanup(x[2]) /\ c.workspace[x[2]] = "creating"
    <2> DEFINE q == Cleanup(x[2])
    <2>2. IsQueue(q) /\ DOMAIN q = {1, 2} /\ q[1] = <<"collect", x[2]>>
          /\ q[2] = <<"removeWorkspace", x[2]>>
      BY Tuples DEF Cleanup
    <2>3. q[1][1] = "collect" /\ q[1][2] = x[2] /\ q[2][1] = "removeWorkspace" /\ q[2][2] = x[2]
      BY <2>2
    <2> HIDE DEF q
    <2>4. Phased(c, q, "serving") /\ Waiting(c, q) /\ Migrating(c, q, "serving")
      BY <2>2, <2>3, AheadFacts DEF Phased, Waiting, Migrating, Opens
    <2>5. Preceded(q)
      BY <2>2, <2>3 DEF Preceded, MayFollow
    <2>6. Ready(c, q)
      BY <2>2, <2>3, <1>2 DEF Ready, Relies
    <2> QED
      BY <2>2, <2>4, <2>5, <2>6, <1>2 DEF Control, q
  <1>3. CASE Rescue(c, x) = << >>
    BY <1>3, NothingLeft
  <1> QED
    BY <1>1, <1>2, <1>3 DEF Rescue

\* The operation ends with the disk c.
Ended(c) ==
  /\ disk' = c /\ doomed' = {}
  /\ \/ phase' \in {"down", "refused"} /\ todo' = << >>
     \/ phase # "opening" /\ phase' = phase /\ todo' \in {<< >>, Rescue(c, todo[1])}

LEMMA EndedKeeps ==
  ASSUME IInv, todo # << >>, NEW c, SoundDisk(c), phase = "serving" => c.journal = {}, Ended(c)
  PROVE  IInv'
  <1>1. SoundDisk(disk') /\ Unneeded'
    BY DEF Ended, Unneeded
  <1>2. CASE phase' \in {"down", "refused"} /\ todo' = << >>
    <2>1. Control(disk', todo', phase')
      BY <1>2, NothingLeft
    <2> QED
      BY <1>1, <1>2, <2>1 DEF IInv
  <1>3. CASE phase # "opening" /\ phase' = phase /\ todo' \in {<< >>, Rescue(c, todo[1])}
    <2>1. phase' = "serving" /\ phase = "serving"
      BY <1>3 DEF IInv, Control, Phased
    <2>2. Control(c, << >>, "serving") /\ Control(c, Rescue(c, todo[1]), "serving")
      BY <2>1, NothingLeft, RescueControl
    <2>3. Control(disk', todo', phase')
      BY <1>3, <2>1, <2>2 DEF Ended
    <2> QED
      BY <1>1, <2>1, <2>3 DEF IInv
  <1> QED
    BY <1>2, <1>3 DEF Ended

\* The step at the head is taken, and leaves the disk e.
At(name, s) == todo # << >> /\ todo[1] = <<name, s>> /\ doomed = {}
Advanced(e, then) ==
  disk' = e /\ todo' = then \o Tail(todo) /\ phase' = phase /\ doomed' = {}
Runs(e, partial, then) ==
  Advanced(e, then) \/ Ended(disk) \/ Ended(e) \/ \E c \in partial : Ended(c)

LEMMA RunKeeps ==
  ASSUME IInv, todo # << >>, doomed = {}, NEW e, NEW partial, NEW then,
         Runs(e, partial, then), SoundDisk(e),
         phase = "serving" => e.journal = {},
         \A c \in partial : SoundDisk(c) /\ c.journal = disk.journal,
         Fits(e, todo[1], then, phase), Undisturbed(disk, e, todo[1], then),
         Prepared(e, todo[1], then), phase = "opening" => Migrates(disk, e, todo, then)
  PROVE  IInv'
  <1>1. SoundDisk(disk) /\ Control(disk, todo, phase)
    BY DEF IInv
  <1>2. phase = "serving" => disk.journal = {}
    BY <1>1 DEF Control, Phased
  <1>3. CASE Advanced(e, then)
    <2>1. Control(e, then \o Tail(todo), phase)
      BY <1>1, Advance
    <2> QED
      BY <1>3, <2>1 DEF IInv, Advanced, Unneeded
  <1>4. CASE Ended(disk)
    BY <1>1, <1>2, <1>4, EndedKeeps
  <1>5. CASE Ended(e)
    BY <1>5, EndedKeeps
  <1>6. CASE \E c \in partial : Ended(c)
    BY <1>2, <1>6, EndedKeeps
  <1> QED
    BY <1>3, <1>4, <1>5, <1>6 DEF Runs

LEMMA StepRuns ==
  ASSUME NEW name, NEW s, NEW e, NEW partial, NEW then, Step(name, s, TRUE, e, partial, then)
  PROVE  At(name, s) /\ Runs(e, partial, then)
  BY DEF Step, Fail, Die, At, Runs, Advanced, Ended

-----------------------------------------------------------------------------
(* Steps that disturb little. *)

\* From disk d to e nothing changed that the invariant looks at, but for objects
\* that are new.
Quiet(d, e) ==
  /\ e \in Disks /\ d.objects \subseteq e.objects
  /\ e.tree = d.tree /\ e.aside = d.aside /\ e.journal = d.journal
  /\ e.revised = d.revised /\ e.workspace = d.workspace

LEMMA QuietDisk ==
  ASSUME NEW d, NEW e, SoundDisk(d), Quiet(d, e)
  PROVE  /\ SoundDisk(e)
         /\ \A x : Holds(d, x) => Holds(e, x)
         /\ \A x : Relies(d, x) => Relies(e, x)
  <1>1. Exists(e) = Exists(d) /\ \A j : Needs(e, j) = Needs(d, j)
    BY DEF Quiet, Exists, Active, Needs, Manifests, Workspaces
  <1>2. Retained(e)
    BY <1>1 DEF SoundDisk, Retained, Quiet
  <1>3. Fresh(e) /\ OneMigration(e) /\ e \in Disks
    BY DEF SoundDisk, Fresh, OneMigration, Quiet
  <1>4. \A x : Holds(d, x) => Holds(e, x)
    BY DEF Holds, Quiet
  <1>5. \A x : Relies(d, x) => Relies(e, x)
    BY DEF Relies, Quiet
  <1> QED
    BY <1>2, <1>3, <1>4, <1>5 DEF SoundDisk

LEMMA SameDisk == ASSUME NEW d, SoundDisk(d) PROVE Quiet(d, d)
  BY DEF SoundDisk, Quiet

\* The steps something waits behind.
Awaited == Copies \cup {"fillRevision", "collectProject", "hideBackup", "removeBackup"}

LEMMA NotAwaited ==
  ASSUME NEW d, NEW e, NEW b, NEW then, b[1] \notin Awaited
  PROVE  Undisturbed(d, e, b, then)
  BY AheadFacts DEF Awaited, Copies, Undisturbed

LEMMA NothingPut ==
  ASSUME NEW e, NEW b, NEW ph
  PROVE  Fits(e, b, << >>, ph)
  BY EmptyQueue DEF Fits, Preceded, Waiting

\* The steps a migration or the first steps of a start are about.
Turns == {"serve", "preflight", "migrations", "resume", "endJournal"}

LEMMA NoMigration ==
  ASSUME NEW d, NEW q, q # << >>, IsQueue(q), Migrating(d, q, "opening"),
         q[1][1] \notin Moves \cup {"preflight", "migrations", "resume", "endJournal"}
  PROVE  d.journal = {}
  <1> SUFFICES ASSUME NEW k \in d.journal PROVE FALSE
    OBVIOUS
  <1>1. PICK i \in DOMAIN q : Ends(q, k, i)
    BY DEF Migrating, Early
  <1>2. i # 1
    BY <1>1 DEF Ends
  <1>3. 1 \in 1..i - 1
    BY <1>1, <1>2, QueueFacts
  <1> QED
    BY <1>1, <1>3 DEF Ends

LEMMA AsideActive ==
  ASSUME NEW d, SoundDisk(d), NEW q, NEW ph, Control(d, q, ph), q # << >>, NEW j \in d.aside,
         q[1][1] \notin {"preflight", "migrations", "resume", "swap", "copyTree"},
         ph \in {"down", "opening", "serving", "refused"}
  PROVE  ph = "opening" /\ d.tree[j] = "active"
  <1>1. d.journal = {j} /\ d.tree[j] \in {"absent", "active"}
    BY DEF SoundDisk, OneMigration
  <1>2. ph = "opening"
    BY <1>1 DEF Control, Phased
  <1>3. d.tree[j] # "absent"
    BY <1>2 DEF Control, Migrating, Early
  <1> QED
    BY <1>1, <1>2, <1>3

LEMMA StillMigrates ==
  ASSUME NEW d, SoundDisk(d), NEW e, NEW q, NEW then, q # << >>, Control(d, q, "opening"),
         e.journal = d.journal, e.aside = d.aside, \A j \in d.aside : e.tree[j] = d.tree[j],
         q[1][1] \notin Turns \cup {"swap", "copyTree"},
         q[1][1] \in Moves => \A h \in DOMAIN then : then[h][1] \in Moves
  PROVE  Migrates(d, e, q, then)
  <1>1. IsQueue(q) /\ Migrating(d, q, "opening")
    BY DEF Control
  <1>2. \A j \in e.aside : e.tree[j] = "active"
    BY AsideActive DEF Turns
  <1>3. \A k \in e.journal : q[1][1] \in Moves
    BY <1>1, NoMigration DEF Turns
  <1>4. \A k : q[1] \notin {<<"endJournal", k>>, <<"resume", k>>}
    <2>1. \A k : <<"endJournal", k>>[1] = "endJournal" /\ <<"resume", k>>[1] = "resume"
      OBVIOUS
    <2> QED
      BY <2>1 DEF Turns
  <1> QED
    BY <1>2, <1>3, <1>4 DEF Migrates, Turns, Early

\* The ordinary step: it changes no migration, puts nothing before the rest, and
\* nothing waits behind it.
LEMMA OrdinaryStep ==
  ASSUME IInv, todo # << >>, doomed = {}, NEW e, NEW partial, Runs(e, partial, << >>),
         SoundDisk(e), e.journal = disk.journal, e.aside = disk.aside,
         \A j \in disk.aside : e.tree[j] = disk.tree[j],
         \A c \in partial : SoundDisk(c) /\ c.journal = disk.journal,
         todo[1][1] \notin Turns \cup {"swap", "copyTree"},
         todo[1][1] \notin Awaited \/ Quiet(disk, e) \/ Undisturbed(disk, e, todo[1], << >>),
         todo[1][1] \in Prepares => \A x : MayFollow(x, todo[1]) => Relies(e, x)
  PROVE  IInv'
  <1>1. SoundDisk(disk) /\ Control(disk, todo, phase)
    BY DEF IInv
  <1>2. phase = "serving" => e.journal = {}
    BY <1>1 DEF Control, Phased
  <1>3. Fits(e, todo[1], << >>, phase)
    BY NothingPut
  <1>4. Undisturbed(disk, e, todo[1], << >>)
    <2>1. CASE Quiet(disk, e)
      BY <1>1, <2>1, QuietDisk, EmptyQueue DEF Undisturbed
    <2> QED
      BY <2>1, NotAwaited
  <1>5. Prepared(e, todo[1], << >>)
    BY DEF Prepared
  <1>6. phase = "opening" => Migrates(disk, e, todo, << >>)
    BY <1>1, StillMigrates, EmptyQueue
  <1> QED
    BY <1>2, <1>3, <1>4, <1>5, <1>6, RunKeeps

-----------------------------------------------------------------------------
(* One lemma for each step: create_project. *)

\* A request finds no old tree.
LEMMA NoAside ==
  ASSUME IInv, todo # << >>, todo[1][1] \in Serves
  PROVE  phase = "serving" /\ disk.journal = {} /\ disk.aside = {}
  BY QueueFacts DEF IInv, Control, Phased, SoundDisk, OneMigration

LEMMA DiskFields ==
  ASSUME NEW d \in Disks
  PROVE  /\ d.tree \in [Projects -> {"absent", "creating", "active", "deleting", "torn"}]
         /\ d.marked \subseteq Projects /\ d.aside \subseteq Projects
         /\ d.journal \subseteq Projects /\ d.revised \subseteq Proposals
         /\ d.workspace \in [Proposals -> {"absent", "creating", "kept", "deleting", "torn"}]
         /\ d.objects \subseteq Objects
  BY DEF Disks

LEMMA StageProjectStep ==
  ASSUME IInv, NEW j \in Projects, StageProject(j)
  PROVE  IInv'
  <1> DEFINE e == [disk EXCEPT !.tree[j] = "creating"]
  <1>1. \/ At("stage", j) /\ disk.tree[j] = "absent" /\ Runs(e, {}, << >>)
        \/ At("stage", j) /\ Ended(disk)
    BY DEF StageProject, Step, Fail, Die, At, Runs, Advanced, Ended
  <1>2. disk \in Disks /\ SoundDisk(disk)
    BY DEF IInv, SoundDisk
  <1>3. /\ e \in Disks /\ e.tree = [disk.tree EXCEPT ![j] = "creating"] /\ e.aside = disk.aside
        /\ e.journal = disk.journal /\ e.revised = disk.revised /\ e.workspace = disk.workspace
        /\ e.objects = disk.objects
    BY <1>2 DEF Disks
  <1> HIDE DEF e
  <1>4. todo # << >> /\ doomed = {} /\ todo[1] = <<"stage", j>> /\ todo[1][1] = "stage"
    BY <1>1 DEF At
  <1>5. phase = "serving" /\ disk.journal = {} /\ disk.aside = {}
    BY <1>4, NoAside DEF Serves
  <1>6. CASE Ended(disk)
    BY <1>2, <1>4, <1>5, <1>6, EndedKeeps
  <1>7. CASE disk.tree[j] = "absent" /\ Runs(e, {}, << >>)
    <2>1. \A k \in Projects : e.tree[k] = IF k = j THEN "creating" ELSE disk.tree[k]
      BY <1>2, <1>3, DiskFields
    <2>2. Fresh(e)
      BY <1>2, <1>3, <1>7, <2>1 DEF SoundDisk, Fresh
    <2>3. Exists(e) = Exists(disk)
      BY <1>3, <1>7, <2>1 DEF Exists, Active
    <2>4. \A k : Needs(e, k) = Needs(disk, k)
      BY <1>3 DEF Needs, Manifests, Workspaces
    <2>5. SoundDisk(e)
      BY <1>2, <1>3, <1>5, <2>2, <2>3, <2>4 DEF SoundDisk, Retained, OneMigration
    <2>6. \A x : MayFollow(x, <<"stage", j>>) => Relies(e, x)
      BY <2>1 DEF MayFollow, Relies
    <2> QED
      BY <1>3, <1>4, <1>5, <1>7, <2>5, <2>6, OrdinaryStep
           DEF Turns, Awaited, Copies, Sweeps
  <1> QED
    BY <1>1, <1>6, <1>7

\* What the invariant says of the step at the head.
LEMMA AtHead ==
  ASSUME IInv, NEW name, NEW s, At(name, s)
  PROVE  /\ todo # << >> /\ doomed = {} /\ todo[1] = <<name, s>> /\ todo[1][1] = name
         /\ todo[1][2] = s /\ SoundDisk(disk) /\ disk \in Disks /\ Control(disk, todo, phase)
         /\ Relies(disk, todo[1]) /\ (name \in DOMAIN Ahead => Holds(disk, todo[1]))
         /\ phase = "serving" => disk.journal = {} /\ disk.aside = {}
         /\ Ended(disk) => IInv'
  <1>1. todo # << >> /\ doomed = {} /\ todo[1] = <<name, s>> /\ SoundDisk(disk) /\ disk \in Disks
        /\ Control(disk, todo, phase)
    BY DEF IInv, At, SoundDisk
  <1>2. 1 \in DOMAIN todo
    BY <1>1, QueueFacts DEF Control
  <1>3. Relies(disk, todo[1]) /\ (todo[1][1] \in DOMAIN Ahead => Holds(disk, todo[1]))
    BY <1>1, <1>2 DEF Control, Ready, Waiting
  <1>4. phase = "serving" => disk.journal = {} /\ disk.aside = {}
    BY <1>1 DEF Control, Phased, SoundDisk, OneMigration
  <1>5. Ended(disk) => IInv'
    BY <1>1, <1>4, EndedKeeps
  <1> QED
    BY <1>1, <1>3, <1>4, <1>5

\* Nothing of a project is lost with a tree that was only staged.
LEMMA StagedTreeGone ==
  ASSUME NEW d, SoundDisk(d), NEW j \in Projects, d.tree[j] = "creating", NEW e \in Disks,
         e.tree = [d.tree EXCEPT ![j] = "absent"], e.aside = d.aside, e.journal = d.journal,
         e.revised = d.revised, e.workspace = d.workspace, e.objects = d.objects
  PROVE  SoundDisk(e)
  <1>1. \A k \in Projects : e.tree[k] = IF k = j THEN "absent" ELSE d.tree[k]
    BY DiskFields DEF SoundDisk
  <1>2. Exists(e) = Exists(d) /\ \A k : Needs(e, k) = Needs(d, k)
    BY <1>1 DEF Exists, Active, Needs, Manifests, Workspaces
  <1>3. Fresh(e)
    BY <1>1 DEF SoundDisk, Fresh
  <1>4. OneMigration(e)
    <2>1. d.aside \subseteq Projects
      BY DiskFields DEF SoundDisk
    <2> QED
      BY <1>1, <2>1 DEF SoundDisk, OneMigration
  <1> QED
    BY <1>2, <1>3, <1>4 DEF SoundDisk, Retained

\* The last step of a request is its answer.
LEMMA AnsweredKeeps ==
  ASSUME IInv, todo # << >>, todo[1][1] \in {"created", "deleted"}, doomed' = doomed,
         disk' = disk, phase' = phase, todo' = Tail(todo)
  PROVE  IInv'
  <1>1. SoundDisk(disk) /\ Control(disk, todo, phase) /\ IsQueue(todo)
    BY DEF IInv, Control
  <1>2. phase = "serving"
    BY <1>1, QueueFacts DEF Control, Phased, Serves
  <1>3. todo' = << >> \o Tail(todo)
    BY <1>1, EmptyQueue, NextHead DEF Control
  <1>4. Undisturbed(disk, disk, todo[1], << >>)
    BY NotAwaited DEF Awaited, Copies, Sweeps
  <1>5. Prepared(disk, todo[1], << >>)
    BY DEF Prepared, Prepares
  <1>6. phase = "serving" => disk.journal = {}
    BY <1>1 DEF Control, Phased
  <1>7. Control(disk, todo', phase)
    BY <1>1, <1>2, <1>3, <1>4, <1>5, <1>6, NothingPut, Advance
  <1>8. todo' # << >> => todo'[1][1] \notin {"publish", "publishWorkspace", "manifest"}
    <2>1. SUFFICES ASSUME todo' # << >>
                   PROVE  todo'[1][1] \notin {"publish", "publishWorkspace", "manifest"}
      OBVIOUS
    <2>2. MayFollow(todo'[1], todo[1])
      BY <1>1, <1>3, <2>1, EmptyQueue, NextHead DEF Control
    <2> QED
      BY <2>2, NothingFollows DEF Prepares
  <1> QED
    BY <1>7, <1>8 DEF IInv, Unneeded

LEMMA FillProjectStep ==
  ASSUME IInv, NEW j \in Projects, FillProject(j)
  PROVE  IInv'
  <1> DEFINE e == [disk EXCEPT !.objects = @ \cup Base[j]]
             partial == {[disk EXCEPT !.objects = @ \cup some] : some \in SUBSET Base[j]}
  <1>0. Step("fill", j, TRUE, e, partial, << >>)
    BY DEF FillProject
  <1>1. At("fill", j) /\ Runs(e, partial, << >>)
    <2> HIDE DEF e, partial
    <2> QED
      BY <1>0, StepRuns
  <1>2. /\ todo # << >> /\ doomed = {} /\ todo[1] = <<"fill", j>> /\ todo[1][1] = "fill"
        /\ todo[1][2] = j /\ SoundDisk(disk) /\ disk \in Disks /\ Relies(disk, todo[1])
    BY <1>1, AtHead
  <1>3. ASSUME NEW some \in SUBSET Objects
        PROVE  Quiet(disk, [disk EXCEPT !.objects = @ \cup some])
    BY <1>2 DEF Disks, Quiet
  <1>4. Base[j] \subseteq Objects
    BY StateRootAssumption
  <1>5. Quiet(disk, e) /\ \A c \in partial : Quiet(disk, c)
    BY <1>3, <1>4
  <1>6. Base[j] \subseteq e.objects
    BY <1>2 DEF Disks
  <1> HIDE DEF e, partial
  <1>7. e.tree[j] = "creating"
    BY <1>2, <1>5 DEF Relies, Quiet
  <1>8. \A x : MayFollow(x, todo[1]) => Relies(e, x)
    BY <1>2, <1>6, <1>7 DEF MayFollow, Relies
  <1>9. SoundDisk(e) /\ \A c \in partial : SoundDisk(c)
    BY <1>2, <1>5, QuietDisk
  <1> QED
    BY <1>1, <1>2, <1>5, <1>8, <1>9, OrdinaryStep DEF Quiet, Turns

LEMMA PublishProjectStep ==
  ASSUME IInv, NEW j \in Projects, PublishProject(j)
  PROVE  IInv'
  <1> DEFINE e == [disk EXCEPT !.tree[j] = "active", !.marked = @ \cup {j}]
  <1>1. At("publish", j) /\ Runs(e, {}, << >>)
    BY DEF PublishProject, Step, Fail, Die, At, Runs, Advanced, Ended
  <1>2. /\ todo # << >> /\ doomed = {} /\ todo[1] = <<"publish", j>> /\ todo[1][1] = "publish"
        /\ todo[1][2] = j /\ SoundDisk(disk) /\ disk \in Disks /\ Relies(disk, todo[1])
    BY <1>1, AtHead
  <1>3. /\ e \in Disks /\ e.tree = [disk.tree EXCEPT ![j] = "active"] /\ e.aside = disk.aside
        /\ e.journal = disk.journal /\ e.revised = disk.revised /\ e.workspace = disk.workspace
        /\ e.objects = disk.objects
    BY <1>2 DEF Disks
  <1> HIDE DEF e
  <1>4. phase = "serving" /\ disk.journal = {} /\ disk.aside = {}
    BY <1>2, NoAside DEF Serves
  <1>5. disk.tree[j] = "creating" /\ Base[j] \subseteq disk.objects
    BY <1>2 DEF Relies
  <1>6. \A k \in Projects : e.tree[k] = IF k = j THEN "active" ELSE disk.tree[k]
    BY <1>2, <1>3, DiskFields
  <1>7. Fresh(e)
    BY <1>2, <1>3, <1>6 DEF SoundDisk, Fresh
  <1>8. \A k : Needs(e, k) = Needs(disk, k)
    BY <1>3 DEF Needs, Manifests, Workspaces
  <1>9. Needs(disk, j) = Base[j]
    <2>1. \A p \in Of(j) : p \notin disk.revised /\ disk.workspace[p] # "kept"
      BY <1>2, <1>4, <1>5 DEF SoundDisk, Fresh
    <2> QED
      BY <2>1 DEF Needs, Manifests, Workspaces
  <1>10. Retained(e)
    <2>1. \A k \in Exists(e) : k = j \/ k \in Exists(disk)
      BY <1>3, <1>6 DEF Exists, Active
    <2> QED
      BY <1>2, <1>3, <1>5, <1>8, <1>9, <2>1 DEF SoundDisk, Retained
  <1>11. SoundDisk(e)
    BY <1>3, <1>4, <1>7, <1>10 DEF SoundDisk, OneMigration
  <1> QED
    BY <1>1, <1>2, <1>3, <1>4, <1>11, OrdinaryStep DEF Turns, Awaited, Copies, Sweeps, Prepares

LEMMA UnstageProjectStep ==
  ASSUME IInv, NEW j \in Projects, UnstageProject(j)
  PROVE  IInv'
  <1> DEFINE e == [disk EXCEPT !.tree[j] = "absent"]
  <1>1. At("unstage", j) /\ Runs(e, {}, << >>)
    BY DEF UnstageProject, Step, Fail, Die, At, Runs, Advanced, Ended
  <1>2. /\ todo # << >> /\ doomed = {} /\ todo[1] = <<"unstage", j>> /\ todo[1][1] = "unstage"
        /\ todo[1][2] = j /\ SoundDisk(disk) /\ disk \in Disks /\ Relies(disk, todo[1])
    BY <1>1, AtHead
  <1>3. /\ e \in Disks /\ e.tree = [disk.tree EXCEPT ![j] = "absent"] /\ e.aside = disk.aside
        /\ e.journal = disk.journal /\ e.revised = disk.revised /\ e.workspace = disk.workspace
        /\ e.objects = disk.objects
    BY <1>2 DEF Disks
  <1> HIDE DEF e
  <1>4. phase = "serving" /\ disk.journal = {} /\ disk.aside = {}
    BY <1>2, NoAside DEF Serves
  <1>5. disk.tree[j] = "creating"
    BY <1>2 DEF Relies
  <1>6. SoundDisk(e)
    BY <1>2, <1>3, <1>4, <1>5, StagedTreeGone
  <1> QED
    BY <1>1, <1>2, <1>3, <1>4, <1>6, OrdinaryStep DEF Turns, Awaited, Copies, Sweeps, Prepares

LEMMA ProjectCreatedStep ==
  ASSUME IInv, NEW j \in Projects, ProjectCreated(j)
  PROVE  IInv'
  <1>1. todo # << >> /\ todo[1] = <<"created", j>> /\ disk' = disk /\ phase' = phase
        /\ doomed' = doomed /\ todo' = Tail(todo)
    BY DEF ProjectCreated
  <1> QED
    BY <1>1, AnsweredKeeps

-----------------------------------------------------------------------------
(* The steps about Proposals. *)

\* A workspace that is not, or no more, under review is needed by nobody.
LEMMA WorkspaceDisk ==
  ASSUME NEW d, SoundDisk(d), NEW p \in Proposals, NEW e \in Disks, e.workspace[p] # "kept",
         \A q \in Proposals : q # p => e.workspace[q] = d.workspace[q],
         e.tree = d.tree, e.aside = d.aside, e.journal = d.journal, e.revised = d.revised,
         e.objects = d.objects
  PROVE  SoundDisk(e)
  <1>1. Exists(e) = Exists(d) /\ \A k : Needs(e, k) \subseteq Needs(d, k)
    BY DEF Exists, Active, Needs, Manifests, Workspaces, Of
  <1>2. Fresh(e)
    BY DEF SoundDisk, Fresh, Of
  <1> QED
    BY <1>1, <1>2 DEF SoundDisk, Retained, OneMigration

LEMMA SweepProposalsStep ==
  ASSUME IInv, NEW j \in Projects, SweepProposals(j)
  PROVE  IInv'
  <1> DEFINE ok == disk.tree[j] = "active"
  <1>1. \/ At("sweep", j) /\ ok /\ Runs(disk, {}, << >>)
        \/ \E p \in Leftovers(disk, j) :
             At("sweep", j) /\ ok /\ Runs(disk, {}, Cleanup(p) \o << <<"sweep", j>> >>)
        \/ At("sweep", j) /\ Ended(disk)
    <2>1. CASE Check("sweep", j, disk.tree[j] = "active", << >>)
      BY <2>1 DEF Check, Step, Fail, Die, At, Runs, Advanced, Ended
    <2>2. CASE \E p \in Leftovers(disk, j) :
                 Check("sweep", j, disk.tree[j] = "active", Cleanup(p) \o << <<"sweep", j>> >>)
      <3>1. PICK p \in Leftovers(disk, j) :
                 Check("sweep", j, disk.tree[j] = "active", Cleanup(p) \o << <<"sweep", j>> >>)
        BY <2>2
      <3> DEFINE then == Cleanup(p) \o << <<"sweep", j>> >>
      <3>0. Check("sweep", j, ok, then)
        BY <3>1
      <3> HIDE DEF then
      <3>2. At("sweep", j) /\ ((ok /\ Runs(disk, {}, then)) \/ Ended(disk))
        BY <3>0 DEF Check, Step, Fail, Die, At, Runs, Advanced, Ended
      <3> QED
        BY <3>2 DEF then
    <2> QED
      BY <2>1, <2>2 DEF SweepProposals
  <1>2. /\ todo # << >> /\ doomed = {} /\ todo[1] = <<"sweep", j>> /\ todo[1][1] = "sweep"
        /\ todo[1][2] = j /\ SoundDisk(disk) /\ Control(disk, todo, phase)
        /\ phase = "serving" => disk.journal = {}
    BY <1>1, AtHead
  <1>3. Quiet(disk, disk)
    BY <1>2, SameDisk
  <1>4. CASE ok /\ Runs(disk, {}, << >>)
    <2>1. \A x : MayFollow(x, todo[1]) => Relies(disk, x)
      BY <1>2, <1>4 DEF MayFollow, Relies
    <2> QED
      BY <1>2, <1>3, <1>4, <2>1, OrdinaryStep DEF Turns
  <1>5. CASE \E p \in Leftovers(disk, j) : ok /\ Runs(disk, {}, Cleanup(p) \o << <<"sweep", j>> >>)
    <2>1. PICK p \in Leftovers(disk, j) : Runs(disk, {}, Cleanup(p) \o << <<"sweep", j>> >>)
      BY <1>5
    <2> DEFINE a == <<"collect", p>>
               b == <<"removeWorkspace", p>>
               c == <<"sweep", j>>
               then == <<a, b, c>>
    <2>2. Cleanup(p) \o << <<"sweep", j>> >> = then
      BY GluedTuples DEF Cleanup
    <2>3. a[1] = "collect" /\ a[2] = p /\ b[1] = "removeWorkspace" /\ b[2] = p /\ c[1] = "sweep"
      OBVIOUS
    <2>4. IsQueue(then) /\ DOMAIN then = {1, 2, 3} /\ Len(then) = 3 /\ then # << >>
          /\ then[1] = a /\ then[2] = b /\ then[3] = c
      BY Tuples
    <2>5. disk.workspace[p] # "kept"
      BY <2>1 DEF Leftovers
    <2> HIDE DEF then, a, b, c
    <2>6. \A i \in DOMAIN then : then[i][1] \in Sweeps \ (Serves \cup Opens \cup DOMAIN Ahead)
      BY <2>3, <2>4, AheadFacts DEF Sweeps, Serves, Opens
    <2>7. MayFollow(b, a) /\ MayFollow(c, b)
      BY <2>3 DEF MayFollow, a, b
    <2>8. Preceded(then)
      BY <2>4, <2>7 DEF Preceded
    <2>9. Waiting(disk, then)
      BY <2>6 DEF Waiting
    <2>10. Fits(disk, todo[1], then, phase)
      BY <1>2, <2>4, <2>6, <2>8, <2>9 DEF Fits, c
    <2>11. Undisturbed(disk, disk, todo[1], then)
      BY <1>2, <2>6, AheadFacts DEF Undisturbed, Copies, Sweeps
    <2>12. Relies(disk, a)
      BY <2>3, <2>5 DEF Relies
    <2>13. Prepared(disk, todo[1], then)
      BY <2>3, <2>4, <2>12 DEF Prepared
    <2>14. phase = "opening" => Migrates(disk, disk, todo, then)
      BY <1>2, <2>6, StillMigrates DEF Turns, Moves, Copies
    <2> QED
      BY <1>2, <2>1, <2>2, <2>10, <2>11, <2>13, <2>14, RunKeeps
  <1> QED
    BY <1>1, <1>2, <1>4, <1>5, AtHead

LEMMA StageWorkspaceStep ==
  ASSUME IInv, NEW p \in Proposals, StageWorkspace(p)
  PROVE  IInv'
  <1> DEFINE e == [disk EXCEPT !.workspace[p] = "creating"]
  <1>1. At("stageWorkspace", p) /\ (Runs(e, {}, << >>) \/ Ended(disk))
    BY DEF StageWorkspace, Step, Fail, Die, At, Runs, Advanced, Ended
  <1>2. /\ todo # << >> /\ doomed = {} /\ todo[1] = <<"stageWorkspace", p>>
        /\ todo[1][1] = "stageWorkspace" /\ todo[1][2] = p /\ SoundDisk(disk) /\ disk \in Disks
        /\ Relies(disk, todo[1])
    BY <1>1, AtHead
  <1>3. /\ e \in Disks /\ e.tree = disk.tree /\ e.aside = disk.aside /\ e.journal = disk.journal
        /\ e.revised = disk.revised /\ e.workspace = [disk.workspace EXCEPT ![p] = "creating"]
        /\ e.objects = disk.objects
    BY <1>2 DEF Disks
  <1> HIDE DEF e
  <1>4. SoundDisk(e) /\ e.workspace[p] = "creating"
    <2>1. \A q \in Proposals : e.workspace[q] = IF q = p THEN "creating" ELSE disk.workspace[q]
      BY <1>2, <1>3, DiskFields
    <2>2. e.workspace[p] = "creating" /\ \A q \in Proposals : q # p => e.workspace[q] = disk.workspace[q]
      BY <2>1
    <2>3. e.workspace[p] # "kept"
      BY <2>2
    <2>4. /\ e \in Disks /\ e.tree = disk.tree /\ e.aside = disk.aside
          /\ e.journal = disk.journal /\ e.revised = disk.revised /\ e.objects = disk.objects
      BY <1>3
    <2>5. SoundDisk(e)
      BY <1>2, <2>2, <2>3, <2>4, WorkspaceDisk
    <2> QED
      BY <2>2, <2>5
  <1>5. e.tree[ProjectOf[p]] = "active"
    BY <1>2, <1>3 DEF Relies
  <1>6. \A x : MayFollow(x, todo[1]) => Relies(e, x)
    BY <1>2, <1>4, <1>5 DEF MayFollow, Relies
  <1>7. CASE Runs(e, {}, << >>)
    BY <1>2, <1>3, <1>4, <1>6, <1>7, OrdinaryStep DEF Turns, Awaited, Copies, Sweeps
  <1> QED
    BY <1>1, <1>7, AtHead

LEMMA FillWorkspaceStep ==
  ASSUME IInv, NEW p \in Proposals, FillWorkspace(p)
  PROVE  IInv'
  <1> DEFINE e == [disk EXCEPT !.objects = @ \cup Site[p]]
             partial == {[disk EXCEPT !.objects = @ \cup some] : some \in SUBSET Site[p]}
  <1>0. Step("fillWorkspace", p, TRUE, e, partial, << >>)
    BY DEF FillWorkspace
  <1>1. At("fillWorkspace", p) /\ Runs(e, partial, << >>)
    <2> HIDE DEF e, partial
    <2> QED
      BY <1>0, StepRuns
  <1>2. /\ todo # << >> /\ doomed = {} /\ todo[1] = <<"fillWorkspace", p>>
        /\ todo[1][1] = "fillWorkspace" /\ todo[1][2] = p /\ SoundDisk(disk) /\ disk \in Disks
        /\ Relies(disk, todo[1])
    BY <1>1, AtHead
  <1>3. ASSUME NEW some \in SUBSET Objects
        PROVE  Quiet(disk, [disk EXCEPT !.objects = @ \cup some])
    BY <1>2 DEF Disks, Quiet
  <1>4. Site[p] \subseteq Objects
    BY StateRootAssumption
  <1>5. Quiet(disk, e) /\ \A c \in partial : Quiet(disk, c)
    BY <1>3, <1>4
  <1>6. Site[p] \subseteq e.objects
    BY <1>2 DEF Disks
  <1> HIDE DEF e, partial
  <1>7. e.tree[ProjectOf[p]] = "active" /\ e.workspace[p] = "creating"
    BY <1>2, <1>5 DEF Relies, Quiet
  <1>8. \A x : MayFollow(x, todo[1]) => Relies(e, x)
    BY <1>2, <1>6, <1>7 DEF MayFollow, Relies
  <1>9. SoundDisk(e) /\ \A c \in partial : SoundDisk(c)
    BY <1>2, <1>5, QuietDisk
  <1> QED
    BY <1>1, <1>2, <1>5, <1>8, <1>9, OrdinaryStep DEF Quiet, Turns

LEMMA PublishWorkspaceStep ==
  ASSUME IInv, NEW p \in Proposals, PublishWorkspace(p)
  PROVE  IInv'
  <1> DEFINE e == [disk EXCEPT !.workspace[p] = "kept"]
  <1>1. At("publishWorkspace", p) /\ Runs(e, {}, << >>)
    BY DEF PublishWorkspace, Step, Fail, Die, At, Runs, Advanced, Ended
  <1>2. /\ todo # << >> /\ doomed = {} /\ todo[1] = <<"publishWorkspace", p>>
        /\ todo[1][1] = "publishWorkspace" /\ todo[1][2] = p /\ SoundDisk(disk) /\ disk \in Disks
        /\ Relies(disk, todo[1])
    BY <1>1, AtHead
  <1>3. /\ e \in Disks /\ e.tree = disk.tree /\ e.aside = disk.aside /\ e.journal = disk.journal
        /\ e.revised = disk.revised /\ e.workspace = [disk.workspace EXCEPT ![p] = "kept"]
        /\ e.objects = disk.objects
    BY <1>2 DEF Disks
  <1> HIDE DEF e
  <1>4. disk.tree[ProjectOf[p]] = "active" /\ Site[p] \subseteq disk.objects
    BY <1>2 DEF Relies
  <1>5. \A q \in Proposals : e.workspace[q] = IF q = p THEN "kept" ELSE disk.workspace[q]
    BY <1>2, <1>3, DiskFields
  <1>6. Fresh(e)
    BY <1>2, <1>3, <1>4, <1>5 DEF SoundDisk, Fresh, Of
  <1>7. Exists(e) = Exists(disk) /\ \A k : Needs(e, k) \subseteq Needs(disk, k) \cup Site[p]
    BY <1>3, <1>5 DEF Exists, Active, Needs, Manifests, Workspaces, Of
  <1>8. SoundDisk(e)
    BY <1>2, <1>3, <1>4, <1>6, <1>7 DEF SoundDisk, Retained, OneMigration
  <1> QED
    BY <1>1, <1>2, <1>3, <1>8, OrdinaryStep DEF Turns, Awaited, Copies, Sweeps, Prepares

LEMMA HideWorkspaceStep ==
  ASSUME IInv, NEW p \in Proposals, HideWorkspace(p)
  PROVE  IInv'
  <1> DEFINE e == [disk EXCEPT !.workspace[p] = "deleting"]
  <1>1. At("hideWorkspace", p) /\ (Runs(e, {}, << >>) \/ Ended(disk))
    BY DEF HideWorkspace, Step, Fail, Die, At, Runs, Advanced, Ended
  <1>2. /\ todo # << >> /\ doomed = {} /\ todo[1] = <<"hideWorkspace", p>>
        /\ todo[1][1] = "hideWorkspace" /\ todo[1][2] = p /\ SoundDisk(disk) /\ disk \in Disks
    BY <1>1, AtHead
  <1>3. /\ e \in Disks /\ e.tree = disk.tree /\ e.aside = disk.aside /\ e.journal = disk.journal
        /\ e.revised = disk.revised /\ e.workspace = [disk.workspace EXCEPT ![p] = "deleting"]
        /\ e.objects = disk.objects
    BY <1>2 DEF Disks
  <1> HIDE DEF e
  <1>4. SoundDisk(e) /\ e.workspace[p] = "deleting"
    <2>1. \A q \in Proposals : e.workspace[q] = IF q = p THEN "deleting" ELSE disk.workspace[q]
      BY <1>2, <1>3, DiskFields
    <2>2. e.workspace[p] = "deleting" /\ \A q \in Proposals : q # p => e.workspace[q] = disk.workspace[q]
      BY <2>1
    <2>3. e.workspace[p] # "kept"
      BY <2>2
    <2>4. /\ e \in Disks /\ e.tree = disk.tree /\ e.aside = disk.aside
          /\ e.journal = disk.journal /\ e.revised = disk.revised /\ e.objects = disk.objects
      BY <1>3
    <2>5. SoundDisk(e)
      BY <1>2, <2>2, <2>3, <2>4, WorkspaceDisk
    <2> QED
      BY <2>2, <2>5
  <1>5. \A x : MayFollow(x, todo[1]) => Relies(e, x)
    BY <1>2, <1>4 DEF MayFollow, Relies
  <1>6. CASE Runs(e, {}, << >>)
    BY <1>2, <1>3, <1>4, <1>5, <1>6, OrdinaryStep DEF Turns, Awaited, Copies, Sweeps
  <1> QED
    BY <1>1, <1>6, AtHead

LEMMA RemoveWorkspaceStep ==
  ASSUME IInv, NEW p \in Proposals, RemoveWorkspace(p)
  PROVE  IInv'
  <1> DEFINE e == [disk EXCEPT !.workspace[p] = "absent"]
             c == [disk EXCEPT !.workspace[p] = "torn"]
             partial == IF disk.workspace[p] = "deleting" THEN {c} ELSE {}
  <1>0. Step("removeWorkspace", p, TRUE, e, partial, << >>)
    BY DEF RemoveWorkspace
  <1>1. At("removeWorkspace", p) /\ Runs(e, partial, << >>)
    <2> HIDE DEF e, partial
    <2> QED
      BY <1>0, StepRuns
  <1>2. /\ todo # << >> /\ doomed = {} /\ todo[1] = <<"removeWorkspace", p>>
        /\ todo[1][1] = "removeWorkspace" /\ todo[1][2] = p /\ SoundDisk(disk) /\ disk \in Disks
    BY <1>1, AtHead
  <1>3. /\ e \in Disks /\ e.tree = disk.tree /\ e.aside = disk.aside /\ e.journal = disk.journal
        /\ e.revised = disk.revised /\ e.objects = disk.objects
        /\ e.workspace = [disk.workspace EXCEPT ![p] = "absent"]
    BY <1>2 DEF Disks
  <1>4. /\ c \in Disks /\ c.tree = disk.tree /\ c.aside = disk.aside /\ c.journal = disk.journal
        /\ c.revised = disk.revised /\ c.objects = disk.objects
        /\ c.workspace = [disk.workspace EXCEPT ![p] = "torn"]
    BY <1>2 DEF Disks
  <1>5. \A d \in partial : d = c
    OBVIOUS
  <1> HIDE DEF e, c, partial
  <1>6. SoundDisk(e)
    <2>1. e.workspace[p] # "kept" /\ \A q \in Proposals : q # p => e.workspace[q] = disk.workspace[q]
      BY <1>2, <1>3, DiskFields
    <2>2. /\ e \in Disks /\ e.tree = disk.tree /\ e.aside = disk.aside
          /\ e.journal = disk.journal /\ e.revised = disk.revised /\ e.objects = disk.objects
      BY <1>3
    <2> QED
      BY <1>2, <2>1, <2>2, WorkspaceDisk
  <1>7. SoundDisk(c)
    <2>1. c.workspace[p] # "kept" /\ \A q \in Proposals : q # p => c.workspace[q] = disk.workspace[q]
      BY <1>2, <1>4, DiskFields
    <2>2. /\ c \in Disks /\ c.tree = disk.tree /\ c.aside = disk.aside
          /\ c.journal = disk.journal /\ c.revised = disk.revised /\ c.objects = disk.objects
      BY <1>4
    <2> QED
      BY <1>2, <2>1, <2>2, WorkspaceDisk
  <1>8. Undisturbed(disk, e, todo[1], << >>)
    BY <1>2, <1>3, AheadFacts, EmptyQueue DEF Undisturbed, Holds
  <1>9. todo[1][1] \notin Prepares /\ todo[1][1] \notin Turns \cup {"swap", "copyTree"}
    BY <1>2 DEF Prepares, Turns
  <1>10. \A d \in partial : SoundDisk(d) /\ d.journal = disk.journal
    BY <1>4, <1>5, <1>7
  <1> QED
    BY <1>1, <1>2, <1>3, <1>6, <1>8, <1>9, <1>10, OrdinaryStep

LEMMA FillRevisionStep ==
  ASSUME IInv, NEW p \in Proposals, FillRevision(p)
  PROVE  IInv'
  <1> DEFINE e == [disk EXCEPT !.objects = @ \cup Site[p]]
  <1>0. Step("fillRevision", p, disk.tree[ProjectOf[p]] = "active", e, {}, << >>)
    BY DEF FillRevision
  <1>1. At("fillRevision", p)
        /\ ((disk.tree[ProjectOf[p]] = "active" /\ Runs(e, {}, << >>)) \/ Ended(disk))
    <2> HIDE DEF e
    <2> QED
      BY <1>0 DEF Step, Fail, Die, At, Runs, Advanced, Ended
  <1>2. /\ todo # << >> /\ doomed = {} /\ todo[1] = <<"fillRevision", p>>
        /\ todo[1][1] = "fillRevision" /\ todo[1][2] = p /\ SoundDisk(disk) /\ disk \in Disks
    BY <1>1, AtHead
  <1>3. Site[p] \subseteq Objects
    BY StateRootAssumption
  <1>4. Quiet(disk, e) /\ Site[p] \subseteq e.objects
    BY <1>2, <1>3 DEF Disks, Quiet
  <1> HIDE DEF e
  <1>5. SoundDisk(e)
    BY <1>2, <1>4, QuietDisk
  <1>6. CASE disk.tree[ProjectOf[p]] = "active" /\ Runs(e, {}, << >>)
    <2>1. \A x : MayFollow(x, todo[1]) => Relies(e, x)
      BY <1>2, <1>4, <1>6 DEF MayFollow, Relies, Quiet
    <2> QED
      BY <1>2, <1>4, <1>5, <1>6, <2>1, OrdinaryStep DEF Quiet, Turns
  <1> QED
    BY <1>1, <1>6, AtHead

LEMMA WriteManifestStep ==
  ASSUME IInv, NEW p \in Proposals, WriteManifest(p)
  PROVE  IInv'
  <1> DEFINE e == [disk EXCEPT !.revised = @ \cup {p}]
             c == [disk EXCEPT !.temporary = @ \cup {ProjectOf[p]}]
             partial == {c}
  <1>0. Step("manifest", p, TRUE, e, partial, << >>)
    BY DEF WriteManifest
  <1>1. At("manifest", p) /\ Runs(e, partial, << >>)
    <2> HIDE DEF e, partial
    <2> QED
      BY <1>0, StepRuns
  <1>2. /\ todo # << >> /\ doomed = {} /\ todo[1] = <<"manifest", p>> /\ todo[1][1] = "manifest"
        /\ todo[1][2] = p /\ SoundDisk(disk) /\ disk \in Disks /\ Relies(disk, todo[1])
        /\ Holds(disk, todo[1])
    BY <1>1, AtHead, AheadFacts
  <1>3. /\ e \in Disks /\ e.tree = disk.tree /\ e.aside = disk.aside /\ e.journal = disk.journal
        /\ e.revised = disk.revised \cup {p} /\ e.objects = disk.objects
        /\ e.workspace = disk.workspace
    BY <1>2 DEF Disks
  <1>4. Quiet(disk, c)
    <2>1. ProjectOf[p] \in Projects
      BY StateRootAssumption
    <2> QED
      BY <1>2, <2>1 DEF Disks, Quiet
  <1>5. \A d \in partial : SoundDisk(d) /\ d.journal = disk.journal
    <2>1. SoundDisk(c) /\ c.journal = disk.journal
      <3> HIDE DEF c
      <3> QED
        BY <1>2, <1>4, QuietDisk DEF Quiet
    <2> QED
      BY <2>1
  <1> HIDE DEF e, c, partial
  <1>6. disk.tree[ProjectOf[p]] = "active" /\ Site[p] \subseteq disk.objects
    BY <1>2 DEF Relies
  <1>7. Fresh(e)
    BY <1>2, <1>3, <1>6 DEF SoundDisk, Fresh, Of
  <1>8. Exists(e) = Exists(disk) /\ \A k : Needs(e, k) \subseteq Needs(disk, k) \cup Site[p]
    BY <1>3 DEF Exists, Active, Needs, Manifests, Workspaces, Of
  <1>9. SoundDisk(e)
    BY <1>2, <1>3, <1>6, <1>7, <1>8 DEF SoundDisk, Retained, OneMigration
  <1> QED
    BY <1>1, <1>2, <1>3, <1>5, <1>9, OrdinaryStep DEF Turns, Awaited, Copies, Sweeps, Prepares

\* The collection of objects takes nothing that an existing project needs.
LEMMA CollectKeeps ==
  ASSUME IInv, NEW name, NEW s, todo # << >>, todo[1] = <<name, s>>, doomed = {},
         name \in {"collect", "collectProject"}, NEW candidates,
         disk' = disk, doomed' = (candidates \ Reachable(disk)) \cap disk.objects,
         todo' = Tail(todo), phase' = phase,
         name = "collect" => disk.workspace[s] # "kept"
  PROVE  IInv'
  <1>1. /\ todo[1][1] = name /\ todo[1][2] = s /\ SoundDisk(disk) /\ Control(disk, todo, phase)
        /\ phase = "serving" => disk.journal = {}
    BY AtHead DEF At
  <1>2. IsQueue(todo) /\ Preceded(todo) /\ todo' = << >> \o Tail(todo)
    BY <1>1, EmptyQueue, NextHead DEF Control
  <1>3. \A j \in disk.aside : disk.tree[j] = "active"
    BY <1>1, AsideActive DEF IInv
  <1>4. \A j \in Exists(disk) : Needs(disk, j) \subseteq Reachable(disk)
    <2>1. \A j \in Exists(disk) : j \in Active(disk)
      BY <1>1, <1>3, DiskFields DEF Exists, Active, SoundDisk
    <2> QED
      BY <2>1 DEF Reachable, Needs
  <1>5. todo' # << >> => MayFollow(todo'[1], todo[1])
    BY <1>2, EmptyQueue, NextHead
  <1>6. todo' # << >> => todo'[1][1] \notin {"publish", "publishWorkspace", "manifest"}
    <2>1. \A n, x : todo[1] = <<n, x>> => n \in {"collect", "collectProject"}
      OBVIOUS
    <2> QED
      BY <1>5, <2>1 DEF MayFollow
  <1>7. Unneeded'
    BY <1>4, <1>6 DEF Unneeded
  <1>8. Quiet(disk, disk)
    BY <1>1, SameDisk
  <1>9. Undisturbed(disk, disk, todo[1], << >>)
    BY EmptyQueue DEF Undisturbed
  <1>10. Prepared(disk, todo[1], << >>)
    <2>1. \A x : todo[1][1] \in Prepares /\ MayFollow(x, todo[1]) => Relies(disk, x)
      BY <1>1 DEF MayFollow, Relies, Prepares
    <2> QED
      BY <2>1 DEF Prepared
  <1>11. phase = "opening" => Migrates(disk, disk, todo, << >>)
    BY <1>1, StillMigrates, EmptyQueue DEF Turns
  <1>12. Control(disk, << >> \o Tail(todo), phase)
    BY <1>1, <1>9, <1>10, <1>11, NothingPut, Advance
  <1> QED
    BY <1>1, <1>2, <1>7, <1>12 DEF IInv

LEMMA CollectWorkspaceStep ==
  ASSUME IInv, NEW p \in Proposals, CollectWorkspace(p)
  PROVE  IInv'
  <1>1. PICK files : Collect("collect", p, disk.workspace[p] # "torn", files)
    BY DEF CollectWorkspace
  <1>2. \/ At("collect", p) /\ Ended(disk)
        \/ /\ At("collect", p) /\ disk' = disk /\ todo' = Tail(todo) /\ phase' = phase
           /\ doomed' = (files \ Reachable(disk)) \cap disk.objects
    BY <1>1 DEF Collect, Fail, At, Ended
  <1>3. todo # << >> /\ doomed = {} /\ todo[1] = <<"collect", p>> /\ disk.workspace[p] # "kept"
    BY <1>2, AtHead DEF Relies
  <1> QED
    BY <1>2, <1>3, AtHead, CollectKeeps

-----------------------------------------------------------------------------
(* The deletion of a project. *)

\* A step that only puts steps before the rest.
LEMMA CheckStep ==
  ASSUME IInv, NEW then, todo # << >>, doomed = {}, Runs(disk, {}, then), then # << >>,
         Fits(disk, todo[1], then, phase), Undisturbed(disk, disk, todo[1], then),
         Relies(disk, then[1]), then[1][1] \notin {"preflight", "migrations"},
         todo[1][1] \notin Turns \cup {"swap", "copyTree"},
         todo[1][1] \in Moves => \A h \in DOMAIN then : then[h][1] \in Moves
  PROVE  IInv'
  <1>1. SoundDisk(disk) /\ Control(disk, todo, phase)
    BY DEF IInv
  <1>2. phase = "serving" => disk.journal = {}
    BY <1>1 DEF Control, Phased
  <1>3. Prepared(disk, todo[1], then)
    BY DEF Prepared
  <1>4. phase = "opening" => Migrates(disk, disk, todo, then)
    BY <1>1, StillMigrates
  <1> QED
    BY <1>1, <1>2, <1>3, <1>4, RunKeeps

LEMMA ValidateProjectStep ==
  ASSUME IInv, NEW j \in Projects, ValidateProject(j)
  PROVE  IInv'
  <1> DEFINE a == <<"sweep", j>>
             then == <<a>>
  <1>0. Check("validate", j, Valid(disk, j), then)
    BY DEF ValidateProject
  <1>1. At("validate", j) /\ (Runs(disk, {}, then) \/ Ended(disk))
    <2> HIDE DEF then
    <2> QED
      BY <1>0 DEF Check, Step, Fail, Die, At, Runs, Advanced, Ended
  <1>2. todo # << >> /\ doomed = {} /\ todo[1][1] = "validate"
    BY <1>1, AtHead
  <1>3. IsQueue(then) /\ DOMAIN then = {1} /\ Len(then) = 1 /\ then # << >> /\ then[1] = a
        /\ a[1] = "sweep"
    BY Tuples
  <1> HIDE DEF a, then
  <1>4. Preceded(then) /\ Waiting(disk, then)
    BY <1>3, AheadFacts DEF Preceded, Waiting
  <1>5. Fits(disk, todo[1], then, phase)
    BY <1>2, <1>3, <1>4 DEF Fits, Prepares, Serves, Opens
  <1>6. Undisturbed(disk, disk, todo[1], then)
    BY <1>2, <1>3, AheadFacts DEF Undisturbed, Copies, Sweeps
  <1>7. Relies(disk, a)
    BY <1>3 DEF Relies
  <1>8. CASE Runs(disk, {}, then)
    BY <1>2, <1>3, <1>5, <1>6, <1>7, <1>8, CheckStep DEF Turns, Moves, Copies, Sweeps
  <1> QED
    BY <1>1, <1>8, AtHead

LEMMA HideProjectStep ==
  ASSUME IInv, NEW j \in Projects, HideProject(j)
  PROVE  IInv'
  <1> DEFINE e == [disk EXCEPT !.tree[j] = "deleting"]
             ok == /\ j \notin disk.journal
                   /\ OthersWhole(disk, j) /\ disk.backup[j] \in {"absent", "kept"}
  <1>0. Step("hide", j, ok, e, {}, << >>)
    BY DEF HideProject
  <1>1. At("hide", j) /\ (Runs(e, {}, << >>) \/ Ended(disk))
    <2> HIDE DEF e, ok
    <2> QED
      BY <1>0 DEF Step, Fail, Die, At, Runs, Advanced, Ended
  <1>2. /\ todo # << >> /\ doomed = {} /\ todo[1] = <<"hide", j>> /\ todo[1][1] = "hide"
        /\ SoundDisk(disk) /\ disk \in Disks
    BY <1>1, AtHead
  <1>3. /\ e \in Disks /\ e.tree = [disk.tree EXCEPT ![j] = "deleting"] /\ e.aside = disk.aside
        /\ e.journal = disk.journal /\ e.revised = disk.revised /\ e.workspace = disk.workspace
        /\ e.objects = disk.objects
    BY <1>2 DEF Disks
  <1> HIDE DEF e, ok
  <1>4. disk.aside = {}
    BY <1>2, NoAside DEF Serves
  <1>5. \A k \in Projects : e.tree[k] = IF k = j THEN "deleting" ELSE disk.tree[k]
    BY <1>2, <1>3, DiskFields
  <1>6. Fresh(e)
    BY <1>2, <1>3, <1>5 DEF SoundDisk, Fresh
  <1>7. \A k \in Exists(e) : k \in Exists(disk) /\ Needs(e, k) = Needs(disk, k)
    BY <1>3, <1>5 DEF Exists, Active, Needs, Manifests, Workspaces
  <1>8. SoundDisk(e)
    BY <1>2, <1>3, <1>4, <1>6, <1>7 DEF SoundDisk, Retained, OneMigration
  <1>9. CASE Runs(e, {}, << >>)
    BY <1>2, <1>3, <1>4, <1>8, <1>9, OrdinaryStep DEF Turns, Awaited, Copies, Sweeps, Prepares
  <1> QED
    BY <1>1, <1>9, AtHead

LEMMA FinishDeletionStep ==
  ASSUME IInv, NEW j \in Projects, FinishDeletion(j)
  PROVE  IInv'
  <1> DEFINE a == <<"collectProject", j>>
             b == <<"hideBackup", j>>
             c == <<"removeBackup", j>>
             f == <<"removeTree", j>>
             then == <<a, b, c, f>>
             ok == disk.tree[j] = "deleting"
  <1>0. Check("finish", j, ok, then)
    BY DEF FinishDeletion
  <1>1. At("finish", j) /\ ((ok /\ Runs(disk, {}, then)) \/ Ended(disk))
    <2> HIDE DEF then
    <2> QED
      BY <1>0 DEF Check, Step, Fail, Die, At, Runs, Advanced, Ended
  <1>2. todo # << >> /\ doomed = {} /\ todo[1][1] = "finish"
    BY <1>1, AtHead
  <1>3. /\ IsQueue(then) /\ DOMAIN then = {1, 2, 3, 4} /\ Len(then) = 4 /\ then # << >>
        /\ then[1] = a /\ then[2] = b /\ then[3] = c /\ then[4] = f
    BY Tuples
  <1>4. a[1] = "collectProject" /\ b[1] = "hideBackup" /\ c[1] = "removeBackup"
        /\ f[1] = "removeTree" /\ f[2] = j
    OBVIOUS
  <1> HIDE DEF a, b, c, f, then
  <1>5. Preceded(then)
    <2>1. MayFollow(b, a) /\ MayFollow(c, b) /\ MayFollow(f, c)
      BY <1>4 DEF MayFollow
    <2> QED
      BY <1>3, <2>1 DEF Preceded
  <1>6. CASE ok /\ Runs(disk, {}, then)
    <2>1. Holds(disk, f)
      BY <1>4, <1>6 DEF Holds
    <2>2. Waiting(disk, then)
      <3>1. \A i \in DOMAIN then : then[i][1] \in DOMAIN Ahead => i = 4
        BY <1>3, <1>4, AheadFacts
      <3>2. \A h \in 1..3 : then[h][1] \in Ahead["removeTree"]
        BY <1>3, <1>4, AheadFacts
      <3> QED
        BY <1>3, <1>4, <2>1, <3>1, <3>2 DEF Waiting
    <2>3. Fits(disk, todo[1], then, phase)
      BY <1>2, <1>3, <1>4, <1>5, <2>2 DEF Fits, Prepares, Serves, Opens
    <2>4. Undisturbed(disk, disk, todo[1], then)
      BY <1>2, NotAwaited DEF Awaited, Copies, Sweeps
    <2>5. Relies(disk, a)
      BY <1>4 DEF Relies
    <2> QED
      BY <1>2, <1>3, <1>4, <1>6, <2>3, <2>4, <2>5, CheckStep DEF Turns, Moves, Copies, Sweeps
  <1> QED
    BY <1>1, <1>6, AtHead

LEMMA CollectProjectStep ==
  ASSUME IInv, NEW j \in Projects, CollectProject(j)
  PROVE  IInv'
  <1> DEFINE candidates == Manifests(disk, j) \cup Workspaces(disk, j, {"kept", "deleting"})
             ok == j \notin disk.temporary /\ \A p \in Of(j) : disk.workspace[p] # "torn"
  <1>0. Collect("collectProject", j, ok, candidates)
    BY DEF CollectProject
  <1> HIDE DEF candidates, ok
  <1>1. \/ At("collectProject", j) /\ Ended(disk)
        \/ /\ At("collectProject", j) /\ disk' = disk /\ todo' = Tail(todo) /\ phase' = phase
           /\ doomed' = (candidates \ Reachable(disk)) \cap disk.objects
    BY <1>0 DEF Collect, Fail, At, Ended
  <1>2. todo # << >> /\ doomed = {} /\ todo[1] = <<"collectProject", j>>
    BY <1>1, AtHead
  <1>3. CASE Ended(disk)
    BY <1>1, <1>3, AtHead
  <1>4. CASE /\ disk' = disk /\ todo' = Tail(todo) /\ phase' = phase
             /\ doomed' = (candidates \ Reachable(disk)) \cap disk.objects
    <2>1. "collectProject" \in {"collect", "collectProject"} /\ "collectProject" # "collect"
      OBVIOUS
    <2> QED
      BY <1>2, <1>4, <2>1, CollectKeeps
  <1> QED
    BY <1>1, <1>3, <1>4

LEMMA HideBackupStep ==
  ASSUME IInv, NEW j \in Projects, HideBackup(j)
  PROVE  IInv'
  <1> DEFINE e == [disk EXCEPT !.backup[j] = IF @ = "absent" THEN "absent" ELSE "deleting"]
             ok == OthersWhole(disk, j) /\ disk.backup[j] \notin {"creating", "torn"}
  <1>0. Step("hideBackup", j, ok, e, {}, << >>)
    BY DEF HideBackup
  <1>1. At("hideBackup", j) /\ (Runs(e, {}, << >>) \/ Ended(disk))
    <2> HIDE DEF e, ok
    <2> QED
      BY <1>0 DEF Step, Fail, Die, At, Runs, Advanced, Ended
  <1>2. /\ todo # << >> /\ doomed = {} /\ todo[1][1] = "hideBackup" /\ SoundDisk(disk)
        /\ disk \in Disks
    BY <1>1, AtHead
  <1>3. Quiet(disk, e)
    BY <1>2 DEF Disks, Quiet
  <1> HIDE DEF e
  <1>4. CASE Runs(e, {}, << >>)
    BY <1>2, <1>3, <1>4, QuietDisk, OrdinaryStep DEF Quiet, Turns, Prepares
  <1> QED
    BY <1>1, <1>4, AtHead

LEMMA RemoveBackupStep ==
  ASSUME IInv, NEW j \in Projects, RemoveBackup(j)
  PROVE  IInv'
  <1> DEFINE e == [disk EXCEPT !.backup[j] = "absent"]
             c == [disk EXCEPT !.backup[j] = "torn"]
             partial == IF disk.backup[j] = "deleting" THEN {c} ELSE {}
  <1>0. Step("removeBackup", j, TRUE, e, partial, << >>)
    BY DEF RemoveBackup
  <1>1. At("removeBackup", j) /\ Runs(e, partial, << >>)
    <2> HIDE DEF e, partial
    <2> QED
      BY <1>0, StepRuns
  <1>2. /\ todo # << >> /\ doomed = {} /\ todo[1][1] = "removeBackup" /\ SoundDisk(disk)
        /\ disk \in Disks
    BY <1>1, AtHead
  <1>3. Quiet(disk, e) /\ Quiet(disk, c)
    BY <1>2 DEF Disks, Quiet
  <1>4. \A d \in partial : d = c
    OBVIOUS
  <1> HIDE DEF e, c, partial
  <1>5. SoundDisk(e) /\ \A d \in partial : SoundDisk(d) /\ d.journal = disk.journal
    BY <1>2, <1>3, <1>4, QuietDisk DEF Quiet
  <1> QED
    BY <1>1, <1>2, <1>3, <1>5, OrdinaryStep DEF Quiet, Turns, Prepares

LEMMA ProjectDeletedStep ==
  ASSUME IInv, NEW j \in Projects, ProjectDeleted(j)
  PROVE  IInv'
  <1>1. todo # << >> /\ todo[1] = <<"deleted", j>> /\ disk' = disk /\ phase' = phase
        /\ doomed' = doomed /\ todo' = Tail(todo)
    BY DEF ProjectDeleted
  <1> QED
    BY <1>1, AnsweredKeeps

LEMMA RemoveTreeStep ==
  ASSUME IInv, NEW j \in Projects, RemoveTree(j)
  PROVE  IInv'
  <1> DEFINE e == [disk EXCEPT !.tree[j] = "absent", !.marked = @ \ {j}, !.revised = @ \ Of(j),
                               !.workspace = [p \in Proposals |-> IF p \in Of(j) THEN "absent" ELSE @[p]]]
             c == [disk EXCEPT !.tree[j] = "torn"]
             partial == {c}
  <1>0. Step("removeTree", j, TRUE, e, partial, << >>)
    BY DEF RemoveTree
  <1>1. At("removeTree", j) /\ Runs(e, partial, << >>)
    <2> HIDE DEF e, partial
    <2> QED
      BY <1>0, StepRuns
  <1>2. /\ todo # << >> /\ doomed = {} /\ todo[1][1] = "removeTree" /\ todo[1][2] = j
        /\ SoundDisk(disk) /\ disk \in Disks /\ Holds(disk, todo[1])
    BY <1>1, AtHead, AheadFacts
  <1>3. disk.tree[j] = "deleting"
    BY <1>2 DEF Holds
  <1>4. /\ e \in Disks /\ e.tree = [disk.tree EXCEPT ![j] = "absent"] /\ e.aside = disk.aside
        /\ e.journal = disk.journal /\ e.revised = disk.revised \ Of(j)
        /\ e.objects = disk.objects
        /\ e.workspace = [p \in Proposals |-> IF p \in Of(j) THEN "absent" ELSE disk.workspace[p]]
    BY <1>2 DEF Disks
  <1>5. /\ c \in Disks /\ c.tree = [disk.tree EXCEPT ![j] = "torn"] /\ c.aside = disk.aside
        /\ c.journal = disk.journal /\ c.revised = disk.revised /\ c.objects = disk.objects
        /\ c.workspace = disk.workspace
    BY <1>2 DEF Disks
  <1>6. \A d \in partial : d = c
    OBVIOUS
  <1> HIDE DEF e, c, partial
  <1>7. \A k \in Projects : /\ e.tree[k] = IF k = j THEN "absent" ELSE disk.tree[k]
                            /\ c.tree[k] = IF k = j THEN "torn" ELSE disk.tree[k]
    BY <1>2, <1>4, <1>5, DiskFields
  <1>8. j \notin disk.aside /\ disk.aside \subseteq Projects
    BY <1>2, <1>3, DiskFields DEF SoundDisk, OneMigration
  <1>9. /\ Exists(e) = Exists(disk) /\ Exists(c) = Exists(disk) /\ j \notin Exists(disk)
        /\ Exists(disk) \subseteq Projects
    BY <1>3, <1>4, <1>5, <1>7, <1>8 DEF Exists, Active
  <1>10. ASSUME NEW k \in Projects, k # j
         PROVE  Needs(e, k) = Needs(disk, k) /\ Needs(c, k) = Needs(disk, k)
    <2>1. \A p \in Of(k) : p \notin Of(j) /\ e.workspace[p] = disk.workspace[p]
      BY <1>4, <1>10 DEF Of
    <2>2. Of(k) \cap e.revised = Of(k) \cap disk.revised
      BY <1>4, <2>1
    <2>3. {p \in Of(k) : e.workspace[p] \in {"kept"}} = {p \in Of(k) : disk.workspace[p] \in {"kept"}}
      BY <2>1
    <2>4. Needs(e, k) = Needs(disk, k)
      BY <2>2, <2>3 DEF Needs, Manifests, Workspaces
    <2> QED
      BY <2>4, <1>5 DEF Needs, Manifests, Workspaces
  <1>11. Fresh(e)
    <2>1. SUFFICES ASSUME NEW k \in Projects, e.tree[k] \in {"absent", "creating"}, k \notin e.aside,
                          NEW p \in Of(k)
                   PROVE  p \notin e.revised /\ e.workspace[p] # "kept"
      BY DEF Fresh
    <2>2. CASE k = j
      BY <2>1, <2>2, <1>4 DEF Of
    <2>3. CASE k # j
      <3>1. p \notin disk.revised /\ disk.workspace[p] # "kept"
        BY <2>1, <2>3, <1>2, <1>4, <1>7 DEF SoundDisk, Fresh
      <3> QED
        BY <3>1, <1>4 DEF Of
    <2> QED
      BY <2>2, <2>3
  <1>12. Fresh(c)
    BY <1>2, <1>5, <1>7 DEF SoundDisk, Fresh
  <1>13. OneMigration(e) /\ OneMigration(c)
    BY <1>2, <1>4, <1>5, <1>7, <1>8 DEF SoundDisk, OneMigration
  <1>14. SoundDisk(e) /\ SoundDisk(c)
    BY <1>2, <1>4, <1>5, <1>9, <1>10, <1>11, <1>12, <1>13 DEF SoundDisk, Retained
  <1>15. \A d \in partial : SoundDisk(d) /\ d.journal = disk.journal
    BY <1>5, <1>6, <1>14
  <1>16. \A k \in disk.aside : e.tree[k] = disk.tree[k]
    BY <1>7, <1>8
  <1>17. todo[1][1] \notin Turns \cup {"swap", "copyTree"} /\ todo[1][1] \notin Awaited
         /\ todo[1][1] \notin Prepares
    BY <1>2 DEF Turns, Awaited, Copies, Sweeps, Prepares
  <1> QED
    BY <1>1, <1>2, <1>4, <1>14, <1>15, <1>16, <1>17, OrdinaryStep

-----------------------------------------------------------------------------
(* The start, but for migrations. *)

LEMMA CleanOrphansStep ==
  ASSUME IInv, CleanOrphans
  PROVE  IInv'
  <1> DEFINE e == [disk EXCEPT !.migrating = [j \in Projects |-> "absent"],
                               !.backup = [j \in Projects |->
                                             IF @[j] = "creating" THEN "absent" ELSE @[j]]]
  <1>0. Step("orphans", "all", disk.aside = {}, e, {}, << >>)
    BY DEF CleanOrphans
  <1>1. At("orphans", "all") /\ (Runs(e, {}, << >>) \/ Ended(disk))
    <2> HIDE DEF e
    <2> QED
      BY <1>0 DEF Step, Fail, Die, At, Runs, Advanced, Ended
  <1>2. /\ todo # << >> /\ doomed = {} /\ todo[1][1] = "orphans" /\ SoundDisk(disk)
        /\ disk \in Disks
    BY <1>1, AtHead
  <1>3. Quiet(disk, e)
    BY <1>2 DEF Disks, Quiet
  <1> HIDE DEF e
  <1>4. CASE Runs(e, {}, << >>)
    BY <1>2, <1>3, <1>4, QuietDisk, OrdinaryStep DEF Quiet, Turns, Prepares
  <1> QED
    BY <1>1, <1>4, AtHead

LEMMA CheckHiddenBackupsStep ==
  ASSUME IInv, CheckHiddenBackups
  PROVE  IInv'
  <1>1. At("hidden", "all") /\ (Runs(disk, {}, << >>) \/ Ended(disk))
    BY DEF CheckHiddenBackups, Check, Step, Fail, Die, At, Runs, Advanced, Ended
  <1>2. todo # << >> /\ doomed = {} /\ todo[1][1] = "hidden" /\ SoundDisk(disk)
    BY <1>1, AtHead
  <1>3. Quiet(disk, disk)
    BY <1>2, SameDisk
  <1>4. CASE Runs(disk, {}, << >>)
    BY <1>2, <1>3, <1>4, OrdinaryStep DEF Turns, Prepares
  <1> QED
    BY <1>1, <1>4, AtHead

\* A step for each of some projects.
LEMMA EachFacts ==
  ASSUME NEW name, NEW S \in SUBSET Projects
  PROVE  IsQueue(Each(name, S)) /\ \A i \in DOMAIN Each(name, S) : Each(name, S)[i][1] = name
  <1>1. Cardinality(S) \in Nat
    BY StateRootAssumption, FS_Subset, FS_CardinalityType
  <1> DEFINE f == [i \in 1..Cardinality(S) |->
                     <<name, CHOOSE j \in S : Cardinality({k \in S : Rank[k] < Rank[j]}) = i - 1>>]
             R == {f[i] : i \in 1..Cardinality(S)}
  <1>2. f \in Seq(R)
    <2>1. f \in [1..Cardinality(S) -> R]
      OBVIOUS
    <2> HIDE DEF f, R
    <2> QED
      BY <1>1, <2>1
  <1>3. DOMAIN f = 1..Cardinality(S) /\ \A i \in 1..Cardinality(S) : f[i][1] = name
    OBVIOUS
  <1> QED
    BY <1>2, <1>3 DEF Each, IsQueue

\* Nothing hinders the deletions a start has to finish, or the loading of a
\* project, and a migration is over before.
LEMMA EachStep ==
  ASSUME IInv, NEW name, name \in {"finish", "load"}, NEW S \in SUBSET Projects,
         todo # << >>, doomed = {}, todo[1][1] \in {"deletions", "projects"},
         Runs(disk, {}, Each(name, S))
  PROVE  IInv'
  <1> DEFINE then == Each(name, S)
  <1>1. IsQueue(then) /\ \A i \in DOMAIN then : then[i][1] = name
    BY EachFacts
  <1> HIDE DEF then
  <1>2. SoundDisk(disk) /\ Control(disk, todo, phase) /\ IsQueue(todo)
    BY DEF IInv, Control
  <1>3. phase = "opening"
    BY <1>2, QueueFacts DEF Control, Phased, Opens
  <1>4. CASE then = << >>
    BY <1>2, <1>4, SameDisk, OrdinaryStep DEF then, Turns, Prepares
  <1>5. CASE then # << >>
    <2>1. 1 \in DOMAIN then /\ Len(then) \in DOMAIN then
      BY <1>1, <1>5, QueueFacts
    <2>2. \A i \in DOMAIN then : i > 1 => i - 1 \in DOMAIN then
      BY <1>1, QueueFacts
    <2>3. Preceded(then)
      BY <1>1, <2>2 DEF Preceded, MayFollow
    <2>4. Waiting(disk, then)
      BY <1>1, AheadFacts DEF Waiting
    <2>5. Fits(disk, todo[1], then, phase)
      BY <1>1, <1>3, <2>1, <2>3, <2>4 DEF Fits, Prepares, Serves, Opens
    <2>6. Undisturbed(disk, disk, todo[1], then)
      BY NotAwaited DEF Awaited, Copies, Sweeps
    <2>7. then[1][1] = name
      BY <1>1, <2>1
    <2>8. Relies(disk, then[1]) /\ then[1][1] \notin {"preflight", "migrations"}
      BY <2>7 DEF Relies
    <2>9. todo[1][1] \notin Moves /\ todo[1][1] \notin Turns \cup {"swap", "copyTree"}
      BY DEF Turns, Moves, Copies, Sweeps
    <2>10. Runs(disk, {}, then)
      BY DEF then
    <2> QED
      BY <1>5, <2>5, <2>6, <2>8, <2>9, <2>10, CheckStep
  <1> QED
    BY <1>4, <1>5

LEMMA RecoverDeletionsStep ==
  ASSUME IInv, RecoverDeletions
  PROVE  IInv'
  <1> DEFINE S == {j \in Projects : disk.tree[j] = "deleting"}
             then == Each("finish", S)
  <1>0. Check("deletions", "all", TRUE, then)
    BY DEF RecoverDeletions
  <1> HIDE DEF then
  <1>1. At("deletions", "all") /\ Runs(disk, {}, then)
    BY <1>0, StepRuns DEF Check
  <1>2. todo # << >> /\ doomed = {} /\ todo[1][1] = "deletions"
    BY <1>1, AtHead
  <1> QED
    BY <1>1, <1>2, EachStep DEF then

LEMMA ListProjectsStep ==
  ASSUME IInv, ListProjects
  PROVE  IInv'
  <1> DEFINE S == {j \in Projects : disk.tree[j] # "absent"}
             then == Each("load", S)
  <1>0. Check("projects", "all", TRUE, then)
    BY DEF ListProjects
  <1> HIDE DEF then
  <1>1. At("projects", "all") /\ Runs(disk, {}, then)
    BY <1>0, StepRuns DEF Check
  <1>2. todo # << >> /\ doomed = {} /\ todo[1][1] = "projects"
    BY <1>1, AtHead
  <1> QED
    BY <1>1, <1>2, EachStep DEF then

LEMMA PreflightStep ==
  ASSUME IInv, Preflight
  PROVE  IInv'
  <1>1. At("preflight", "all") /\ (Runs(disk, {}, << >>) \/ Ended(disk))
    BY DEF Preflight, Check, Step, Fail, Die, At, Runs, Advanced, Ended
  <1>2. todo # << >> /\ doomed = {} /\ todo[1] = <<"preflight", "all">> /\ SoundDisk(disk)
        /\ todo[1][1] = "preflight" /\ (phase = "serving" => disk.journal = {})
    BY <1>1, AtHead
  <1>3. Undisturbed(disk, disk, todo[1], << >>)
    BY <1>2, NotAwaited DEF Awaited, Copies, Sweeps
  <1>4. Prepared(disk, todo[1], << >>)
    <2>1. \A x : MayFollow(x, todo[1]) => Relies(disk, x)
      BY <1>2 DEF MayFollow, Relies
    <2> QED
      BY <2>1 DEF Prepared
  <1>5. Migrates(disk, disk, todo, << >>)
    BY <1>2 DEF Migrates
  <1>6. CASE Runs(disk, {}, << >>)
    BY <1>2, <1>3, <1>4, <1>5, <1>6, NothingPut, RunKeeps
  <1> QED
    BY <1>1, <1>6, AtHead

LEMMA LoadProjectStep ==
  ASSUME IInv, NEW j \in Projects, LoadProject(j)
  PROVE  IInv'
  <1>1. CASE /\ disk.tree[j] = "creating"
             /\ Step("load", j, TRUE, [disk EXCEPT !.tree[j] = "absent"], {}, << >>)
    <2> DEFINE e == [disk EXCEPT !.tree[j] = "absent"]
    <2>1. At("load", j) /\ Runs(e, {}, << >>)
      BY <1>1, StepRuns
    <2>2. /\ todo # << >> /\ doomed = {} /\ todo[1][1] = "load" /\ SoundDisk(disk)
          /\ disk \in Disks
      BY <2>1, AtHead
    <2>3. /\ e \in Disks /\ e.tree = [disk.tree EXCEPT ![j] = "absent"] /\ e.aside = disk.aside
          /\ e.journal = disk.journal /\ e.revised = disk.revised /\ e.workspace = disk.workspace
          /\ e.objects = disk.objects
      BY <2>2 DEF Disks
    <2> HIDE DEF e
    <2>4. SoundDisk(e)
      BY <1>1, <2>2, <2>3, StagedTreeGone
    <2>5. j \notin disk.aside
      BY <1>1, <2>2 DEF SoundDisk, OneMigration
    <2>6. \A k \in disk.aside : e.tree[k] = disk.tree[k]
      BY <2>2, <2>3, <2>5, DiskFields
    <2>7. todo[1][1] \notin Turns \cup {"swap", "copyTree"} /\ todo[1][1] \notin Awaited
          /\ todo[1][1] \notin Prepares
      BY <2>2 DEF Turns, Awaited, Copies, Sweeps, Prepares
    <2>8. e.journal = disk.journal /\ e.aside = disk.aside
      BY <2>3
    <2> QED
      BY <2>1, <2>2, <2>4, <2>6, <2>7, <2>8, OrdinaryStep
  <1>2. CASE /\ disk.tree[j] # "creating"
             /\ Step("load", j, disk.tree[j] = "active", [disk EXCEPT !.temporary = @ \ {j}], {},
                     (IF j \in disk.marked THEN << >>
                      ELSE << <<"validate", j>>, <<"migrate", j>> >>) \o << <<"validate", j>> >>)
    <2> DEFINE e == [disk EXCEPT !.temporary = @ \ {j}]
               a == <<"validate", j>>
               b == <<"migrate", j>>
               head == IF j \in disk.marked THEN << >> ELSE <<a, b>>
               then == head \o <<a>>
    <2>0. Step("load", j, disk.tree[j] = "active", e, {}, then)
      BY <1>2
    <2>1. At("load", j) /\ (Runs(e, {}, then) \/ Ended(disk))
      <3> HIDE DEF e, then
      <3> QED
        BY <2>0 DEF Step, Fail, Die, At, Runs, Advanced, Ended
    <2>2. /\ todo # << >> /\ doomed = {} /\ todo[1][1] = "load" /\ SoundDisk(disk)
          /\ disk \in Disks /\ Control(disk, todo, phase)
          /\ phase = "serving" => disk.journal = {}
      BY <2>1, AtHead
    <2>3. Quiet(disk, e)
      BY <2>2 DEF Disks, Quiet
    <2>4. phase = "opening" /\ disk.journal = {}
      <3>1. IsQueue(todo) /\ 1 \in DOMAIN todo
        BY <2>2, QueueFacts DEF Control
      <3>2. phase = "opening"
        BY <2>2, <3>1 DEF Control, Phased, Opens
      <3> QED
        BY <2>2, <3>1, <3>2, NoMigration DEF Control, Moves, Copies, Sweeps
    <2>5. a[1] = "validate" /\ b[1] = "migrate"
      OBVIOUS
    <2>6. then = <<a, b, a>> \/ then = <<a>>
      BY GluedTuples
    <2>7. \/ then = <<a, b, a>> /\ DOMAIN then = {1, 2, 3} /\ then[1] = a /\ then[2] = b
             /\ then[3] = a /\ Len(then) = 3
          \/ then = <<a>> /\ DOMAIN then = {1} /\ then[1] = a /\ Len(then) = 1
      <3>1. <<a, b, a>>[1] = a /\ <<a, b, a>>[2] = b /\ <<a, b, a>>[3] = a /\ <<a>>[1] = a
        OBVIOUS
      <3> HIDE DEF a, b, then
      <3> QED
        BY <2>6, <3>1, Tuples
    <2>8. IsQueue(then) /\ then # << >>
      <3> HIDE DEF a, b, then
      <3> QED
        BY <2>6, Tuples
    <2> HIDE DEF e, a, b, head, then
    <2>9. Preceded(then)
      BY <2>5, <2>7 DEF Preceded, MayFollow
    <2>10. Holds(e, b)
      BY <2>3, <2>4, <2>5 DEF Holds, Quiet
    <2>11. Waiting(e, then)
      BY <2>5, <2>7, <2>10, AheadFacts DEF Waiting, Sweeps
    <2>12. Fits(e, todo[1], then, phase)
      BY <2>2, <2>4, <2>5, <2>7, <2>8, <2>9, <2>11 DEF Fits, Prepares, Serves, Opens
    <2>13. Undisturbed(disk, e, todo[1], then)
      BY <2>2, NotAwaited DEF Awaited, Copies, Sweeps
    <2>14. Prepared(e, todo[1], then)
      <3>1. Relies(e, a)
        BY <2>5 DEF Relies
      <3> QED
        BY <2>5, <2>7, <2>8, <3>1 DEF Prepared
    <2>15. Migrates(disk, e, todo, then)
      BY <2>2, <2>3, <2>4, StillMigrates DEF Quiet, Turns, Moves, Copies, Sweeps
    <2>16. CASE Runs(e, {}, then)
      <3>1. SoundDisk(e) /\ (phase = "serving" => e.journal = {})
        BY <2>2, <2>3, <2>4, QuietDisk
      <3> QED
        BY <2>2, <2>12, <2>13, <2>14, <2>15, <2>16, <3>1, RunKeeps
    <2> QED
      BY <2>1, <2>16, AtHead
  <1> QED
    BY <1>1, <1>2 DEF LoadProject

LEMMA ServeStep ==
  ASSUME IInv, Serve
  PROVE  IInv'
  <1>1. /\ todo = << <<"serve", "all">> >> /\ doomed = {} /\ phase' = "serving" /\ todo' = << >>
        /\ disk' = disk /\ doomed' = {}
    BY DEF Serve
  <1>2. /\ todo # << >> /\ todo[1][1] = "serve"
    BY <1>1, Tuples
  <1>3. IsQueue(todo) /\ 1 \in DOMAIN todo /\ SoundDisk(disk)
    BY <1>2, QueueFacts DEF IInv, Control
  <1>4. phase = "opening"
    BY <1>2, <1>3 DEF IInv, Control, Phased, Opens
  <1>5. disk.journal = {}
    BY <1>2, <1>3, <1>4, NoMigration DEF IInv, Control, Moves, Copies, Sweeps
  <1>6. Control(disk, << >>, "serving")
    BY <1>5, NothingLeft
  <1> QED
    BY <1>1, <1>3, <1>6 DEF IInv, Unneeded

-----------------------------------------------------------------------------
(* The migrations. *)

LEMMA NoSteps == ASSUME NEW name PROVE Each(name, {}) = << >>
  <1> DEFINE f == Each(name, {})
  <1>1. IsQueue(f)
    BY EachFacts
  <1>2. Cardinality({}) = 0
    BY FS_EmptySet
  <1>3. DOMAIN f = 1..0
    BY <1>2 DEF Each
  <1> HIDE DEF f
  <1>4. f = << >>
    BY <1>1, <1>3, QueueFacts
  <1> QED
    BY <1>4 DEF f

LEMMA OneStep ==
  ASSUME NEW name, NEW k \in Projects
  PROVE  Each(name, {k}) = << <<name, k>> >>
  <1> DEFINE Nth(i) == CHOOSE j \in {k} : Cardinality({h \in {k} : Rank[h] < Rank[j]}) = i - 1
             f == Each(name, {k})
             a == <<name, k>>
  <1>1. Cardinality({}) = 0 /\ Cardinality({k}) = 1
    BY FS_EmptySet, FS_Singleton
  <1>2. IsQueue(f)
    BY EachFacts
  <1>3. f = [i \in 1..1 |-> <<name, Nth(i)>>]
    BY <1>1 DEF Each
  <1>4. Nth(1) = k
    <2>1. {h \in {k} : Rank[h] < Rank[k]} = {}
      BY StateRootAssumption
    <2>2. Cardinality({h \in {k} : Rank[h] < Rank[k]}) = 1 - 1
      BY <1>1, <2>1
    <2> QED
      BY <2>2
  <1> HIDE DEF Nth, f
  <1>5. DOMAIN f = 1..1 /\ f[1] = a
    BY <1>3, <1>4
  <1> HIDE DEF a
  <1>6. 1 \in DOMAIN f /\ 2 \notin DOMAIN f
    BY <1>5
  <1>7. Len(f) = 1
    <2>1. Len(f) \in Nat /\ DOMAIN f = 1..Len(f)
      BY <1>2, QueueFacts
    <2>2. 1 \in 1..Len(f) /\ 2 \notin 1..Len(f)
      BY <1>6, <2>1
    <2> QED
      BY <2>1, <2>2
  <1>8. IsQueue(<<a>>) /\ Len(<<a>>) = 1
    BY Tuples
  <1>9. \A i \in 1..Len(f) : f[i] = <<a>>[i]
    BY <1>5, <1>7
  <1>10. f = <<a>>
    BY <1>2, <1>7, <1>8, <1>9, SameQueue
  <1> QED
    BY <1>10 DEF f, a

LEMMA RecoverMigrationsStep ==
  ASSUME IInv, RecoverMigrations
  PROVE  IInv'
  <1> DEFINE then == Each("resume", disk.journal)
  <1>0. Check("migrations", "all", TRUE, then)
    BY DEF RecoverMigrations
  <1> HIDE DEF then
  <1>1. At("migrations", "all") /\ Runs(disk, {}, then)
    BY <1>0, StepRuns DEF Check
  <1>2. /\ todo # << >> /\ doomed = {} /\ todo[1] = <<"migrations", "all">>
        /\ todo[1][1] = "migrations" /\ SoundDisk(disk) /\ Control(disk, todo, phase)
        /\ disk \in Disks /\ (phase = "serving" => disk.journal = {})
    BY <1>1, AtHead
  <1>3. phase = "opening"
    BY <1>2, QueueFacts DEF Control, Phased, Opens
  <1>4. Undisturbed(disk, disk, todo[1], then)
    BY <1>2, NotAwaited DEF Awaited, Copies, Sweeps
  <1>5. CASE disk.journal = {}
    <2>1. then = << >>
      BY <1>5, NoSteps DEF then
    <2>2. Migrates(disk, disk, todo, << >>)
      BY <1>2, <1>5 DEF Migrates, SoundDisk, OneMigration
    <2>3. Prepared(disk, todo[1], << >>)
      BY <1>2 DEF Prepared, Prepares
    <2> QED
      BY <1>1, <1>2, <1>4, <2>1, <2>2, <2>3, NothingPut, RunKeeps
  <1>6. CASE disk.journal # {}
    <2>1. PICK k \in Projects : disk.journal = {k}
      BY <1>2, <1>6 DEF SoundDisk, OneMigration
    <2> DEFINE a == <<"resume", k>>
    <2>2. then = <<a>> /\ a[1] = "resume" /\ a[2] = k
      BY <2>1, OneStep DEF then
    <2>3. IsQueue(then) /\ DOMAIN then = {1} /\ Len(then) = 1 /\ then # << >> /\ then[1] = a
      BY <2>2, Tuples
    <2>4. Ends(then, k, 1)
      BY <2>3 DEF Ends
    <2> HIDE DEF a
    <2>5. Preceded(then) /\ Waiting(disk, then)
      BY <2>2, <2>3, AheadFacts DEF Preceded, Waiting
    <2>6. Fits(disk, todo[1], then, phase)
      BY <1>2, <1>3, <2>2, <2>3, <2>5 DEF Fits, Prepares, Serves, Opens
    <2>7. Prepared(disk, todo[1], then)
      <3>1. Relies(disk, a)
        BY <2>1, <2>2 DEF Relies
      <3> QED
        BY <2>2, <2>3, <3>1 DEF Prepared
    <2>8. \A j \in disk.aside : then[1] = <<"resume", j>>
      BY <1>2, <2>1, <2>3 DEF SoundDisk, OneMigration, a
    <2>9. Migrates(disk, disk, todo, then)
      BY <1>2, <2>1, <2>3, <2>4, <2>8 DEF Migrates
    <2> QED
      BY <1>1, <1>2, <1>4, <2>6, <2>7, <2>9, RunKeeps
  <1> QED
    BY <1>5, <1>6

\* A part of a queue: steps with the given names.
Chain(d, u, names) ==
  /\ IsQueue(u) /\ Preceded(u) /\ Waiting(d, u) /\ \A i \in DOMAIN u : u[i][1] \in names

LEMMA ChainGlue ==
  ASSUME NEW d, NEW u, NEW U, Chain(d, u, U), NEW v, NEW V, Chain(d, v, V),
         u # << >> /\ v # << >> => MayFollow(v[1], u[Len(u)]),
         \A n \in V : n \in DOMAIN Ahead => U \subseteq Ahead[n]
  PROVE  /\ Chain(d, u \o v, U \cup V)
         /\ u # << >> => (u \o v)[1] = u[1]
         /\ u = << >> => u \o v = v
         /\ v = << >> => u \o v = u
         /\ v # << >> => (u \o v)[Len(u) + 1] = v[1] /\ (u \o v)[Len(u \o v)] = v[Len(v)]
         /\ Len(u \o v) = Len(u) + Len(v)
  <1> DEFINE r == u \o v
  <1>1. /\ IsQueue(u) /\ IsQueue(v) /\ IsQueue(r) /\ Len(r) = Len(u) + Len(v)
        /\ Len(u) \in Nat /\ Len(v) \in Nat
        /\ \A i \in 1..Len(u) + Len(v) : r[i] = IF i <= Len(u) THEN u[i] ELSE v[i - Len(u)]
    BY Glue DEF Chain
  <1> HIDE DEF r
  <1>2. /\ DOMAIN r = 1..Len(u) + Len(v) /\ DOMAIN u = 1..Len(u) /\ DOMAIN v = 1..Len(v)
        /\ (u = << >> <=> Len(u) = 0) /\ (v = << >> <=> Len(v) = 0)
    BY <1>1, QueueFacts, EmptyQueue
  <1>3. \A i \in DOMAIN r : i \notin DOMAIN u => i - Len(u) \in DOMAIN v /\ r[i] = v[i - Len(u)]
    BY <1>1, <1>2
  <1>4. \A i \in DOMAIN u : r[i] = u[i] /\ i \in DOMAIN r
    BY <1>1, <1>2
  <1>5. Preceded(r)
    <2>1. SUFFICES ASSUME NEW i \in DOMAIN r, i > 1 PROVE MayFollow(r[i], r[i - 1])
      BY DEF Preceded
    <2>2. CASE i \in DOMAIN u
      <3>1. i - 1 \in DOMAIN u
        BY <1>2, <2>1, <2>2
      <3> QED
        BY <1>4, <2>1, <2>2, <3>1 DEF Chain, Preceded
    <2>3. CASE i = Len(u) + 1
      <3>1. Len(u) \in DOMAIN u /\ u # << >> /\ i - 1 = Len(u) /\ v # << >> /\ i - Len(u) = 1
            /\ i \notin DOMAIN u
        BY <1>1, <1>2, <2>1, <2>3
      <3>2. r[i] = v[1] /\ r[i - 1] = u[Len(u)]
        BY <1>3, <1>4, <2>1, <3>1
      <3> QED
        BY <3>1, <3>2
    <2>4. CASE i > Len(u) + 1
      <3>1. i - Len(u) \in DOMAIN v /\ i - Len(u) > 1 /\ i \notin DOMAIN u /\ i - 1 \in DOMAIN r
            /\ i - 1 \notin DOMAIN u /\ (i - 1) - Len(u) = (i - Len(u)) - 1
        BY <1>1, <1>2, <2>1, <2>4
      <3>2. r[i] = v[i - Len(u)] /\ r[i - 1] = v[(i - Len(u)) - 1]
        BY <1>3, <2>1, <3>1
      <3> QED
        BY <3>1, <3>2 DEF Chain, Preceded
    <2> QED
      BY <1>1, <1>2, <2>1, <2>2, <2>3, <2>4
  <1>6. \A i \in DOMAIN r : r[i][1] \in U \cup V
    BY <1>3, <1>4 DEF Chain
  <1>7. Waiting(d, r)
    <2>1. SUFFICES ASSUME NEW i \in DOMAIN r, r[i][1] \in DOMAIN Ahead
                   PROVE  Holds(d, r[i]) /\ \A h \in 1..i - 1 : r[h][1] \in Ahead[r[i][1]]
      BY DEF Waiting
    <2>2. CASE i \in DOMAIN u
      <3>1. \A h \in 1..i - 1 : h \in DOMAIN u
        BY <1>2, <2>2
      <3>2. Holds(d, u[i]) /\ \A h \in 1..i - 1 : u[h][1] \in Ahead[u[i][1]]
        BY <1>4, <2>1, <2>2 DEF Chain, Waiting
      <3> QED
        BY <1>4, <2>2, <3>1, <3>2
    <2>3. CASE i \notin DOMAIN u
      <3> DEFINE k == i - Len(u)
      <3>1. k \in DOMAIN v /\ r[i] = v[k]
        BY <1>3, <2>1, <2>3
      <3>2. Holds(d, v[k]) /\ \A h \in 1..k - 1 : v[h][1] \in Ahead[v[k][1]]
        BY <2>1, <3>1 DEF Chain, Waiting
      <3>3. U \subseteq Ahead[v[k][1]]
        BY <2>1, <3>1 DEF Chain
      <3>4. ASSUME NEW h \in 1..i - 1 PROVE r[h][1] \in Ahead[v[k][1]]
        <4>1. CASE h \in DOMAIN u
          BY <1>4, <3>3, <4>1 DEF Chain
        <4>2. CASE h \notin DOMAIN u
          <5>1. h \in DOMAIN r /\ h - Len(u) \in 1..k - 1
            BY <1>1, <1>2, <2>1, <2>3, <3>4, <4>2
          <5> QED
            BY <1>3, <3>2, <4>2, <5>1
        <4> QED
          BY <4>1, <4>2
      <3> QED
        BY <3>1, <3>2, <3>4
    <2> QED
      BY <2>2, <2>3
  <1>8. Chain(d, r, U \cup V)
    BY <1>1, <1>5, <1>6, <1>7 DEF Chain
  <1>9. u # << >> => r[1] = u[1]
    BY <1>2, <1>4
  <1>10. /\ u = << >> => r = v
         /\ v = << >> => r = u
    <2>1. ASSUME u = << >> PROVE r = v
      <3>1. Len(u) = 0 /\ \A i \in 1..Len(r) : r[i] = v[i]
        BY <1>1, <1>2, <2>1
      <3> QED
        BY <1>1, <3>1, SameQueue
    <2>2. ASSUME v = << >> PROVE r = u
      <3>1. Len(v) = 0 /\ \A i \in 1..Len(r) : r[i] = u[i]
        BY <1>1, <1>2, <2>2
      <3> QED
        BY <1>1, <3>1, SameQueue
    <2> QED
      BY <2>1, <2>2
  <1>11. v # << >> => r[Len(u) + 1] = v[1] /\ r[Len(r)] = v[Len(v)]
    BY <1>1, <1>2
  <1> QED
    BY <1>1, <1>8, <1>9, <1>10, <1>11 DEF r

LEMMA StartMigrationStep ==
  ASSUME IInv, NEW j \in Projects, StartMigration(j)
  PROVE  IInv'
  <1> DEFINE e == [disk EXCEPT !.journal = @ \cup {j}]
             a == <<"resume", j>>
             then == <<a>>
  <1>0. Step("migrate", j, j \notin disk.journal, e, {}, then)
    BY DEF StartMigration
  <1>1. At("migrate", j) /\ (Runs(e, {}, then) \/ Ended(disk))
    <2> HIDE DEF e, then
    <2> QED
      BY <1>0 DEF Step, Fail, Die, At, Runs, Advanced, Ended
  <1>2. /\ todo # << >> /\ doomed = {} /\ todo[1] = <<"migrate", j>> /\ todo[1][1] = "migrate"
        /\ SoundDisk(disk) /\ disk \in Disks /\ Control(disk, todo, phase)
        /\ Holds(disk, todo[1])
    BY <1>1, AtHead, AheadFacts
  <1>3. disk.journal = {} /\ disk.aside = {}
    BY <1>2 DEF Holds, SoundDisk, OneMigration
  <1>4. /\ e \in Disks /\ e.tree = disk.tree /\ e.aside = disk.aside /\ e.journal = {j}
        /\ e.revised = disk.revised /\ e.workspace = disk.workspace /\ e.objects = disk.objects
    BY <1>2, <1>3 DEF Disks
  <1>5. /\ IsQueue(then) /\ DOMAIN then = {1} /\ Len(then) = 1 /\ then # << >> /\ then[1] = a
        /\ a[1] = "resume" /\ a[2] = j
    BY Tuples
  <1>6. Ends(then, j, 1)
    BY <1>5 DEF Ends
  <1> HIDE DEF e, a, then
  <1>7. phase = "opening"
    BY <1>2, QueueFacts DEF Control, Phased, Opens
  <1>8. SoundDisk(e)
    <2>1. Exists(e) = Exists(disk) /\ \A k : Needs(e, k) = Needs(disk, k)
      BY <1>4 DEF Exists, Active, Needs, Manifests, Workspaces
    <2> QED
      BY <1>2, <1>3, <1>4, <2>1 DEF SoundDisk, Fresh, Retained, OneMigration
  <1>9. Preceded(then) /\ Waiting(e, then)
    BY <1>5, AheadFacts DEF Preceded, Waiting
  <1>10. Fits(e, todo[1], then, phase)
    BY <1>2, <1>5, <1>7, <1>9 DEF Fits, Prepares, Serves, Opens
  <1>11. Undisturbed(disk, e, todo[1], then)
    BY <1>2, NotAwaited DEF Awaited, Copies, Sweeps
  <1>12. Prepared(e, todo[1], then)
    <2>1. Relies(e, a)
      BY <1>4, <1>5 DEF Relies
    <2> QED
      BY <1>5, <2>1 DEF Prepared
  <1>13. Migrates(disk, e, todo, then)
    BY <1>2, <1>3, <1>4, <1>5, <1>6 DEF Migrates
  <1>14. CASE Runs(e, {}, then)
    BY <1>2, <1>7, <1>8, <1>10, <1>11, <1>12, <1>13, <1>14, RunKeeps
  <1> QED
    BY <1>1, <1>14, AtHead

LEMMA CopyBackupStep ==
  ASSUME IInv, NEW j \in Projects, CopyBackup(j)
  PROVE  IInv'
  <1> DEFINE e == [disk EXCEPT !.backup[j] = "creating"]
  <1>1. At("copyBackup", j) /\ Runs(e, {}, << >>)
    BY StepRuns DEF CopyBackup
  <1>2. /\ todo # << >> /\ doomed = {} /\ todo[1][1] = "copyBackup" /\ SoundDisk(disk)
        /\ disk \in Disks
    BY <1>1, AtHead
  <1>3. Quiet(disk, e)
    BY <1>2 DEF Disks, Quiet
  <1> HIDE DEF e
  <1> QED
    BY <1>1, <1>2, <1>3, QuietDisk, OrdinaryStep DEF Quiet, Turns, Prepares

LEMMA PublishBackupStep ==
  ASSUME IInv, NEW j \in Projects, PublishBackup(j)
  PROVE  IInv'
  <1> DEFINE e == [disk EXCEPT !.backup[j] = "kept"]
  <1>1. At("publishBackup", j) /\ Runs(e, {}, << >>)
    BY StepRuns DEF PublishBackup
  <1>2. /\ todo # << >> /\ doomed = {} /\ todo[1][1] = "publishBackup" /\ SoundDisk(disk)
        /\ disk \in Disks
    BY <1>1, AtHead
  <1>3. Quiet(disk, e)
    BY <1>2 DEF Disks, Quiet
  <1> HIDE DEF e
  <1> QED
    BY <1>1, <1>2, <1>3, QuietDisk, OrdinaryStep DEF Quiet, Turns, Prepares

LEMMA CopyTreeStep ==
  ASSUME IInv, NEW j \in Projects, CopyTree(j)
  PROVE  IInv'
  <1> DEFINE e == [disk EXCEPT !.migrating[j] = "whole"]
             c == [disk EXCEPT !.migrating[j] = "partial"]
             f == [disk EXCEPT !.migrating[j] = "absent"]
             partial == {c, f}
  <1>0. Step("copyTree", j, TRUE, e, partial, << >>)
    BY DEF CopyTree
  <1>1. At("copyTree", j) /\ Runs(e, partial, << >>)
    <2> HIDE DEF e, partial
    <2> QED
      BY <1>0, StepRuns
  <1>2. /\ todo # << >> /\ doomed = {} /\ todo[1] = <<"copyTree", j>> /\ todo[1][1] = "copyTree"
        /\ SoundDisk(disk) /\ disk \in Disks /\ Control(disk, todo, phase)
        /\ (phase = "serving" => disk.journal = {})
    BY <1>1, AtHead
  <1>3. Quiet(disk, e) /\ Quiet(disk, c) /\ Quiet(disk, f)
    BY <1>2 DEF Disks, Quiet
  <1>4. \A d \in partial : d = c \/ d = f
    OBVIOUS
  <1> HIDE DEF e, c, f, partial
  <1>5. SoundDisk(e) /\ \A d \in partial : SoundDisk(d) /\ d.journal = disk.journal
    BY <1>2, <1>3, <1>4, QuietDisk DEF Quiet
  <1>6. Undisturbed(disk, e, todo[1], << >>)
    BY <1>2, <1>3, QuietDisk, EmptyQueue DEF Undisturbed
  <1>7. Prepared(e, todo[1], << >>)
    BY <1>2 DEF Prepared, Prepares
  <1>8. phase = "opening" => Migrates(disk, e, todo, << >>)
    <2>1. SUFFICES ASSUME phase = "opening" PROVE Migrates(disk, e, todo, << >>)
      OBVIOUS
    <2>2. \A k : todo[1] \notin {<<"endJournal", k>>, <<"resume", k>>}
      BY <1>2
    <2>3. \A k \in disk.aside : disk.tree[k] = "absent" =>
            Len(todo) > 1 /\ todo[2] = <<"swap", k>>
      BY <1>2, <2>1 DEF Control, Migrating, Early
    <2> QED
      BY <1>2, <1>3, <2>2, <2>3, EmptyQueue DEF Migrates, Quiet, Early
  <1>9. phase = "serving" => e.journal = {}
    BY <1>2, <1>3 DEF Quiet
  <1> QED
    BY <1>1, <1>2, <1>5, <1>6, <1>7, <1>8, <1>9, NothingPut, RunKeeps

LEMMA SetAsideStep ==
  ASSUME IInv, NEW j \in Projects, SetAside(j)
  PROVE  IInv'
  <1> DEFINE e == [disk EXCEPT !.tree[j] = "absent", !.aside = @ \cup {j}]
  <1>0. Step("setAside", j, j \notin disk.aside, e, {}, << >>)
    BY DEF SetAside
  <1>1. At("setAside", j) /\ ((j \notin disk.aside /\ Runs(e, {}, << >>)) \/ Ended(disk))
    <2> HIDE DEF e
    <2> QED
      BY <1>0 DEF Step, Fail, Die, At, Runs, Advanced, Ended
  <1>2. /\ todo # << >> /\ doomed = {} /\ todo[1] = <<"setAside", j>> /\ todo[1][1] = "setAside"
        /\ todo[1][2] = j
        /\ SoundDisk(disk) /\ disk \in Disks /\ Control(disk, todo, phase)
        /\ (phase = "serving" => disk.journal = {})
        /\ Holds(disk, todo[1])
    BY <1>1, AtHead, AheadFacts
  <1>3. disk.journal = {j} /\ disk.tree[j] = "active"
    BY <1>2 DEF Holds
  <1>4. /\ e \in Disks /\ e.tree = [disk.tree EXCEPT ![j] = "absent"]
        /\ e.aside = disk.aside \cup {j} /\ e.journal = disk.journal
        /\ e.revised = disk.revised /\ e.workspace = disk.workspace /\ e.objects = disk.objects
    BY <1>2 DEF Disks
  <1> HIDE DEF e
  <1>5. \A k \in Projects : e.tree[k] = IF k = j THEN "absent" ELSE disk.tree[k]
    BY <1>2, <1>4, DiskFields
  <1>6. CASE j \notin disk.aside /\ Runs(e, {}, << >>)
    <2>1. disk.aside = {}
      BY <1>2, <1>3, <1>6 DEF SoundDisk, OneMigration
    <2>2. Exists(e) = Exists(disk) /\ \A k : Needs(e, k) = Needs(disk, k)
      BY <1>3, <1>4, <1>5, <2>1 DEF Exists, Active, Needs, Manifests, Workspaces
    <2>3. Fresh(e)
      BY <1>2, <1>4, <1>5 DEF SoundDisk, Fresh
    <2>4. OneMigration(e)
      BY <1>3, <1>4, <1>5, <2>1 DEF OneMigration
    <2>5. SoundDisk(e)
      BY <1>2, <1>4, <2>2, <2>3, <2>4 DEF SoundDisk, Retained
    <2>6. Undisturbed(disk, e, todo[1], << >>)
      BY <1>2, NotAwaited DEF Awaited, Copies, Sweeps
    <2>7. \A x : MayFollow(x, todo[1]) => x = <<"swap", j>>
      BY <1>2 DEF MayFollow
    <2>8. Prepared(e, todo[1], << >>)
      <3>1. Relies(e, <<"swap", j>>)
        BY DEF Relies
      <3> QED
        BY <2>7, <3>1 DEF Prepared
    <2>9. 2 \in DOMAIN todo => MayFollow(todo[2], todo[1])
      <3>1. \A i \in DOMAIN todo : i > 1 => MayFollow(todo[i], todo[i - 1])
        BY <1>2 DEF Control, Preceded
      <3>2. 2 > 1 /\ 2 - 1 = 1
        OBVIOUS
      <3> QED
        BY <3>1, <3>2
    <2>10. Migrates(disk, e, todo, << >>)
      <3>1. \A k : todo[1] \notin {<<"endJournal", k>>, <<"resume", k>>}
        BY <1>2
      <3>2. \A k \in e.aside : k = j
        BY <1>4, <2>1
      <3>3. 2 \in DOMAIN todo => todo[2] = <<"swap", j>>
        BY <2>7, <2>9
      <3> QED
        BY <1>2, <1>4, <3>1, <3>2, <3>3, EmptyQueue DEF Migrates, Early
    <2> QED
      BY <1>2, <1>4, <1>6, <2>5, <2>6, <2>8, <2>10, NothingPut, RunKeeps
  <1> QED
    BY <1>1, <1>6, AtHead

LEMMA SwapInStep ==
  ASSUME IInv, NEW j \in Projects, SwapIn(j)
  PROVE  IInv'
  <1> DEFINE e == [disk EXCEPT !.tree[j] = "active", !.marked = @ \cup {j},
                               !.migrating[j] = "absent"]
  <1>0. Step("swap", j, j \in disk.aside, e, {}, << >>)
    BY DEF SwapIn
  <1>1. At("swap", j) /\ ((j \in disk.aside /\ Runs(e, {}, << >>)) \/ Ended(disk))
    <2> HIDE DEF e
    <2> QED
      BY <1>0 DEF Step, Fail, Die, At, Runs, Advanced, Ended
  <1>2. /\ todo # << >> /\ doomed = {} /\ todo[1] = <<"swap", j>> /\ todo[1][1] = "swap"
        /\ todo[1][2] = j
        /\ SoundDisk(disk) /\ disk \in Disks /\ Control(disk, todo, phase)
        /\ (phase = "serving" => disk.journal = {})
    BY <1>1, AtHead
  <1>3. /\ e \in Disks /\ e.tree = [disk.tree EXCEPT ![j] = "active"]
        /\ e.aside = disk.aside /\ e.journal = disk.journal
        /\ e.revised = disk.revised /\ e.workspace = disk.workspace /\ e.objects = disk.objects
    BY <1>2 DEF Disks
  <1> HIDE DEF e
  <1>4. \A k \in Projects : e.tree[k] = IF k = j THEN "active" ELSE disk.tree[k]
    BY <1>2, <1>3, DiskFields
  <1>5. CASE j \in disk.aside /\ Runs(e, {}, << >>)
    <2>1. disk.journal = {j} /\ \A k \in disk.aside : k = j
      BY <1>2, <1>5 DEF SoundDisk, OneMigration
    <2>2. Exists(e) = Exists(disk) /\ \A k : Needs(e, k) = Needs(disk, k)
      BY <1>3, <1>4, <1>5 DEF Exists, Active, Needs, Manifests, Workspaces
    <2>3. Fresh(e)
      BY <1>2, <1>3, <1>4, <1>5 DEF SoundDisk, Fresh
    <2>4. OneMigration(e)
      BY <1>3, <1>4, <2>1 DEF OneMigration
    <2>5. SoundDisk(e)
      BY <1>2, <1>3, <2>2, <2>3, <2>4 DEF SoundDisk, Retained
    <2>6. Undisturbed(disk, e, todo[1], << >>)
      BY <1>2, NotAwaited DEF Awaited, Copies, Sweeps
    <2>7. Prepared(e, todo[1], << >>)
      BY <1>2 DEF Prepared, Prepares
    <2>8. Migrates(disk, e, todo, << >>)
      <3>1. \A k : todo[1] \notin {<<"endJournal", k>>, <<"resume", k>>}
        BY <1>2
      <3>2. \A k \in e.aside : e.tree[k] = "active"
        BY <1>3, <1>4, <2>1
      <3> QED
        BY <1>2, <1>3, <3>1, <3>2, EmptyQueue DEF Migrates, Early
    <2> QED
      BY <1>2, <1>3, <1>5, <2>5, <2>6, <2>7, <2>8, NothingPut, RunKeeps
  <1> QED
    BY <1>1, <1>5, AtHead

LEMMA RemoveAsideStep ==
  ASSUME IInv, NEW j \in Projects, RemoveAside(j)
  PROVE  IInv'
  <1> DEFINE e == [disk EXCEPT !.aside = @ \ {j}]
  <1>1. At("removeAside", j) /\ Runs(e, {}, << >>)
    BY StepRuns DEF RemoveAside
  <1>2. /\ todo # << >> /\ doomed = {} /\ todo[1] = <<"removeAside", j>>
        /\ todo[1][1] = "removeAside" /\ todo[1][2] = j
        /\ SoundDisk(disk) /\ disk \in Disks /\ Control(disk, todo, phase)
        /\ (phase = "serving" => disk.journal = {})
    BY <1>1, AtHead
  <1>3. /\ e \in Disks /\ e.tree = disk.tree /\ e.aside = disk.aside \ {j}
        /\ e.journal = disk.journal /\ e.revised = disk.revised /\ e.workspace = disk.workspace
        /\ e.objects = disk.objects
    BY <1>2 DEF Disks
  <1> HIDE DEF e
  <1>4. \A k \in disk.aside : disk.tree[k] = "active"
    BY <1>2, AsideActive DEF IInv
  <1>5. Exists(e) \subseteq Exists(disk) /\ \A k : Needs(e, k) = Needs(disk, k)
    BY <1>3 DEF Exists, Active, Needs, Manifests, Workspaces
  <1>6. Fresh(e)
    <2>1. SUFFICES ASSUME NEW k \in Projects, e.tree[k] \in {"absent", "creating"}, k \notin e.aside
                   PROVE  \A p \in Of(k) : p \notin e.revised /\ e.workspace[p] # "kept"
      BY DEF Fresh
    <2>2. k \notin disk.aside
      BY <1>3, <1>4, <2>1
    <2> QED
      BY <1>2, <1>3, <2>1, <2>2 DEF SoundDisk, Fresh
  <1>7. SoundDisk(e)
    BY <1>2, <1>3, <1>5, <1>6 DEF SoundDisk, Retained, OneMigration
  <1>8. Undisturbed(disk, e, todo[1], << >>)
    BY <1>2, NotAwaited DEF Awaited, Copies, Sweeps
  <1>9. Prepared(e, todo[1], << >>)
    <2>1. \A x : MayFollow(x, todo[1]) => Relies(e, x)
      BY <1>2, <1>3 DEF MayFollow, Relies
    <2> QED
      BY <2>1 DEF Prepared
  <1>10. Migrates(disk, e, todo, << >>)
    <2>1. \A k : todo[1] \notin {<<"endJournal", k>>, <<"resume", k>>}
      BY <1>2
    <2>2. \A k \in e.aside : e.tree[k] = "active"
      BY <1>3, <1>4
    <2> QED
      BY <1>2, <1>3, <2>1, <2>2, EmptyQueue DEF Migrates, Early
  <1> QED
    BY <1>1, <1>2, <1>3, <1>7, <1>8, <1>9, <1>10, NothingPut, RunKeeps

LEMMA EndJournalStep ==
  ASSUME IInv, NEW j \in Projects, EndJournal(j)
  PROVE  IInv'
  <1> DEFINE e == [disk EXCEPT !.journal = @ \ {j}]
  <1>1. At("endJournal", j) /\ Runs(e, {}, << >>)
    BY StepRuns DEF EndJournal
  <1>2. /\ todo # << >> /\ doomed = {} /\ todo[1] = <<"endJournal", j>>
        /\ todo[1][1] = "endJournal" /\ todo[1][2] = j
        /\ SoundDisk(disk) /\ disk \in Disks /\ Control(disk, todo, phase)
        /\ Relies(disk, todo[1])
    BY <1>1, AtHead
  <1>3. /\ e \in Disks /\ e.tree = disk.tree /\ e.aside = disk.aside
        /\ e.journal = disk.journal \ {j} /\ e.revised = disk.revised
        /\ e.workspace = disk.workspace /\ e.objects = disk.objects
    BY <1>2 DEF Disks
  <1> HIDE DEF e
  <1>4. IsQueue(todo) /\ Migrating(disk, todo, "opening") /\ DOMAIN todo = 1..Len(todo)
    <2>1. phase = "opening"
      BY <1>2, QueueFacts DEF Control, Phased, Opens
    <2> QED
      BY <1>2, <2>1, QueueFacts DEF Control
  <1>5. \A k \in disk.journal : k = j
    <2>1. SUFFICES ASSUME NEW k \in disk.journal PROVE k = j
      OBVIOUS
    <2>2. ~Early(todo)
      BY <1>2 DEF Early
    <2>3. PICK i \in DOMAIN todo : Ends(todo, k, i)
      BY <1>4, <2>1, <2>2 DEF Migrating
    <2>4. i = 1
      <3>1. i \in Nat /\ i > 0
        BY <1>4, <2>3
      <3>2. i > 1 => 1 \in 1..i - 1
        BY <3>1
      <3>3. "endJournal" \notin Moves
        BY DEF Moves, Copies, Sweeps
      <3> QED
        BY <1>2, <2>3, <3>1, <3>2, <3>3 DEF Ends
    <2>5. todo[1] \in {<<"endJournal", k>>, <<"resume", k>>}
      BY <2>3, <2>4 DEF Ends
    <2> QED
      BY <1>2, <2>5
  <1>6. e.journal = {} /\ e.aside = {}
    <2>1. j \notin disk.aside
      BY <1>2 DEF Relies
    <2>2. \A k \in disk.aside : disk.journal = {k}
      BY <1>2 DEF SoundDisk, OneMigration
    <2>3. disk.aside = {}
      BY <1>5, <2>1, <2>2
    <2> QED
      BY <1>3, <1>5, <2>3
  <1>7. SoundDisk(e)
    <2>1. Exists(e) = Exists(disk) /\ \A k : Needs(e, k) = Needs(disk, k)
      BY <1>3 DEF Exists, Active, Needs, Manifests, Workspaces
    <2> QED
      BY <1>2, <1>3, <1>6, <2>1 DEF SoundDisk, Fresh, Retained, OneMigration
  <1>8. Undisturbed(disk, e, todo[1], << >>)
    BY <1>2, NotAwaited DEF Awaited, Copies, Sweeps
  <1>9. Prepared(e, todo[1], << >>)
    BY <1>2 DEF Prepared, Prepares
  <1>10. Migrates(disk, e, todo, << >>)
    BY <1>2, <1>6 DEF Migrates
  <1> QED
    BY <1>1, <1>2, <1>6, <1>7, <1>8, <1>9, <1>10, NothingPut, RunKeeps

\* Nothing waits in a queue of these steps, whatever their order.
LEMMA ChainOf ==
  ASSUME NEW d, NEW u, IsQueue(u), Preceded(u), NEW names,
         \A i \in DOMAIN u : u[i][1] \in names, names \cap DOMAIN Ahead = {}
  PROVE  Chain(d, u, names)
  BY DEF Chain, Waiting

LEMMA ResumptionFacts ==
  ASSUME NEW d, NEW j, d.journal = {j}, Backed(d, j) \/ (j \in Active(d) /\ ~HasNewLayout(d, j))
  PROVE  LET then == Resumption(d, j)
         IN  /\ then # << >>
             /\ Chain(d, then, Copies \cup {"setAside", "swap", "removeAside", "endJournal"})
             /\ Ends(then, j, Len(then)) /\ then[Len(then)] = <<"endJournal", j>>
             /\ then[1][1] \in {"validate", "copyBackup", "copyTree", "setAside", "swap"}
             /\ j \notin Active(d) =>
                  \/ then[1] = <<"swap", j>>
                  \/ then[1] = <<"copyTree", j>> /\ Len(then) > 1 /\ then[2] = <<"swap", j>>
  <1> DEFINE v == <<"validate", j>>
             cb == <<"copyBackup", j>>
             pb == <<"publishBackup", j>>
             ct == <<"copyTree", j>>
             sa == <<"setAside", j>>
             sw == <<"swap", j>>
             ra == <<"removeAside", j>>
             ej == <<"endJournal", j>>
             A == IF Backed(d, j) THEN << >> ELSE <<v, cb, pb>>
             M == IF Migrated(d, j) THEN << >> ELSE <<ct>>
             S == IF j \in Active(d) THEN <<sa>> ELSE << >>
             W == <<sw, v>>
             Z == <<ra, ej>>
             MS == M \o S
             MSW == MS \o W
             T == IF HasNewLayout(d, j) THEN <<v>> ELSE MSW
             AT == A \o T
             then == AT \o Z
  <1>0. Resumption(d, j) = then
    BY DEF Resumption
  <1>1. /\ v[1] = "validate" /\ cb[1] = "copyBackup" /\ pb[1] = "publishBackup"
        /\ ct[1] = "copyTree" /\ sa[1] = "setAside" /\ sa[2] = j /\ sw[1] = "swap"
        /\ ra[1] = "removeAside" /\ ra[2] = j /\ ej[1] = "endJournal" /\ ej[2] = j
    OBVIOUS
  <1>2. /\ ra = <<"removeAside", ej[2]>> /\ sw = <<"swap", sa[2]>>
        /\ ej = <<"endJournal", j>> /\ sw = <<"swap", j>> /\ ct = <<"copyTree", j>>
    OBVIOUS
  <1> HIDE DEF v, cb, pb, ct, sa, sw, ra, ej
  <1>3. /\ MayFollow(cb, v) /\ MayFollow(pb, cb) /\ MayFollow(v, sw) /\ MayFollow(ej, ra)
        /\ MayFollow(sa, ct) /\ MayFollow(sw, ct) /\ MayFollow(sw, sa)
        /\ \A x \in {v, ct, sa, sw} : MayFollow(x, pb)
        /\ MayFollow(ra, v)
    BY <1>1, <1>2 DEF MayFollow
  <1>4. Chain(d, A, {"validate", "copyBackup", "publishBackup"})
        /\ (A = << >> \/ (A[Len(A)] = pb /\ A[1] = v)) /\ (Backed(d, j) => A = << >>)
    <2>1. CASE Backed(d, j)
      BY <2>1, EmptyQueue DEF Chain, Preceded, Waiting
    <2>2. CASE ~Backed(d, j)
      <3>1. A = <<v, cb, pb>>
        BY <2>2
      <3>0. <<v, cb, pb>>[1] = v /\ <<v, cb, pb>>[2] = cb /\ <<v, cb, pb>>[3] = pb
        OBVIOUS
      <3>2. IsQueue(A) /\ DOMAIN A = {1, 2, 3} /\ Len(A) = 3 /\ A[1] = v /\ A[2] = cb /\ A[3] = pb
        <4>1. IsQueue(<<v, cb, pb>>) /\ DOMAIN <<v, cb, pb>> = {1, 2, 3} /\ Len(<<v, cb, pb>>) = 3
          BY Tuples
        <4> QED
          BY <3>0, <3>1, <4>1
      <3> HIDE DEF A
      <3>3. Preceded(A)
        BY <1>3, <3>2 DEF Preceded
      <3>4. Chain(d, A, {"validate", "copyBackup", "publishBackup"})
        BY <1>1, <3>2, <3>3, ChainOf, AheadFacts
      <3> QED
        BY <2>2, <3>2, <3>4
    <2> QED
      BY <2>1, <2>2
  <1>5. Chain(d, M, {"copyTree"}) /\ (M = << >> \/ (M[1] = ct /\ Len(M) = 1))
    <2>1. CASE M = << >>
      BY <2>1, EmptyQueue DEF Chain, Preceded, Waiting
    <2>2. CASE M = <<ct>>
      <3>1. IsQueue(M) /\ DOMAIN M = {1} /\ Len(M) = 1 /\ M[1] = ct
        BY <2>2, Tuples
      <3> HIDE DEF M
      <3>2. Preceded(M)
        BY <3>1 DEF Preceded
      <3> QED
        BY <1>1, <3>1, <3>2, ChainOf, AheadFacts
    <2> QED
      BY <2>1, <2>2
  <1>6. Chain(d, S, {"setAside"}) /\ (S = << >> \/ (S[1] = sa /\ Len(S) = 1))
        /\ (j \notin Active(d) => S = << >>)
    <2>1. CASE j \notin Active(d)
      BY <2>1, EmptyQueue DEF Chain, Preceded, Waiting
    <2>2. CASE j \in Active(d)
      <3>0. S = <<sa>>
        BY <2>2
      <3>1. IsQueue(S) /\ DOMAIN S = {1} /\ Len(S) = 1 /\ S[1] = sa
        BY <3>0, Tuples
      <3> HIDE DEF S
      <3>2. Preceded(S)
        BY <3>1 DEF Preceded
      <3>3. Holds(d, sa)
        BY <1>1, <2>2 DEF Holds, Active
      <3>4. Waiting(d, S)
        BY <1>1, <3>1, <3>3 DEF Waiting
      <3> QED
        BY <1>1, <2>2, <3>1, <3>2, <3>4 DEF Chain
    <2> QED
      BY <2>1, <2>2
  <1>7. Chain(d, W, {"swap", "validate"}) /\ W # << >> /\ W[1] = sw /\ W[Len(W)] = v /\ Len(W) = 2
    <2>1. IsQueue(W) /\ DOMAIN W = {1, 2} /\ Len(W) = 2 /\ W[1] = sw /\ W[2] = v /\ W # << >>
      BY Tuples
    <2> HIDE DEF W
    <2>2. Preceded(W)
      BY <1>3, <2>1 DEF Preceded
    <2> QED
      BY <1>1, <2>1, <2>2, ChainOf, AheadFacts
  <1>8. Chain(d, Z, {"removeAside", "endJournal"}) /\ Z # << >> /\ Z[1] = ra /\ Z[2] = ej
        /\ Len(Z) = 2 /\ DOMAIN Z = {1, 2}
    <2>1. IsQueue(Z) /\ DOMAIN Z = {1, 2} /\ Len(Z) = 2 /\ Z[1] = ra /\ Z[2] = ej /\ Z # << >>
      BY Tuples
    <2> HIDE DEF Z
    <2>2. Preceded(Z)
      BY <1>3, <2>1 DEF Preceded
    <2> QED
      BY <1>1, <2>1, <2>2, ChainOf, AheadFacts
  <1>9. Chain(d, <<v>>, {"validate"}) /\ <<v>> # << >> /\ <<v>>[1] = v /\ <<v>>[Len(<<v>>)] = v
    <2> DEFINE u == <<v>>
    <2>1. IsQueue(u) /\ DOMAIN u = {1} /\ Len(u) = 1 /\ u[1] = v /\ u # << >>
      BY Tuples
    <2> HIDE DEF u
    <2>2. Preceded(u)
      BY <2>1 DEF Preceded
    <2>3. Chain(d, u, {"validate"}) /\ u # << >> /\ u[1] = v /\ u[Len(u)] = v
      BY <1>1, <2>1, <2>2, ChainOf, AheadFacts
    <2> QED
      BY <2>3 DEF u
  <1> HIDE DEF A, M, S, W, Z
  <1>10. /\ Chain(d, MS, {"copyTree"} \cup {"setAside"})
         /\ (MS # << >> => MS[1] \in {ct, sa} /\ MS[Len(MS)] \in {ct, sa})
         /\ (j \notin Active(d) => MS = << >> \/ (MS[1] = ct /\ Len(MS) = 1))
    <2> DEFINE U == {"copyTree"}
               V == {"setAside"}
    <2>1. M # << >> /\ S # << >> => MayFollow(S[1], M[Len(M)])
      BY <1>3, <1>5, <1>6
    <2>2. \A n \in V : n \in DOMAIN Ahead => U \subseteq Ahead[n]
      BY AheadFacts DEF Copies
    <2>0. Chain(d, M, U) /\ Chain(d, S, V)
      BY <1>5, <1>6
    <2> HIDE DEF U, V
    <2>3. Chain(d, MS, U \cup V)
      BY <2>0, <2>1, <2>2, ChainGlue
    <2>4. M # << >> => MS[1] = M[1]
      BY <2>0, <2>1, <2>2, ChainGlue
    <2>5. M = << >> => MS = S
      BY <2>0, <2>1, <2>2, ChainGlue
    <2>7. S = << >> => MS = M
      BY <2>0, <2>1, <2>2, ChainGlue
    <2>6. S # << >> => MS[Len(MS)] = S[Len(S)]
      BY <2>0, <2>1, <2>2, ChainGlue
    <2> HIDE DEF MS
    <2> QED
      BY <1>5, <1>6, <2>3, <2>4, <2>5, <2>6, <2>7 DEF U, V
  <1> HIDE DEF MS
  <1>11. /\ Chain(d, MSW, ({"copyTree"} \cup {"setAside"}) \cup {"swap", "validate"})
         /\ MSW # << >> /\ MSW[1] \in {ct, sa, sw} /\ MSW[Len(MSW)] = v
         /\ (j \notin Active(d) => MSW[1] = sw \/ (MSW[1] = ct /\ Len(MSW) > 1 /\ MSW[2] = sw))
    <2> DEFINE U == {"copyTree"} \cup {"setAside"}
               V == {"swap", "validate"}
    <2>1. MS # << >> /\ W # << >> => MayFollow(W[1], MS[Len(MS)])
      BY <1>3, <1>7, <1>10
    <2>2. \A n \in V : n \in DOMAIN Ahead => U \subseteq Ahead[n]
      BY AheadFacts
    <2>0. Chain(d, MS, U) /\ Chain(d, W, V)
      BY <1>7, <1>10
    <2> HIDE DEF U, V
    <2>3. Chain(d, MSW, U \cup V)
      BY <2>0, <2>1, <2>2, ChainGlue
    <2>4. MS # << >> => MSW[1] = MS[1]
      BY <2>0, <2>1, <2>2, ChainGlue
    <2>5. MS = << >> => MSW = W
      BY <2>0, <2>1, <2>2, ChainGlue
    <2>6. MSW[Len(MS) + 1] = W[1]
      BY <1>7, <2>0, <2>1, <2>2, ChainGlue
    <2>7. MSW[Len(MSW)] = W[Len(W)]
      <3>1. W # << >>
        BY <1>7
      <3> QED
        BY <2>0, <2>1, <2>2, <3>1, ChainGlue
    <2>8. Len(MSW) = Len(MS) + Len(W) /\ Len(MS) \in Nat
      BY <2>0, Glue DEF Chain
    <2>9. MSW # << >>
      BY <1>7, <2>8, EmptyQueue
    <2> HIDE DEF MSW
    <2> QED
      BY <1>7, <1>10, <2>3, <2>4, <2>5, <2>6, <2>7, <2>8, <2>9 DEF U, V
  <1> HIDE DEF MSW
  <1>12. /\ Chain(d, T, ({"copyTree"} \cup {"setAside"}) \cup {"swap", "validate"})
         /\ T # << >> /\ T[1] \in {v, ct, sa, sw} /\ T[Len(T)] = v
         /\ (j \notin Active(d) => T[1] = sw \/ (T[1] = ct /\ Len(T) > 1 /\ T[2] = sw))
    BY <1>9, <1>11 DEF Chain, HasNewLayout
  <1> HIDE DEF T
  <1>13. /\ Chain(d, AT, {"validate", "copyBackup", "publishBackup"}
                         \cup (({"copyTree"} \cup {"setAside"}) \cup {"swap", "validate"}))
         /\ AT # << >> /\ AT[1] \in {v, ct, sa, sw} /\ AT[Len(AT)] = v
         /\ (j \notin Active(d) => AT[1] = sw \/ (AT[1] = ct /\ Len(AT) > 1 /\ AT[2] = sw))
    BY <1>1, <1>3, <1>4, <1>12, ChainGlue, AheadFacts DEF Copies, Sweeps
  <1> HIDE DEF AT
  <1>14. /\ Chain(d, then, ({"validate", "copyBackup", "publishBackup"}
                            \cup (({"copyTree"} \cup {"setAside"}) \cup {"swap", "validate"}))
                           \cup {"removeAside", "endJournal"})
         /\ then[1] = AT[1] /\ then[Len(then)] = ej /\ Len(then) = Len(AT) + 2
    <2> DEFINE U == {"validate", "copyBackup", "publishBackup"}
                    \cup (({"copyTree"} \cup {"setAside"}) \cup {"swap", "validate"})
               V == {"removeAside", "endJournal"}
    <2>1. AT # << >> /\ Z # << >> => MayFollow(Z[1], AT[Len(AT)])
      BY <1>3, <1>8, <1>13
    <2>2. \A n \in V : n \in DOMAIN Ahead => U \subseteq Ahead[n]
      BY AheadFacts
    <2>3. Chain(d, AT, U) /\ Chain(d, Z, V)
      BY <1>8, <1>13
    <2> HIDE DEF U, V
    <2>4. Chain(d, then, U \cup V)
      BY <2>1, <2>2, <2>3, ChainGlue
    <2>5. then[1] = AT[1]
      BY <1>13, <2>1, <2>2, <2>3, ChainGlue
    <2>6. then[Len(then)] = Z[Len(Z)]
      BY <1>8, <2>1, <2>2, <2>3, ChainGlue
    <2>7. Len(then) = Len(AT) + Len(Z)
      BY <2>3, Glue DEF Chain
    <2> HIDE DEF then
    <2> QED
      BY <1>8, <2>4, <2>5, <2>6, <2>7 DEF U, V
  <1>15. /\ IsQueue(AT) /\ IsQueue(then) /\ Len(AT) \in Nat /\ Len(AT) > 0 /\ Len(then) = Len(AT) + 2
         /\ DOMAIN AT = 1..Len(AT) /\ DOMAIN then = 1..Len(then) /\ then # << >>
         /\ \A i \in DOMAIN AT : then[i] = AT[i]
         /\ then[Len(AT) + 1] = ra
    <2>1. IsQueue(AT) /\ IsQueue(Z) /\ IsQueue(then)
      BY <1>8, <1>13, <1>14 DEF Chain
    <2>2. Len(AT) \in Nat /\ Len(AT) > 0 /\ DOMAIN AT = 1..Len(AT) /\ DOMAIN then = 1..Len(then)
      BY <1>13, <2>1, QueueFacts
    <2>3. \A i \in 1..Len(AT) + 2 : then[i] = IF i <= Len(AT) THEN AT[i] ELSE Z[i - Len(AT)]
      BY <1>8, <2>1, Glue
    <2>4. then[Len(AT) + 1] = Z[1]
      <3>1. Len(AT) + 1 \in 1..Len(AT) + 2 /\ ~(Len(AT) + 1 <= Len(AT)) /\ (Len(AT) + 1) - Len(AT) = 1
        BY <2>2
      <3> HIDE DEF then
      <3>2. then[Len(AT) + 1] = Z[(Len(AT) + 1) - Len(AT)]
        BY <2>3, <3>1
      <3> QED
        BY <3>1, <3>2
    <2> HIDE DEF then
    <2>5. then # << >>
      BY <1>14, <2>2, EmptyQueue
    <2> QED
      BY <1>8, <1>14, <2>1, <2>2, <2>3, <2>4, <2>5
  <1> HIDE DEF then
  <1>16. Ends(then, j, Len(then))
    <2>1. \A h \in 1..Len(then) - 1 : h \in DOMAIN AT \/ h = Len(AT) + 1
      BY <1>15
    <2>2. \A h \in DOMAIN AT : AT[h][1] \in Moves
      BY <1>13 DEF Chain, Moves, Copies, Sweeps
    <2>3. ra[1] \in Moves
      BY <1>1 DEF Moves
    <2>4. \A h \in 1..Len(then) - 1 : then[h][1] \in Moves
      BY <1>15, <2>1, <2>2, <2>3
    <2>5. Len(then) \in DOMAIN then
      BY <1>15
    <2> QED
      BY <1>2, <1>14, <2>4, <2>5 DEF Ends
  <1>17. j \notin Active(d) =>
           \/ then[1] = sw
           \/ then[1] = ct /\ Len(then) > 1 /\ then[2] = sw
    <2>1. Len(AT) > 1 => 2 \in DOMAIN AT
      BY <1>15
    <2> QED
      BY <1>13, <1>14, <1>15, <2>1
  <1>18. Chain(d, then, Copies \cup {"setAside", "swap", "removeAside", "endJournal"})
    BY <1>14 DEF Chain, Copies, Sweeps
  <1>19. then[1][1] \in {"validate", "copyBackup", "copyTree", "setAside", "swap"}
    BY <1>1, <1>13, <1>14
  <1>20. then[Len(then)] = <<"endJournal", j>>
    BY <1>2, <1>14
  <1> QED
    BY <1>0, <1>2, <1>15, <1>16, <1>17, <1>18, <1>19, <1>20

LEMMA ResumeMigrationStep ==
  ASSUME IInv, NEW j \in Projects, ResumeMigration(j)
  PROVE  IInv'
  <1> DEFINE marked == HasNewLayout(disk, j)
             then == Resumption(disk, j)
             ok == /\ j \in Active(disk) \cup disk.aside
                   /\ j \in Active(disk) \cap disk.aside => marked
                   /\ Backed(disk, j) \/ (j \in Active(disk) /\ ~marked)
                   /\ marked => disk.migrating[j] = "absent"
  <1>0. Check("resume", j, ok, then)
    BY DEF ResumeMigration
  <1>1. At("resume", j) /\ ((ok /\ Runs(disk, {}, then)) \/ Ended(disk))
    <2> HIDE DEF ok, then
    <2> QED
      BY <1>0 DEF Check, Step, Fail, Die, At, Runs, Advanced, Ended
  <1>2. /\ todo # << >> /\ doomed = {} /\ todo[1] = <<"resume", j>> /\ todo[1][1] = "resume"
        /\ todo[1][2] = j /\ SoundDisk(disk) /\ disk \in Disks /\ Control(disk, todo, phase)
        /\ (phase = "serving" => disk.journal = {}) /\ Relies(disk, todo[1])
    BY <1>1, AtHead
  <1>3. disk.journal = {j}
    BY <1>2 DEF Relies
  <1>4. phase = "opening"
    BY <1>2, QueueFacts DEF Control, Phased, Opens
  <1>5. CASE ok /\ Runs(disk, {}, then)
    <2>1. /\ then # << >>
          /\ Chain(disk, then, Copies \cup {"setAside", "swap", "removeAside", "endJournal"})
          /\ Ends(then, j, Len(then)) /\ then[Len(then)] = <<"endJournal", j>>
          /\ then[1][1] \in {"validate", "copyBackup", "copyTree", "setAside", "swap"}
          /\ j \notin Active(disk) =>
               \/ then[1] = <<"swap", j>>
               \/ then[1] = <<"copyTree", j>> /\ Len(then) > 1 /\ then[2] = <<"swap", j>>
      BY <1>3, <1>5, ResumptionFacts
    <2> HIDE DEF then, ok
    <2>2. Fits(disk, todo[1], then, phase)
      <3>1. then[Len(then)][1] # "setAside"
        BY <2>1
      <3>2. \A i \in DOMAIN then : then[i][1] \notin Serves
        BY <2>1 DEF Chain, Copies, Sweeps, Serves
      <3> QED
        BY <1>2, <1>4, <2>1, <3>1, <3>2 DEF Fits, Chain, Prepares
    <2>3. Undisturbed(disk, disk, todo[1], then)
      BY <1>2, NotAwaited DEF Awaited, Copies, Sweeps
    <2>4. Prepared(disk, todo[1], then)
      BY <2>1 DEF Prepared, Relies
    <2>5. \A k \in disk.aside : disk.tree[k] = "absent" => k = j /\ j \notin Active(disk)
      BY <1>2, <1>3 DEF SoundDisk, OneMigration, Active
    <2>6. Len(then) \in DOMAIN then
      BY <2>1 DEF Ends
    <2>7. Migrates(disk, disk, todo, then)
      <3>1. \A k \in disk.journal : \E i \in DOMAIN then : Ends(then, k, i)
        BY <1>3, <2>1, <2>6
      <3> QED
        BY <1>2, <2>1, <2>5, <3>1 DEF Migrates
    <2> QED
      BY <1>2, <1>5, <2>2, <2>3, <2>4, <2>7, RunKeeps
  <1> QED
    BY <1>1, <1>5, AtHead

-----------------------------------------------------------------------------
(* The removal of objects, the requests, the starts and the deaths. *)

LEMMA DropStep ==
  ASSUME IInv, NEW o \in Objects, Drop(o)
  PROVE  IInv'
  <1> DEFINE e == [disk EXCEPT !.objects = @ \ {o}]
  <1>1. /\ o \in doomed /\ disk' \in {disk, e}
        /\ \/ disk' = e /\ doomed' = doomed \ {o} /\ phase' = phase /\ todo' = todo
           \/ /\ doomed' = {} /\ todo' = << >>
              /\ \/ phase' = "down"
                 \/ phase # "opening" /\ phase' = phase
    BY DEF Drop, Fail
  <1>2. SoundDisk(disk) /\ Control(disk, todo, phase) /\ Unneeded /\ disk \in Disks
    BY DEF IInv, SoundDisk
  <1>3. /\ e \in Disks /\ e.tree = disk.tree /\ e.aside = disk.aside /\ e.journal = disk.journal
        /\ e.revised = disk.revised /\ e.workspace = disk.workspace
        /\ e.objects = disk.objects \ {o}
    BY <1>2 DEF Disks
  <1> HIDE DEF e
  <1>4. Exists(e) = Exists(disk) /\ \A k : Needs(e, k) = Needs(disk, k)
    BY <1>3 DEF Exists, Active, Needs, Manifests, Workspaces
  <1>5. Retained(e)
    <2>1. \A k \in Exists(disk) : o \notin Needs(disk, k)
      BY <1>1, <1>2 DEF Unneeded
    <2> QED
      BY <1>2, <1>3, <1>4, <2>1 DEF SoundDisk, Retained
  <1>6. SoundDisk(e)
    BY <1>2, <1>3, <1>5 DEF SoundDisk, Fresh, OneMigration
  <1>7. CASE disk' = e /\ doomed' = doomed \ {o} /\ phase' = phase /\ todo' = todo
    <2>1. Phased(e, todo, phase) /\ Preceded(todo) /\ IsQueue(todo)
      BY <1>2, <1>3 DEF Control, Phased
    <2>2. Waiting(e, todo)
      BY <1>2, <1>3 DEF Control, Waiting, Holds
    <2>3. Migrating(e, todo, phase)
      BY <1>2, <1>3 DEF Control, Migrating
    <2>4. Ready(e, todo)
      <3>1. todo # << >> => todo[1][1] \notin {"publish", "publishWorkspace", "manifest"}
        BY <1>1, <1>2 DEF Unneeded
      <3>2. todo # << >> => Relies(disk, todo[1])
        BY <1>2 DEF Control, Ready
      <3>3. todo # << >> => Relies(e, todo[1])
        BY <1>3, <3>1, <3>2 DEF Relies
      <3> QED
        BY <1>2, <3>3 DEF Control, Ready
    <2>5. Control(e, todo, phase)
      BY <2>1, <2>2, <2>3, <2>4 DEF Control
    <2>6. Unneeded'
      BY <1>2, <1>4, <1>7 DEF Unneeded
    <2> QED
      BY <1>6, <1>7, <2>5, <2>6 DEF IInv
  <1>8. CASE /\ doomed' = {} /\ todo' = << >>
             /\ \/ phase' = "down"
                \/ phase # "opening" /\ phase' = phase
    <2>1. SoundDisk(disk')
      BY <1>1, <1>2, <1>6
    <2>2. disk'.journal = disk.journal
      BY <1>1, <1>3
    <2>3. phase' = "serving" => disk'.journal = {}
      BY <1>2, <1>8, <2>2 DEF Control, Phased
    <2>4. Control(disk', << >>, phase')
      BY <1>8, <2>3, NothingLeft
    <2> QED
      BY <1>8, <2>1, <2>4 DEF IInv, Unneeded
  <1> QED
    BY <1>1, <1>7, <1>8

\* A request begins.
LEMMA BeginKeeps ==
  ASSUME IInv, NEW steps, Begin(steps), NEW names, Chain(disk, steps, names),
         names \cap Opens = {}, steps # << >>, Relies(disk, steps[1])
  PROVE  IInv'
  <1>1. /\ phase = "serving" /\ doomed = {} /\ disk' = disk /\ phase' = phase /\ doomed' = doomed
        /\ todo' = steps
    BY DEF Begin, Idle
  <1>2. SoundDisk(disk) /\ disk.journal = {}
    BY <1>1 DEF IInv, Control, Phased
  <1>3. 1 \in DOMAIN steps /\ steps[1][1] \notin {"preflight", "migrations"}
    BY QueueFacts DEF Chain, Opens
  <1>4. Phased(disk, steps, "serving")
    BY <1>2 DEF Phased, Chain
  <1>5. Control(disk, steps, "serving")
    BY <1>3, <1>4 DEF Control, Chain, Ready, Migrating
  <1> QED
    BY <1>1, <1>2, <1>5 DEF IInv, Unneeded

LEMMA CreateProjectStep ==
  ASSUME IInv, NEW j \in Projects, CreateProject(j)
  PROVE  IInv'
  <1> DEFINE a == <<"stage", j>>
             b == <<"fill", j>>
             c == <<"publish", j>>
             f == <<"created", j>>
             q == <<a, b, c, f>>
             names == {"stage", "fill", "publish", "created"}
  <1>1. Begin(q)
    BY DEF CreateProject, Creation
  <1>2. /\ a[1] = "stage" /\ b[1] = "fill" /\ c[1] = "publish" /\ f[1] = "created"
        /\ a = <<"stage", b[2]>> /\ b = <<"fill", c[2]>>
    OBVIOUS
  <1>3. q[1] = a /\ q[2] = b /\ q[3] = c /\ q[4] = f
    OBVIOUS
  <1> HIDE DEF a, b, c, f
  <1>4. IsQueue(q) /\ DOMAIN q = {1, 2, 3, 4} /\ q # << >>
    BY Tuples
  <1> HIDE DEF q
  <1>5. MayFollow(b, a) /\ MayFollow(c, b) /\ MayFollow(f, c)
    BY <1>2 DEF MayFollow
  <1>6. Preceded(q)
    BY <1>3, <1>4, <1>5 DEF Preceded
  <1>7. Chain(disk, q, names)
    BY <1>2, <1>3, <1>4, <1>6, ChainOf, AheadFacts
  <1>8. Relies(disk, a)
    BY <1>2 DEF Relies
  <1>9. names \cap Opens = {}
    BY DEF Opens
  <1> QED
    BY <1>1, <1>3, <1>4, <1>7, <1>8, <1>9, BeginKeeps

LEMMA DeleteProjectStep ==
  ASSUME IInv, NEW j \in Projects, DeleteProject(j)
  PROVE  IInv'
  <1> DEFINE a == <<"validate", j>>
             b == <<"hide", j>>
             c == <<"finish", j>>
             f == <<"deleted", j>>
             q == <<a, b, c, f>>
             names == {"validate", "hide", "finish", "deleted"}
  <1>1. Begin(q)
    BY DEF DeleteProject, ProjectDeletion
  <1>2. a[1] = "validate" /\ b[1] = "hide" /\ c[1] = "finish" /\ f[1] = "deleted"
    OBVIOUS
  <1>3. q[1] = a /\ q[2] = b /\ q[3] = c /\ q[4] = f
    OBVIOUS
  <1> HIDE DEF a, b, c, f
  <1>4. IsQueue(q) /\ DOMAIN q = {1, 2, 3, 4} /\ q # << >>
    BY Tuples
  <1> HIDE DEF q
  <1>5. MayFollow(b, a) /\ MayFollow(c, b) /\ MayFollow(f, c)
    BY <1>2 DEF MayFollow
  <1>6. Preceded(q)
    BY <1>3, <1>4, <1>5 DEF Preceded
  <1>7. Chain(disk, q, names)
    BY <1>2, <1>3, <1>4, <1>6, ChainOf, AheadFacts
  <1>8. Relies(disk, a)
    BY <1>2 DEF Relies
  <1>9. names \cap Opens = {}
    BY DEF Opens
  <1> QED
    BY <1>1, <1>3, <1>4, <1>7, <1>8, <1>9, BeginKeeps

LEMMA CreateProposalStep ==
  ASSUME IInv, NEW p \in Proposals, CreateProposal(p)
  PROVE  IInv'
  <1> DEFINE a == <<"sweep", ProjectOf[p]>>
             b == <<"stageWorkspace", p>>
             c == <<"fillWorkspace", p>>
             f == <<"publishWorkspace", p>>
             q == <<a, b, c, f>>
             names == {"sweep", "stageWorkspace", "fillWorkspace", "publishWorkspace"}
  <1>1. Begin(q)
    BY DEF CreateProposal, Preparation
  <1>2. /\ a[1] = "sweep" /\ b[1] = "stageWorkspace" /\ c[1] = "fillWorkspace"
        /\ f[1] = "publishWorkspace" /\ a = <<"sweep", ProjectOf[b[2]]>>
        /\ b = <<"stageWorkspace", c[2]>> /\ c = <<"fillWorkspace", f[2]>>
    OBVIOUS
  <1>3. q[1] = a /\ q[2] = b /\ q[3] = c /\ q[4] = f
    OBVIOUS
  <1> HIDE DEF a, b, c, f
  <1>4. IsQueue(q) /\ DOMAIN q = {1, 2, 3, 4} /\ q # << >>
    BY Tuples
  <1> HIDE DEF q
  <1>5. MayFollow(b, a) /\ MayFollow(c, b) /\ MayFollow(f, c)
    BY <1>2 DEF MayFollow
  <1>6. Preceded(q)
    BY <1>3, <1>4, <1>5 DEF Preceded
  <1>7. Chain(disk, q, names)
    BY <1>2, <1>3, <1>4, <1>6, ChainOf, AheadFacts
  <1>8. Relies(disk, a)
    BY <1>2 DEF Relies
  <1>9. names \cap Opens = {}
    BY DEF Opens
  <1> QED
    BY <1>1, <1>3, <1>4, <1>7, <1>8, <1>9, BeginKeeps

LEMMA DeleteProposalStep ==
  ASSUME IInv, NEW p \in Proposals, DeleteProposal(p)
  PROVE  IInv'
  <1> DEFINE a == <<"sweep", ProjectOf[p]>>
             b == <<"hideWorkspace", p>>
             c == <<"collect", p>>
             f == <<"removeWorkspace", p>>
             q == <<a, b>> \o <<c, f>>
             names == {"sweep", "hideWorkspace", "collect", "removeWorkspace"}
  <1>1. Begin(q) /\ p \notin disk.revised
    BY DEF DeleteProposal, WorkspaceDeletion, Cleanup
  <1>2. /\ a[1] = "sweep" /\ b[1] = "hideWorkspace" /\ b[2] = p /\ c[1] = "collect"
        /\ f[1] = "removeWorkspace" /\ b = <<"hideWorkspace", c[2]>> /\ c = <<"collect", f[2]>>
    OBVIOUS
  <1>3. <<a, b>>[1] = a /\ <<a, b>>[2] = b /\ <<c, f>>[1] = c /\ <<c, f>>[2] = f
    OBVIOUS
  <1> HIDE DEF a, b, c, f
  <1>4. IsQueue(<<a, b>>) /\ IsQueue(<<c, f>>) /\ Len(<<a, b>>) = 2 /\ Len(<<c, f>>) = 2
    BY Tuples
  <1>5. IsQueue(q) /\ Len(q) = 4
        /\ \A i \in 1..4 : q[i] = IF i <= 2 THEN <<a, b>>[i] ELSE <<c, f>>[i - 2]
    BY <1>4, Glue
  <1> HIDE DEF q
  <1>6. q[1] = a /\ q[2] = b /\ q[3] = c /\ q[4] = f
    BY <1>3, <1>5
  <1>7. DOMAIN q = {1, 2, 3, 4} /\ q # << >>
    <2>1. DOMAIN q = 1..4
      BY <1>5, QueueFacts
    <2> QED
      BY <1>5, <2>1, EmptyQueue
  <1>8. MayFollow(b, a) /\ MayFollow(c, b) /\ MayFollow(f, c)
    BY <1>2 DEF MayFollow
  <1>9. Preceded(q)
    BY <1>6, <1>7, <1>8 DEF Preceded
  <1>10. Waiting(disk, q)
    <2>1. Holds(disk, b)
      BY <1>1, <1>2 DEF Holds
    <2>2. \A i \in DOMAIN q : q[i][1] \in DOMAIN Ahead => i = 2
      BY <1>2, <1>6, <1>7, AheadFacts
    <2>3. \A h \in 1..2 - 1 : h = 1
      OBVIOUS
    <2>4. a[1] \in Ahead[b[1]]
      BY <1>2, AheadFacts DEF Sweeps
    <2> QED
      BY <1>6, <2>1, <2>2, <2>3, <2>4 DEF Waiting
  <1>11. Chain(disk, q, names)
    BY <1>2, <1>5, <1>6, <1>7, <1>9, <1>10 DEF Chain
  <1>12. Relies(disk, a)
    BY <1>2 DEF Relies
  <1>13. names \cap Opens = {}
    BY DEF Opens
  <1> QED
    BY <1>1, <1>6, <1>7, <1>11, <1>12, <1>13, BeginKeeps

LEMMA AdoptProposalStep ==
  ASSUME IInv, NEW p \in Proposals, AdoptProposal(p)
  PROVE  IInv'
  <1> DEFINE a == <<"fillRevision", p>>
             b == <<"manifest", p>>
             q == <<a, b>>
             names == {"fillRevision", "manifest"}
  <1>1. Begin(q) /\ p \notin disk.revised /\ disk.workspace[p] = "kept"
    BY DEF AdoptProposal, Commit
  <1>2. /\ a[1] = "fillRevision" /\ a[2] = p /\ b[1] = "manifest" /\ b[2] = p
        /\ a = <<"fillRevision", b[2]>> /\ q[1] = a /\ q[2] = b
    OBVIOUS
  <1> HIDE DEF a, b
  <1>3. IsQueue(q) /\ DOMAIN q = {1, 2} /\ q # << >>
    BY Tuples
  <1> HIDE DEF q
  <1>4. MayFollow(b, a)
    BY <1>2 DEF MayFollow
  <1>5. Preceded(q)
    BY <1>2, <1>3, <1>4 DEF Preceded
  <1>6. Waiting(disk, q)
    <2>1. Holds(disk, a) /\ Holds(disk, b)
      BY <1>1, <1>2 DEF Holds
    <2>2. \A h \in 1..2 - 1 : h = 1
      OBVIOUS
    <2>3. \A h \in 1..1 - 1 : FALSE
      OBVIOUS
    <2>4. a[1] \in Ahead[b[1]]
      BY <1>2, AheadFacts
    <2> QED
      BY <1>2, <1>3, <2>1, <2>2, <2>3, <2>4 DEF Waiting
  <1>7. Chain(disk, q, names)
    BY <1>2, <1>3, <1>5, <1>6 DEF Chain
  <1>8. Relies(disk, a)
    BY <1>2 DEF Relies
  <1>9. names \cap Opens = {}
    BY DEF Opens
  <1> QED
    BY <1>1, <1>2, <1>3, <1>7, <1>8, <1>9, BeginKeeps

LEMMA StartStep ==
  ASSUME IInv, Start
  PROVE  IInv'
  <1>1. /\ phase \in {"down", "refused"} /\ phase' = "opening" /\ todo' = Opening
        /\ disk' = disk /\ doomed' = doomed
    BY DEF Start
  <1>2. SoundDisk(disk) /\ Unneeded
    BY DEF IInv
  <1> DEFINE q == Opening
  <1>3. /\ IsQueue(q) /\ q # << >> /\ Len(q) = 7 /\ DOMAIN q = 1..7
        /\ q[1] = <<"preflight", "all">> /\ q[2] = <<"migrations", "all">>
        /\ q[3] = <<"orphans", "all">> /\ q[4] = <<"deletions", "all">>
        /\ q[5] = <<"hidden", "all">> /\ q[6] = <<"projects", "all">> /\ q[7] = <<"serve", "all">>
    BY OpeningFacts
  <1> HIDE DEF q
  <1>4. /\ q[1][1] = "preflight" /\ q[2][1] = "migrations" /\ q[3][1] = "orphans"
        /\ q[4][1] = "deletions" /\ q[5][1] = "hidden" /\ q[6][1] = "projects"
        /\ q[7][1] = "serve"
    BY <1>3
  <1>5. DOMAIN q = {1, 2, 3, 4, 5, 6, 7}
    BY <1>3
  <1>6. Phased(disk, q, "opening")
    BY <1>4, <1>5 DEF Phased, Serves
  <1>7. Preceded(q)
    <2>1. /\ MayFollow(q[2], q[1]) /\ MayFollow(q[3], q[2]) /\ MayFollow(q[4], q[3])
          /\ MayFollow(q[5], q[4]) /\ MayFollow(q[6], q[5]) /\ MayFollow(q[7], q[6])
      BY <1>3, <1>4 DEF MayFollow
    <2> QED
      BY <1>5, <2>1 DEF Preceded
  <1>8. Waiting(disk, q)
    BY <1>4, <1>5, AheadFacts DEF Waiting
  <1>9. Ready(disk, q)
    <2>1. Relies(disk, q[1])
      BY <1>4 DEF Relies
    <2> QED
      BY <1>4, <2>1 DEF Ready, q
  <1>10. Migrating(disk, q, "opening")
    BY <1>3, <1>4 DEF Migrating, Early
  <1>11. Control(disk, q, "opening")
    BY <1>3, <1>6, <1>7, <1>8, <1>9, <1>10 DEF Control
  <1>12. Unneeded'
    BY <1>1, <1>2, <1>4 DEF Unneeded, q
  <1> QED
    BY <1>1, <1>2, <1>11, <1>12 DEF IInv, q

LEMMA CrashStep ==
  ASSUME IInv, Crash
  PROVE  IInv'
  <1>1. disk' = disk /\ phase' = "down" /\ todo' = << >> /\ doomed' = {}
    BY DEF Crash, Die
  <1>2. Control(disk, << >>, "down")
    BY NothingLeft
  <1> QED
    BY <1>1, <1>2 DEF IInv, Unneeded

-----------------------------------------------------------------------------
(* The invariant holds from the start, and then always. *)

LEMMA InitInvariant == Init => IInv
  <1> SUFFICES ASSUME Init PROVE IInv
    OBVIOUS
  <1> DEFINE trees == [j \in Projects |-> IF j \in Legacy THEN "active" ELSE "absent"]
             kept == {q \in Proposals : disk.workspace[q] = "kept"}
             bases == UNION {Base[j] : j \in Legacy}
             sites == UNION {Site[p] : p \in kept}
  <1>1. /\ disk.tree = trees /\ disk.aside = {} /\ disk.journal = {} /\ disk.revised = {}
        /\ disk.marked = {} /\ disk.temporary = {}
        /\ disk.migrating = [j \in Projects |-> "absent"]
        /\ disk.backup = [j \in Projects |-> "absent"]
        /\ disk.workspace \in [Proposals -> {"absent", "kept"}]
        /\ \A p \in Proposals : ProjectOf[p] \notin Legacy => disk.workspace[p] = "absent"
        /\ disk.objects \in SUBSET Objects
        /\ disk = [tree |-> disk.tree, marked |-> disk.marked, aside |-> disk.aside,
                   migrating |-> disk.migrating, journal |-> disk.journal,
                   backup |-> disk.backup, temporary |-> disk.temporary,
                   revised |-> disk.revised, workspace |-> disk.workspace,
                   objects |-> disk.objects]
    BY DEF Init
  <1>2. disk.objects = bases \cup sites
    BY DEF Init
  <1> HIDE DEF kept, bases, sites
  <1>3. phase = "down" /\ todo = << >> /\ doomed = {}
    BY DEF Init
  <1>4. disk \in Disks
    <2>1. disk.tree \in [Projects -> {"absent", "creating", "active", "deleting", "torn"}]
      BY <1>1
    <2>2. disk.workspace \in [Proposals -> {"absent", "creating", "kept", "deleting", "torn"}]
      BY <1>1
    <2> HIDE DEF trees
    <2> QED
      BY <1>1, <2>1, <2>2 DEF Disks
  <1>5. \A j \in Projects : disk.tree[j] = IF j \in Legacy THEN "active" ELSE "absent"
    BY <1>1
  <1>6. Fresh(disk)
    <2> SUFFICES ASSUME NEW j \in Projects, disk.tree[j] \in {"absent", "creating"},
                        NEW p \in Of(j)
                 PROVE  p \notin disk.revised /\ disk.workspace[p] # "kept"
      BY DEF Fresh
    <2>1. j \notin Legacy
      BY <1>5
    <2> QED
      BY <1>1, <2>1 DEF Of
  <1>7. Retained(disk)
    <2> SUFFICES ASSUME NEW j \in Exists(disk), NEW o \in Needs(disk, j) PROVE o \in disk.objects
      BY DEF Retained
    <2>1. j \in Legacy
      BY <1>1, <1>5 DEF Exists, Active
    <2>2. CASE o \in Base[j]
      BY <1>2, <2>1, <2>2 DEF bases
    <2>3. CASE o \notin Base[j]
      <3>1. o \in Workspaces(disk, j, {"kept"})
        BY <1>1, <2>3 DEF Needs, Manifests
      <3>2. PICK p \in Of(j) : disk.workspace[p] = "kept" /\ o \in Site[p]
        BY <3>1 DEF Workspaces
      <3>3. p \in kept
        BY <3>2 DEF Of, kept
      <3>4. o \in sites
        BY <3>2, <3>3 DEF sites
      <3> QED
        BY <1>2, <3>4
    <2> QED
      BY <2>2, <2>3
  <1>8. OneMigration(disk)
    BY <1>1 DEF OneMigration
  <1>9. Control(disk, << >>, "down")
    BY NothingLeft
  <1> QED
    BY <1>3, <1>4, <1>6, <1>7, <1>8, <1>9 DEF IInv, SoundDisk, Unneeded

\* One lemma per action above; here they are put together.
LEMMA ProjectStepKeeps ==
  ASSUME IInv, NEW j \in Projects, ProjectSteps(j)
  PROVE  IInv'
  BY StageProjectStep, FillProjectStep, PublishProjectStep, UnstageProjectStep,
     ProjectCreatedStep, SweepProposalsStep, ValidateProjectStep, HideProjectStep,
     FinishDeletionStep, CollectProjectStep, HideBackupStep, RemoveBackupStep, RemoveTreeStep,
     ProjectDeletedStep, LoadProjectStep, StartMigrationStep, ResumeMigrationStep,
     CopyBackupStep, PublishBackupStep, CopyTreeStep, SetAsideStep, SwapInStep,
     RemoveAsideStep, EndJournalStep
     DEF ProjectSteps

LEMMA ProposalStepKeeps ==
  ASSUME IInv, NEW p \in Proposals, ProposalSteps(p)
  PROVE  IInv'
  BY StageWorkspaceStep, FillWorkspaceStep, PublishWorkspaceStep, HideWorkspaceStep,
     CollectWorkspaceStep, RemoveWorkspaceStep, FillRevisionStep, WriteManifestStep
     DEF ProposalSteps

LEMMA StartStepKeeps ==
  ASSUME IInv, StartSteps
  PROVE  IInv'
  BY PreflightStep, RecoverMigrationsStep, CleanOrphansStep, RecoverDeletionsStep,
     CheckHiddenBackupsStep, ListProjectsStep, ServeStep
     DEF StartSteps

LEMMA RequestKeeps ==
  ASSUME IInv, Requests
  PROVE  IInv'
  BY CreateProjectStep, DeleteProjectStep, CreateProposalStep, DeleteProposalStep,
     AdoptProposalStep
     DEF Requests

LEMMA Invariance == IInv /\ [Next]_vars => IInv'
  <1> SUFFICES ASSUME IInv, [Next]_vars PROVE IInv'
    OBVIOUS
  <1>1. CASE Requests
    BY <1>1, RequestKeeps
  <1>2. CASE Start
    BY <1>2, StartStep
  <1>3. CASE StartSteps
    BY <1>3, StartStepKeeps
  <1>4. CASE Crash
    BY <1>4, CrashStep
  <1>5. CASE \E j \in Projects : ProjectSteps(j)
    BY <1>5, ProjectStepKeeps
  <1>6. CASE \E p \in Proposals : ProposalSteps(p)
    BY <1>6, ProposalStepKeeps
  <1>7. CASE \E o \in Objects : Drop(o)
    BY <1>7, DropStep
  <1>8. CASE UNCHANGED vars
    BY <1>8 DEF vars, IInv, Unneeded
  <1> QED
    BY <1>1, <1>2, <1>3, <1>4, <1>5, <1>6, <1>7, <1>8 DEF Next

\* Whatever operation is under way, interrupted or failed, its remaining steps
\* find what they rely on: an object about to be named is written, a workspace to
\* be removed is hidden, and the objects being dropped belong to nothing that
\* exists or is being published (cleanup_candidate_objects, resume_migration and
\* the order of the steps of storage.rs).
THEOREM RootIsSound == Spec => []IInv
  BY InitInvariant, Invariance, PTL DEF Spec

\* No object that a retained revision or an open Proposal of an existing project
\* names is ever taken: not by a deletion that shares it, not by the cleanup of
\* what an earlier process left, not by a migration, and not by an error or a
\* death between any two of their steps.
THEOREM RootKeepsObjects == Spec => []RetainedObjectsKept
  <1>1. IInv => RetainedObjectsKept
    BY DEF IInv, SoundDisk, Retained, Needs, RetainedObjectsKept
  <1> QED
    BY <1>1, RootIsSound, PTL

-----------------------------------------------------------------------------
(* The state root implements ProjectCatalog: what the catalog shows of a disk. *)

Open(d) == {p \in Proposals : d.workspace[p] = "kept" /\ ProjectOf[p] \in Exists(d)}
Adopted(d) == {p \in d.revised : ProjectOf[p] \in Exists(d)}

ShowsSame ==
  /\ Exists(disk') = Exists(disk)
  /\ Open(disk') = Open(disk) /\ Adopted(disk') = Adopted(disk)

\* The fields it is made of.
Plain(d) ==
  /\ d.tree = disk.tree /\ d.aside = disk.aside
  /\ d.revised = disk.revised /\ d.workspace = disk.workspace

LEMMA PlainShowsSame == Plain(disk') => ShowsSame
  BY DEF Plain, ShowsSame, Exists, Active, Open, Adopted

LEMMA StutterShows == ASSUME ShowsSame PROVE UNCHANGED Catalog!cvars
  BY DEF ShowsSame, Catalog!cvars, Open, Adopted

\* What a step may leave on disk.
LEMMA StepDisk ==
  ASSUME NEW name, NEW s, NEW ok, NEW e, NEW partial, NEW then,
         Step(name, s, ok, e, partial, then)
  PROVE  /\ At(name, s)
         /\ disk' = disk \/ (ok /\ (disk' = e \/ disk' \in partial))
  BY DEF Step, At, Die

LEMMA CheckDisk ==
  ASSUME NEW name, NEW s, NEW ok, NEW then, Check(name, s, ok, then)
  PROVE  disk' = disk
  BY DEF Check, Step

LEMMA SameDiskShows == ASSUME disk' = disk PROVE ShowsSame
  BY PlainShowsSame DEF Plain

\* What exists is a tree or an old tree of a project.
LEMMA OpenFacts ==
  ASSUME IInv
  PROVE  /\ disk \in Disks
         /\ Exists(disk) \subseteq Projects
         /\ \A j \in Exists(disk) : disk.tree[j] = "active" \/ j \in disk.aside
  BY DiskFields DEF IInv, SoundDisk, Exists, Active

\* Steps that write no tree and no workspace.
LEMMA PlainStepsShow ==
  ASSUME IInv, NEW j \in Projects,
         \/ FillProject(j) \/ HideBackup(j) \/ RemoveBackup(j) \/ CopyBackup(j)
         \/ PublishBackup(j) \/ CopyTree(j) \/ EndJournal(j) \/ StartMigration(j)
  PROVE  ShowsSame
  <1> DEFINE files == {[disk EXCEPT !.objects = @ \cup some] : some \in SUBSET Base[j]}
  <1>1. disk \in Disks
    BY OpenFacts
  <1>2. CASE FillProject(j)
    <2>1. disk' = disk \/ disk' = [disk EXCEPT !.objects = @ \cup Base[j]] \/ disk' \in files
      BY <1>2, StepDisk DEF FillProject
    <2>2. \A d \in files : Plain(d)
      BY <1>1 DEF Disks, Plain
    <2> QED
      BY <1>1, <2>1, <2>2, PlainShowsSame DEF Disks, Plain
  <1> HIDE DEF files
  <1>3. CASE HideBackup(j)
    <2>1. \/ disk' = disk
          \/ disk' = [disk EXCEPT !.backup[j] = IF @ = "absent" THEN "absent" ELSE "deleting"]
      BY <1>3, StepDisk DEF HideBackup
    <2> QED
      BY <1>1, <2>1, PlainShowsSame DEF Disks, Plain
  <1>4. CASE RemoveBackup(j)
    <2> DEFINE partial == IF disk.backup[j] = "deleting"
                          THEN {[disk EXCEPT !.backup[j] = "torn"]} ELSE {}
    <2>1. disk' = disk \/ disk' = [disk EXCEPT !.backup[j] = "absent"] \/ disk' \in partial
      BY <1>4, StepDisk DEF RemoveBackup
    <2>2. \A d \in partial : Plain(d)
      BY <1>1 DEF Disks, Plain
    <2> HIDE DEF partial
    <2> QED
      BY <1>1, <2>1, <2>2, PlainShowsSame DEF Disks, Plain
  <1>5. CASE CopyBackup(j)
    <2>1. disk' = disk \/ disk' = [disk EXCEPT !.backup[j] = "creating"]
      BY <1>5 DEF CopyBackup, Step, Die
    <2> QED
      BY <1>1, <2>1, PlainShowsSame DEF Disks, Plain
  <1>6. CASE PublishBackup(j)
    <2>1. disk' = disk \/ disk' = [disk EXCEPT !.backup[j] = "kept"]
      BY <1>6 DEF PublishBackup, Step, Die
    <2> QED
      BY <1>1, <2>1, PlainShowsSame DEF Disks, Plain
  <1>7. CASE CopyTree(j)
    <2>1. \/ disk' = disk \/ disk' = [disk EXCEPT !.migrating[j] = "whole"]
          \/ disk' = [disk EXCEPT !.migrating[j] = "partial"]
          \/ disk' = [disk EXCEPT !.migrating[j] = "absent"]
      BY <1>7 DEF CopyTree, Step, Die
    <2> QED
      BY <1>1, <2>1, PlainShowsSame DEF Disks, Plain
  <1>8. CASE EndJournal(j)
    <2>1. disk' = disk \/ disk' = [disk EXCEPT !.journal = @ \ {j}]
      BY <1>8 DEF EndJournal, Step, Die
    <2> QED
      BY <1>1, <2>1, PlainShowsSame DEF Disks, Plain
  <1>9. CASE StartMigration(j)
    <2>1. disk' = disk \/ disk' = [disk EXCEPT !.journal = @ \cup {j}]
      BY <1>9, StepDisk DEF StartMigration
    <2> QED
      BY <1>1, <2>1, PlainShowsSame DEF Disks, Plain
  <1> QED
    BY <1>2, <1>3, <1>4, <1>5, <1>6, <1>7, <1>8, <1>9

LEMMA CleanOrphansShows == ASSUME IInv, CleanOrphans PROVE ShowsSame
  <1>1. \/ disk' = disk
        \/ disk' = [disk EXCEPT !.migrating = [k \in Projects |-> "absent"],
                                !.backup = [k \in Projects |->
                                              IF @[k] = "creating" THEN "absent" ELSE @[k]]]
    BY StepDisk DEF CleanOrphans
  <1>2. disk \in Disks
    BY OpenFacts
  <1> QED
    BY <1>1, <1>2, PlainShowsSame DEF Disks, Plain

\* Steps that only read.
LEMMA ReadingStepsShow ==
  ASSUME NEW j \in Projects,
         \/ ProjectCreated(j) \/ SweepProposals(j) \/ ValidateProject(j) \/ FinishDeletion(j)
         \/ CollectProject(j) \/ ProjectDeleted(j) \/ ResumeMigration(j)
  PROVE  ShowsSame
  <1>1. CASE ProjectCreated(j) \/ ProjectDeleted(j)
    BY <1>1, SameDiskShows DEF ProjectCreated, ProjectDeleted
  <1>2. CASE SweepProposals(j)
    BY <1>2, CheckDisk, SameDiskShows DEF SweepProposals
  <1>3. CASE ValidateProject(j)
    BY <1>3, CheckDisk, SameDiskShows DEF ValidateProject
  <1>4. CASE FinishDeletion(j)
    BY <1>4, CheckDisk, SameDiskShows DEF FinishDeletion
  <1>5. CASE CollectProject(j)
    BY <1>5, SameDiskShows DEF CollectProject, Collect
  <1>6. CASE ResumeMigration(j)
    BY <1>6, CheckDisk, SameDiskShows DEF ResumeMigration
  <1> QED
    BY <1>1, <1>2, <1>3, <1>4, <1>5, <1>6

LEMMA OtherStepsShow ==
  ASSUME IInv,
         \/ Requests \/ Start \/ Crash \/ Preflight \/ RecoverMigrations \/ RecoverDeletions
         \/ CheckHiddenBackups \/ ListProjects \/ Serve \/ \E o \in Objects : Drop(o)
  PROVE  ShowsSame
  <1>1. CASE Requests \/ Start \/ Crash \/ Serve
    <2>1. disk' = disk
      BY <1>1 DEF Requests, CreateProject, DeleteProject, CreateProposal, DeleteProposal,
                  AdoptProposal, Begin, Start, Crash, Serve
    <2> QED
      BY <2>1, SameDiskShows
  <1>2. CASE Preflight
    BY <1>2, CheckDisk, SameDiskShows DEF Preflight
  <1>3. CASE RecoverMigrations
    BY <1>3, CheckDisk, SameDiskShows DEF RecoverMigrations
  <1>4. CASE RecoverDeletions
    BY <1>4, CheckDisk, SameDiskShows DEF RecoverDeletions
  <1>5. CASE CheckHiddenBackups
    BY <1>5, CheckDisk, SameDiskShows DEF CheckHiddenBackups
  <1>6. CASE ListProjects
    BY <1>6, CheckDisk, SameDiskShows DEF ListProjects
  <1>7. ASSUME NEW o \in Objects, Drop(o)
        PROVE  ShowsSame
    <2>1. disk' = disk \/ disk' = [disk EXCEPT !.objects = @ \ {o}]
      BY <1>7 DEF Drop
    <2>2. disk \in Disks
      BY OpenFacts
    <2> QED
      BY <2>1, <2>2, PlainShowsSame DEF Disks, Plain
  <1> QED
    BY <1>1, <1>2, <1>3, <1>4, <1>5, <1>6, <1>7

\* A tree that is renamed or removed, where nothing existed and nothing exists:
\* what belongs to it may go too.
LEMMA UnseenShows ==
  ASSUME IInv, NEW j \in Projects, disk.tree[j] # "active", NEW name,
         name # "active", disk'.tree = [disk.tree EXCEPT ![j] = name],
         disk'.aside = disk.aside,
         \A p \in Proposals : ProjectOf[p] # j =>
           /\ disk'.workspace[p] = disk.workspace[p]
           /\ p \in disk'.revised <=> p \in disk.revised,
         disk'.revised \subseteq Proposals,
         j \notin disk.aside \/ (disk'.workspace = disk.workspace /\ disk'.revised = disk.revised)
  PROVE  ShowsSame
  <1>1. disk \in Disks /\ disk.revised \subseteq Proposals
    BY OpenFacts, DiskFields
  <1>2. \A k \in Projects : disk'.tree[k] = "active" <=> disk.tree[k] = "active"
    BY <1>1, DiskFields
  <1>3. Exists(disk') = Exists(disk)
    BY <1>2 DEF Exists, Active
  <1>4. j \notin disk.aside => j \notin Exists(disk)
    BY DEF Exists, Active
  <1>5. Open(disk') = Open(disk)
    BY <1>3, <1>4 DEF Open
  <1>6. Adopted(disk') = Adopted(disk)
    BY <1>1, <1>3, <1>4 DEF Adopted
  <1> QED
    BY <1>3, <1>5, <1>6 DEF ShowsSame

LEMMA UnseenStepsShow ==
  ASSUME IInv, NEW j \in Projects,
         StageProject(j) \/ UnstageProject(j) \/ RemoveTree(j) \/ LoadProject(j)
  PROVE  ShowsSame
  <1>1. disk \in Disks /\ disk.revised \subseteq Proposals
    BY OpenFacts, DiskFields
  <1>2. CASE StageProject(j)
    <2>1. disk' = disk \/ (disk.tree[j] = "absent" /\ disk' = [disk EXCEPT !.tree[j] = "creating"])
      BY <1>2 DEF StageProject, Step, Die
    <2> QED
      BY <1>1, <2>1, UnseenShows, SameDiskShows DEF Disks
  <1>3. CASE UnstageProject(j)
    <2>1. At("unstage", j) /\ (disk' = disk \/ disk' = [disk EXCEPT !.tree[j] = "absent"])
      BY <1>3 DEF UnstageProject, Step, Die, At
    <2>2. disk.tree[j] = "creating"
      BY <2>1, AtHead DEF Relies
    <2> QED
      BY <1>1, <2>1, <2>2, UnseenShows, SameDiskShows DEF Disks
  <1>4. CASE RemoveTree(j)
    <2> DEFINE e == [disk EXCEPT !.tree[j] = "absent", !.marked = @ \ {j}, !.revised = @ \ Of(j),
                       !.workspace = [p \in Proposals |-> IF p \in Of(j) THEN "absent" ELSE @[p]]]
               c == [disk EXCEPT !.tree[j] = "torn"]
    <2>1. Step("removeTree", j, TRUE, e, {c}, << >>)
      BY <1>4 DEF RemoveTree
    <2>2. At("removeTree", j) /\ (disk' = disk \/ disk' = e \/ disk' = c)
      <3> HIDE DEF e, c
      <3> QED
        BY <2>1 DEF Step, Die, At
    <2>3. disk.tree[j] = "deleting"
      <3>1. Holds(disk, todo[1]) /\ todo[1] = <<"removeTree", j>>
        BY <2>2, AtHead, AheadFacts
      <3>2. todo[1][1] = "removeTree" /\ todo[1][2] = j
        BY <3>1
      <3> QED
        BY <3>1, <3>2 DEF Holds
    <2>4. /\ e.tree = [disk.tree EXCEPT ![j] = "absent"] /\ e.aside = disk.aside
          /\ e.revised = disk.revised \ Of(j)
          /\ e.workspace = [p \in Proposals |-> IF p \in Of(j) THEN "absent" ELSE disk.workspace[p]]
      BY <1>1 DEF Disks
    <2>5. /\ c.tree = [disk.tree EXCEPT ![j] = "torn"] /\ c.aside = disk.aside
          /\ c.revised = disk.revised /\ c.workspace = disk.workspace
      BY <1>1 DEF Disks
    <2> HIDE DEF e, c
    <2>6. j \notin disk.aside
      BY <2>3 DEF IInv, SoundDisk, OneMigration
    <2>7. \A p \in Proposals : ProjectOf[p] # j =>
            e.workspace[p] = disk.workspace[p] /\ (p \in e.revised <=> p \in disk.revised)
      BY <2>4 DEF Of
    <2>8. CASE disk' = e
      BY <1>1, <2>3, <2>4, <2>6, <2>7, <2>8, UnseenShows
    <2>9. CASE disk' = c
      BY <1>1, <2>3, <2>5, <2>9, UnseenShows
    <2> QED
      BY <2>2, <2>8, <2>9, SameDiskShows
  <1>5. CASE LoadProject(j)
    <2>1. CASE disk.tree[j] = "creating"
      <3>1. disk' = disk \/ disk' = [disk EXCEPT !.tree[j] = "absent"]
        BY <1>5, <2>1 DEF LoadProject, Step, Die
      <3> QED
        BY <1>1, <2>1, <3>1, UnseenShows, SameDiskShows DEF Disks
    <2>2. CASE disk.tree[j] # "creating"
      <3>1. disk' = disk \/ disk' = [disk EXCEPT !.temporary = @ \ {j}]
        BY <1>5, <2>2 DEF LoadProject, Step, Die
      <3> QED
        BY <1>1, <3>1, PlainShowsSame DEF Disks, Plain
    <2> QED
      BY <2>1, <2>2
  <1> QED
    BY <1>2, <1>3, <1>4, <1>5

\* The two renames of a migration, and the removal of the old tree, which goes
\* once the new one has the name.
LEMMA MigrationStepsShow ==
  ASSUME IInv, NEW j \in Projects, SetAside(j) \/ SwapIn(j) \/ RemoveAside(j)
  PROVE  ShowsSame
  <1>1. disk \in Disks
    BY OpenFacts
  <1>2. SUFFICES /\ Exists(disk') = Exists(disk)
                 /\ disk'.workspace = disk.workspace /\ disk'.revised = disk.revised
    BY DEF ShowsSame, Open, Adopted
  <1>3. CASE disk' = disk
    BY <1>3
  <1>4. CASE SetAside(j) /\ disk' # disk
    <2>1. At("setAside", j) /\ disk' = [disk EXCEPT !.tree[j] = "absent", !.aside = @ \cup {j}]
      BY <1>4 DEF SetAside, Step, Die, At
    <2>2. Holds(disk, todo[1]) /\ todo[1] = <<"setAside", j>>
      BY <2>1, AtHead, AheadFacts
    <2>3. todo[1][1] = "setAside" /\ todo[1][2] = j
      BY <2>2
    <2>4. disk.tree[j] = "active"
      BY <2>2, <2>3 DEF Holds
    <2>5. /\ disk'.tree = [disk.tree EXCEPT ![j] = "absent"] /\ disk'.aside = disk.aside \cup {j}
          /\ disk'.workspace = disk.workspace /\ disk'.revised = disk.revised
      BY <1>1, <2>1 DEF Disks
    <2>6. \A k \in Projects : disk'.tree[k] = IF k = j THEN "absent" ELSE disk.tree[k]
      BY <1>1, <2>5, DiskFields
    <2>7. \A k : k \in Exists(disk') <=> k \in Exists(disk)
      BY <2>4, <2>5, <2>6 DEF Exists, Active
    <2> QED
      BY <2>5, <2>7
  <1>5. CASE SwapIn(j) /\ disk' # disk
    <2>1. j \in disk.aside /\ disk' = [disk EXCEPT !.tree[j] = "active", !.marked = @ \cup {j},
                                                   !.migrating[j] = "absent"]
      BY <1>5 DEF SwapIn, Step, Die
    <2>2. /\ disk'.tree = [disk.tree EXCEPT ![j] = "active"] /\ disk'.aside = disk.aside
          /\ disk'.workspace = disk.workspace /\ disk'.revised = disk.revised
      BY <1>1, <2>1 DEF Disks
    <2>3. \A k \in Projects : disk'.tree[k] = IF k = j THEN "active" ELSE disk.tree[k]
      BY <1>1, <2>2, DiskFields
    <2>4. \A k : k \in Exists(disk') <=> k \in Exists(disk)
      BY <2>1, <2>2, <2>3 DEF Exists, Active
    <2> QED
      BY <2>2, <2>4
  <1>6. CASE RemoveAside(j) /\ disk' # disk
    <2>1. At("removeAside", j) /\ disk' = [disk EXCEPT !.aside = @ \ {j}]
      BY <1>6 DEF RemoveAside, Step, Die, At
    <2>2. \A k \in disk.aside : disk.tree[k] = "active"
      BY <2>1, AtHead, AsideActive DEF IInv
    <2>3. /\ disk'.tree = disk.tree /\ disk'.aside = disk.aside \ {j}
          /\ disk'.workspace = disk.workspace /\ disk'.revised = disk.revised
      BY <1>1, <2>1 DEF Disks
    <2>4. \A k : k \in Exists(disk') <=> k \in Exists(disk)
      <3>1. disk.aside \subseteq Projects
        BY <1>1, DiskFields
      <3> QED
        BY <2>2, <2>3, <3>1 DEF Exists, Active
    <2> QED
      BY <2>3, <2>4
  <1> QED
    BY <1>3, <1>4, <1>5, <1>6

\* Steps on a workspace that is not open, before or after.
LEMMA HiddenWorkspaceShows ==
  ASSUME IInv, NEW p \in Proposals, disk.workspace[p] # "kept", NEW value, value # "kept",
         disk'.tree = disk.tree, disk'.aside = disk.aside, disk'.revised = disk.revised,
         disk'.workspace = [disk.workspace EXCEPT ![p] = value]
  PROVE  ShowsSame
  <1>1. disk \in Disks
    BY OpenFacts
  <1>2. \A x \in Proposals : disk'.workspace[x] = "kept" <=> disk.workspace[x] = "kept"
    BY <1>1, DiskFields
  <1>3. Exists(disk') = Exists(disk)
    BY DEF Exists, Active
  <1> QED
    BY <1>2, <1>3 DEF ShowsSame, Open, Adopted

LEMMA WorkspaceStepsShow ==
  ASSUME IInv, NEW p \in Proposals,
         \/ StageWorkspace(p) \/ FillWorkspace(p) \/ CollectWorkspace(p) \/ RemoveWorkspace(p)
         \/ FillRevision(p)
  PROVE  ShowsSame
  <1>1. disk \in Disks
    BY OpenFacts
  <1>2. CASE StageWorkspace(p)
    <2>1. disk' = disk \/ (disk.workspace[p] = "absent"
                           /\ disk' = [disk EXCEPT !.workspace[p] = "creating"])
      BY <1>2 DEF StageWorkspace, Step, Die
    <2> QED
      BY <1>1, <2>1, HiddenWorkspaceShows, SameDiskShows DEF Disks
  <1>3. CASE FillWorkspace(p)
    <2> DEFINE files == {[disk EXCEPT !.objects = @ \cup some] : some \in SUBSET Site[p]}
    <2>1. disk' = disk \/ disk' = [disk EXCEPT !.objects = @ \cup Site[p]] \/ disk' \in files
      BY <1>3, StepDisk DEF FillWorkspace
    <2>2. \A d \in files : Plain(d)
      BY <1>1 DEF Disks, Plain
    <2> QED
      BY <1>1, <2>1, <2>2, PlainShowsSame DEF Disks, Plain
  <1>4. CASE CollectWorkspace(p)
    BY <1>4, SameDiskShows DEF CollectWorkspace, Collect
  <1>5. CASE RemoveWorkspace(p)
    <2> DEFINE partial == IF disk.workspace[p] = "deleting"
                          THEN {[disk EXCEPT !.workspace[p] = "torn"]} ELSE {}
    <2>1. Step("removeWorkspace", p, TRUE, [disk EXCEPT !.workspace[p] = "absent"], partial, << >>)
      BY <1>5 DEF RemoveWorkspace
    <2>2. \A d \in partial : d = [disk EXCEPT !.workspace[p] = "torn"]
      OBVIOUS
    <2> HIDE DEF partial
    <2>3. At("removeWorkspace", p)
          /\ (disk' = disk \/ disk' = [disk EXCEPT !.workspace[p] = "absent"] \/ disk' \in partial)
      BY <2>1 DEF Step, Die, At
    <2>4. disk.workspace[p] # "kept"
      <3>1. Relies(disk, todo[1]) /\ todo[1] = <<"removeWorkspace", p>>
        BY <2>3, AtHead
      <3>2. todo[1][1] = "removeWorkspace" /\ todo[1][2] = p
        BY <3>1
      <3> QED
        BY <3>1, <3>2 DEF Relies
    <2>5. \/ disk' = disk \/ disk' = [disk EXCEPT !.workspace[p] = "absent"]
          \/ disk' = [disk EXCEPT !.workspace[p] = "torn"]
      BY <2>2, <2>3
    <2> QED
      BY <1>1, <2>4, <2>5, HiddenWorkspaceShows, SameDiskShows DEF Disks
  <1>6. CASE FillRevision(p)
    <2>1. disk' = disk \/ disk' = [disk EXCEPT !.objects = @ \cup Site[p]]
      BY <1>6 DEF FillRevision, Step, Die
    <2> QED
      BY <1>1, <2>1, PlainShowsSame DEF Disks, Plain
  <1> QED
    BY <1>2, <1>3, <1>4, <1>5, <1>6

-----------------------------------------------------------------------------
(* The steps the catalog shows. *)

LEMMA PublishProjectAdds ==
  ASSUME IInv, NEW j \in Projects, PublishProject(j)
  PROVE  ShowsSame \/ Catalog!AddProject(j)
  <1>1. At("publish", j) /\ (disk' = disk
          \/ disk' = [disk EXCEPT !.tree[j] = "active", !.marked = @ \cup {j}])
    BY DEF PublishProject, Step, Die, At
  <1>2. disk \in Disks /\ disk.tree[j] = "creating"
    <2>1. Relies(disk, todo[1]) /\ todo[1] = <<"publish", j>> /\ disk \in Disks
      BY <1>1, AtHead
    <2>2. todo[1][1] = "publish" /\ todo[1][2] = j
      BY <2>1
    <2> QED
      BY <2>1, <2>2 DEF Relies
  <1>3. CASE disk' = disk
    BY <1>3, SameDiskShows
  <1>4. CASE disk' = [disk EXCEPT !.tree[j] = "active", !.marked = @ \cup {j}]
    <2>1. /\ disk'.tree = [disk.tree EXCEPT ![j] = "active"] /\ disk'.aside = disk.aside
          /\ disk'.workspace = disk.workspace /\ disk'.revised = disk.revised
      BY <1>2, <1>4 DEF Disks
    <2>2. \A k \in Projects : disk'.tree[k] = IF k = j THEN "active" ELSE disk.tree[k]
      BY <1>2, <2>1, DiskFields
    <2>3. j \notin disk.aside
      BY <1>2 DEF IInv, SoundDisk, OneMigration
    <2>4. j \notin Exists(disk) /\ Exists(disk') = Exists(disk) \cup {j}
      BY <1>2, <2>1, <2>2, <2>3 DEF Exists, Active
    <2>5. \A p \in Proposals : ProjectOf[p] = j => p \notin disk.revised /\ disk.workspace[p] # "kept"
      BY <1>2, <2>3 DEF IInv, SoundDisk, Fresh, Of
    <2>6. disk.revised \subseteq Proposals
      BY <1>2, DiskFields
    <2>7. Open(disk') = Open(disk) /\ Adopted(disk') = Adopted(disk)
      BY <2>1, <2>4, <2>5, <2>6 DEF Open, Adopted
    <2> QED
      BY <2>4, <2>7 DEF Catalog!AddProject, Open, Adopted
  <1> QED
    BY <1>1, <1>3, <1>4

LEMMA HideProjectDrops ==
  ASSUME IInv, NEW j \in Projects, HideProject(j)
  PROVE  ShowsSame \/ Catalog!DropProject(j)
  <1>1. \/ disk' = disk
        \/ j \notin disk.journal /\ disk' = [disk EXCEPT !.tree[j] = "deleting"]
    BY DEF HideProject, Step, Die
  <1>2. disk \in Disks /\ disk.revised \subseteq Proposals
    BY OpenFacts, DiskFields
  <1>3. CASE disk' = disk
    BY <1>3, SameDiskShows
  <1>4. CASE j \notin disk.journal /\ disk' = [disk EXCEPT !.tree[j] = "deleting"]
    <2>1. /\ disk'.tree = [disk.tree EXCEPT ![j] = "deleting"] /\ disk'.aside = disk.aside
          /\ disk'.workspace = disk.workspace /\ disk'.revised = disk.revised
      BY <1>2, <1>4 DEF Disks
    <2>2. \A k \in Projects : disk'.tree[k] = IF k = j THEN "deleting" ELSE disk.tree[k]
      BY <1>2, <2>1, DiskFields
    <2>3. j \notin disk.aside
      BY <1>4 DEF IInv, SoundDisk, OneMigration
    <2>4. Exists(disk') = Exists(disk) \ {j}
      BY <2>1, <2>2, <2>3 DEF Exists, Active
    <2>5. CASE j \in Exists(disk)
      <3>1. Open(disk') = {p \in Open(disk) : ProjectOf[p] # j}
        BY <2>1, <2>4 DEF Open
      <3>2. Adopted(disk') = {p \in Adopted(disk) : ProjectOf[p] # j}
        BY <2>1, <2>4 DEF Adopted
      <3> QED
        BY <2>4, <2>5, <3>1, <3>2 DEF Catalog!DropProject, Open, Adopted
    <2>6. CASE j \notin Exists(disk)
      <3>1. Exists(disk') = Exists(disk)
        BY <2>4, <2>6
      <3> QED
        BY <2>1, <3>1 DEF ShowsSame, Open, Adopted
    <2> QED
      BY <2>5, <2>6
  <1> QED
    BY <1>1, <1>3, <1>4

LEMMA PublishWorkspaceAdds ==
  ASSUME IInv, NEW p \in Proposals, PublishWorkspace(p)
  PROVE  ShowsSame \/ Catalog!AddWorkspace(p)
  <1>1. At("publishWorkspace", p)
        /\ (disk' = disk \/ disk' = [disk EXCEPT !.workspace[p] = "kept"])
    BY DEF PublishWorkspace, Step, Die, At
  <1>2. disk \in Disks /\ disk.workspace[p] = "creating" /\ disk.tree[ProjectOf[p]] = "active"
    <2>1. Relies(disk, todo[1]) /\ todo[1] = <<"publishWorkspace", p>> /\ disk \in Disks
      BY <1>1, AtHead
    <2>2. todo[1][1] = "publishWorkspace" /\ todo[1][2] = p
      BY <2>1
    <2> QED
      BY <2>1, <2>2 DEF Relies
  <1>3. CASE disk' = disk
    BY <1>3, SameDiskShows
  <1>4. CASE disk' = [disk EXCEPT !.workspace[p] = "kept"]
    <2>1. /\ disk'.tree = disk.tree /\ disk'.aside = disk.aside /\ disk'.revised = disk.revised
          /\ disk'.workspace = [disk.workspace EXCEPT ![p] = "kept"]
      BY <1>2, <1>4 DEF Disks
    <2>2. \A x \in Proposals : disk'.workspace[x] = IF x = p THEN "kept" ELSE disk.workspace[x]
      BY <1>2, <2>1, DiskFields
    <2>3. Exists(disk') = Exists(disk) /\ ProjectOf[p] \in Exists(disk)
      BY <1>2, <2>1, StateRootAssumption DEF Exists, Active
    <2>4. p \notin Open(disk) /\ Open(disk') = Open(disk) \cup {p}
      BY <1>2, <2>2, <2>3 DEF Open
    <2>5. Adopted(disk') = Adopted(disk)
      BY <2>1, <2>3 DEF Adopted
    <2> QED
      BY <2>3, <2>4, <2>5 DEF Catalog!AddWorkspace, Open, Adopted
  <1> QED
    BY <1>1, <1>3, <1>4

LEMMA HideWorkspaceDrops ==
  ASSUME IInv, NEW p \in Proposals, HideWorkspace(p)
  PROVE  ShowsSame \/ Catalog!DropWorkspace(p)
  <1>1. At("hideWorkspace", p)
        /\ (disk' = disk \/ (disk.workspace[p] = "kept"
                             /\ disk' = [disk EXCEPT !.workspace[p] = "deleting"]))
    BY DEF HideWorkspace, Step, Die, At
  <1>2. disk \in Disks /\ p \notin disk.revised
    <2>1. Holds(disk, todo[1]) /\ todo[1] = <<"hideWorkspace", p>> /\ disk \in Disks
      BY <1>1, AtHead, AheadFacts
    <2>2. todo[1][1] = "hideWorkspace" /\ todo[1][2] = p
      BY <2>1
    <2> QED
      BY <2>1, <2>2 DEF Holds
  <1>3. CASE disk' = disk
    BY <1>3, SameDiskShows
  <1>4. CASE disk.workspace[p] = "kept" /\ disk' = [disk EXCEPT !.workspace[p] = "deleting"]
    <2>1. /\ disk'.tree = disk.tree /\ disk'.aside = disk.aside /\ disk'.revised = disk.revised
          /\ disk'.workspace = [disk.workspace EXCEPT ![p] = "deleting"]
      BY <1>2, <1>4 DEF Disks
    <2>2. \A x \in Proposals : disk'.workspace[x] = IF x = p THEN "deleting" ELSE disk.workspace[x]
      BY <1>2, <2>1, DiskFields
    <2>3. Exists(disk') = Exists(disk)
      BY <2>1 DEF Exists, Active
    <2>4. Open(disk') = Open(disk) \ {p}
      BY <2>2, <2>3 DEF Open
    <2>5. Adopted(disk') = Adopted(disk) /\ p \notin Adopted(disk)
      BY <1>2, <2>1, <2>3 DEF Adopted
    <2>6. CASE p \in Open(disk)
      BY <2>3, <2>4, <2>5, <2>6 DEF Catalog!DropWorkspace, Open, Adopted
    <2>7. CASE p \notin Open(disk)
      BY <2>3, <2>4, <2>5, <2>7 DEF ShowsSame
    <2> QED
      BY <2>6, <2>7
  <1> QED
    BY <1>1, <1>3, <1>4

LEMMA WriteManifestRevises ==
  ASSUME IInv, NEW p \in Proposals, WriteManifest(p)
  PROVE  ShowsSame \/ Catalog!Revise(p)
  <1>1. At("manifest", p)
        /\ (disk' = disk \/ disk' = [disk EXCEPT !.revised = @ \cup {p}]
            \/ disk' = [disk EXCEPT !.temporary = @ \cup {ProjectOf[p]}])
    BY DEF WriteManifest, Step, Die, At
  <1>2. /\ disk \in Disks /\ p \notin disk.revised /\ disk.workspace[p] = "kept"
        /\ disk.tree[ProjectOf[p]] = "active"
    <2>1. /\ Holds(disk, todo[1]) /\ Relies(disk, todo[1]) /\ todo[1] = <<"manifest", p>>
          /\ disk \in Disks
      BY <1>1, AtHead, AheadFacts
    <2>2. todo[1][1] = "manifest" /\ todo[1][2] = p
      BY <2>1
    <2> QED
      BY <2>1, <2>2 DEF Holds, Relies
  <1>3. CASE disk' = disk
    BY <1>3, SameDiskShows
  <1>4. CASE disk' = [disk EXCEPT !.temporary = @ \cup {ProjectOf[p]}]
    BY <1>2, <1>4, PlainShowsSame DEF Disks, Plain
  <1>5. CASE disk' = [disk EXCEPT !.revised = @ \cup {p}]
    <2>1. /\ disk'.tree = disk.tree /\ disk'.aside = disk.aside
          /\ disk'.revised = disk.revised \cup {p} /\ disk'.workspace = disk.workspace
      BY <1>2, <1>5 DEF Disks
    <2>2. Exists(disk') = Exists(disk) /\ ProjectOf[p] \in Exists(disk)
      BY <1>2, <2>1, StateRootAssumption DEF Exists, Active
    <2>3. Open(disk') = Open(disk) /\ p \in Open(disk)
      BY <1>2, <2>1, <2>2 DEF Open
    <2>4. Adopted(disk') = Adopted(disk) \cup {p} /\ p \notin Adopted(disk)
      BY <1>2, <2>1, <2>2 DEF Adopted
    <2> QED
      BY <2>2, <2>3, <2>4 DEF Catalog!Revise, Open, Adopted
  <1> QED
    BY <1>1, <1>3, <1>4, <1>5

-----------------------------------------------------------------------------
(* The refinement. *)

LEMMA CatalogInit == Init => Catalog!CInit
  <1> SUFFICES ASSUME Init PROVE Catalog!CInit
    OBVIOUS
  <1>1. IInv /\ disk.revised = {}
    BY InitInvariant DEF Init
  <1>2. Exists(disk) \subseteq Projects
    BY <1>1, OpenFacts
  <1> QED
    BY <1>1, <1>2 DEF Catalog!CInit

LEMMA CatalogStep == IInv /\ [Next]_vars => [Catalog!CNext]_(Catalog!cvars)
  <1> SUFFICES ASSUME IInv, [Next]_vars PROVE Catalog!CNext \/ UNCHANGED Catalog!cvars
    OBVIOUS
  <1>1. CASE Requests \/ Start \/ Crash
    BY <1>1, OtherStepsShow, StutterShows
  <1>2. CASE StartSteps
    <2>1. CASE CleanOrphans
      BY <2>1, CleanOrphansShows, StutterShows
    <2> QED
      BY <1>2, <2>1, OtherStepsShow, StutterShows DEF StartSteps
  <1>3. ASSUME NEW j \in Projects, ProjectSteps(j)
        PROVE  Catalog!CNext \/ UNCHANGED Catalog!cvars
    <2>1. CASE PublishProject(j)
      BY <2>1, PublishProjectAdds, StutterShows DEF Catalog!CNext
    <2>2. CASE HideProject(j)
      BY <2>2, HideProjectDrops, StutterShows DEF Catalog!CNext
    <2> QED
      BY <1>3, <2>1, <2>2, PlainStepsShow, ReadingStepsShow, UnseenStepsShow, MigrationStepsShow,
         StutterShows DEF ProjectSteps
  <1>4. ASSUME NEW p \in Proposals, ProposalSteps(p)
        PROVE  Catalog!CNext \/ UNCHANGED Catalog!cvars
    <2>1. CASE PublishWorkspace(p)
      BY <2>1, PublishWorkspaceAdds, StutterShows DEF Catalog!CNext
    <2>2. CASE HideWorkspace(p)
      BY <2>2, HideWorkspaceDrops, StutterShows DEF Catalog!CNext
    <2>3. CASE WriteManifest(p)
      BY <2>3, WriteManifestRevises, StutterShows DEF Catalog!CNext
    <2> QED
      BY <1>4, <2>1, <2>2, <2>3, WorkspaceStepsShow, StutterShows DEF ProposalSteps
  <1>5. CASE \E o \in Objects : Drop(o)
    BY <1>5, OtherStepsShow, StutterShows
  <1>6. CASE UNCHANGED vars
    BY <1>6, SameDiskShows, StutterShows DEF vars
  <1> QED
    BY <1>1, <1>2, <1>3, <1>4, <1>5, <1>6 DEF Next

\* The state root is a catalog in which projects and Proposals come, are adopted
\* and go in one step each, their rename on disk, whatever else an operation has
\* left to do and wherever it is interrupted (create_project, delete_project,
\* prepare_proposal, delete_proposal, commit_revision_at, resume_migration).
THEOREM RootIsCatalog == Spec => ImplementsCatalog
  <1>1. Init => Catalog!CInit
    BY CatalogInit
  <1>2. IInv /\ [Next]_vars => [Catalog!CNext]_(Catalog!cvars)
    BY CatalogStep
  <1> QED
    BY <1>1, <1>2, RootIsSound, PTL DEF Spec, ImplementsCatalog, Catalog!CSpec

-----------------------------------------------------------------------------
(* Migrations stay readable and answers durable.  First the disk, with what was    *)
(* answered (s) and the identifiers given out (u).                                *)

\* In each state of a migration one tree of the project is whole, and the backup is
\* there before the old one goes.
Legible(d) ==
  /\ d.journal \subseteq Exists(d)
  /\ \A j \in d.aside : d.backup[j] = "kept"
  /\ Active(d) \cap d.aside \subseteq {j \in d.marked : d.migrating[j] = "absent"}
  /\ \A j \in Active(d) \cap d.marked \cap Legacy : d.backup[j] = "kept"

Cleared(d, j) ==
  /\ d.tree[j] = "absent" /\ d.backup[j] = "absent"
  /\ \A p \in Of(j) : d.workspace[p] = "absent"

\* A project a creation was answered for exists, and of one a deletion was answered
\* for nothing is left.
Answered(d, s, u) ==
  /\ \A j \in Projects : s[j] = "created" => j \in Exists(d)
  /\ \A j \in Projects : s[j] = "deleted" => Cleared(d, j) /\ j \notin d.aside
  /\ \A j \in Projects : s[j] # "none" \/ d.tree[j] # "absent" \/ j \in d.aside => j \in u
  /\ Legacy \subseteq u

Lasting(d, s, u) == Legible(d) /\ Answered(d, s, u)

\* Step x finds these, once none of its Makers is ahead of it ...
Meets(d, x) ==
  /\ x[2] \in Projects
  /\ x[1] \in {"copyBackup", "publishBackup", "migrate", "setAside"} =>
       d.tree[x[2]] = "active" /\ x[2] \notin d.marked
  /\ x[1] = "copyBackup" => x[2] \notin d.aside /\ d.backup[x[2]] # "kept"
  /\ x[1] = "copyTree" => ~HasNewLayout(d, x[2])
  /\ x[1] = "setAside" => d.backup[x[2]] = "kept"
  /\ x[1] = "removeAside" => d.tree[x[2]] = "active" /\ x[2] \in d.marked
  /\ x[1] \in {"hide", "created"} => d.tree[x[2]] = "active"
  /\ x[1] \in {"hideBackup", "removeBackup"} => d.tree[x[2]] = "deleting"
  /\ x[1] = "removeTree" => d.backup[x[2]] = "absent"
  /\ x[1] = "deleted" => Cleared(d, x[2])

Makers(x) ==
  CASE x[1] = "setAside" -> {<<"publishBackup", x[2]>>}
    [] x[1] = "removeAside" -> {<<"swap", x[2]>>}
    [] x[1] = "hide" -> {<<"validate", x[2]>>}
    [] x[1] = "created" -> {<<"publish", x[2]>>}
    [] x[1] = "removeTree" -> {<<"removeBackup", x[2]>>}
    [] x[1] = "deleted" -> {<<"finish", x[2]>>, <<"removeTree", x[2]>>}
    [] OTHER -> {}

\* ... and only these steps are ahead of it.
Before ==
  [copyBackup |-> Sweeps, publishBackup |-> Sweeps \cup {"copyBackup"},
   copyTree |-> Sweeps \cup {"copyBackup", "publishBackup"}, setAside |-> Copies,
   removeAside |-> Copies \cup {"setAside", "swap"}, migrate |-> Sweeps,
   stage |-> {}, fill |-> {"stage"}, publish |-> {"stage", "fill"},
   created |-> {"stage", "fill", "publish"}, hide |-> Sweeps,
   hideBackup |-> {"collectProject"}, removeBackup |-> {"collectProject", "hideBackup"},
   removeTree |-> {"collectProject", "hideBackup", "removeBackup"},
   deleted |-> Sweeps \cup {"hide", "finish", "collectProject", "hideBackup", "removeBackup",
                            "removeTree"}]

\* In the queue q, behind steps whose names are in N and among which are those of K.
Assured(d, q, N, K) ==
  \A i \in DOMAIN q : q[i][1] \in DOMAIN Before =>
    /\ N \subseteq Before[q[i][1]]
    /\ \A h \in 1..i - 1 : q[h][1] \in Before[q[i][1]]
    /\ Meets(d, q[i]) \/ Makers(q[i]) \cap K # {} \/ \E h \in 1..i - 1 : q[h] \in Makers(q[i])

\* What a request knows of its project.
Named(q, s, u) ==
  \A i \in DOMAIN q :
    /\ q[i][1] \in {"stage", "fill", "publish", "hide"} => s[q[i][2]] = "none"
    /\ q[i][1] \in {"stage", "fill", "publish"} => q[i][2] \notin Legacy
    /\ q[i][1] \in {"stage", "fill", "publish", "created", "deleted"} => q[i][2] \in u

LInv ==
  /\ settled \in [Projects -> {"none", "created", "deleted"}]
  /\ Lasting(disk, settled, used)
  /\ Assured(disk, todo, {}, {}) /\ Named(todo, settled, used)
  /\ loaded \subseteq used
  /\ phase = "serving" => \A j \in Projects : settled[j] = "created" => j \in loaded

-----------------------------------------------------------------------------
(* Queues and steps, as above. *)

LEMMA BeforeFacts ==
  /\ DOMAIN Before = {"copyBackup", "publishBackup", "copyTree", "setAside", "removeAside",
                      "migrate", "stage", "fill", "publish", "created", "hide", "hideBackup",
                      "removeBackup", "removeTree", "deleted"}
  /\ Before["copyBackup"] = Sweeps /\ Before["publishBackup"] = Sweeps \cup {"copyBackup"}
  /\ Before["copyTree"] = Sweeps \cup {"copyBackup", "publishBackup"}
  /\ Before["setAside"] = Copies
  /\ Before["removeAside"] = Copies \cup {"setAside", "swap"}
  /\ Before["migrate"] = Sweeps /\ Before["hide"] = Sweeps
  /\ Before["stage"] = {} /\ Before["fill"] = {"stage"} /\ Before["publish"] = {"stage", "fill"}
  /\ Before["created"] = {"stage", "fill", "publish"}
  /\ Before["hideBackup"] = {"collectProject"}
  /\ Before["removeBackup"] = {"collectProject", "hideBackup"}
  /\ Before["removeTree"] = {"collectProject", "hideBackup", "removeBackup"}
  /\ Before["deleted"] = Sweeps \cup {"hide", "finish", "collectProject", "hideBackup",
                                      "removeBackup", "removeTree"}
  BY DEF Before

LEMMA MakerFacts ==
  ASSUME NEW x
  PROVE  /\ x[1] = "setAside" => Makers(x) = {<<"publishBackup", x[2]>>}
         /\ x[1] = "removeAside" => Makers(x) = {<<"swap", x[2]>>}
         /\ x[1] = "hide" => Makers(x) = {<<"validate", x[2]>>}
         /\ x[1] = "created" => Makers(x) = {<<"publish", x[2]>>}
         /\ x[1] = "removeTree" => Makers(x) = {<<"removeBackup", x[2]>>}
         /\ x[1] = "deleted" => Makers(x) = {<<"finish", x[2]>>, <<"removeTree", x[2]>>}
         /\ x[1] \notin {"setAside", "removeAside", "hide", "created", "removeTree", "deleted"} =>
              Makers(x) = {}
  BY DEF Makers

\* What the step b does to the steps that wait behind it.
Assures(d, e, b, then) ==
  \A x : x[1] \in DOMAIN Before /\ b[1] \in Before[x[1]] =>
    /\ \A i \in DOMAIN then : then[i][1] \in Before[x[1]]
    /\ Meets(d, x) => Meets(e, x)
    /\ b \in Makers(x) => Meets(e, x) \/ \E i \in DOMAIN then : then[i] \in Makers(x)

LEMMA AssuredStep ==
  ASSUME NEW d, NEW e, NEW q, IsQueue(q), q # << >>, Assured(d, q, {}, {}),
         NEW then, IsQueue(then), Assured(e, then, {}, {}), Assures(d, e, q[1], then)
  PROVE  Assured(e, then \o Tail(q), {}, {})
  <1> DEFINE r == then \o Tail(q)
  <1>1. Joins(q, then, r)
    BY Join
  <1>2. /\ Len(q) \in Nat /\ DOMAIN q = 1..Len(q) /\ 1 \in DOMAIN q
        /\ Len(then) \in Nat /\ DOMAIN then = 1..Len(then)
        /\ Len(r) \in Nat /\ DOMAIN r = 1..Len(r)
    BY <1>1, QueueFacts DEF Joins
  <1> HIDE DEF r
  <1>3. SUFFICES ASSUME NEW i \in DOMAIN r, r[i][1] \in DOMAIN Before
                 PROVE  /\ \A h \in 1..i - 1 : r[h][1] \in Before[r[i][1]]
                        /\ Meets(e, r[i]) \/ \E h \in 1..i - 1 : r[h] \in Makers(r[i])
    BY DEF Assured, r
  <1>4. CASE i \in DOMAIN then
    <2>1. r[i] = then[i] /\ \A h \in DOMAIN then : r[h] = then[h]
      BY <1>1, <1>4 DEF Joins
    <2>2. \A h \in 1..i - 1 : h \in DOMAIN then
      BY <1>2, <1>4
    <2>3. /\ \A h \in 1..i - 1 : then[h][1] \in Before[then[i][1]]
          /\ Meets(e, then[i]) \/ \E h \in 1..i - 1 : then[h] \in Makers(then[i])
      BY <2>1, <1>3, <1>4 DEF Assured
    <2> QED
      BY <2>1, <2>2, <2>3
  <1>5. CASE i \notin DOMAIN then
    <2> DEFINE k == i - Len(then) + 1
    <2>1. k \in DOMAIN q /\ k > 1 /\ r[i] = q[k] /\ i > Len(then)
      BY <1>1, <1>5 DEF Joins
    <2>2. /\ \A h \in 1..k - 1 : q[h][1] \in Before[q[k][1]]
          /\ Meets(d, q[k]) \/ \E h \in 1..k - 1 : q[h] \in Makers(q[k])
      BY <2>1, <1>3 DEF Assured
    <2>3. 1 \in 1..k - 1
      BY <2>1, <1>2
    <2>4. /\ \A h \in DOMAIN then : then[h][1] \in Before[q[k][1]]
          /\ Meets(d, q[k]) => Meets(e, q[k])
          /\ q[1] \in Makers(q[k]) =>
               Meets(e, q[k]) \/ \E h \in DOMAIN then : then[h] \in Makers(q[k])
      BY <2>1, <2>2, <2>3, <1>3 DEF Assures
    <2>5. ASSUME NEW h \in 1..i - 1 PROVE r[h][1] \in Before[r[i][1]]
      <3>1. CASE h \in DOMAIN then
        BY <3>1, <2>1, <2>4, <1>1 DEF Joins
      <3>2. CASE h \notin DOMAIN then
        <4>1. h \in DOMAIN r
          BY <2>5, <1>2, <1>3
        <4>2. r[h] = q[h - Len(then) + 1] /\ h - Len(then) + 1 \in DOMAIN q
          BY <4>1, <3>2, <1>1 DEF Joins
        <4>3. h - Len(then) + 1 \in 1..k - 1
          BY <4>2, <2>1, <2>5, <1>2, <3>2
        <4> QED
          BY <4>2, <4>3, <2>1, <2>2
      <3> QED
        BY <3>1, <3>2
    <2>6. \A h \in DOMAIN then : h \in 1..i - 1 /\ r[h] = then[h]
      BY <2>1, <1>1, <1>2, <1>3 DEF Joins
    <2>7. Meets(e, r[i]) \/ \E h \in 1..i - 1 : r[h] \in Makers(r[i])
      <3>1. CASE Meets(d, q[k]) \/ q[1] \in Makers(q[k])
        BY <3>1, <2>1, <2>4, <2>6
      <3>2. CASE \E h \in 1..k - 1 : h # 1 /\ q[h] \in Makers(q[k])
        <4>1. PICK h \in 1..k - 1 : h # 1 /\ q[h] \in Makers(q[k])
          BY <3>2
        <4>2. h \in DOMAIN q /\ h > 1 /\ h + Len(then) - 1 \in 1..i - 1
          BY <4>1, <2>1, <1>2
        <4>3. r[h + Len(then) - 1] = q[h]
          BY <4>2, <1>1 DEF Joins
        <4> QED
          BY <4>1, <4>2, <4>3, <2>1
      <3> QED
        BY <3>1, <3>2, <2>2
    <2> QED
      BY <2>5, <2>7
  <1> QED
    BY <1>4, <1>5

LEMMA NamedStep ==
  ASSUME NEW q, IsQueue(q), q # << >>, NEW s, NEW u, Named(q, s, u),
         NEW then, IsQueue(then), Named(then, s, u)
  PROVE  Named(then \o Tail(q), s, u)
  <1> DEFINE r == then \o Tail(q)
  <1>1. Joins(q, then, r)
    BY Join
  <1> HIDE DEF r
  <1>2. \A i \in DOMAIN r : (\E k \in DOMAIN then : r[i] = then[k]) \/ \E k \in DOMAIN q : r[i] = q[k]
    BY <1>1 DEF Joins
  <1> QED
    BY <1>2 DEF Named, r

\* Steps nothing is asked of.
LEMMA NothingAsked ==
  ASSUME NEW d, NEW q, NEW s, NEW u,
         \A i \in DOMAIN q : q[i][1] \notin DOMAIN Before
  PROVE  Assured(d, q, {}, {}) /\ Named(q, s, u)
  BY BeforeFacts DEF Assured, Named

LEMMA RescueAsked ==
  ASSUME NEW d, NEW c, NEW x, NEW s, NEW u
  PROVE  /\ Assured(d, Rescue(c, x), {}, {}) /\ Named(Rescue(c, x), s, u)
         /\ Assured(d, << >>, {}, {}) /\ Named(<< >>, s, u)
  <1>1. \A a, b : /\ DOMAIN <<a>> = {1} /\ <<a>>[1] = a
                  /\ DOMAIN <<a, b>> = {1, 2} /\ <<a, b>>[1] = a /\ <<a, b>>[2] = b
    OBVIOUS
  <1>2. CASE Rescue(c, x) = << <<"unstage", x[2]>> >>
    <2>1. \A i \in DOMAIN Rescue(c, x) : Rescue(c, x)[i][1] \notin DOMAIN Before
      BY <1>1, <1>2, BeforeFacts
    <2> QED
      BY <2>1, NothingAsked, EmptyQueue
  <1>3. CASE Rescue(c, x) = Cleanup(x[2])
    <2>1. \A i \in DOMAIN Rescue(c, x) : Rescue(c, x)[i][1] \notin DOMAIN Before
      BY <1>1, <1>3, BeforeFacts DEF Cleanup
    <2> QED
      BY <2>1, NothingAsked, EmptyQueue
  <1>4. CASE Rescue(c, x) = << >>
    BY <1>4, NothingAsked, EmptyQueue
  <1> QED
    BY <1>2, <1>3, <1>4 DEF Rescue

\* How a step ends for the Store and for the histories.
Recalled ==
  /\ settled' = settled /\ used' = used /\ loaded' \in {{}, loaded}
  /\ phase' = "serving" => phase = "serving" /\ loaded' = loaded

LEMMA StepEnds ==
  ASSUME IInv, NEW name, NEW s, NEW ok, NEW e, NEW partial, NEW then,
         Step(name, s, ok, e, partial, then)
  PROVE  At(name, s) /\ Recalled /\ ((ok /\ Runs(e, partial, then)) \/ Ended(disk))
  <1>1. At(name, s) /\ ((ok /\ Runs(e, partial, then)) \/ Ended(disk))
    BY DEF Step, Fail, Die, At, Runs, Advanced, Ended
  <1>2. settled' = settled /\ used' = used
    BY DEF Step
  <1>3. loaded' \in {{}, loaded}
    BY DEF Step, Fail, Die
  <1>4. phase' = "serving" => phase = "serving" /\ loaded' = loaded
    BY DEF Step, Fail, Die
  <1> QED
    BY <1>1, <1>2, <1>3, <1>4 DEF Recalled

LEMMA EndedLasts ==
  ASSUME IInv, LInv, Recalled, NEW c, Lasting(c, settled, used), Ended(c)
  PROVE  LInv'
  <1>1. Assured(disk', todo', {}, {}) /\ Named(todo', settled', used')
    BY RescueAsked DEF Ended
  <1> QED
    BY <1>1 DEF LInv, Ended, Recalled, Lasting

LEMMA StepLasts ==
  ASSUME IInv, LInv, Recalled, todo # << >>, NEW e, NEW partial, NEW then, Runs(e, partial, then),
         Lasting(e, settled, used), \A c \in partial : Lasting(c, settled, used),
         IsQueue(then), Assured(e, then, {}, {}), Named(then, settled, used),
         Assures(disk, e, todo[1], then)
  PROVE  LInv'
  <1>1. CASE Advanced(e, then)
    <2>1. IsQueue(todo)
      BY DEF IInv, Control
    <2>2. Assured(e, then \o Tail(todo), {}, {}) /\ Named(then \o Tail(todo), settled, used)
      BY <2>1, AssuredStep, NamedStep DEF LInv
    <2> QED
      BY <1>1, <2>2 DEF Advanced, LInv, Recalled, Lasting
  <1>2. CASE Ended(disk)
    BY <1>2, EndedLasts DEF LInv
  <1>3. CASE Ended(e) \/ \E c \in partial : Ended(c)
    BY <1>3, EndedLasts
  <1> QED
    BY <1>1, <1>2, <1>3 DEF Runs

\* What is found at the head.
LEMMA HeadMeets ==
  ASSUME IInv, LInv, NEW name, NEW s, At(name, s)
  PROVE  /\ name \in DOMAIN Before => Meets(disk, todo[1])
         /\ name \in {"stage", "fill", "publish", "hide"} => settled[s] = "none"
         /\ name \in {"stage", "fill", "publish"} => s \notin Legacy
         /\ name \in {"stage", "fill", "publish", "created", "deleted"} => s \in used
  <1>1. IsQueue(todo) /\ todo # << >> /\ todo[1] = <<name, s>>
    BY DEF IInv, Control, At
  <1>2. 1 \in DOMAIN todo /\ todo[1][1] = name /\ todo[1][2] = s
    BY <1>1, QueueFacts
  <1>3. \A h : h \notin 1..1 - 1
    OBVIOUS
  <1>4. name \in DOMAIN Before => Meets(disk, todo[1])
    BY <1>2, <1>3 DEF LInv, Assured
  <1> QED
    BY <1>2, <1>4 DEF LInv, Named

-----------------------------------------------------------------------------
(* A step that finds what it expects. *)

LEMMA ActionLasts ==
  ASSUME IInv, LInv, NEW name, NEW s, NEW ok, NEW e, NEW partial, NEW then,
         Step(name, s, ok, e, partial, then),
         ok /\ At(name, s) =>
           /\ Lasting(e, settled, used) /\ \A c \in partial : Lasting(c, settled, used)
           /\ IsQueue(then) /\ Assured(e, then, {}, {}) /\ Named(then, settled, used)
           /\ Assures(disk, e, <<name, s>>, then)
  PROVE  LInv'
  <1>1. At(name, s) /\ Recalled /\ ((ok /\ Runs(e, partial, then)) \/ Ended(disk))
    BY StepEnds
  <1>2. todo # << >> /\ todo[1] = <<name, s>>
    BY <1>1 DEF At
  <1>3. CASE ok /\ Runs(e, partial, then)
    BY <1>1, <1>2, <1>3, StepLasts
  <1>4. CASE Ended(disk)
    BY <1>1, <1>4, EndedLasts DEF LInv
  <1> QED
    BY <1>1, <1>3, <1>4

\* Where it puts nothing before the rest, only what waits behind it matters.
LEMMA PlainLasts ==
  ASSUME IInv, LInv, NEW name, NEW s, NEW ok, NEW e, NEW partial,
         Step(name, s, ok, e, partial, << >>),
         ok /\ At(name, s) =>
           /\ Lasting(e, settled, used) /\ \A c \in partial : Lasting(c, settled, used)
           /\ \A x : x[1] \in DOMAIN Before /\ name \in Before[x[1]]
                    /\ (Meets(disk, x) \/ <<name, s>> \in Makers(x)) => Meets(e, x)
  PROVE  LInv'
  <1>1. IsQueue(<< >>) /\ Assured(e, << >>, {}, {}) /\ Named(<< >>, settled, used)
    BY EmptyQueue, RescueAsked
  <1>2. ok /\ At(name, s) => Assures(disk, e, <<name, s>>, << >>)
    <2>1. <<name, s>>[1] = name
      OBVIOUS
    <2> QED
      BY <2>1, EmptyQueue DEF Assures
  <1> QED
    BY <1>1, <1>2, ActionLasts

\* What waits behind which step.
Makings == {"publishBackup", "swap", "validate", "publish", "removeBackup", "finish", "removeTree"}
Behinds == Moves \cup {"stage", "fill", "publish", "hide", "finish", "collectProject",
                       "hideBackup", "removeBackup", "removeTree"}

LEMMA Behind ==
  ASSUME NEW n \in DOMAIN Before
  PROVE  /\ "stage" \in Before[n] => n \in {"fill", "publish", "created"}
         /\ "fill" \in Before[n] => n \in {"publish", "created"}
         /\ "publish" \in Before[n] => n = "created"
         /\ "hide" \in Before[n] \/ "finish" \in Before[n] \/ "removeTree" \in Before[n] =>
              n = "deleted"
         /\ "collectProject" \in Before[n] =>
              n \in {"hideBackup", "removeBackup", "removeTree", "deleted"}
         /\ "hideBackup" \in Before[n] => n \in {"removeBackup", "removeTree", "deleted"}
         /\ "removeBackup" \in Before[n] => n \in {"removeTree", "deleted"}
         /\ "copyBackup" \in Before[n] =>
              n \in {"publishBackup", "copyTree", "setAside", "removeAside"}
         /\ "publishBackup" \in Before[n] => n \in {"copyTree", "setAside", "removeAside"}
         /\ "copyTree" \in Before[n] => n \in {"setAside", "removeAside"}
         /\ "setAside" \in Before[n] \/ "swap" \in Before[n] => n = "removeAside"
         /\ "validate" \in Before[n] \/ "sweep" \in Before[n] => Sweeps \subseteq Before[n]
         /\ Before[n] \subseteq Behinds /\ "removeAside" \notin Before[n]
  BY BeforeFacts DEF Behinds, Moves, Copies, Sweeps

LEMMA NotMaking ==
  ASSUME NEW b, b[1] \notin Makings, NEW x
  PROVE  b \notin Makers(x)
  BY MakerFacts DEF Makings

\* What is made by a step.
LEMMA MakerOf ==
  ASSUME NEW n, NEW j, NEW x, <<n, j>> \in Makers(x)
  PROVE  /\ x[2] = j /\ n \in Makings
         /\ n = "publishBackup" => x[1] = "setAside"
         /\ n = "swap" => x[1] = "removeAside"
         /\ n = "validate" => x[1] = "hide"
         /\ n = "publish" => x[1] = "created"
         /\ n = "removeBackup" => x[1] = "removeTree"
         /\ n \in {"finish", "removeTree"} => x[1] = "deleted"
  <1>1. x[1] \in {"setAside", "removeAside", "hide", "created", "removeTree", "deleted"}
    BY MakerFacts
  <1>2. ASSUME NEW m, <<n, j>> = <<m, x[2]>> PROVE n = m /\ j = x[2]
    BY <1>2
  <1>3. CASE x[1] = "setAside"
    BY <1>2, <1>3, MakerFacts DEF Makings
  <1>4. CASE x[1] = "removeAside"
    BY <1>2, <1>4, MakerFacts DEF Makings
  <1>5. CASE x[1] = "hide"
    BY <1>2, <1>5, MakerFacts DEF Makings
  <1>6. CASE x[1] = "created"
    BY <1>2, <1>6, MakerFacts DEF Makings
  <1>7. CASE x[1] = "removeTree"
    BY <1>2, <1>7, MakerFacts DEF Makings
  <1>8. CASE x[1] = "deleted"
    BY <1>2, <1>8, MakerFacts DEF Makings
  <1> QED
    BY <1>1, <1>3, <1>4, <1>5, <1>6, <1>7, <1>8

-----------------------------------------------------------------------------
(* Steps that change no tree, no journal and no backup. *)

Alike(d, e) ==
  /\ e.tree = d.tree /\ e.marked = d.marked /\ e.aside = d.aside /\ e.journal = d.journal
  /\ e.migrating = d.migrating /\ e.backup = d.backup
  /\ \A j : Cleared(d, j) => Cleared(e, j)

LEMMA AlikeLasts ==
  ASSUME NEW d, NEW e, Alike(d, e), NEW s, NEW u, Lasting(d, s, u)
  PROVE  Lasting(e, s, u) /\ \A x : Meets(d, x) => Meets(e, x)
  <1>1. Active(e) = Active(d) /\ Exists(e) = Exists(d)
        /\ \A j : HasNewLayout(e, j) <=> HasNewLayout(d, j)
    BY DEF Alike, Active, Exists, HasNewLayout
  <1>2. Legible(e)
    BY <1>1 DEF Lasting, Legible, Alike
  <1>3. Answered(e, s, u)
    BY <1>1 DEF Lasting, Answered, Alike
  <1>4. ASSUME NEW x, Meets(d, x) PROVE Meets(e, x)
    BY <1>1, <1>4 DEF Meets, Alike
  <1> QED
    BY <1>2, <1>3, <1>4 DEF Lasting

LEMMA AlikeStep ==
  ASSUME IInv, LInv, NEW name, NEW s, NEW ok, NEW e, NEW partial,
         Step(name, s, ok, e, partial, << >>), name \notin Makings,
         ok /\ At(name, s) => Alike(disk, e) /\ \A c \in partial : Alike(disk, c)
  PROVE  LInv'
  <1>1. Lasting(disk, settled, used)
    BY DEF LInv
  <1>2. \A x : <<name, s>> \notin Makers(x)
    <2>1. <<name, s>>[1] = name
      OBVIOUS
    <2> QED
      BY <2>1, NotMaking
  <1> QED
    BY <1>1, <1>2, AlikeLasts, PlainLasts

LEMMA SameAlike == ASSUME NEW d PROVE Alike(d, d)
  BY DEF Alike

\* Objects, revisions and temporaries are nothing an answer is about.
LEMMA DataAlike ==
  ASSUME NEW d \in Disks
  PROVE  /\ \A X : Alike(d, [d EXCEPT !.objects = X])
         /\ \A X : Alike(d, [d EXCEPT !.revised = X])
         /\ \A X : Alike(d, [d EXCEPT !.temporary = X])
  BY DEF Disks, Alike, Cleared

LEMMA DataStepsLast ==
  ASSUME IInv, LInv
  PROVE  /\ \A j \in Projects : FillProject(j) => LInv'
         /\ \A p \in Proposals : FillWorkspace(p) \/ FillRevision(p) \/ WriteManifest(p) => LInv'
  <1>1. disk \in Disks
    BY DEF IInv, SoundDisk
  <1>2. ASSUME NEW j \in Projects, FillProject(j) PROVE LInv'
    <2> DEFINE e == [disk EXCEPT !.objects = @ \cup Base[j]]
               partial == {[disk EXCEPT !.objects = @ \cup some] : some \in SUBSET Base[j]}
    <2>1. Step("fill", j, TRUE, e, partial, << >>)
      BY <1>2 DEF FillProject
    <2>2. Alike(disk, e) /\ \A c \in partial : Alike(disk, c)
      BY <1>1, DataAlike
    <2> HIDE DEF e, partial
    <2> QED
      BY <2>1, <2>2, AlikeStep DEF Makings
  <1>3. ASSUME NEW p \in Proposals, FillWorkspace(p) PROVE LInv'
    <2> DEFINE e == [disk EXCEPT !.objects = @ \cup Site[p]]
               partial == {[disk EXCEPT !.objects = @ \cup some] : some \in SUBSET Site[p]}
    <2>1. Step("fillWorkspace", p, TRUE, e, partial, << >>)
      BY <1>3 DEF FillWorkspace
    <2>2. Alike(disk, e) /\ \A c \in partial : Alike(disk, c)
      BY <1>1, DataAlike
    <2> HIDE DEF e, partial
    <2> QED
      BY <2>1, <2>2, AlikeStep DEF Makings
  <1>4. ASSUME NEW p \in Proposals, FillRevision(p) PROVE LInv'
    <2> DEFINE e == [disk EXCEPT !.objects = @ \cup Site[p]]
               ok == disk.tree[ProjectOf[p]] = "active"
    <2>1. Step("fillRevision", p, ok, e, {}, << >>)
      BY <1>4 DEF FillRevision
    <2>2. Alike(disk, e)
      BY <1>1, DataAlike
    <2> HIDE DEF e, ok
    <2> QED
      BY <2>1, <2>2, AlikeStep DEF Makings
  <1>5. ASSUME NEW p \in Proposals, WriteManifest(p) PROVE LInv'
    <2> DEFINE e == [disk EXCEPT !.revised = @ \cup {p}]
               partial == {[disk EXCEPT !.temporary = @ \cup {ProjectOf[p]}]}
    <2>1. Step("manifest", p, TRUE, e, partial, << >>)
      BY <1>5 DEF WriteManifest
    <2>2. Alike(disk, e) /\ \A c \in partial : Alike(disk, c)
      BY <1>1, DataAlike
    <2> HIDE DEF e, partial
    <2> QED
      BY <2>1, <2>2, AlikeStep DEF Makings
  <1> QED
    BY <1>2, <1>3, <1>4, <1>5

\* Of a project a deletion was answered for no workspace comes back.
LEMMA WorkspaceAlike ==
  ASSUME NEW d \in Disks, NEW p \in Proposals, NEW w, ~Cleared(d, ProjectOf[p]) \/ w = "absent"
  PROVE  Alike(d, [d EXCEPT !.workspace[p] = w])
  <1> DEFINE e == [d EXCEPT !.workspace[p] = w]
  <1>1. /\ e.tree = d.tree /\ e.marked = d.marked /\ e.aside = d.aside /\ e.journal = d.journal
        /\ e.migrating = d.migrating /\ e.backup = d.backup
        /\ e.workspace = [d.workspace EXCEPT ![p] = w]
    BY DEF Disks
  <1> HIDE DEF e
  <1>2. \A q \in Proposals : e.workspace[q] = IF q = p THEN w ELSE d.workspace[q]
    BY <1>1, DiskFields
  <1>3. \A j : Cleared(d, j) => Cleared(e, j)
    BY <1>1, <1>2 DEF Cleared, Of
  <1>4. Alike(d, e)
    BY <1>1, <1>3 DEF Alike
  <1> QED
    BY <1>4 DEF e

LEMMA WorkspaceStepsLast ==
  ASSUME IInv, LInv, NEW p \in Proposals
  PROVE  StageWorkspace(p) \/ PublishWorkspace(p) \/ HideWorkspace(p) \/ RemoveWorkspace(p) => LInv'
  <1>1. disk \in Disks
    BY DEF IInv, SoundDisk
  <1> DEFINE To(w) == [disk EXCEPT !.workspace[p] = w]
  <1>2. \A w : ~Cleared(disk, ProjectOf[p]) \/ w = "absent" => Alike(disk, To(w))
    BY <1>1, WorkspaceAlike
  <1>3. disk.workspace[p] # "absent" => ~Cleared(disk, ProjectOf[p])
    BY DEF Cleared, Of
  <1>4. disk.tree[ProjectOf[p]] = "active" => ~Cleared(disk, ProjectOf[p])
    BY DEF Cleared
  <1>5. ASSUME StageWorkspace(p) PROVE LInv'
    <2>1. Step("stageWorkspace", p, disk.workspace[p] = "absent", To("creating"), {}, << >>)
      BY <1>5 DEF StageWorkspace
    <2>2. At("stageWorkspace", p) => disk.tree[ProjectOf[p]] = "active"
      BY AtHead DEF Relies
    <2> HIDE DEF To
    <2> QED
      BY <1>2, <1>4, <2>1, <2>2, AlikeStep DEF Makings
  <1>6. ASSUME PublishWorkspace(p) PROVE LInv'
    <2>1. Step("publishWorkspace", p, TRUE, To("kept"), {}, << >>)
      BY <1>6 DEF PublishWorkspace
    <2>2. At("publishWorkspace", p) => disk.tree[ProjectOf[p]] = "active"
      BY AtHead DEF Relies
    <2> HIDE DEF To
    <2> QED
      BY <1>2, <1>4, <2>1, <2>2, AlikeStep DEF Makings
  <1>7. ASSUME HideWorkspace(p) PROVE LInv'
    <2>1. Step("hideWorkspace", p, disk.workspace[p] = "kept", To("deleting"), {}, << >>)
      BY <1>7 DEF HideWorkspace
    <2> HIDE DEF To
    <2> QED
      BY <1>2, <1>3, <2>1, AlikeStep DEF Makings
  <1>8. ASSUME RemoveWorkspace(p) PROVE LInv'
    <2> DEFINE partial == IF disk.workspace[p] = "deleting" THEN {To("torn")} ELSE {}
    <2>1. Step("removeWorkspace", p, TRUE, To("absent"), partial, << >>)
      BY <1>8 DEF RemoveWorkspace
    <2> HIDE DEF To
    <2>2. Alike(disk, To("absent")) /\ \A c \in partial : Alike(disk, c)
      BY <1>2, <1>3
    <2> HIDE DEF partial
    <2> QED
      BY <2>1, <2>2, AlikeStep DEF Makings
  <1> QED
    BY <1>5, <1>6, <1>7, <1>8

-----------------------------------------------------------------------------
(* Steps that only look, and those that put others before the rest. *)

LEMMA CheckLasts ==
  ASSUME IInv, LInv, NEW name, NEW s, NEW ok, NEW then, Check(name, s, ok, then), IsQueue(then),
         \A i \in DOMAIN then : then[i][1] \notin DOMAIN Before,
         \/ name \notin Behinds
         \/ name \in {"validate", "sweep"} /\ \A i \in DOMAIN then : then[i][1] \in Sweeps,
         ok => \A x : <<name, s>> \in Makers(x) => Meets(disk, x)
  PROVE  LInv'
  <1>1. Lasting(disk, settled, used)
    BY DEF LInv
  <1>2. Assured(disk, then, {}, {}) /\ Named(then, settled, used)
    BY NothingAsked
  <1>3. <<name, s>>[1] = name
    OBVIOUS
  <1>4. ASSUME NEW n \in DOMAIN Before, name \in Before[n]
        PROVE  \A i \in DOMAIN then : then[i][1] \in Before[n]
    BY <1>4, Behind
  <1>5. ok => Assures(disk, disk, <<name, s>>, then)
    BY <1>3, <1>4 DEF Assures
  <1>6. \A c \in {} : Lasting(c, settled, used)
    OBVIOUS
  <1>7. Step(name, s, ok, disk, {}, then)
    BY DEF Check
  <1> QED
    BY <1>1, <1>2, <1>5, <1>6, <1>7, ActionLasts

LEMMA SweepProposalsLasts ==
  ASSUME IInv, LInv, NEW j \in Projects, SweepProposals(j)
  PROVE  LInv'
  <1> DEFINE ok == disk.tree[j] = "active"
             a == <<"sweep", j>>
  <1>1. \A x : <<"sweep", j>> \notin Makers(x)
    <2>1. <<"sweep", j>>[1] = "sweep"
      OBVIOUS
    <2> QED
      BY <2>1, NotMaking DEF Makings
  <1>2. CASE Check("sweep", j, ok, << >>)
    BY <1>1, <1>2, EmptyQueue, CheckLasts
  <1>3. CASE \E p : Check("sweep", j, ok, Cleanup(p) \o <<a>>)
    <2>1. PICK p : Check("sweep", j, ok, Cleanup(p) \o <<a>>)
      BY <1>3
    <2> DEFINE b == <<"collect", p>>
               c == <<"removeWorkspace", p>>
               then == <<b, c, a>>
    <2>2. Cleanup(p) \o <<a>> = then
      BY GluedTuples DEF Cleanup
    <2>3. a[1] = "sweep" /\ b[1] = "collect" /\ c[1] = "removeWorkspace"
      OBVIOUS
    <2>4. then[1] = b /\ then[2] = c /\ then[3] = a
      OBVIOUS
    <2>5. Check("sweep", j, ok, then)
      BY <2>1, <2>2
    <2> HIDE DEF a, b, c
    <2>6. IsQueue(then) /\ DOMAIN then = {1, 2, 3}
      BY Tuples
    <2> HIDE DEF then
    <2>7. \A i \in DOMAIN then : then[i][1] \notin DOMAIN Before /\ then[i][1] \in Sweeps
      BY <2>3, <2>4, <2>6, BeforeFacts DEF Sweeps
    <2> QED
      BY <1>1, <2>5, <2>6, <2>7, CheckLasts
  <1> QED
    BY <1>2, <1>3 DEF SweepProposals

\* Only a project that is there passes the validation its deletion begins with.
LEMMA ValidateProjectLasts ==
  ASSUME IInv, LInv, NEW j \in Projects, ValidateProject(j)
  PROVE  LInv'
  <1> DEFINE a == <<"sweep", j>>
             then == <<a>>
             b == <<"validate", j>>
  <1>1. Check("validate", j, Valid(disk, j), then)
    BY DEF ValidateProject
  <1>2. IsQueue(then) /\ DOMAIN then = {1} /\ then[1] = a /\ a[1] = "sweep"
        /\ b[1] = "validate" /\ b[2] = j
    BY Tuples
  <1>3. ASSUME Valid(disk, j), NEW x, b \in Makers(x) PROVE Meets(disk, x)
    <2>3. x[1] = "hide" /\ x[2] = j
      BY <1>3, MakerOf
    <2>4. disk.tree[j] = "active"
      BY <1>3 DEF Valid, Active
    <2> QED
      BY <2>3, <2>4 DEF Meets
  <1> HIDE DEF a, then
  <1>4. \A i \in DOMAIN then : then[i][1] \notin DOMAIN Before /\ then[i][1] \in Sweeps
    BY <1>2, BeforeFacts DEF Sweeps
  <1> QED
    BY <1>1, <1>2, <1>3, <1>4, CheckLasts

LEMMA StartStepsLast ==
  ASSUME IInv, LInv, Preflight \/ RecoverMigrations \/ RecoverDeletions \/ CheckHiddenBackups
                     \/ ListProjects
  PROVE  LInv'
  <1> DEFINE deleting == {j \in Projects : disk.tree[j] = "deleting"}
             present == {j \in Projects : disk.tree[j] # "absent"}
             quiet == \A j \in Projects : disk.backup[j] # "deleting"
  <1>1. disk.journal \in SUBSET Projects
    BY DiskFields DEF IInv, SoundDisk
  <1>2. ASSUME NEW name \in {"preflight", "migrations", "deletions", "hidden", "projects"},
               NEW ok, NEW then, Check(name, "all", ok, then), IsQueue(then),
               \A i \in DOMAIN then : then[i][1] \in {"resume", "finish", "load"}
        PROVE  LInv'
    <2>1. name \notin Behinds /\ name \notin Makings
      BY DEF Behinds, Moves, Copies, Sweeps, Makings
    <2>2. \A x : <<name, "all">> \notin Makers(x)
      <3>1. <<name, "all">>[1] = name
        OBVIOUS
      <3> QED
        BY <2>1, <3>1, NotMaking
    <2>3. \A i \in DOMAIN then : then[i][1] \notin DOMAIN Before
      BY <1>2, BeforeFacts
    <2> QED
      BY <1>2, <2>1, <2>2, <2>3, CheckLasts
  <1>3. CASE Preflight
    BY <1>2, <1>3, EmptyQueue DEF Preflight
  <1>4. CASE CheckHiddenBackups
    <2>1. Check("hidden", "all", quiet, << >>)
      BY <1>4 DEF CheckHiddenBackups
    <2> HIDE DEF quiet
    <2> QED
      BY <1>2, <2>1, EmptyQueue
  <1>5. CASE RecoverMigrations
    <2> DEFINE then == Each("resume", disk.journal)
    <2>1. Check("migrations", "all", TRUE, then)
      BY <1>5 DEF RecoverMigrations
    <2>2. IsQueue(then) /\ \A i \in DOMAIN then : then[i][1] = "resume"
      BY <1>1, EachFacts
    <2> HIDE DEF then
    <2> QED
      BY <1>2, <2>1, <2>2
  <1>6. CASE RecoverDeletions
    <2> DEFINE then == Each("finish", deleting)
    <2>1. Check("deletions", "all", TRUE, then)
      BY <1>6 DEF RecoverDeletions
    <2>2. IsQueue(then) /\ \A i \in DOMAIN then : then[i][1] = "finish"
      BY EachFacts
    <2> HIDE DEF then
    <2> QED
      BY <1>2, <2>1, <2>2
  <1>7. CASE ListProjects
    <2> DEFINE then == Each("load", present)
    <2>1. Check("projects", "all", TRUE, then)
      BY <1>7 DEF ListProjects
    <2>2. IsQueue(then) /\ \A i \in DOMAIN then : then[i][1] = "load"
      BY EachFacts
    <2> HIDE DEF then
    <2> QED
      BY <1>2, <2>1, <2>2
  <1> QED
    BY <1>3, <1>4, <1>5, <1>6, <1>7

LEMMA CollectLasts ==
  ASSUME IInv, LInv, NEW name, NEW s, NEW ok, NEW candidates, Collect(name, s, ok, candidates),
         name \in {"collect", "collectProject"}
  PROVE  LInv'
  <1>1. At(name, s) /\ Recalled /\ disk' = disk
    BY DEF Collect, Fail, At, Recalled
  <1>2. IsQueue(todo) /\ todo # << >> /\ todo[1] = <<name, s>> /\ todo[1][1] = name
    BY <1>1 DEF IInv, Control, At
  <1>3. CASE Ended(disk)
    BY <1>1, <1>3, EndedLasts DEF LInv
  <1>4. CASE todo' = Tail(todo)
    <2>1. todo' = << >> \o Tail(todo)
      BY <1>2, <1>4, EmptyQueue, NextHead DEF IInv, Control
    <2>2. \A x : todo[1] \notin Makers(x)
      BY <1>2, NotMaking DEF Makings
    <2>3. Assures(disk, disk, todo[1], << >>)
      BY <2>2, EmptyQueue DEF Assures
    <2>4. IsQueue(<< >>) /\ Assured(disk, << >>, {}, {}) /\ Named(<< >>, settled, used)
      BY EmptyQueue, RescueAsked
    <2>5. Assured(disk, todo', {}, {}) /\ Named(todo', settled, used)
      BY <1>2, <2>1, <2>3, <2>4, AssuredStep, NamedStep DEF LInv
    <2> QED
      BY <1>1, <2>5 DEF LInv, Recalled
  <1> QED
    BY <1>3, <1>4 DEF Collect, Fail, Ended

-----------------------------------------------------------------------------
(* Creations. *)

\* A tree is staged, or its staging goes.
LEMMA StagedLasts ==
  ASSUME NEW d \in Disks, NEW s, NEW u, Lasting(d, s, u), NEW j \in Projects,
         d.tree[j] \in {"absent", "creating"}, NEW t \in {"absent", "creating"},
         t = "creating" => s[j] = "none" /\ j \in u
  PROVE  LET e == [d EXCEPT !.tree[j] = t]
         IN  Lasting(e, s, u) /\ \A x : x[1] \in {"fill", "publish", "created"} /\ Meets(d, x) =>
                                          Meets(e, x)
  <1> DEFINE e == [d EXCEPT !.tree[j] = t]
  <1>1. /\ e.tree = [d.tree EXCEPT ![j] = t] /\ e.marked = d.marked /\ e.aside = d.aside
        /\ e.journal = d.journal /\ e.migrating = d.migrating /\ e.backup = d.backup
        /\ e.workspace = d.workspace
    BY DEF Disks
  <1> HIDE DEF e
  <1>2. \A k \in Projects : e.tree[k] = IF k = j THEN t ELSE d.tree[k]
    BY <1>1, DiskFields
  <1>3. Active(e) = Active(d) /\ Exists(e) = Exists(d)
    BY <1>1, <1>2 DEF Active, Exists
  <1>4. Legible(e)
    BY <1>1, <1>3 DEF Lasting, Legible
  <1>5. Answered(e, s, u)
    <2>1. \A k \in Projects : s[k] = "deleted" => Cleared(e, k) /\ k \notin e.aside
      BY <1>1, <1>2 DEF Lasting, Answered, Cleared
    <2>2. \A k \in Projects : s[k] # "none" \/ e.tree[k] # "absent" \/ k \in e.aside => k \in u
      BY <1>1, <1>2 DEF Lasting, Answered
    <2> QED
      BY <1>3, <2>1, <2>2 DEF Lasting, Answered
  <1>6. ASSUME NEW x, x[1] \in {"fill", "publish", "created"}, Meets(d, x) PROVE Meets(e, x)
    BY <1>2, <1>6 DEF Meets
  <1> QED
    BY <1>4, <1>5, <1>6 DEF Lasting, e

LEMMA StageProjectLasts ==
  ASSUME IInv, LInv, NEW j \in Projects, StageProject(j)
  PROVE  LInv'
  <1> DEFINE e == [disk EXCEPT !.tree[j] = "creating"]
             ok == disk.tree[j] = "absent"
  <1>1. Step("stage", j, ok, e, {}, << >>)
    BY DEF StageProject
  <1>2. ASSUME ok, At("stage", j)
        PROVE  Lasting(e, settled, used) /\ \A x : x[1] \in {"fill", "publish", "created"}
                                                   /\ Meets(disk, x) => Meets(e, x)
    <2>1. settled[j] = "none" /\ j \in used
      BY <1>2, HeadMeets
    <2> QED
      BY <1>2, <2>1, StagedLasts DEF LInv, IInv, SoundDisk
  <1>3. \A x : x[1] \in DOMAIN Before /\ "stage" \in Before[x[1]] =>
          x[1] \in {"fill", "publish", "created"} /\ <<"stage", j>> \notin Makers(x)
    BY Behind, MakerOf DEF Makings
  <1> HIDE DEF e, ok
  <1> QED
    BY <1>1, <1>2, <1>3, PlainLasts

LEMMA UnstageProjectLasts ==
  ASSUME IInv, LInv, NEW j \in Projects,
         \/ UnstageProject(j)
         \/ /\ disk.tree[j] = "creating"
            /\ Step("load", j, TRUE, [disk EXCEPT !.tree[j] = "absent"], {}, << >>)
  PROVE  LInv'
  <1> DEFINE e == [disk EXCEPT !.tree[j] = "absent"]
  <1>1. PICK name \in {"unstage", "load"} :
          /\ Step(name, j, TRUE, e, {}, << >>)
          /\ At(name, j) => disk.tree[j] = "creating"
    <2>1. At("unstage", j) => disk.tree[j] = "creating"
      BY AtHead DEF Relies
    <2>2. UnstageProject(j) => Step("unstage", j, TRUE, e, {}, << >>)
      BY DEF UnstageProject
    <2> HIDE DEF e
    <2>3. CASE UnstageProject(j)
      BY <2>1, <2>2, <2>3
    <2>4. CASE disk.tree[j] = "creating" /\ Step("load", j, TRUE, e, {}, << >>)
      BY <2>4
    <2> QED
      BY <2>3, <2>4 DEF e
  <1>2. At(name, j) => Lasting(e, settled, used)
    BY <1>1, StagedLasts DEF LInv, IInv, SoundDisk
  <1>3. \A x : x[1] \in DOMAIN Before => name \notin Before[x[1]]
    BY <1>1, Behind DEF Behinds, Moves, Copies, Sweeps
  <1> HIDE DEF e
  <1>4. \A c \in {} : Lasting(c, settled, used)
    OBVIOUS
  <1> QED
    BY <1>1, <1>2, <1>3, <1>4, PlainLasts

LEMMA PublishProjectLasts ==
  ASSUME IInv, LInv, NEW j \in Projects, PublishProject(j)
  PROVE  LInv'
  <1> DEFINE e == [disk EXCEPT !.tree[j] = "active", !.marked = @ \cup {j}]
  <1>1. Step("publish", j, TRUE, e, {}, << >>)
    BY DEF PublishProject
  <1>2. disk \in Disks /\ Lasting(disk, settled, used) /\ OneMigration(disk)
    BY DEF LInv, IInv, SoundDisk
  <1>3. /\ e.tree = [disk.tree EXCEPT ![j] = "active"] /\ e.marked = disk.marked \cup {j}
        /\ e.aside = disk.aside /\ e.journal = disk.journal /\ e.migrating = disk.migrating
        /\ e.backup = disk.backup /\ e.workspace = disk.workspace
    BY <1>2 DEF Disks
  <1> HIDE DEF e
  <1>4. \A k \in Projects : e.tree[k] = IF k = j THEN "active" ELSE disk.tree[k]
    BY <1>2, <1>3, DiskFields
  <1>5. ASSUME At("publish", j) PROVE Lasting(e, settled, used)
    <2>1. settled[j] = "none" /\ j \notin Legacy /\ j \in used /\ disk.tree[j] = "creating"
      BY <1>5, HeadMeets, AtHead DEF Relies
    <2>2. j \notin disk.aside
      BY <1>2, <2>1 DEF OneMigration
    <2>3. Active(e) = Active(disk) \cup {j} /\ Exists(e) = Exists(disk) \cup {j}
      BY <1>3, <1>4 DEF Active, Exists
    <2>4. Legible(e)
      BY <1>2, <1>3, <2>1, <2>2, <2>3 DEF Lasting, Legible
    <2>5. \A k \in Projects : settled[k] = "deleted" => Cleared(e, k) /\ k \notin e.aside
      BY <1>2, <1>3, <1>4, <2>1 DEF Lasting, Answered, Cleared
    <2>6. \A k \in Projects :
            settled[k] # "none" \/ e.tree[k] # "absent" \/ k \in e.aside => k \in used
      BY <1>2, <1>3, <1>4, <2>1 DEF Lasting, Answered
    <2> QED
      BY <1>2, <2>3, <2>4, <2>5, <2>6 DEF Lasting, Answered
  <1>6. ASSUME NEW x, x[1] \in DOMAIN Before, "publish" \in Before[x[1]],
               Meets(disk, x) \/ <<"publish", j>> \in Makers(x)
        PROVE  Meets(e, x)
    <2>1. x[1] = "created"
      BY <1>6, Behind
    <2>2. x[2] \in Projects /\ (x[2] = j \/ disk.tree[x[2]] = "active")
      BY <1>6, <2>1, MakerOf DEF Meets
    <2> QED
      BY <1>4, <2>1, <2>2 DEF Meets
  <1>7. \A c \in {} : Lasting(c, settled, used)
    OBVIOUS
  <1> QED
    BY <1>1, <1>5, <1>6, <1>7, PlainLasts

\* Behind the last step of a request nothing is asked.
LEMMA LastAsked ==
  ASSUME IInv, LInv, todo # << >>, todo[1][1] \in {"created", "deleted"}, NEW s, NEW u
  PROVE  Assured(disk, Tail(todo), {}, {}) /\ Named(Tail(todo), s, u)
  <1>1. IsQueue(todo) /\ Preceded(todo)
    BY DEF IInv, Control
  <1>2. Tail(todo) = << >> \o Tail(todo)
    BY <1>1, EmptyQueue, NextHead
  <1>3. Joins(todo, << >>, Tail(todo))
    BY <1>1, <1>2, EmptyQueue, Join
  <1>4. Len(todo) \in Nat /\ DOMAIN todo = 1..Len(todo)
    BY <1>1, QueueFacts
  <1>5. ASSUME NEW i \in DOMAIN Tail(todo) PROVE Tail(todo)[i][1] \notin DOMAIN Before
    <2>1. PICK k \in DOMAIN todo : k > 1 /\ Tail(todo)[i] = todo[k]
      BY <1>3, EmptyQueue DEF Joins
    <2>2. 1 \in 1..k - 1
      BY <1>4, <2>1
    <2>3. todo[k][1] \in DOMAIN Before => todo[1][1] \in Before[todo[k][1]]
      BY <2>2 DEF LInv, Assured
    <2>4. todo[k][1] \notin DOMAIN Before
      BY <2>3, Behind DEF Behinds, Moves, Copies, Sweeps
    <2> QED
      BY <2>1, <2>4
  <1> QED
    BY <1>5, NothingAsked

LEMMA ProjectCreatedLasts ==
  ASSUME IInv, LInv, NEW j \in Projects, ProjectCreated(j)
  PROVE  LInv'
  <1>1. /\ todo # << >> /\ todo[1] = <<"created", j>> /\ loaded' = loaded \cup {j}
        /\ settled' = [settled EXCEPT ![j] = "created"] /\ todo' = Tail(todo)
        /\ disk' = disk /\ phase' = phase /\ used' = used
    BY DEF ProjectCreated
  <1>2. todo[1][1] = "created" /\ todo[1][2] = j
    BY <1>1
  <1>3. IsQueue(todo) /\ 1 \in DOMAIN todo /\ \A h : h \notin 1..1 - 1
    BY <1>1, QueueFacts DEF IInv, Control
  <1>4. Meets(disk, todo[1]) /\ j \in used
    BY <1>2, <1>3, BeforeFacts DEF LInv, Assured, Named
  <1>5. disk.tree[j] = "active"
    BY <1>2, <1>4 DEF Meets
  <1>6. /\ settled' \in [Projects -> {"none", "created", "deleted"}]
        /\ \A k \in Projects : settled'[k] = IF k = j THEN "created" ELSE settled[k]
    BY <1>1 DEF LInv
  <1>7. j \in Exists(disk)
    BY <1>5 DEF Exists, Active
  <1>8. Answered(disk, settled', used)
    BY <1>4, <1>6, <1>7 DEF LInv, Lasting, Answered
  <1>9. Assured(disk, todo', {}, {}) /\ Named(todo', settled', used)
    BY <1>1, <1>2, LastAsked
  <1> QED
    BY <1>1, <1>4, <1>6, <1>8, <1>9 DEF LInv, Lasting

-----------------------------------------------------------------------------
(* Deletions. *)

LEMMA HideProjectLasts ==
  ASSUME IInv, LInv, NEW j \in Projects, HideProject(j)
  PROVE  LInv'
  <1> DEFINE e == [disk EXCEPT !.tree[j] = "deleting"]
             ok == /\ j \notin disk.journal
                   /\ OthersWhole(disk, j) /\ disk.backup[j] \in {"absent", "kept"}
  <1>1. Step("hide", j, ok, e, {}, << >>)
    BY DEF HideProject
  <1>2. disk \in Disks /\ Lasting(disk, settled, used) /\ OneMigration(disk)
    BY DEF LInv, IInv, SoundDisk
  <1>3. /\ e.tree = [disk.tree EXCEPT ![j] = "deleting"] /\ e.marked = disk.marked
        /\ e.aside = disk.aside /\ e.journal = disk.journal /\ e.migrating = disk.migrating
        /\ e.backup = disk.backup /\ e.workspace = disk.workspace
    BY <1>2 DEF Disks
  <1> HIDE DEF e, ok
  <1>4. \A k \in Projects : e.tree[k] = IF k = j THEN "deleting" ELSE disk.tree[k]
    BY <1>2, <1>3, DiskFields
  <1>5. At("hide", j) => disk.tree[j] = "active" /\ settled[j] = "none"
    <2>1. At("hide", j) => Meets(disk, todo[1]) /\ settled[j] = "none" /\ todo[1] = <<"hide", j>>
      BY HeadMeets, BeforeFacts DEF At
    <2> QED
      BY <2>1 DEF Meets
  <1>6. ASSUME At("hide", j) PROVE Lasting(e, settled, used)
    <2>1. disk.journal = {} /\ disk.aside = {}
      BY <1>6, AtHead, NoAside DEF Serves
    <2>2. Active(e) = Active(disk) \ {j}
      BY <1>3, <1>4 DEF Active
    <2>3. Legible(e)
      BY <1>2, <1>3, <2>1, <2>2 DEF Lasting, Legible
    <2>4. \A k \in Projects : settled[k] = "created" => k \in Exists(e)
      BY <1>2, <1>5, <1>6, <2>1, <2>2 DEF Lasting, Answered, Exists
    <2>5. \A k \in Projects : settled[k] = "deleted" => Cleared(e, k) /\ k \notin e.aside
      BY <1>2, <1>3, <1>4, <1>5, <1>6 DEF Lasting, Answered, Cleared
    <2>6. \A k \in Projects :
            settled[k] # "none" \/ e.tree[k] # "absent" \/ k \in e.aside => k \in used
      BY <1>2, <1>3, <1>4, <1>5, <1>6 DEF Lasting, Answered
    <2> QED
      BY <1>2, <2>3, <2>4, <2>5, <2>6 DEF Lasting, Answered
  <1>7. ASSUME At("hide", j), NEW x, x[1] \in DOMAIN Before, "hide" \in Before[x[1]],
               Meets(disk, x) \/ <<"hide", j>> \in Makers(x)
        PROVE  Meets(e, x)
    <2>1. x[1] = "deleted" /\ Meets(disk, x)
      BY <1>7, Behind, MakerOf DEF Makings
    <2>2. x[2] \in Projects /\ Cleared(disk, x[2]) /\ x[2] # j
      BY <1>5, <1>7, <2>1 DEF Meets, Cleared
    <2>3. Cleared(e, x[2])
      BY <1>3, <1>4, <2>2 DEF Cleared
    <2> QED
      BY <2>1, <2>2, <2>3 DEF Meets
  <1>8. \A c \in {} : Lasting(c, settled, used)
    OBVIOUS
  <1> QED
    BY <1>1, <1>6, <1>7, <1>8, PlainLasts

LEMMA FinishDeletionLasts ==
  ASSUME IInv, LInv, NEW j \in Projects, FinishDeletion(j)
  PROVE  LInv'
  <1> DEFINE a == <<"collectProject", j>>
             b == <<"hideBackup", j>>
             c == <<"removeBackup", j>>
             f == <<"removeTree", j>>
             then == <<a, b, c, f>>
             ok == disk.tree[j] = "deleting"
  <1>1. Step("finish", j, ok, disk, {}, then)
    BY DEF FinishDeletion, Check
  <1>2. /\ IsQueue(then) /\ DOMAIN then = {1, 2, 3, 4}
        /\ then[1] = a /\ then[2] = b /\ then[3] = c /\ then[4] = f
    BY Tuples
  <1>3. /\ a[1] = "collectProject" /\ b[1] = "hideBackup" /\ b[2] = j /\ c[1] = "removeBackup"
        /\ c[2] = j /\ f[1] = "removeTree" /\ f[2] = j /\ f = <<"removeTree", j>>
        /\ c = <<"removeBackup", f[2]>>
    OBVIOUS
  <1> HIDE DEF a, b, c, f, then
  <1>4. ASSUME ok PROVE Assured(disk, then, {}, {})
    <2>1. Meets(disk, b) /\ Meets(disk, c) /\ c \in Makers(f)
      BY <1>3, <1>4, MakerFacts DEF Meets
    <2>2. /\ a[1] \in Before[b[1]] /\ a[1] \in Before[c[1]] /\ b[1] \in Before[c[1]]
          /\ a[1] \in Before[f[1]] /\ b[1] \in Before[f[1]] /\ c[1] \in Before[f[1]]
          /\ a[1] \notin DOMAIN Before
      BY <1>3, BeforeFacts
    <2>3. 1..2 - 1 = {1} /\ 1..3 - 1 = {1, 2} /\ 1..4 - 1 = {1, 2, 3}
      OBVIOUS
    <2> QED
      BY <1>2, <2>1, <2>2, <2>3 DEF Assured
  <1>5. Named(then, settled, used)
    BY <1>2, <1>3 DEF Named
  <1>6. Assures(disk, disk, <<"finish", j>>, then)
    <2>1. <<"finish", j>>[1] = "finish"
      OBVIOUS
    <2>2. ASSUME NEW x, x[1] \in DOMAIN Before, "finish" \in Before[x[1]]
          PROVE  /\ \A i \in DOMAIN then : then[i][1] \in Before[x[1]]
                 /\ <<"finish", j>> \in Makers(x) => \E i \in DOMAIN then : then[i] \in Makers(x)
      <3>1. x[1] = "deleted"
        BY <2>2, Behind
      <3>2. \A i \in DOMAIN then : then[i][1] \in Before["deleted"]
        BY <1>2, <1>3, BeforeFacts
      <3>3. <<"finish", j>> \in Makers(x) => f \in Makers(x)
        BY <1>3, <3>1, MakerOf, MakerFacts
      <3> QED
        BY <1>2, <3>1, <3>2, <3>3
    <2> QED
      BY <2>1, <2>2 DEF Assures
  <1>7. Lasting(disk, settled, used) /\ \A d \in {} : Lasting(d, settled, used)
    BY DEF LInv
  <1> HIDE DEF ok
  <1> QED
    BY <1>1, <1>2, <1>4, <1>5, <1>6, <1>7, ActionLasts

\* The backup of a hidden tree is hidden, removed or torn.
LEMMA HiddenBackupLasts ==
  ASSUME NEW d \in Disks, OneMigration(d), NEW s, NEW u, Lasting(d, s, u), NEW j \in Projects,
         d.tree[j] = "deleting", NEW w, d.backup[j] = "absent" => w = "absent"
  PROVE  LET e == [d EXCEPT !.backup[j] = w]
         IN  /\ Lasting(e, s, u)
             /\ \A x : x[1] \in {"removeBackup", "removeTree", "deleted"} /\ Meets(d, x) => Meets(e, x)
  <1> DEFINE e == [d EXCEPT !.backup[j] = w]
  <1>1. /\ e.backup = [d.backup EXCEPT ![j] = w] /\ e.tree = d.tree /\ e.marked = d.marked
        /\ e.aside = d.aside /\ e.journal = d.journal /\ e.migrating = d.migrating
        /\ e.workspace = d.workspace
    BY DEF Disks
  <1>2. d.backup \in [Projects -> {"absent", "creating", "kept", "deleting", "torn"}]
        /\ d.aside \subseteq Projects
    BY DEF Disks
  <1> HIDE DEF e
  <1>3. \A k \in Projects : e.backup[k] = IF k = j THEN w ELSE d.backup[k]
    BY <1>1, <1>2
  <1>4. j \notin d.aside /\ j \notin Active(d)
    BY DEF OneMigration, Active
  <1>5. Active(e) = Active(d) /\ Exists(e) = Exists(d) /\ Active(d) \subseteq Projects
    BY <1>1 DEF Active, Exists
  <1>6. Legible(e)
    BY <1>1, <1>2, <1>3, <1>4, <1>5 DEF Lasting, Legible
  <1>7. ASSUME NEW k \in Projects, Cleared(d, k) PROVE Cleared(e, k)
    BY <1>1, <1>3, <1>7 DEF Cleared
  <1>8. Answered(e, s, u)
    BY <1>1, <1>5, <1>7 DEF Lasting, Answered
  <1>9. ASSUME NEW x, x[1] \in {"removeBackup", "removeTree", "deleted"}, Meets(d, x)
        PROVE  Meets(e, x)
    BY <1>1, <1>3, <1>7, <1>9 DEF Meets
  <1> QED
    BY <1>6, <1>8, <1>9 DEF Lasting, e

LEMMA HideBackupLasts ==
  ASSUME IInv, LInv, NEW j \in Projects, HideBackup(j)
  PROVE  LInv'
  <1> DEFINE w == IF disk.backup[j] = "absent" THEN "absent" ELSE "deleting"
             e == [disk EXCEPT !.backup[j] = w]
             ok == OthersWhole(disk, j) /\ disk.backup[j] \notin {"creating", "torn"}
  <1>1. disk \in Disks /\ Lasting(disk, settled, used) /\ OneMigration(disk)
    BY DEF LInv, IInv, SoundDisk
  <1>2. e = [disk EXCEPT !.backup[j] = IF @ = "absent" THEN "absent" ELSE "deleting"]
    BY <1>1 DEF Disks
  <1>3. Step("hideBackup", j, ok, e, {}, << >>)
    BY <1>2 DEF HideBackup
  <1>4. ASSUME At("hideBackup", j)
        PROVE  /\ Lasting(e, settled, used)
               /\ \A x : x[1] \in {"removeBackup", "removeTree", "deleted"} /\ Meets(disk, x) =>
                           Meets(e, x)
    <2>1. Meets(disk, todo[1]) /\ todo[1] = <<"hideBackup", j>>
      BY <1>4, HeadMeets, BeforeFacts DEF At
    <2>2. disk.tree[j] = "deleting"
      BY <2>1 DEF Meets
    <2> QED
      BY <1>1, <2>2, HiddenBackupLasts
  <1>5. \A x : x[1] \in DOMAIN Before /\ "hideBackup" \in Before[x[1]] =>
          x[1] \in {"removeBackup", "removeTree", "deleted"} /\ <<"hideBackup", j>> \notin Makers(x)
    BY Behind, MakerOf DEF Makings
  <1>6. \A c \in {} : Lasting(c, settled, used)
    OBVIOUS
  <1> HIDE DEF e, ok
  <1> QED
    BY <1>3, <1>4, <1>5, <1>6, PlainLasts

LEMMA RemoveBackupLasts ==
  ASSUME IInv, LInv, NEW j \in Projects, RemoveBackup(j)
  PROVE  LInv'
  <1> DEFINE To(w) == [disk EXCEPT !.backup[j] = w]
             e == To("absent")
             partial == IF disk.backup[j] = "deleting" THEN {To("torn")} ELSE {}
  <1>1. disk \in Disks /\ Lasting(disk, settled, used) /\ OneMigration(disk)
    BY DEF LInv, IInv, SoundDisk
  <1>2. e.backup[j] = "absent"
    BY <1>1 DEF Disks
  <1>3. Step("removeBackup", j, TRUE, e, partial, << >>)
    BY DEF RemoveBackup
  <1>4. ASSUME At("removeBackup", j)
        PROVE  /\ Lasting(e, settled, used) /\ \A c \in partial : Lasting(c, settled, used)
               /\ \A x : x[1] \in {"removeTree", "deleted"} /\ Meets(disk, x) => Meets(e, x)
    <2>1. Meets(disk, todo[1]) /\ todo[1] = <<"removeBackup", j>>
      BY <1>4, HeadMeets, BeforeFacts DEF At
    <2>2. disk.tree[j] = "deleting"
      BY <2>1 DEF Meets
    <2>3. disk.backup[j] = "deleting" => Lasting(To("torn"), settled, used)
      BY <1>1, <2>2, HiddenBackupLasts
    <2>4. Lasting(e, settled, used)
          /\ \A x : x[1] \in {"removeTree", "deleted"} /\ Meets(disk, x) => Meets(e, x)
      BY <1>1, <2>2, HiddenBackupLasts
    <2> HIDE DEF To, e
    <2> QED
      BY <2>3, <2>4
  <1> HIDE DEF To, e, partial
  <1>5. ASSUME At("removeBackup", j), NEW x, x[1] \in DOMAIN Before,
               "removeBackup" \in Before[x[1]],
               Meets(disk, x) \/ <<"removeBackup", j>> \in Makers(x)
        PROVE  Meets(e, x)
    <2>1. x[1] \in {"removeTree", "deleted"}
      BY <1>5, Behind
    <2>2. CASE <<"removeBackup", j>> \in Makers(x)
      <3>1. x[1] = "removeTree" /\ x[2] = j
        BY <2>2, MakerOf
      <3> QED
        BY <1>2, <3>1 DEF Meets
    <2> QED
      BY <1>4, <1>5, <2>1, <2>2
  <1> QED
    BY <1>3, <1>4, <1>5, PlainLasts

LEMMA RemoveTreeLasts ==
  ASSUME IInv, LInv, NEW j \in Projects, RemoveTree(j)
  PROVE  LInv'
  <1> DEFINE e == [disk EXCEPT !.tree[j] = "absent", !.marked = @ \ {j}, !.revised = @ \ Of(j),
                     !.workspace = [p \in Proposals |-> IF p \in Of(j) THEN "absent" ELSE @[p]]]
             f == [disk EXCEPT !.tree[j] = "torn"]
             partial == {f}
  <1>1. Step("removeTree", j, TRUE, e, partial, << >>)
    BY DEF RemoveTree
  <1>2. disk \in Disks /\ Lasting(disk, settled, used) /\ OneMigration(disk)
    BY DEF LInv, IInv, SoundDisk
  <1>3. /\ e.tree = [disk.tree EXCEPT ![j] = "absent"] /\ e.marked = disk.marked \ {j}
        /\ e.aside = disk.aside /\ e.journal = disk.journal /\ e.migrating = disk.migrating
        /\ e.backup = disk.backup
        /\ e.workspace = [p \in Proposals |-> IF p \in Of(j) THEN "absent" ELSE disk.workspace[p]]
    BY <1>2 DEF Disks
  <1>4. /\ f.tree = [disk.tree EXCEPT ![j] = "torn"] /\ f.marked = disk.marked
        /\ f.aside = disk.aside /\ f.journal = disk.journal /\ f.migrating = disk.migrating
        /\ f.backup = disk.backup /\ f.workspace = disk.workspace
    BY <1>2 DEF Disks
  <1>5. \A c \in partial : c = f
    OBVIOUS
  <1> HIDE DEF e, f, partial
  <1>6. /\ \A k \in Projects : e.tree[k] = IF k = j THEN "absent" ELSE disk.tree[k]
        /\ \A k \in Projects : f.tree[k] = IF k = j THEN "torn" ELSE disk.tree[k]
        /\ \A p \in Proposals : e.workspace[p] = IF p \in Of(j) THEN "absent" ELSE disk.workspace[p]
    BY <1>2, <1>3, <1>4, DiskFields
  <1>7. At("removeTree", j) => disk.tree[j] = "deleting" /\ disk.backup[j] = "absent"
    <2>1. At("removeTree", j) =>
            Meets(disk, todo[1]) /\ Holds(disk, todo[1]) /\ todo[1] = <<"removeTree", j>>
      BY HeadMeets, AtHead, BeforeFacts, AheadFacts DEF At
    <2> QED
      BY <2>1 DEF Meets, Holds
  <1>8. \A k \in Projects : k # j /\ Cleared(disk, k) => Cleared(e, k) /\ Cleared(f, k)
    BY <1>3, <1>4, <1>6 DEF Cleared, Of
  <1>9. ASSUME At("removeTree", j) PROVE Lasting(e, settled, used) /\ Lasting(f, settled, used)
    <2>1. /\ Active(e) = Active(disk) /\ Exists(e) = Exists(disk) /\ j \notin Active(disk)
          /\ Active(f) = Active(disk) /\ Exists(f) = Exists(disk)
      BY <1>3, <1>4, <1>6, <1>7, <1>9 DEF Active, Exists
    <2>2. Legible(e) /\ Legible(f)
      BY <1>2, <1>3, <1>4, <2>1 DEF Lasting, Legible
    <2>3. \A k \in Projects : settled[k] = "deleted" => k # j /\ Cleared(disk, k) /\ k \notin disk.aside
      BY <1>2, <1>7, <1>9 DEF Lasting, Answered, Cleared
    <2>4. \A k \in Projects : /\ e.tree[k] # "absent" => disk.tree[k] # "absent"
                              /\ f.tree[k] # "absent" => disk.tree[k] # "absent"
      BY <1>6, <1>7, <1>9
    <2> QED
      BY <1>2, <1>3, <1>4, <1>8, <2>1, <2>2, <2>3, <2>4 DEF Lasting, Answered
  <1>10. ASSUME At("removeTree", j), NEW x, x[1] \in DOMAIN Before,
                "removeTree" \in Before[x[1]],
                Meets(disk, x) \/ <<"removeTree", j>> \in Makers(x)
         PROVE  Meets(e, x)
    <2>1. x[1] = "deleted"
      BY <1>10, Behind
    <2>2. CASE Meets(disk, x)
      <3>1. x[2] \in Projects /\ Cleared(disk, x[2]) /\ x[2] # j
        BY <1>7, <1>10, <2>1, <2>2 DEF Meets, Cleared
      <3> QED
        BY <1>8, <2>1, <3>1 DEF Meets
    <2>3. CASE <<"removeTree", j>> \in Makers(x)
      <3>1. x[2] = j
        BY <2>3, MakerOf
      <3>2. Cleared(e, j)
        BY <1>3, <1>6, <1>7, <1>10 DEF Cleared, Of
      <3> QED
        BY <2>1, <3>1, <3>2 DEF Meets
    <2> QED
      BY <1>10, <2>2, <2>3
  <1> QED
    BY <1>1, <1>5, <1>9, <1>10, PlainLasts

LEMMA ProjectDeletedLasts ==
  ASSUME IInv, LInv, NEW j \in Projects, ProjectDeleted(j)
  PROVE  LInv'
  <1>1. /\ todo # << >> /\ todo[1] = <<"deleted", j>> /\ loaded' = loaded \ {j}
        /\ settled' = [settled EXCEPT ![j] = "deleted"] /\ todo' = Tail(todo)
        /\ disk' = disk /\ phase' = phase /\ used' = used /\ doomed = {}
    BY DEF ProjectDeleted
  <1>2. todo[1][1] = "deleted" /\ todo[1][2] = j /\ At("deleted", j)
    BY <1>1 DEF At
  <1>3. Meets(disk, todo[1]) /\ j \in used
    BY <1>2, HeadMeets, BeforeFacts
  <1>4. Cleared(disk, j)
    BY <1>2, <1>3 DEF Meets
  <1>5. disk.aside = {}
    BY <1>1, <1>2, NoAside DEF Serves
  <1>6. /\ settled' \in [Projects -> {"none", "created", "deleted"}]
        /\ \A k \in Projects : settled'[k] = IF k = j THEN "deleted" ELSE settled[k]
    BY <1>1 DEF LInv
  <1>7. Answered(disk, settled', used)
    BY <1>3, <1>4, <1>5, <1>6 DEF LInv, Lasting, Answered
  <1>8. Assured(disk, todo', {}, {}) /\ Named(todo', settled', used)
    BY <1>1, <1>2, LastAsked
  <1> QED
    BY <1>1, <1>6, <1>7, <1>8 DEF LInv, Lasting

-----------------------------------------------------------------------------
(* Migrations. *)

LEMMA StartMigrationLasts ==
  ASSUME IInv, LInv, NEW j \in Projects, StartMigration(j)
  PROVE  LInv'
  <1> DEFINE e == [disk EXCEPT !.journal = @ \cup {j}]
             a == <<"resume", j>>
             then == <<a>>
             ok == j \notin disk.journal
  <1>1. Step("migrate", j, ok, e, {}, then)
    BY DEF StartMigration
  <1>2. disk \in Disks /\ Lasting(disk, settled, used)
    BY DEF LInv, IInv, SoundDisk
  <1>3. /\ e.tree = disk.tree /\ e.marked = disk.marked /\ e.aside = disk.aside
        /\ e.journal = disk.journal \cup {j} /\ e.migrating = disk.migrating
        /\ e.backup = disk.backup /\ e.workspace = disk.workspace
    BY <1>2 DEF Disks
  <1>4. IsQueue(then) /\ DOMAIN then = {1} /\ then[1] = a /\ a[1] = "resume"
    BY Tuples
  <1> HIDE DEF e, a, then, ok
  <1>5. Assured(e, then, {}, {}) /\ Named(then, settled, used)
    BY <1>4, BeforeFacts, NothingAsked
  <1>6. ASSUME At("migrate", j) PROVE Lasting(e, settled, used)
    <2>1. Meets(disk, todo[1]) /\ todo[1] = <<"migrate", j>>
      BY <1>6, HeadMeets, BeforeFacts DEF At
    <2>2. j \in Active(disk)
      BY <2>1 DEF Meets, Active
    <2>3. Active(e) = Active(disk) /\ Exists(e) = Exists(disk)
          /\ \A k : Cleared(disk, k) => Cleared(e, k)
      BY <1>3 DEF Active, Exists, Cleared
    <2>4. Legible(e)
      BY <1>2, <1>3, <2>2, <2>3 DEF Lasting, Legible, Exists
    <2> QED
      BY <1>2, <1>3, <2>3, <2>4 DEF Lasting, Answered
  <1>7. Assures(disk, e, <<"migrate", j>>, then)
    <2>1. <<"migrate", j>>[1] = "migrate"
      OBVIOUS
    <2>2. \A n \in DOMAIN Before : "migrate" \notin Before[n]
      BY Behind DEF Behinds, Moves, Copies, Sweeps
    <2> QED
      BY <2>1, <2>2 DEF Assures
  <1>8. \A c \in {} : Lasting(c, settled, used)
    OBVIOUS
  <1> QED
    BY <1>1, <1>4, <1>5, <1>6, <1>7, <1>8, ActionLasts

\* A project in the old layout is backed up.
LEMMA BackupCopyLasts ==
  ASSUME NEW d \in Disks, NEW s, NEW u, Lasting(d, s, u), NEW j \in Projects,
         d.tree[j] = "active", j \notin d.marked, NEW w,
         w = "kept" \/ (j \notin d.aside /\ d.backup[j] # "kept")
  PROVE  LET e == [d EXCEPT !.backup[j] = w]
         IN  /\ Lasting(e, s, u) /\ e.backup[j] = w
             /\ \A x : x[1] \in {"copyTree", "setAside", "removeAside"} /\ Meets(d, x) => Meets(e, x)
             /\ \A x : x[1] = "publishBackup" /\ Meets(d, x) => Meets(e, x)
  <1> DEFINE e == [d EXCEPT !.backup[j] = w]
  <1>1. /\ e.backup = [d.backup EXCEPT ![j] = w] /\ e.tree = d.tree /\ e.marked = d.marked
        /\ e.aside = d.aside /\ e.journal = d.journal /\ e.migrating = d.migrating
        /\ e.workspace = d.workspace
    BY DEF Disks
  <1>2. d.backup \in [Projects -> {"absent", "creating", "kept", "deleting", "torn"}]
        /\ d.aside \subseteq Projects
    BY DEF Disks
  <1> HIDE DEF e
  <1>3. \A k \in Projects : e.backup[k] = IF k = j THEN w ELSE d.backup[k]
    BY <1>1, <1>2
  <1>4. /\ Active(e) = Active(d) /\ Exists(e) = Exists(d) /\ Active(d) \subseteq Projects
        /\ \A k : HasNewLayout(e, k) <=> HasNewLayout(d, k)
    BY <1>1 DEF Active, Exists, HasNewLayout
  <1>5. Legible(e)
    BY <1>1, <1>2, <1>3, <1>4 DEF Lasting, Legible
  <1>6. ASSUME NEW k \in Projects, Cleared(d, k) PROVE Cleared(e, k)
    BY <1>1, <1>3, <1>6 DEF Cleared
  <1>7. Answered(e, s, u)
    BY <1>1, <1>4, <1>6 DEF Lasting, Answered
  <1>8. ASSUME NEW x, x[1] \in {"copyTree", "setAside", "removeAside", "publishBackup"},
               Meets(d, x)
        PROVE  Meets(e, x)
    BY <1>1, <1>3, <1>4, <1>8 DEF Meets
  <1>9. e.backup[j] = w
    BY <1>3
  <1> QED
    BY <1>5, <1>7, <1>8, <1>9 DEF Lasting, e

LEMMA CopyBackupLasts ==
  ASSUME IInv, LInv, NEW j \in Projects, CopyBackup(j)
  PROVE  LInv'
  <1> DEFINE e == [disk EXCEPT !.backup[j] = "creating"]
  <1>1. Step("copyBackup", j, TRUE, e, {}, << >>)
    BY DEF CopyBackup
  <1>2. disk \in Disks /\ Lasting(disk, settled, used)
    BY DEF LInv, IInv, SoundDisk
  <1>3. ASSUME At("copyBackup", j)
        PROVE  /\ Lasting(e, settled, used)
               /\ \A x : x[1] \in {"copyTree", "setAside", "removeAside"} /\ Meets(disk, x) =>
                           Meets(e, x)
               /\ \A x : x[1] = "publishBackup" /\ Meets(disk, x) => Meets(e, x)
    <2>1. Meets(disk, todo[1]) /\ todo[1] = <<"copyBackup", j>>
      BY <1>3, HeadMeets, BeforeFacts DEF At
    <2>2. /\ disk.tree[j] = "active" /\ j \notin disk.marked /\ j \notin disk.aside
          /\ disk.backup[j] # "kept"
      BY <2>1 DEF Meets
    <2> QED
      BY <1>2, <2>2, BackupCopyLasts
  <1>4. \A x : x[1] \in DOMAIN Before /\ "copyBackup" \in Before[x[1]] =>
          x[1] \in {"publishBackup", "copyTree", "setAside", "removeAside"}
          /\ <<"copyBackup", j>> \notin Makers(x)
    BY Behind, MakerOf DEF Makings
  <1>5. \A c \in {} : Lasting(c, settled, used)
    OBVIOUS
  <1> HIDE DEF e
  <1> QED
    BY <1>1, <1>3, <1>4, <1>5, PlainLasts

LEMMA PublishBackupLasts ==
  ASSUME IInv, LInv, NEW j \in Projects, PublishBackup(j)
  PROVE  LInv'
  <1> DEFINE e == [disk EXCEPT !.backup[j] = "kept"]
  <1>1. Step("publishBackup", j, TRUE, e, {}, << >>)
    BY DEF PublishBackup
  <1>2. disk \in Disks /\ Lasting(disk, settled, used)
    BY DEF LInv, IInv, SoundDisk
  <1>3. e.tree = disk.tree /\ e.marked = disk.marked
    BY <1>2 DEF Disks
  <1>4. At("publishBackup", j) => disk.tree[j] = "active" /\ j \notin disk.marked
    <2>1. At("publishBackup", j) => Meets(disk, todo[1]) /\ todo[1] = <<"publishBackup", j>>
      BY HeadMeets, BeforeFacts DEF At
    <2> QED
      BY <2>1 DEF Meets
  <1>5. ASSUME At("publishBackup", j)
        PROVE  /\ Lasting(e, settled, used) /\ e.backup[j] = "kept"
               /\ \A x : x[1] \in {"copyTree", "setAside", "removeAside"} /\ Meets(disk, x) =>
                           Meets(e, x)
    BY <1>2, <1>4, <1>5, BackupCopyLasts
  <1> HIDE DEF e
  <1>6. ASSUME At("publishBackup", j), NEW x, x[1] \in DOMAIN Before,
               "publishBackup" \in Before[x[1]],
               Meets(disk, x) \/ <<"publishBackup", j>> \in Makers(x)
        PROVE  Meets(e, x)
    <2>1. x[1] \in {"copyTree", "setAside", "removeAside"}
      BY <1>6, Behind
    <2>2. CASE <<"publishBackup", j>> \in Makers(x)
      <3>1. x[1] = "setAside" /\ x[2] = j
        BY <2>2, MakerOf
      <3> QED
        BY <1>3, <1>4, <1>5, <1>6, <3>1 DEF Meets
    <2> QED
      BY <1>5, <1>6, <2>1, <2>2
  <1>7. \A c \in {} : Lasting(c, settled, used)
    OBVIOUS
  <1> QED
    BY <1>1, <1>5, <1>6, <1>7, PlainLasts

LEMMA CopyTreeLasts ==
  ASSUME IInv, LInv, NEW j \in Projects, CopyTree(j)
  PROVE  LInv'
  <1> DEFINE To(w) == [disk EXCEPT !.migrating[j] = w]
             partial == {To("partial"), To("absent")}
  <1>1. Step("copyTree", j, TRUE, To("whole"), partial, << >>)
    BY DEF CopyTree
  <1>2. disk \in Disks /\ Lasting(disk, settled, used)
    BY DEF LInv, IInv, SoundDisk
  <1>3. ASSUME NEW w
        PROVE  /\ To(w).migrating = [disk.migrating EXCEPT ![j] = w] /\ To(w).tree = disk.tree
               /\ To(w).marked = disk.marked /\ To(w).aside = disk.aside
               /\ To(w).journal = disk.journal /\ To(w).backup = disk.backup
               /\ To(w).workspace = disk.workspace
    BY <1>2 DEF Disks
  <1>4. disk.migrating \in [Projects -> {"absent", "partial", "whole"}]
    BY <1>2 DEF Disks
  <1>5. ASSUME At("copyTree", j), NEW w PROVE Lasting(To(w), settled, used)
    <2> DEFINE e == To(w)
    <2>1. /\ e.migrating = [disk.migrating EXCEPT ![j] = w] /\ e.tree = disk.tree
          /\ e.marked = disk.marked /\ e.aside = disk.aside /\ e.journal = disk.journal
          /\ e.backup = disk.backup /\ e.workspace = disk.workspace
      BY <1>3
    <2> HIDE DEF e, To
    <2>2. Meets(disk, todo[1]) /\ todo[1] = <<"copyTree", j>>
      BY <1>5, HeadMeets, BeforeFacts DEF At
    <2>3. j \notin Active(disk) \cap disk.marked
      BY <2>2 DEF Meets, HasNewLayout
    <2>4. \A k \in Projects : k # j => e.migrating[k] = disk.migrating[k]
      BY <1>4, <2>1
    <2>5. Active(e) = Active(disk) /\ Exists(e) = Exists(disk) /\ Active(disk) \subseteq Projects
          /\ \A k : Cleared(disk, k) => Cleared(e, k)
      BY <2>1 DEF Active, Exists, Cleared
    <2>6. Active(e) \cap e.aside \subseteq {k \in e.marked : e.migrating[k] = "absent"}
      BY <1>2, <2>1, <2>3, <2>4, <2>5 DEF Lasting, Legible
    <2>7. Legible(e)
      BY <1>2, <2>1, <2>5, <2>6 DEF Lasting, Legible
    <2> QED
      BY <1>2, <2>1, <2>5, <2>7 DEF Lasting, Answered, e
  <1>6. ASSUME NEW x, x[1] \in {"setAside", "removeAside"}, Meets(disk, x)
        PROVE  Meets(To("whole"), x)
    <2> HIDE DEF To
    <2> QED
      BY <1>3, <1>6 DEF Meets
  <1> HIDE DEF To
  <1>7. At("copyTree", j) => \A c \in partial : Lasting(c, settled, used)
    BY <1>5
  <1> HIDE DEF partial
  <1>8. \A x : x[1] \in DOMAIN Before /\ "copyTree" \in Before[x[1]] =>
          x[1] \in {"setAside", "removeAside"} /\ <<"copyTree", j>> \notin Makers(x)
    BY Behind, MakerOf DEF Makings
  <1> DEFINE e == To("whole")
  <1>9. Step("copyTree", j, TRUE, e, partial, << >>)
    BY <1>1
  <1>10. At("copyTree", j) => Lasting(e, settled, used)
    BY <1>5
  <1>11. \A x : x[1] \in {"setAside", "removeAside"} /\ Meets(disk, x) => Meets(e, x)
    BY <1>6
  <1> HIDE DEF e
  <1> QED
    BY <1>7, <1>8, <1>9, <1>10, <1>11, PlainLasts

LEMMA SetAsideLasts ==
  ASSUME IInv, LInv, NEW j \in Projects, SetAside(j)
  PROVE  LInv'
  <1> DEFINE e == [disk EXCEPT !.tree[j] = "absent", !.aside = @ \cup {j}]
             ok == j \notin disk.aside
  <1>1. Step("setAside", j, ok, e, {}, << >>)
    BY DEF SetAside
  <1>2. disk \in Disks /\ Lasting(disk, settled, used)
    BY DEF LInv, IInv, SoundDisk
  <1>3. /\ e.tree = [disk.tree EXCEPT ![j] = "absent"] /\ e.aside = disk.aside \cup {j}
        /\ e.marked = disk.marked /\ e.journal = disk.journal /\ e.migrating = disk.migrating
        /\ e.backup = disk.backup /\ e.workspace = disk.workspace
    BY <1>2 DEF Disks
  <1> HIDE DEF e, ok
  <1>4. \A k \in Projects : e.tree[k] = IF k = j THEN "absent" ELSE disk.tree[k]
    BY <1>2, <1>3, DiskFields
  <1>5. At("setAside", j) =>
          disk.tree[j] = "active" /\ j \notin disk.marked /\ disk.backup[j] = "kept"
    <2>1. At("setAside", j) => Meets(disk, todo[1]) /\ todo[1] = <<"setAside", j>>
      BY HeadMeets, BeforeFacts DEF At
    <2> QED
      BY <2>1 DEF Meets
  <1>6. ASSUME At("setAside", j) PROVE Lasting(e, settled, used)
    <2>1. Active(e) = Active(disk) \ {j} /\ Exists(e) = Exists(disk) \cup {j}
      BY <1>3, <1>4, <1>5, <1>6 DEF Active, Exists
    <2>2. Legible(e)
      BY <1>2, <1>3, <1>5, <1>6, <2>1 DEF Lasting, Legible
    <2>3. \A k \in Projects : settled[k] = "deleted" => Cleared(e, k) /\ k \notin e.aside
      BY <1>2, <1>3, <1>4, <1>5, <1>6 DEF Lasting, Answered, Cleared
    <2>4. \A k \in Projects :
            settled[k] # "none" \/ e.tree[k] # "absent" \/ k \in e.aside => k \in used
      BY <1>2, <1>3, <1>4, <1>5, <1>6 DEF Lasting, Answered
    <2> QED
      BY <1>2, <2>1, <2>2, <2>3, <2>4 DEF Lasting, Answered
  <1>7. ASSUME At("setAside", j), NEW x, x[1] \in DOMAIN Before, "setAside" \in Before[x[1]],
               Meets(disk, x) \/ <<"setAside", j>> \in Makers(x)
        PROVE  Meets(e, x)
    <2>1. x[1] = "removeAside" /\ Meets(disk, x)
      BY <1>7, Behind, MakerOf DEF Makings
    <2>2. x[2] \in Projects /\ x[2] # j
      BY <1>5, <1>7, <2>1 DEF Meets
    <2> QED
      BY <1>3, <1>4, <2>1, <2>2 DEF Meets
  <1>8. \A c \in {} : Lasting(c, settled, used)
    OBVIOUS
  <1> QED
    BY <1>1, <1>6, <1>7, <1>8, PlainLasts

LEMMA SwapInLasts ==
  ASSUME IInv, LInv, NEW j \in Projects, SwapIn(j)
  PROVE  LInv'
  <1> DEFINE e == [disk EXCEPT !.tree[j] = "active", !.marked = @ \cup {j},
                               !.migrating[j] = "absent"]
             ok == j \in disk.aside
  <1>1. Step("swap", j, ok, e, {}, << >>)
    BY DEF SwapIn
  <1>2. disk \in Disks /\ Lasting(disk, settled, used)
    BY DEF LInv, IInv, SoundDisk
  <1>3. /\ e.tree = [disk.tree EXCEPT ![j] = "active"] /\ e.marked = disk.marked \cup {j}
        /\ e.aside = disk.aside /\ e.journal = disk.journal
        /\ e.migrating = [disk.migrating EXCEPT ![j] = "absent"]
        /\ e.backup = disk.backup /\ e.workspace = disk.workspace
    BY <1>2 DEF Disks
  <1>4. disk.migrating \in [Projects -> {"absent", "partial", "whole"}]
    BY <1>2 DEF Disks
  <1> HIDE DEF e
  <1>5. \A k \in Projects :
          /\ e.tree[k] = IF k = j THEN "active" ELSE disk.tree[k]
          /\ e.migrating[k] = IF k = j THEN "absent" ELSE disk.migrating[k]
    BY <1>2, <1>3, <1>4, DiskFields
  <1>6. ASSUME ok PROVE Lasting(e, settled, used)
    <2>1. Active(e) = Active(disk) \cup {j} /\ Exists(e) = Exists(disk) /\ j \in Exists(disk)
          /\ Active(disk) \subseteq Projects
      BY <1>3, <1>5, <1>6 DEF Active, Exists
    <2>2. Active(e) \cap e.aside \subseteq {k \in e.marked : e.migrating[k] = "absent"}
      BY <1>2, <1>3, <1>5, <2>1 DEF Lasting, Legible
    <2>3. Legible(e)
      BY <1>2, <1>3, <1>6, <2>1, <2>2 DEF Lasting, Legible
    <2>4. \A k \in Projects : settled[k] = "deleted" => Cleared(e, k) /\ k \notin e.aside
      BY <1>2, <1>3, <1>5, <1>6 DEF Lasting, Answered, Cleared
    <2>5. \A k \in Projects :
            settled[k] # "none" \/ e.tree[k] # "absent" \/ k \in e.aside => k \in used
      BY <1>2, <1>3, <1>5, <1>6 DEF Lasting, Answered
    <2> QED
      BY <1>2, <2>1, <2>3, <2>4, <2>5 DEF Lasting, Answered
  <1>7. ASSUME NEW x, x[1] \in DOMAIN Before, "swap" \in Before[x[1]],
               Meets(disk, x) \/ <<"swap", j>> \in Makers(x)
        PROVE  Meets(e, x)
    <2>1. x[1] = "removeAside"
      BY <1>7, Behind
    <2>2. x[2] \in Projects /\ (x[2] = j \/ (disk.tree[x[2]] = "active" /\ x[2] \in disk.marked))
      BY <1>7, <2>1, MakerOf DEF Meets
    <2> QED
      BY <1>3, <1>5, <2>1, <2>2 DEF Meets
  <1> HIDE DEF ok
  <1>8. \A c \in {} : Lasting(c, settled, used)
    OBVIOUS
  <1> QED
    BY <1>1, <1>6, <1>7, <1>8, PlainLasts

LEMMA RemoveAsideLasts ==
  ASSUME IInv, LInv, NEW j \in Projects, RemoveAside(j) \/ EndJournal(j)
  PROVE  LInv'
  <1> DEFINE e == [disk EXCEPT !.aside = @ \ {j}]
             f == [disk EXCEPT !.journal = @ \ {j}]
  <1>1. disk \in Disks /\ Lasting(disk, settled, used)
    BY DEF LInv, IInv, SoundDisk
  <1>2. /\ e.tree = disk.tree /\ e.aside = disk.aside \ {j} /\ e.marked = disk.marked
        /\ e.journal = disk.journal /\ e.migrating = disk.migrating
        /\ e.backup = disk.backup /\ e.workspace = disk.workspace
    BY <1>1 DEF Disks
  <1>3. /\ f.tree = disk.tree /\ f.aside = disk.aside /\ f.marked = disk.marked
        /\ f.journal = disk.journal \ {j} /\ f.migrating = disk.migrating
        /\ f.backup = disk.backup /\ f.workspace = disk.workspace
    BY <1>1 DEF Disks
  <1>4. RemoveAside(j) => Step("removeAside", j, TRUE, e, {}, << >>)
    BY DEF RemoveAside
  <1>5. EndJournal(j) => Step("endJournal", j, TRUE, f, {}, << >>)
    BY DEF EndJournal
  <1> HIDE DEF e, f
  <1>6. ASSUME At("removeAside", j) PROVE Lasting(e, settled, used)
    <2>1. Meets(disk, todo[1]) /\ todo[1] = <<"removeAside", j>>
      BY <1>6, HeadMeets, BeforeFacts DEF At
    <2>2. j \in Active(disk)
      BY <2>1 DEF Meets, Active
    <2>3. Active(e) = Active(disk) /\ Exists(e) = Exists(disk)
          /\ \A k : Cleared(disk, k) => Cleared(e, k)
      BY <1>2, <2>2 DEF Active, Exists, Cleared
    <2>4. Legible(e)
      BY <1>1, <1>2, <2>3 DEF Lasting, Legible
    <2> QED
      BY <1>1, <1>2, <2>3, <2>4 DEF Lasting, Answered
  <1>7. Lasting(f, settled, used)
    <2>1. Active(f) = Active(disk) /\ Exists(f) = Exists(disk)
          /\ \A k : Cleared(disk, k) => Cleared(f, k)
      BY <1>3 DEF Active, Exists, Cleared
    <2>2. Legible(f)
      BY <1>1, <1>3, <2>1 DEF Lasting, Legible
    <2> QED
      BY <1>1, <1>3, <2>1, <2>2 DEF Lasting, Answered
  <1>8. \A n \in DOMAIN Before : "removeAside" \notin Before[n] /\ "endJournal" \notin Before[n]
    BY Behind DEF Behinds, Moves, Copies, Sweeps
  <1>9. \A c \in {} : Lasting(c, settled, used)
    OBVIOUS
  <1>10. CASE RemoveAside(j)
    BY <1>4, <1>6, <1>8, <1>9, <1>10, PlainLasts
  <1>11. CASE EndJournal(j)
    BY <1>5, <1>7, <1>8, <1>9, <1>11, PlainLasts
  <1> QED
    BY <1>10, <1>11

LEMMA CleanOrphansLasts ==
  ASSUME IInv, LInv, CleanOrphans
  PROVE  LInv'
  <1> DEFINE e == [disk EXCEPT !.migrating = [j \in Projects |-> "absent"],
                     !.backup = [j \in Projects |-> IF @[j] = "creating" THEN "absent" ELSE @[j]]]
             ok == disk.aside = {}
  <1>1. Step("orphans", "all", ok, e, {}, << >>)
    BY DEF CleanOrphans
  <1>2. disk \in Disks /\ Lasting(disk, settled, used)
    BY DEF LInv, IInv, SoundDisk
  <1>3. /\ e.tree = disk.tree /\ e.aside = disk.aside /\ e.marked = disk.marked
        /\ e.journal = disk.journal /\ e.workspace = disk.workspace
        /\ e.backup = [j \in Projects |-> IF disk.backup[j] = "creating" THEN "absent"
                                          ELSE disk.backup[j]]
    BY <1>2 DEF Disks
  <1> HIDE DEF e
  <1>4. \A k \in Projects : e.backup[k] = IF disk.backup[k] = "creating" THEN "absent"
                                          ELSE disk.backup[k]
    BY <1>3
  <1>5. ASSUME ok PROVE Lasting(e, settled, used)
    <2>1. Active(e) = Active(disk) /\ Exists(e) = Exists(disk) /\ Active(disk) \subseteq Projects
          /\ \A k \in Projects : Cleared(disk, k) => Cleared(e, k)
      BY <1>3, <1>4 DEF Active, Exists, Cleared
    <2>2. Legible(e)
      BY <1>2, <1>3, <1>4, <1>5, <2>1 DEF Lasting, Legible
    <2> QED
      BY <1>2, <1>3, <2>1, <2>2 DEF Lasting, Answered
  <1>6. \A n \in DOMAIN Before : "orphans" \notin Before[n]
    BY Behind DEF Behinds, Moves, Copies, Sweeps
  <1> HIDE DEF ok
  <1>7. \A c \in {} : Lasting(c, settled, used)
    OBVIOUS
  <1> QED
    BY <1>1, <1>5, <1>6, <1>7, PlainLasts

LEMMA LoadProjectLasts ==
  ASSUME IInv, LInv, NEW j \in Projects, LoadProject(j)
  PROVE  LInv'
  <1>1. CASE /\ disk.tree[j] = "creating"
             /\ Step("load", j, TRUE, [disk EXCEPT !.tree[j] = "absent"], {}, << >>)
    BY <1>1, UnstageProjectLasts
  <1>2. CASE /\ disk.tree[j] # "creating"
             /\ Step("load", j, disk.tree[j] = "active", [disk EXCEPT !.temporary = @ \ {j}], {},
                     (IF j \in disk.marked THEN << >>
                      ELSE << <<"validate", j>>, <<"migrate", j>> >>) \o << <<"validate", j>> >>)
    <2> DEFINE e == [disk EXCEPT !.temporary = @ \ {j}]
               a == <<"validate", j>>
               b == <<"migrate", j>>
               head == IF j \in disk.marked THEN << >> ELSE <<a, b>>
               then == head \o <<a>>
               ok == disk.tree[j] = "active"
    <2>1. Step("load", j, ok, e, {}, then)
      BY <1>2
    <2>2. Alike(disk, e)
      BY DataAlike DEF IInv, SoundDisk
    <2>3. a[1] = "validate" /\ b[1] = "migrate" /\ b[2] = j
      OBVIOUS
    <2>4. (j \notin disk.marked /\ then = <<a, b, a>>) \/ then = <<a>>
      BY GluedTuples
    <2>5. /\ \/ j \notin disk.marked /\ DOMAIN then = {1, 2, 3} /\ then[1] = a /\ then[2] = b
                /\ then[3] = a
             \/ DOMAIN then = {1} /\ then[1] = a
          /\ IsQueue(then)
      <3>1. <<a, b, a>>[1] = a /\ <<a, b, a>>[2] = b /\ <<a, b, a>>[3] = a /\ <<a>>[1] = a
        OBVIOUS
      <3> HIDE DEF a, b, then
      <3> QED
        BY <2>4, <3>1, Tuples
    <2> HIDE DEF e, a, b, head, then
    <2>6. ASSUME ok PROVE Assured(e, then, {}, {})
      <3>1. a[1] \notin DOMAIN Before
        BY <2>3, BeforeFacts
      <3>2. CASE DOMAIN then = {1}
        BY <2>5, <3>1, <3>2 DEF Assured
      <3>3. CASE j \notin disk.marked /\ DOMAIN then = {1, 2, 3} /\ then[1] = a /\ then[2] = b
                 /\ then[3] = a
        <4>1. Meets(e, b)
          BY <2>2, <2>3, <2>6, <3>3 DEF Meets, Alike
        <4>2. a[1] \in Before[b[1]]
          BY <2>3, BeforeFacts DEF Sweeps
        <4>3. 1..2 - 1 = {1}
          OBVIOUS
        <4> QED
          BY <3>1, <3>3, <4>1, <4>2, <4>3 DEF Assured
      <3> QED
        BY <2>5, <3>2, <3>3
    <2>7. Named(then, settled, used)
      BY <2>3, <2>5 DEF Named
    <2>8. Assures(disk, e, <<"load", j>>, then)
      <3>1. <<"load", j>>[1] = "load"
        OBVIOUS
      <3>2. \A n \in DOMAIN Before : "load" \notin Before[n]
        BY Behind DEF Behinds, Moves, Copies, Sweeps
      <3> QED
        BY <3>1, <3>2 DEF Assures
    <2>9. Lasting(e, settled, used) /\ \A c \in {} : Lasting(c, settled, used)
      BY <2>2, AlikeLasts DEF LInv
    <2> HIDE DEF ok
    <2> QED
      BY <2>1, <2>5, <2>6, <2>7, <2>8, <2>9, ActionLasts
  <1> QED
    BY <1>1, <1>2 DEF LoadProject

\* A part of a queue: steps with the given names, behind others.
Among(x, q) == \E i \in DOMAIN q : q[i] = x
Part(d, q, names, N, K) ==
  IsQueue(q) /\ (\A i \in DOMAIN q : q[i][1] \in names) /\ Assured(d, q, N, K)

LEMMA PartGlue ==
  ASSUME NEW d, NEW u, NEW v, NEW U, NEW V, NEW N, NEW K, NEW L,
         Part(d, u, U, N, K), Part(d, v, V, N \cup U, K \cup L), \A k \in L : Among(k, u)
  PROVE  /\ Part(d, u \o v, U \cup V, N, K)
         /\ \A x : Among(x, u) \/ Among(x, v) => Among(x, u \o v)
  <1> DEFINE r == u \o v
  <1>1. /\ IsQueue(u) /\ IsQueue(v) /\ IsQueue(r) /\ Len(r) = Len(u) + Len(v)
        /\ Len(u) \in Nat /\ Len(v) \in Nat
        /\ \A i \in 1..Len(u) + Len(v) : r[i] = IF i <= Len(u) THEN u[i] ELSE v[i - Len(u)]
    BY Glue DEF Part
  <1> HIDE DEF r
  <1>2. DOMAIN r = 1..Len(u) + Len(v) /\ DOMAIN u = 1..Len(u) /\ DOMAIN v = 1..Len(v)
    BY <1>1, QueueFacts
  <1>3. \A i \in DOMAIN r : i \notin DOMAIN u => i - Len(u) \in DOMAIN v /\ r[i] = v[i - Len(u)]
    BY <1>1, <1>2
  <1>4. \A i \in DOMAIN u : r[i] = u[i] /\ i \in DOMAIN r
    BY <1>1, <1>2
  <1>5. \A i \in DOMAIN v : i + Len(u) \in DOMAIN r /\ r[i + Len(u)] = v[i]
    BY <1>1, <1>2
  <1>6. \A i \in DOMAIN r : r[i][1] \in U \cup V
    BY <1>3, <1>4 DEF Part
  <1>7. Assured(d, r, N, K)
    <2>1. SUFFICES ASSUME NEW i \in DOMAIN r, r[i][1] \in DOMAIN Before
                   PROVE  /\ N \subseteq Before[r[i][1]]
                          /\ \A h \in 1..i - 1 : r[h][1] \in Before[r[i][1]]
                          /\ \/ Meets(d, r[i]) \/ Makers(r[i]) \cap K # {}
                             \/ \E h \in 1..i - 1 : r[h] \in Makers(r[i])
      BY DEF Assured
    <2>2. CASE i \in DOMAIN u
      <3>1. \A h \in 1..i - 1 : h \in DOMAIN u
        BY <1>2, <2>2
      <3> QED
        BY <1>4, <2>1, <2>2, <3>1 DEF Part, Assured
    <2>3. CASE i \notin DOMAIN u
      <3> DEFINE k == i - Len(u)
      <3>1. k \in DOMAIN v /\ r[i] = v[k]
        BY <1>3, <2>1, <2>3
      <3>2. /\ N \cup U \subseteq Before[v[k][1]]
            /\ \A h \in 1..k - 1 : v[h][1] \in Before[v[k][1]]
            /\ \/ Meets(d, v[k]) \/ Makers(v[k]) \cap (K \cup L) # {}
               \/ \E h \in 1..k - 1 : v[h] \in Makers(v[k])
        BY <2>1, <3>1 DEF Part, Assured
      <3>3. ASSUME NEW h \in 1..i - 1 PROVE r[h][1] \in Before[v[k][1]]
        <4>1. CASE h \in DOMAIN u
          BY <1>4, <3>2, <4>1 DEF Part
        <4>2. CASE h \notin DOMAIN u
          <5>1. h \in DOMAIN r /\ h - Len(u) \in 1..k - 1
            BY <1>1, <1>2, <2>1, <2>3, <3>3, <4>2
          <5> QED
            BY <1>3, <3>2, <4>2, <5>1
        <4> QED
          BY <4>1, <4>2
      <3>4. \A h \in DOMAIN u : h \in 1..i - 1
        BY <1>1, <1>2, <2>1, <2>3
      <3>5. Makers(v[k]) \cap L # {} => \E h \in 1..i - 1 : r[h] \in Makers(v[k])
        BY <1>4, <3>4 DEF Among
      <3>6. ASSUME NEW h \in 1..k - 1, v[h] \in Makers(v[k])
            PROVE  \E g \in 1..i - 1 : r[g] \in Makers(v[k])
        <4>1. h \in DOMAIN v /\ h + Len(u) \in 1..i - 1
          BY <1>1, <1>2, <2>1, <3>1, <3>6
        <4> QED
          BY <1>5, <3>6, <4>1
      <3> QED
        BY <3>1, <3>2, <3>3, <3>5, <3>6
    <2> QED
      BY <2>2, <2>3
  <1>8. Part(d, r, U \cup V, N, K)
    BY <1>1, <1>6, <1>7 DEF Part
  <1>9. \A x : Among(x, u) \/ Among(x, v) => Among(x, r)
    BY <1>4, <1>5 DEF Among
  <1> QED
    BY <1>8, <1>9 DEF r

\* Parts of no step and of one.
LEMMA SmallParts ==
  ASSUME NEW d, NEW N, NEW K
  PROVE  /\ \A U : Part(d, << >>, U, N, K)
         /\ \A a : Among(a, <<a>>)
         /\ \A a : (a[1] \in DOMAIN Before =>
                     N \subseteq Before[a[1]] /\ (Meets(d, a) \/ Makers(a) \cap K # {})) =>
                   Part(d, <<a>>, {a[1]}, N, K)
  <1>1. \A U : Part(d, << >>, U, N, K)
    BY EmptyQueue DEF Part, Assured
  <1>2. ASSUME NEW a,
               a[1] \in DOMAIN Before =>
                 N \subseteq Before[a[1]] /\ (Meets(d, a) \/ Makers(a) \cap K # {})
        PROVE  Part(d, <<a>>, {a[1]}, N, K)
    <2> DEFINE q == <<a>>
    <2>1. IsQueue(q) /\ DOMAIN q = {1} /\ q[1] = a
      BY Tuples
    <2> HIDE DEF q
    <2>2. 1..1 - 1 = {}
      OBVIOUS
    <2>3. Part(d, q, {a[1]}, N, K)
      BY <1>2, <2>1, <2>2 DEF Part, Assured
    <2> QED
      BY <2>3 DEF q
  <1>3. \A a : Among(a, <<a>>)
    BY Tuples DEF Among
  <1> QED
    BY <1>1, <1>2, <1>3

\* The resumption of a migration finds what it needs.
LEMMA ResumptionParts ==
  ASSUME NEW d, NEW j \in Projects, j \in Active(d) \cap d.aside => HasNewLayout(d, j),
         Backed(d, j) \/ (j \in Active(d) /\ ~HasNewLayout(d, j))
  PROVE  Assured(d, Resumption(d, j), {}, {})
  <1> DEFINE v == <<"validate", j>>
             cb == <<"copyBackup", j>>
             pb == <<"publishBackup", j>>
             ct == <<"copyTree", j>>
             sa == <<"setAside", j>>
             sw == <<"swap", j>>
             ra == <<"removeAside", j>>
             ej == <<"endJournal", j>>
             A == IF Backed(d, j) THEN << >> ELSE <<v, cb, pb>>
             M == IF Migrated(d, j) THEN << >> ELSE <<ct>>
             S == IF j \in Active(d) THEN <<sa>> ELSE << >>
             W == <<sw, v>>
             Z == <<ra, ej>>
             MS == M \o S
             MSW == MS \o W
             T == IF HasNewLayout(d, j) THEN <<v>> ELSE MSW
             AT == A \o T
             NA == {"validate", "copyBackup", "publishBackup"}
             KA == IF Backed(d, j) THEN {} ELSE {pb}
             NT == {"copyTree", "setAside", "swap", "validate"}
             KT == IF HasNewLayout(d, j) THEN {} ELSE {sw}
  <1>1. Resumption(d, j) = AT \o Z
    BY DEF Resumption
  <1>2. /\ v[1] = "validate" /\ cb[1] = "copyBackup" /\ cb[2] = j /\ pb[1] = "publishBackup"
        /\ pb[2] = j /\ ct[1] = "copyTree" /\ ct[2] = j /\ sa[1] = "setAside" /\ sa[2] = j
        /\ sw[1] = "swap" /\ ra[1] = "removeAside" /\ ra[2] = j /\ ej[1] = "endJournal"
        /\ pb = <<"publishBackup", sa[2]>> /\ sw = <<"swap", ra[2]>>
    OBVIOUS
  <1>3. v[1] \notin DOMAIN Before /\ sw[1] \notin DOMAIN Before /\ ej[1] \notin DOMAIN Before
    BY <1>2, BeforeFacts
  <1>4. pb \in Makers(sa) /\ sw \in Makers(ra)
    BY <1>2, MakerFacts
  <1>5. j \in Active(d) => d.tree[j] = "active"
    BY DEF Active
  <1>6. HasNewLayout(d, j) <=> j \in Active(d) /\ j \in d.marked
    BY DEF HasNewLayout
  <1> HIDE DEF v, cb, pb, ct, sa, sw, ra, ej
  <1>7. Part(d, A, NA, {}, {}) /\ (~Backed(d, j) => Among(pb, A))
    <2>1. CASE Backed(d, j)
      <3>1. A = << >>
        BY <2>1
      <3> QED
        BY <2>1, <3>1, SmallParts
    <2>2. CASE ~Backed(d, j)
      <3>0. <<v, cb, pb>>[1] = v /\ <<v, cb, pb>>[2] = cb /\ <<v, cb, pb>>[3] = pb
        OBVIOUS
      <3>1. IsQueue(A) /\ DOMAIN A = {1, 2, 3} /\ A[1] = v /\ A[2] = cb /\ A[3] = pb
        <4>1. IsQueue(<<v, cb, pb>>) /\ DOMAIN <<v, cb, pb>> = {1, 2, 3}
          BY Tuples
        <4> QED
          BY <2>2, <3>0, <4>1
      <3> HIDE DEF A
      <3>2. Meets(d, cb) /\ Meets(d, pb)
        BY <1>2, <1>5, <1>6, <2>2 DEF Meets, Backed
      <3>3. /\ v[1] \in Before[cb[1]] /\ v[1] \in Before[pb[1]] /\ cb[1] \in Before[pb[1]]
        BY <1>2, BeforeFacts DEF Sweeps
      <3>4. 1..2 - 1 = {1} /\ 1..3 - 1 = {1, 2}
        OBVIOUS
      <3>5. Assured(d, A, {}, {})
        BY <1>3, <3>1, <3>2, <3>3, <3>4 DEF Assured
      <3> QED
        BY <1>2, <3>1, <3>5 DEF Part, Among
    <2> QED
      BY <2>1, <2>2
  <1>8. ~HasNewLayout(d, j) => Part(d, M, {"copyTree"}, NA, KA)
    <2>1. SUFFICES ASSUME ~HasNewLayout(d, j) PROVE Part(d, M, {"copyTree"}, NA, KA)
      OBVIOUS
    <2>2. Meets(d, ct)
      BY <1>2, <2>1 DEF Meets
    <2>3. NA \subseteq Before[ct[1]]
      BY <1>2, BeforeFacts DEF Sweeps
    <2>4. Part(d, <<ct>>, {ct[1]}, NA, KA) /\ Part(d, << >>, {"copyTree"}, NA, KA)
      BY <2>2, <2>3, SmallParts
    <2> QED
      BY <1>2, <2>4
  <1>9. ~HasNewLayout(d, j) => Part(d, S, {"setAside"}, NA \cup {"copyTree"}, KA)
    <2>1. SUFFICES ASSUME ~HasNewLayout(d, j)
                   PROVE  Part(d, S, {"setAside"}, NA \cup {"copyTree"}, KA)
      OBVIOUS
    <2>2. ASSUME j \in Active(d) PROVE Meets(d, sa) \/ Makers(sa) \cap KA # {}
      <3>1. CASE Backed(d, j)
        BY <1>2, <1>5, <1>6, <2>1, <2>2, <3>1 DEF Meets, Backed
      <3>2. CASE ~Backed(d, j)
        BY <1>4, <3>2
      <3> QED
        BY <3>1, <3>2
    <2>3. NA \cup {"copyTree"} \subseteq Before[sa[1]]
      BY <1>2, BeforeFacts DEF Copies, Sweeps
    <2> DEFINE N == NA \cup {"copyTree"}
    <2> HIDE DEF N, KA
    <2>4. N \subseteq Before[sa[1]]
      BY <2>3 DEF N
    <2>5. Part(d, << >>, {"setAside"}, N, KA)
      BY SmallParts
    <2>6. j \in Active(d) => Part(d, <<sa>>, {sa[1]}, N, KA)
      BY <2>2, <2>4, SmallParts
    <2>7. Part(d, S, {"setAside"}, N, KA)
      BY <1>2, <2>5, <2>6
    <2> QED
      BY <2>7 DEF N
  <1>10. \A N, K : Part(d, W, {"swap", "validate"}, N, K) /\ Among(sw, W)
    <2>1. IsQueue(W) /\ DOMAIN W = {1, 2} /\ W[1] = sw /\ W[2] = v
      BY Tuples
    <2> HIDE DEF W
    <2> QED
      BY <1>2, <1>3, <2>1 DEF Part, Assured, Among
  <1>11. Part(d, Z, {"removeAside", "endJournal"}, NA \cup NT, KT)
    <2>1. IsQueue(Z) /\ DOMAIN Z = {1, 2} /\ Z[1] = ra /\ Z[2] = ej
      BY Tuples
    <2>2. Meets(d, ra) \/ Makers(ra) \cap KT # {}
      <3>1. CASE HasNewLayout(d, j)
        BY <1>2, <1>5, <1>6, <3>1 DEF Meets
      <3>2. CASE ~HasNewLayout(d, j)
        BY <1>4, <3>2
      <3> QED
        BY <3>1, <3>2
    <2>3. NA \cup NT \subseteq Before[ra[1]]
      BY <1>2, BeforeFacts DEF Copies, Sweeps
    <2>4. 1..1 - 1 = {}
      OBVIOUS
    <2> HIDE DEF Z, KT, NA, NT
    <2> QED
      BY <1>2, <1>3, <2>1, <2>2, <2>3, <2>4 DEF Part, Assured
  <1> HIDE DEF A, M, S, W, Z
  <1>12. Part(d, T, NT, NA, KA) /\ \A k \in KT : Among(k, T)
    <2>1. CASE HasNewLayout(d, j)
      <3>1. Part(d, <<v>>, {v[1]}, NA, KA)
        BY <1>3, SmallParts
      <3>2. Part(d, <<v>>, NT, NA, KA)
        BY <1>2, <3>1 DEF Part
      <3> QED
        BY <2>1, <3>2
    <2>2. CASE ~HasNewLayout(d, j)
      <3> DEFINE U == {"copyTree"}
                 V == {"setAside"}
                 X == {"swap", "validate"}
                 L == {}
      <3>1. Part(d, M, U, NA, KA) /\ Part(d, S, V, NA \cup U, KA \cup L)
        BY <1>8, <1>9, <2>2
      <3>2. Part(d, W, X, NA \cup (U \cup V), KA \cup L) /\ Among(sw, W)
        BY <1>10
      <3>7. (\A k \in L : Among(k, M)) /\ \A k \in L : Among(k, MS)
        OBVIOUS
      <3> HIDE DEF U, V, X, NA, KA, L
      <3>3. Part(d, MS, U \cup V, NA, KA)
        BY <3>1, <3>7, PartGlue
      <3> HIDE DEF MS
      <3>4. Part(d, MSW, (U \cup V) \cup X, NA, KA) /\ Among(sw, MSW)
        BY <3>2, <3>3, <3>7, PartGlue
      <3> HIDE DEF MSW
      <3>5. T = MSW
        BY <2>2
      <3>6. (U \cup V) \cup X = NT
        BY DEF U, V, X
      <3> QED
        BY <2>2, <3>4, <3>5, <3>6
    <2> QED
      BY <2>1, <2>2
  <1>13. \A k \in KA : Among(k, A)
    BY <1>7
  <1> HIDE DEF T, NA, NT, KA, KT
  <1>14. Part(d, AT, NA \cup NT, {}, {}) /\ \A k \in KT : Among(k, AT)
    <2>1. Part(d, T, NT, {} \cup NA, {} \cup KA)
      BY <1>12
    <2> QED
      BY <1>7, <1>12, <1>13, <2>1, PartGlue
  <1> HIDE DEF AT
  <1>15. Part(d, Z, {"removeAside", "endJournal"}, {} \cup (NA \cup NT), {} \cup KT)
    BY <1>11
  <1>16. Part(d, AT \o Z, (NA \cup NT) \cup {"removeAside", "endJournal"}, {}, {})
    BY <1>14, <1>15, PartGlue
  <1> QED
    BY <1>1, <1>16 DEF Part

LEMMA ResumeMigrationLasts ==
  ASSUME IInv, LInv, NEW j \in Projects, ResumeMigration(j)
  PROVE  LInv'
  <1> DEFINE marked == HasNewLayout(disk, j)
             then == Resumption(disk, j)
             ok == /\ j \in Active(disk) \cup disk.aside
                   /\ j \in Active(disk) \cap disk.aside => marked
                   /\ Backed(disk, j) \/ (j \in Active(disk) /\ ~marked)
                   /\ marked => disk.migrating[j] = "absent"
  <1>1. Step("resume", j, ok, disk, {}, then)
    BY DEF ResumeMigration, Check
  <1>2. ASSUME ok, At("resume", j)
        PROVE  IsQueue(then) /\ Assured(disk, then, {}, {}) /\ Named(then, settled, used)
    <2>1. disk.journal = {j}
      BY <1>2, AtHead DEF Relies
    <2>2. Chain(disk, then, Copies \cup {"setAside", "swap", "removeAside", "endJournal"})
      BY <1>2, <2>1, ResumptionFacts
    <2>3. Assured(disk, then, {}, {})
      BY <1>2, ResumptionParts
    <2> HIDE DEF then
    <2> QED
      BY <2>2, <2>3 DEF Chain, Named, Copies, Sweeps
  <1>3. Assures(disk, disk, <<"resume", j>>, then)
    <2>1. <<"resume", j>>[1] = "resume"
      OBVIOUS
    <2>2. \A n \in DOMAIN Before : "resume" \notin Before[n]
      BY Behind DEF Behinds, Moves, Copies, Sweeps
    <2> HIDE DEF then
    <2> QED
      BY <2>1, <2>2 DEF Assures
  <1>4. Lasting(disk, settled, used) /\ \A c \in {} : Lasting(c, settled, used)
    BY DEF LInv
  <1> HIDE DEF ok, then
  <1> QED
    BY <1>1, <1>2, <1>3, <1>4, ActionLasts

-----------------------------------------------------------------------------
(* Starts, deaths, the removal of objects, and the requests. *)

LEMMA ServeLasts ==
  ASSUME IInv, LInv, Serve
  PROVE  LInv'
  <1>1. /\ todo = << <<"serve", "all">> >> /\ doomed = {} /\ phase' = "serving" /\ todo' = << >>
        /\ disk' = disk /\ loaded' = Active(disk) /\ settled' = settled /\ used' = used
    BY DEF Serve
  <1>2. todo # << >> /\ todo[1][1] = "serve"
    BY <1>1, Tuples
  <1>3. IsQueue(todo) /\ 1 \in DOMAIN todo /\ SoundDisk(disk)
    BY <1>2, QueueFacts DEF IInv, Control
  <1>4. phase = "opening"
    BY <1>2, <1>3 DEF IInv, Control, Phased, Opens
  <1>5. disk.journal = {}
    BY <1>2, <1>3, <1>4, NoMigration DEF IInv, Control, Moves, Copies, Sweeps
  <1>6. Exists(disk) = Active(disk)
    BY <1>3, <1>5 DEF SoundDisk, OneMigration, Exists
  <1>7. Active(disk) \subseteq used
    BY DEF LInv, Lasting, Answered, Active
  <1>8. \A j \in Projects : settled[j] = "created" => j \in Active(disk)
    BY <1>6 DEF LInv, Lasting, Answered
  <1>9. Assured(disk, << >>, {}, {}) /\ Named(<< >>, settled, used)
    BY RescueAsked
  <1> QED
    BY <1>1, <1>7, <1>8, <1>9 DEF LInv

LEMMA StartLasts ==
  ASSUME IInv, LInv, Start
  PROVE  LInv'
  <1>1. /\ phase' = "opening" /\ todo' = Opening
        /\ disk' = disk /\ loaded' = loaded /\ settled' = settled /\ used' = used
    BY DEF Start
  <1> DEFINE q == Opening
  <1>2. /\ DOMAIN q = 1..7
        /\ q[1] = <<"preflight", "all">> /\ q[2] = <<"migrations", "all">>
        /\ q[3] = <<"orphans", "all">> /\ q[4] = <<"deletions", "all">>
        /\ q[5] = <<"hidden", "all">> /\ q[6] = <<"projects", "all">> /\ q[7] = <<"serve", "all">>
    BY OpeningFacts
  <1> HIDE DEF q
  <1>3. /\ q[1][1] = "preflight" /\ q[2][1] = "migrations" /\ q[3][1] = "orphans"
        /\ q[4][1] = "deletions" /\ q[5][1] = "hidden" /\ q[6][1] = "projects"
        /\ q[7][1] = "serve" /\ DOMAIN q = {1, 2, 3, 4, 5, 6, 7}
    BY <1>2
  <1>4. \A i \in DOMAIN q : q[i][1] \notin DOMAIN Before
    BY <1>3, BeforeFacts
  <1>5. Assured(disk, q, {}, {}) /\ Named(q, settled, used)
    BY <1>4, NothingAsked
  <1>6. Assured(disk', todo', {}, {}) /\ Named(todo', settled', used')
    BY <1>1, <1>5 DEF q
  <1> QED
    BY <1>1, <1>6 DEF LInv

LEMMA CrashLasts ==
  ASSUME IInv, LInv, Crash
  PROVE  LInv'
  <1>1. /\ disk' = disk /\ phase' = "down" /\ todo' = << >> /\ loaded' = {}
        /\ settled' = settled /\ used' = used
    BY DEF Crash, Die
  <1>2. Assured(disk, << >>, {}, {}) /\ Named(<< >>, settled, used)
    BY RescueAsked
  <1> QED
    BY <1>1, <1>2 DEF LInv

LEMMA DropLasts ==
  ASSUME IInv, LInv, NEW o \in Objects, Drop(o)
  PROVE  LInv'
  <1> DEFINE e == [disk EXCEPT !.objects = @ \ {o}]
  <1>1. disk' \in {disk, e} /\ Recalled /\ todo' \in {todo, << >>}
    BY DEF Drop, Fail, Recalled
  <1>2. Alike(disk, disk) /\ Alike(disk, e)
    BY SameAlike, DataAlike DEF IInv, SoundDisk
  <1> HIDE DEF e
  <1>3. Alike(disk, disk')
    BY <1>1, <1>2
  <1>4. Lasting(disk', settled, used) /\ \A x : Meets(disk, x) => Meets(disk', x)
    BY <1>3, AlikeLasts DEF LInv
  <1>5. Assured(disk', todo, {}, {}) /\ Named(todo, settled, used)
    BY <1>4 DEF LInv, Assured
  <1>6. Assured(disk', << >>, {}, {}) /\ Named(<< >>, settled, used)
    BY RescueAsked
  <1> QED
    BY <1>1, <1>4, <1>5, <1>6 DEF LInv, Recalled

LEMMA CreateProjectLasts ==
  ASSUME IInv, LInv, NEW j \in Projects, CreateProject(j)
  PROVE  LInv'
  <1> DEFINE a == <<"stage", j>>
             b == <<"fill", j>>
             c == <<"publish", j>>
             f == <<"created", j>>
             q == <<a, b, c, f>>
  <1>1. /\ j \notin used /\ used' = used \cup {j} /\ todo' = q /\ disk' = disk /\ phase' = phase
        /\ loaded' = loaded /\ settled' = settled
    BY DEF CreateProject, Begin, Creation
  <1>2. /\ a[1] = "stage" /\ b[1] = "fill" /\ c[1] = "publish" /\ f[1] = "created"
        /\ a[2] = j /\ b[2] = j /\ c[2] = j /\ f[2] = j /\ c = <<"publish", f[2]>>
        /\ q[1] = a /\ q[2] = b /\ q[3] = c /\ q[4] = f
    OBVIOUS
  <1> HIDE DEF a, b, c, f
  <1>3. DOMAIN q = {1, 2, 3, 4}
    BY Tuples
  <1> HIDE DEF q
  <1>4. settled[j] = "none" /\ j \notin Legacy
    BY <1>1 DEF LInv, Lasting, Answered
  <1>5. Named(q, settled, used')
    BY <1>1, <1>2, <1>3, <1>4 DEF Named
  <1>6. Assured(disk, q, {}, {})
    <2>1. Meets(disk, a) /\ Meets(disk, b) /\ Meets(disk, c) /\ c \in Makers(f)
      BY <1>2, MakerFacts DEF Meets
    <2>2. /\ a[1] \in Before[b[1]] /\ a[1] \in Before[c[1]] /\ b[1] \in Before[c[1]]
          /\ a[1] \in Before[f[1]] /\ b[1] \in Before[f[1]] /\ c[1] \in Before[f[1]]
      BY <1>2, BeforeFacts
    <2>3. 1..1 - 1 = {} /\ 1..2 - 1 = {1} /\ 1..3 - 1 = {1, 2} /\ 1..4 - 1 = {1, 2, 3}
      OBVIOUS
    <2> QED
      BY <1>2, <1>3, <2>1, <2>2, <2>3 DEF Assured
  <1>7. Lasting(disk, settled, used')
    BY <1>1 DEF LInv, Lasting, Answered
  <1> QED
    BY <1>1, <1>5, <1>6, <1>7 DEF LInv

LEMMA DeleteProjectLasts ==
  ASSUME IInv, LInv, NEW j \in Projects, DeleteProject(j)
  PROVE  LInv'
  <1> DEFINE a == <<"validate", j>>
             b == <<"hide", j>>
             c == <<"finish", j>>
             f == <<"deleted", j>>
             q == <<a, b, c, f>>
  <1>1. /\ j \in loaded /\ used' = used /\ todo' = q /\ disk' = disk /\ phase' = phase
        /\ loaded' = loaded /\ settled' = [settled EXCEPT ![j] = "none"]
    BY DEF DeleteProject, Begin, ProjectDeletion
  <1>2. /\ a[1] = "validate" /\ b[1] = "hide" /\ c[1] = "finish" /\ f[1] = "deleted"
        /\ b[2] = j /\ f[2] = j /\ c = <<"finish", f[2]>> /\ a = <<"validate", b[2]>>
        /\ q[1] = a /\ q[2] = b /\ q[3] = c /\ q[4] = f
    OBVIOUS
  <1> HIDE DEF a, b, c, f
  <1>3. DOMAIN q = {1, 2, 3, 4}
    BY Tuples
  <1> HIDE DEF q
  <1>4. /\ settled' \in [Projects -> {"none", "created", "deleted"}]
        /\ \A k \in Projects : settled'[k] = IF k = j THEN "none" ELSE settled[k]
    BY <1>1 DEF LInv
  <1>5. j \in used
    BY <1>1 DEF LInv
  <1>6. Named(q, settled', used)
    BY <1>2, <1>3, <1>4, <1>5 DEF Named
  <1>7. Assured(disk, q, {}, {})
    <2>1. a \in Makers(b) /\ c \in Makers(f)
      BY <1>2, MakerFacts
    <2>2. /\ a[1] \in Before[b[1]] /\ a[1] \in Before[f[1]] /\ b[1] \in Before[f[1]]
          /\ c[1] \in Before[f[1]] /\ a[1] \notin DOMAIN Before /\ c[1] \notin DOMAIN Before
      BY <1>2, BeforeFacts DEF Sweeps
    <2>3. 1..2 - 1 = {1} /\ 1..4 - 1 = {1, 2, 3}
      OBVIOUS
    <2> QED
      BY <1>2, <1>3, <2>1, <2>2, <2>3 DEF Assured
  <1>8. Lasting(disk, settled', used)
    BY <1>4, <1>5 DEF LInv, Lasting, Answered
  <1>9. phase = "serving" => \A k \in Projects : settled'[k] = "created" => k \in loaded
    BY <1>4 DEF LInv
  <1> QED
    BY <1>1, <1>4, <1>6, <1>7, <1>8, <1>9 DEF LInv

LEMMA ProposalRequestsLast ==
  ASSUME IInv, LInv, NEW p \in Proposals
  PROVE  CreateProposal(p) \/ DeleteProposal(p) \/ AdoptProposal(p) => LInv'
  <1>1. ASSUME NEW q, IsQueue(q), todo' = q, disk' = disk, phase' = phase, loaded' = loaded,
               settled' = settled, used' \in {used, used \cup {p}},
               \A i \in DOMAIN q : q[i][1] \notin DOMAIN Before
        PROVE  LInv'
    <2>1. Assured(disk, q, {}, {}) /\ Named(q, settled, used')
      BY <1>1, NothingAsked
    <2>2. Lasting(disk, settled, used')
      BY <1>1 DEF LInv, Lasting, Answered
    <2> QED
      BY <1>1, <2>1, <2>2 DEF LInv
  <1>2. ASSUME CreateProposal(p) PROVE LInv'
    <2> DEFINE a == <<"sweep", ProjectOf[p]>>
               b == <<"stageWorkspace", p>>
               c == <<"fillWorkspace", p>>
               f == <<"publishWorkspace", p>>
               q == <<a, b, c, f>>
    <2>1. /\ todo' = q /\ disk' = disk /\ phase' = phase /\ loaded' = loaded
          /\ settled' = settled /\ used' = used \cup {p}
      BY <1>2 DEF CreateProposal, Begin, Preparation
    <2>2. /\ a[1] = "sweep" /\ b[1] = "stageWorkspace" /\ c[1] = "fillWorkspace"
          /\ f[1] = "publishWorkspace" /\ q[1] = a /\ q[2] = b /\ q[3] = c /\ q[4] = f
      OBVIOUS
    <2> HIDE DEF a, b, c, f
    <2>3. IsQueue(q) /\ DOMAIN q = {1, 2, 3, 4}
      BY Tuples
    <2> HIDE DEF q
    <2>4. \A i \in DOMAIN q : q[i][1] \notin DOMAIN Before
      BY <2>2, <2>3, BeforeFacts
    <2> QED
      BY <1>1, <2>1, <2>3, <2>4
  <1>3. ASSUME DeleteProposal(p) PROVE LInv'
    <2> DEFINE a == <<"sweep", ProjectOf[p]>>
               b == <<"hideWorkspace", p>>
               c == <<"collect", p>>
               f == <<"removeWorkspace", p>>
               q == <<a, b>> \o <<c, f>>
    <2>1. /\ todo' = q /\ disk' = disk /\ phase' = phase /\ loaded' = loaded
          /\ settled' = settled /\ used' = used
      BY <1>3 DEF DeleteProposal, Begin, WorkspaceDeletion, Cleanup
    <2>2. /\ a[1] = "sweep" /\ b[1] = "hideWorkspace" /\ c[1] = "collect"
          /\ f[1] = "removeWorkspace"
          /\ <<a, b>>[1] = a /\ <<a, b>>[2] = b /\ <<c, f>>[1] = c /\ <<c, f>>[2] = f
      OBVIOUS
    <2> HIDE DEF a, b, c, f
    <2>3. IsQueue(<<a, b>>) /\ IsQueue(<<c, f>>) /\ Len(<<a, b>>) = 2 /\ Len(<<c, f>>) = 2
      BY Tuples
    <2>4. IsQueue(q) /\ Len(q) = 4
          /\ \A i \in 1..4 : q[i] = IF i <= 2 THEN <<a, b>>[i] ELSE <<c, f>>[i - 2]
      BY <2>3, Glue
    <2> HIDE DEF q
    <2>5. q[1] = a /\ q[2] = b /\ q[3] = c /\ q[4] = f /\ DOMAIN q = 1..4
      BY <2>2, <2>4, QueueFacts
    <2>6. \A i \in DOMAIN q : i \in {1, 2, 3, 4}
      BY <2>5
    <2>7. \A i \in DOMAIN q : q[i][1] \notin DOMAIN Before
      BY <2>2, <2>5, <2>6, BeforeFacts
    <2> QED
      BY <1>1, <2>1, <2>4, <2>7
  <1>4. ASSUME AdoptProposal(p) PROVE LInv'
    <2> DEFINE a == <<"fillRevision", p>>
               b == <<"manifest", p>>
               q == <<a, b>>
    <2>1. /\ todo' = q /\ disk' = disk /\ phase' = phase /\ loaded' = loaded
          /\ settled' = settled /\ used' = used
      BY <1>4 DEF AdoptProposal, Begin, Commit
    <2>2. a[1] = "fillRevision" /\ b[1] = "manifest" /\ q[1] = a /\ q[2] = b
      OBVIOUS
    <2> HIDE DEF a, b
    <2>3. IsQueue(q) /\ DOMAIN q = {1, 2}
      BY Tuples
    <2> HIDE DEF q
    <2>4. \A i \in DOMAIN q : q[i][1] \notin DOMAIN Before
      BY <2>2, <2>3, BeforeFacts
    <2> QED
      BY <1>1, <2>1, <2>3, <2>4
  <1> QED
    BY <1>2, <1>3, <1>4

-----------------------------------------------------------------------------
(* Every step, and the theorems. *)

LEMMA LastingAtInit == Init => LInv
  <1> SUFFICES ASSUME Init PROVE LInv
    OBVIOUS
  <1>1. /\ disk.tree = [j \in Projects |-> IF j \in Legacy THEN "active" ELSE "absent"]
        /\ disk.aside = {} /\ disk.journal = {} /\ disk.marked = {}
        /\ todo = << >> /\ phase = "down" /\ loaded = {} /\ used = Legacy
        /\ settled = [j \in Projects |-> IF j \in Legacy THEN "created" ELSE "none"]
    BY DEF Init
  <1>2. \A j \in Projects : /\ disk.tree[j] = IF j \in Legacy THEN "active" ELSE "absent"
                            /\ settled[j] = IF j \in Legacy THEN "created" ELSE "none"
    BY <1>1
  <1>3. Legible(disk)
    BY <1>1 DEF Legible
  <1>4. Answered(disk, settled, used)
    BY <1>1, <1>2 DEF Answered, Exists, Active
  <1>5. Assured(disk, todo, {}, {}) /\ Named(todo, settled, used)
    BY <1>1, RescueAsked
  <1>6. settled \in [Projects -> {"none", "created", "deleted"}]
    BY <1>1
  <1> QED
    BY <1>1, <1>3, <1>4, <1>5, <1>6 DEF LInv, Lasting

LEMMA ProjectStepsLast ==
  ASSUME IInv, LInv, NEW j \in Projects, ProjectSteps(j)
  PROVE  LInv'
  <1>1. CASE CollectProject(j)
    <2> DEFINE ok == j \notin disk.temporary /\ \A p \in Of(j) : disk.workspace[p] # "torn"
               candidates == Manifests(disk, j) \cup Workspaces(disk, j, {"kept", "deleting"})
    <2>1. Collect("collectProject", j, ok, candidates)
      BY <1>1 DEF CollectProject
    <2> HIDE DEF ok, candidates
    <2> QED
      BY <2>1, CollectLasts
  <1>2. CASE StageProject(j) \/ FillProject(j) \/ PublishProject(j) \/ UnstageProject(j)
             \/ ProjectCreated(j) \/ LoadProject(j)
    BY <1>2, StageProjectLasts, DataStepsLast, PublishProjectLasts, UnstageProjectLasts,
       ProjectCreatedLasts, LoadProjectLasts
  <1>3. CASE SweepProposals(j) \/ ValidateProject(j) \/ HideProject(j) \/ FinishDeletion(j)
             \/ HideBackup(j) \/ RemoveBackup(j) \/ RemoveTree(j) \/ ProjectDeleted(j)
    BY <1>3, SweepProposalsLasts, ValidateProjectLasts, HideProjectLasts, FinishDeletionLasts,
       HideBackupLasts, RemoveBackupLasts, RemoveTreeLasts, ProjectDeletedLasts
  <1>4. CASE StartMigration(j) \/ ResumeMigration(j) \/ CopyBackup(j) \/ PublishBackup(j)
             \/ CopyTree(j) \/ SetAside(j) \/ SwapIn(j) \/ RemoveAside(j) \/ EndJournal(j)
    BY <1>4, StartMigrationLasts, ResumeMigrationLasts, CopyBackupLasts, PublishBackupLasts,
       CopyTreeLasts, SetAsideLasts, SwapInLasts, RemoveAsideLasts
  <1> QED
    BY <1>1, <1>2, <1>3, <1>4 DEF ProjectSteps

LEMMA ProposalStepsLast ==
  ASSUME IInv, LInv, NEW p \in Proposals, ProposalSteps(p)
  PROVE  LInv'
  <1>1. CASE CollectWorkspace(p)
    <2> DEFINE ok == disk.workspace[p] # "torn"
    <2>1. PICK files : Collect("collect", p, ok, files)
      BY <1>1 DEF CollectWorkspace
    <2> HIDE DEF ok
    <2> QED
      BY <2>1, CollectLasts
  <1>2. CASE StageWorkspace(p) \/ PublishWorkspace(p) \/ HideWorkspace(p) \/ RemoveWorkspace(p)
    BY <1>2, WorkspaceStepsLast
  <1>3. CASE FillWorkspace(p) \/ FillRevision(p) \/ WriteManifest(p)
    BY <1>3, DataStepsLast
  <1> QED
    BY <1>1, <1>2, <1>3 DEF ProposalSteps

LEMMA LastingInvariance == IInv /\ LInv /\ [Next]_vars => LInv'
  <1> SUFFICES ASSUME IInv, LInv, [Next]_vars PROVE LInv'
    OBVIOUS
  <1>1. CASE Requests
    BY <1>1, CreateProjectLasts, DeleteProjectLasts, ProposalRequestsLast DEF Requests
  <1>2. CASE Start
    BY <1>2, StartLasts
  <1>3. CASE StartSteps
    BY <1>3, StartStepsLast, CleanOrphansLasts, ServeLasts DEF StartSteps
  <1>4. CASE Crash
    BY <1>4, CrashLasts
  <1>5. CASE \E j \in Projects : ProjectSteps(j)
    BY <1>5, ProjectStepsLast
  <1>6. CASE \E p \in Proposals : ProposalSteps(p)
    BY <1>6, ProposalStepsLast
  <1>7. CASE \E o \in Objects : Drop(o)
    BY <1>7, DropLasts
  <1>8. CASE UNCHANGED vars
    BY <1>8 DEF vars, LInv
  <1> QED
    BY <1>1, <1>2, <1>3, <1>4, <1>5, <1>6, <1>7, <1>8 DEF Next

LEMMA RootLasts == Spec => [](IInv /\ LInv)
  <1>1. Init => IInv /\ LInv
    BY InitInvariant, LastingAtInit
  <1>2. (IInv /\ LInv) /\ [Next]_vars => (IInv /\ LInv)'
    BY Invariance, LastingInvariance
  <1> QED
    BY <1>1, <1>2, PTL DEF Spec

\* At every step of every migration, and after an error or a death at any of them,
\* the old tree or the validated new one is under the name of the project or can
\* take it back, and the recovery backup is published before the old tree goes and
\* stays until the project is deleted: the order of resume_migration.
THEOREM MigrationsStayReadable == Spec => []MigrationReadable
  <1>1. ASSUME IInv, LInv PROVE MigrationReadable
    <2>1. Legible(disk) /\ OneMigration(disk)
      BY <1>1 DEF IInv, SoundDisk, LInv, Lasting
    <2> QED
      BY <2>1 DEF Legible, OneMigration, MigrationReadable
  <1> QED
    BY <1>1, RootLasts, PTL

\* What create_project and delete_project have answered with success stays so,
\* whatever fails or dies later: the project exists, the Store that serves has it
\* and the read-only recovery finds it where none does; the deleted one has left no
\* tree, no backup and no workspace.
THEOREM AnswersOutliveCrashes == Spec => []AnswersAreDurable
  <1>1. ASSUME IInv, LInv PROVE AnswersAreDurable
    <2>1. /\ Legible(disk) /\ Answered(disk, settled, used) /\ Retained(disk)
          /\ phase = "serving" => \A j \in Projects : settled[j] = "created" => j \in loaded
      BY <1>1 DEF IInv, SoundDisk, LInv, Lasting
    <2>2. ASSUME NEW j \in Projects, settled[j] = "created"
          PROVE  /\ j \in Exists(disk)
                 /\ j \in Points(disk) \/ Cardinality(Active(disk)) > MaxProjects
      <3>1. j \in Exists(disk)
        BY <2>1, <2>2 DEF Answered
      <3>2. AcceptedPoint(disk, j) \/ BackupPoint(disk, j)
        BY <2>1, <3>1 DEF Exists, Retained, Needs, Readable, AcceptedPoint, BackupPoint, Backed,
                          Legible
      <3> QED
        BY <3>1, <3>2 DEF Points
    <2>3. ASSUME NEW j \in Projects, settled[j] = "deleted"
          PROVE  Cleared(disk, j) /\ j \notin Exists(disk)
      BY <2>1, <2>3 DEF Answered, Cleared, Exists, Active
    <2> QED
      BY <2>1, <2>2, <2>3 DEF AnswersAreDurable, Cleared
  <1> QED
    BY <1>1, RootLasts, PTL
=============================================================================
