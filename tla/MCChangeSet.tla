----------------------------- MODULE MCChangeSet -----------------------------
(* ChangeSets of up to two operations on a site of five paths: the index, a   *)
(* page in a directory and where it may move, a file without an active type   *)
(* and its name in another case.                                              *)
EXTENDS ChangeSetApplication

index == <<"index.html">>
post  == <<"blog", "post.html">>
top   == <<"post.html">>
data  == <<"data.txt">>
DATA  == <<"DATA.txt">>

Pages == {index, post, top}
FivePaths == Pages \cup {data, DATA}
FoldCase == [p \in FivePaths |-> IF p = DATA THEN data ELSE p]
Extensions == [p \in FivePaths |-> IF p \in Pages THEN "html" ELSE "txt"]
\* Only markup is scanned for references: no scan looks into the plain files.
HoldsSome == [p \in FivePaths |->
  CASE p = index -> {"plain", "page", "murky", "lively", "queried"}
    [] p = post -> {"plain", "murky", "queried", "broken", "lively"}
    [] p = top -> {"plain", "foreign", "ringing", "mailed", "written"}
    [] p = data -> {"plain", "other"}
    [] p = DATA -> {"plain"}]

To(scheme, rooted, segments, suffix, text) ==
  [scheme |-> scheme, rooted |-> rooted, segments |-> segments, suffix |-> suffix, text |-> text]
Outward(scheme, text) == To(scheme, FALSE, << >>, "", text)
toPost  == To("none", TRUE, <<"blog", ".", "post.html">>, "", "")
toData  == To("none", TRUE, <<"data.txt">>, "query", "")
toIndex == To("none", FALSE, <<"..">>, "", "")
toRoot  == To("none", TRUE, << >>, "", "")
query   == To("none", FALSE, << >>, "query", "")
belled  == To("none", TRUE, <<"index.html">>, "query", "control")
foreign == To("unknown", FALSE, <<"foo:x", "..", "index.html">>, "", "")
far     == Outward("http", "")

SomeContents ==
  {"plain", "other", "page", "murky", "lively", "queried", "broken", "foreign",
   "ringing", "mailed", "written"}
Table(of) == [c \in SomeContents |-> IF c \in DOMAIN of THEN of[c] ELSE {}]
RefsOf == Table(
  [page |-> {toPost, toData, far},
   queried |-> {query, toRoot, Outward("blob", "")},
   broken |-> {Outward("malformed http", ""), toIndex},
   foreign |-> {foreign},
   ringing |-> {belled},
   mailed |-> {Outward("data", "backslash")},
   written |-> {To("none", TRUE, <<"index.html">>, "", "backslash")}])
ScriptsOf == Table([page |-> {toData}])
InlineOf == Table([lively |-> {"greet"}])
HiddenOf == Table([murky |-> {toPost, far}])
RuntimeOf == Table([lively |-> {toData, far}, other |-> {far}])
MurkyOnes == {"murky"}
DynamicOnes == {"page", "lively"}
UnreadOnes == {"other"}

Op(op, path, from, content, expected) ==
  [op |-> op, path |-> path, from |-> from, content |-> content, expected |-> expected]
OperationSet ==
  (UNION {{Op("create", p, p, c, "none") : c \in HoldsSome[p]} : p \in FivePaths})
  \cup (UNION {{Op("replace", p, p, c, "current") : c \in HoldsSome[p]} : p \in FivePaths})
  \cup {Op("replace", index, index, "plain", "stale")}
  \cup {Op("rename", p, q, None, "current") : p, q \in Pages}
  \cup {Op("rename", data, q, None, "current") : q \in {DATA, top}}
  \cup {Op("delete", p, p, None, "current") : p \in FivePaths}

Lists ==
  {<< >>} \cup {<<o>> : o \in OperationSet} \cup {<<o, q>> : o, q \in OperationSet}
  \cup {<<o, o, o>> : o \in {Op("delete", data, data, None, "current")}}
=============================================================================
