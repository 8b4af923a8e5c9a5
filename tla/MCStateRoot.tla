----------------------------- MODULE MCStateRoot -----------------------------
(* StateRoot on three projects, of which one is in the old layout, that share *)
(* objects with each other and with their Proposals.                          *)
EXTENDS StateRoot, TLC

CONSTANTS j1, j2, j3, p1, p2, o1, o2, o3

TwoProposals == p1 :> j1 @@ p2 :> j2
SharedBase == j1 :> {o1} @@ j2 :> {o2} @@ j3 :> {o2, o3}
SharedSite == p1 :> {o1, o2} @@ p2 :> {o2, o3}
Order == j1 :> 1 @@ j2 :> 2 @@ j3 :> 3
OneLegacy == {j1}

AllSites ==
  {"stage", "fill", "publish", "unstage", "stageWorkspace", "fillWorkspace",
   "publishWorkspace", "hideWorkspace", "removeWorkspace", "fillRevision",
   "manifest", "hide", "hideBackup", "removeBackup", "removeTree", "orphans",
   "load", "migrate", "copyBackup", "publishBackup", "copyTree", "setAside",
   "swap", "removeAside", "endJournal", "drop"}
=============================================================================
