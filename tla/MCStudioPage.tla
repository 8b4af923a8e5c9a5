---------------------------- MODULE MCStudioPage ----------------------------
(***************************************************************************)
(* One attempt and the Proposal it becomes; three requests of the page may *)
(* be under way at a time.                                                 *)
(***************************************************************************)
EXTENDS StudioPage

CONSTANT p1
OneAttempt == {p1}
ThreeTasks == 1 .. 3
=============================================================================
