--------------------------- MODULE MCImportReview ---------------------------
(* ImportReview with two sessions, two previews and two requests under way; *)
(* their identifiers, and the requests, can be exchanged.                   *)
EXTENDS ImportReview, TLC

Symmetry == Permutations(Sessions) \cup Permutations(Previews) \cup Permutations(Requests)
=============================================================================
