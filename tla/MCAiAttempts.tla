---------------------------- MODULE MCAiAttempts ----------------------------
(* Two attempts of one project, with a memory of one outcome. *)
EXTENDS AiAttempts

CONSTANTS j1, a1, a2, r1, r2, b1

OneProject == [a \in {a1, a2} |-> j1]
=============================================================================
