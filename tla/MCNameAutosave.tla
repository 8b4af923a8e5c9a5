--------------------------- MODULE MCNameAutosave ---------------------------
(***************************************************************************)
(* Three names are enough for a save out, a save chained behind it and a   *)
(* name the page does not know of.                                         *)
(***************************************************************************)
EXTENDS NameAutosave

CONSTANTS A, B, C
MCNames == {A, B, C}
=============================================================================
