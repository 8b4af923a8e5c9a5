------------------------ MODULE MCGeneratedArtifacts ------------------------
(* GeneratedArtifacts with four archives of two projects, one of them as large *)
(* as two others.                                                              *)
EXTENDS GeneratedArtifacts

TwoProjects == <<1, 1, 1, 2>>
OneLarge == <<1, 2, 1, 1>>
=============================================================================
