--------------------------- MODULE DecisionChain ---------------------------
(***************************************************************************)
(* Human Decisions about AI Proposals, and the Accepted revision a chain of *)
(* them leads to.  The chain is the SynapseGit decision Ref of one project, *)
(* oldest Decision first.                                                   *)
(***************************************************************************)
EXTENDS Integers, Sequences, SequencesExt

CONSTANTS
  Proposals,     \* the Proposal identifiers (pro_...)
  Genesis        \* the revision the project was created with

ASSUME GenesisAssumption == Genesis \notin Proposals

Adopt == "adopted_unchanged"
Dispositions == {Adopt, "rejected", "deferred"}
Verdicts == [proposal : Proposals, disposition : Dispositions]
Verdict(p, d) == [proposal |-> p, disposition |-> d]

\* Adopting p makes the planned revision of p the Accepted one: p names it.
Revisions == Proposals \cup {Genesis}

\* The revision the head of a chain stands for: the one adopted last.
HeadRevision(c) ==
  LET adopted == {i \in DOMAIN c : c[i].disposition = Adopt}
  IN  IF adopted = {} THEN Genesis ELSE c[Max(adopted)].proposal

DecidedIn(c) == {c[i].proposal : i \in DOMAIN c}
=============================================================================
