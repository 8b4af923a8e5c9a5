------------------------- MODULE MCDecisionProtocol -------------------------
(* DecisionProtocol on small sets of Proposals and tokens. *)
EXTENDS DecisionProtocol, TLC

CONSTANTS p1, p2, t1, t2

TokenSymmetry == Permutations(Tokens)

\* The steps of a Decision and of startup, without those of create_proposal
\* and without an unreadable SynapseGit repository.
DecisionSites ==
  {"intent", "query", "call", "core", "receipt", "materialize", "unlink",
   "link", "advance", "complete", "cleanup"}
RepositorySites == DecisionSites \cup {"repository"}
CreationSites == {"prepare", "publish", "register", "bind"}
AllSites == RepositorySites \cup CreationSites

Two == {p1, p2}
OneBlocked == {p2}
=============================================================================
