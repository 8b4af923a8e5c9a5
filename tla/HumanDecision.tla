--------------------------- MODULE HumanDecision ---------------------------
(***************************************************************************)
(* What a project promises about its Accepted revision: only a Human        *)
(* Decision moves it, a Decision is taken at most once about a Proposal and *)
(* only after a person authorised exactly that verdict, it is taken about   *)
(* the state Accepted is in, and Accepted follows before the next one.      *)
(* Files, Refs, journals, tokens, crashes and I/O errors do not appear.     *)
(***************************************************************************)
EXTENDS DecisionChain

VARIABLES
  accepted,      \* the Accepted revision
  log,           \* the Human Decisions, oldest first
  authorised     \* the verdicts a person has authorised

state == <<accepted, log, authorised>>

HInit ==
  /\ accepted = Genesis
  /\ log = <<>>
  /\ authorised = {}

Authorise(v) ==
  /\ v.proposal \notin DecidedIn(log)
  /\ accepted = HeadRevision(log)
  /\ authorised' = authorised \cup {v}
  /\ UNCHANGED <<accepted, log>>

Decide(v) ==
  /\ v \in authorised
  /\ v.proposal \notin DecidedIn(log)
  /\ accepted = HeadRevision(log)
  /\ log' = Append(log, v)
  /\ UNCHANGED <<accepted, authorised>>

\* Accepted follows the Decision just taken.
Follow ==
  /\ accepted # HeadRevision(log)
  /\ accepted' = HeadRevision(log)
  /\ UNCHANGED <<log, authorised>>

HNext == (\E v \in Verdicts : Authorise(v) \/ Decide(v)) \/ Follow

HSpec == HInit /\ [][HNext]_state

\* A Decision reaches Accepted.
HFairSpec == HSpec /\ WF_state(Follow)
=============================================================================
