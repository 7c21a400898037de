----------------------------- MODULE AnswerGate -----------------------------
(***************************************************************************)
(* What the agent arm promises whoever consumes its answer, said without   *)
(* the graph that keeps the promise.  A run gathers sources any number of  *)
(* times and then closes once: with a refusal that asserts nothing, with   *)
(* an answer a critic accepted, with a degraded answer that dropped what   *)
(* the critic rejected, or with an error that publishes nothing.           *)
(***************************************************************************)

CONSTANTS
  Texts, \* what a claim may say
  Paths  \* the citable paths of the corpus

VARIABLES
  outcome,   \* how the run closed, "open" until it does
  published, \* the claims handed to the consumer
  sources,   \* the paths of the retrieved candidates the answer rests on
  rejected   \* the claim texts the critic's last verdict rejected

gateVars == <<outcome, published, sources, rejected>>

Claim == [text : Texts, cites : SUBSET Paths]

\* A claim a reader can check: it cites something, and only what was retrieved.
Backed(claim, retrieved) == claim.cites # {} /\ claim.cites \subseteq retrieved

Init ==
  /\ outcome = "open"
  /\ published = {}
  /\ sources = {}
  /\ rejected = {}

\* Retrieve again, or hear a critic: nothing is published yet.
Gather ==
  /\ outcome = "open"
  /\ outcome' = "open"
  /\ published' = {}
  /\ sources' \in SUBSET Paths
  /\ rejected' \in SUBSET Texts

\* A refusal closes a run that has retrieved nothing.
Refuse ==
  /\ outcome = "open"
  /\ sources = {}
  /\ outcome' = "refused"
  /\ published' = {}
  /\ UNCHANGED <<sources, rejected>>

\* The critic accepts the draft: every claim is backed by what was retrieved.
Answer ==
  /\ outcome = "open"
  /\ outcome' = "answered"
  /\ published' \in SUBSET {c \in Claim : Backed(c, sources)}
  /\ rejected' \in SUBSET Texts
  /\ UNCHANGED sources

\* The critic rejected the draft for the last time: what it rejected is gone.
Degrade ==
  /\ outcome = "open"
  /\ outcome' = "degraded"
  /\ published' \in SUBSET {c \in Claim : Backed(c, sources) /\ c.text \notin rejected}
  /\ UNCHANGED <<sources, rejected>>

\* A provider failed: the run ends and publishes nothing.
Fail ==
  /\ outcome = "open"
  /\ outcome' = "failed"
  /\ published' = {}
  /\ UNCHANGED <<sources, rejected>>

Next == Gather \/ Refuse \/ Answer \/ Degrade \/ Fail

Spec == Init /\ [][Next]_gateVars
=============================================================================
