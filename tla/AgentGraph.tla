----------------------------- MODULE AgentGraph -----------------------------
(***************************************************************************)
(* One run of the agent arm: the LangGraph of agent-graph.ts, its nodes    *)
(* and routers of agent-nodes.ts, and the way agent-run.ts ends it.        *)
(*                                                                         *)
(*   guard -> planner -> retrieve -> rerank -> synthesize -> critic        *)
(*                                                                         *)
(* with two bounded back edges (reformulate, reretrieve) and an honest     *)
(* degrade at the cap.  A step is one LangGraph super-step: the node, the  *)
(* channels its patch replaces, and the router that follows it.  The four  *)
(* model calls and retrieval are the environment: their answers are any    *)
(* value their schemas let through, and each may reject instead.           *)
(***************************************************************************)
EXTENDS Naturals, FiniteSets

CONSTANTS
  Texts,      \* what a claim, a sentence of the prose or a critic may say
  Paths,      \* the citable paths of the ingested corpus
  Terms,      \* the terms of the definitions index
  CrossRefs,  \* the cross-reference sidecar: pairs <<from, to>> of paths
  Resolvable, \* the paths enrichment.lookup resolves to a candidate row
  Mentions,   \* pairs <<term, path>>: the text at path mentions the term
  Drafts,     \* the envelopes synthesis may return, before the clamp
  DepsChoices, \* the dependency records a run may be built with
  TopK, MaxHops, MaxReformulations, MaxCriticReretrievals, \* AGENT_LOOP_CAPS
  RecursionLimit  \* AGENT_RECURSION_LIMIT

\* The deps of buildAgentGraph: the four query flags, and whether the
\* enrichment access is injected.
Deps == [xref : BOOLEAN, definitions : BOOLEAN, reformulation : BOOLEAN,
         rerank : BOOLEAN, enrichment : BOOLEAN]

Refusals == {"refuse-jurisdiction", "refuse-out-of-scope", "refuse-advice-escalate"}
BehaviorClass == Refusals \cup {"answer", "flag-void-clause"}

Claim == [text : Texts, cites : SUBSET Paths]

\* An answer envelope.  prose is the set of sentences the answer string states.
Envelope == [behaviorClass : BehaviorClass, claims : SUBSET Claim, prose : SUBSET Texts]
NoEnvelope == [behaviorClass |-> "none", claims |-> {}, prose |-> {}]

\* The longest path through the graph, in super-steps.
LongestPath == 7 + 3 * MaxReformulations + 6 * MaxCriticReretrievals

ASSUME BoundsAssumption ==
  /\ TopK \in Nat
  /\ MaxHops \in Nat \ {0}
  /\ MaxReformulations \in Nat
  /\ MaxCriticReretrievals \in Nat
  /\ RecursionLimit \in Nat
  /\ LongestPath <= RecursionLimit
ASSUME DataAssumption ==
  /\ Drafts \subseteq Envelope
  /\ DepsChoices \subseteq Deps
  /\ IsFiniteSet(Paths)
  /\ Resolvable \subseteq Paths
  /\ CrossRefs \subseteq Paths \X Paths
  /\ Mentions \subseteq Terms \X Paths

VARIABLES
  node,          \* the next node to run, or how the run ended
  steps,         \* super-steps taken
  deps,          \* what the graph was built with
  guardDecision, plan, candidates, definitionAttachments, reformulations,
  criticReretrievals, criticDecision, degraded, envelope,
  rawModelOutput, \* the channels; of the raw output only its claims are kept
  streamed       \* the claim texts that went to the token sink

channels == <<guardDecision, plan, candidates, definitionAttachments, reformulations,
              criticReretrievals, criticDecision, degraded, envelope, rawModelOutput>>
vars == <<node, steps, deps, channels, streamed>>

AgentNodes == {"guard", "planner", "retrieve", "reformulate", "rerank", "synthesize",
               "critic", "reretrieve", "degrade"}
Ended == {"END", "failed", "out-of-steps"}

GuardDecision == [verdict : Refusals \cup {"pass"}, injectionDetected : BOOLEAN]
NoGuardDecision == [verdict |-> "none", injectionDetected |-> FALSE]
\* "original" and "rewritten" are the two values effectiveQuestion takes.
Plan == [question : {"original", "rewritten"}, hops : 1..MaxHops]
NoPlan == [question |-> "none", hops |-> 0]
CriticDecision == [grounded : BOOLEAN, ungroundedClaims : SUBSET Texts]
\* routeAfterCritic reads an absent decision as grounded.
NoCriticDecision == [grounded |-> TRUE, ungroundedClaims |-> {}]

-----------------------------------------------------------------------------
(* The nodes' pure helpers.                                                *)

EffectiveQuestion == IF reformulations = 0 THEN "original" ELSE "rewritten"

\* Mutant of ClampHops: the plan is taken as the model wrote it.
UnclampedHops(raw) == raw

\* clampPlan: at most MaxHops hops, and one empty hop for an empty plan.
ClampHops(raw) == IF raw = 0 THEN 1 ELSE IF raw > MaxHops THEN MaxHops ELSE raw

\* expandOneHop: the seeds, and their neighbours in either direction.
Expand(seeds) ==
  seeds \cup {p \in Resolvable : \E s \in seeds : {<<s, p>>, <<p, s>>} \cap CrossRefs # {}}

\* attachDefinitions: the terms some candidate's text mentions.
Attach(found) == {t \in Terms : \E p \in found : <<t, p>> \in Mentions}

\* The attachments after a retrieval.  With the enrichment access injected the
\* patch always carries the channel, empty or not; without it the channel is
\* left out and keeps its value.  Mutant first: an empty list is left out too.
AttachmentsKeptWhenNone(found) ==
  IF deps.enrichment /\ deps.definitions /\ Attach(found) # {}
  THEN Attach(found) ELSE definitionAttachments

AttachmentsAfter(found) ==
  IF ~deps.enrichment THEN definitionAttachments
  ELSE IF deps.definitions THEN Attach(found) ELSE {}

\* Mutant of Clamp: cites are taken on trust.
NoClamp(draft, found) == draft

\* clampEnvelopeToCandidates: drop the cites that were not retrieved.
Clamp(draft, found) ==
  [draft EXCEPT !.claims = {[c EXCEPT !.cites = @ \cap found] : c \in @}]

TextsOf(claims) == {c.text : c \in claims}

Uncited(claims) == {c \in claims : c.cites = {}}

\* Mutant of Keep: the critic's list is forgotten.
KeepCited(claims, ungrounded) == {c \in claims : c.cites # {}}

\* degradeNode's filter: cited, and not among the critic's ungrounded texts.
Keep(claims, ungrounded) == {c \in claims : c.cites # {} /\ c.text \notin ungrounded}

-----------------------------------------------------------------------------
(* The routers: the node each conditional edge leads to.                   *)

RouteAfterGuard(drafted) == IF drafted # NoEnvelope THEN "END" ELSE "planner"

\* Mutant of RouteAfterRetrieve: the critic's recovery may reformulate too.
RouteAfterAnyRetrieve(found) ==
  IF deps.reformulation /\ found = {} /\ reformulations < MaxReformulations
  THEN "reformulate" ELSE "rerank"

RouteAfterRetrieve(found) ==
  IF /\ deps.reformulation
     /\ criticReretrievals = 0
     /\ found = {}
     /\ reformulations < MaxReformulations
  THEN "reformulate" ELSE "rerank"

\* Mutant of RouteAfterCritic: the re-retrieval budget is not checked.
RouteUntilGrounded(decision) == IF decision.grounded THEN "END" ELSE "reretrieve"

RouteAfterCritic(decision) ==
  IF decision.grounded THEN "END"
  ELSE IF criticReretrievals < MaxCriticReretrievals THEN "reretrieve"
  ELSE "degrade"

\* One super-step is spent.  LangGraph rejects the run when its budget is
\* spent and a node is still due.
Proceed(next) ==
  /\ steps' = steps + 1
  /\ node' = IF next # "END" /\ steps + 1 >= RecursionLimit THEN "out-of-steps" ELSE next
  /\ UNCHANGED deps

-----------------------------------------------------------------------------
Init ==
  /\ node = "guard"
  /\ steps = 0
  /\ deps \in DepsChoices
  /\ guardDecision = NoGuardDecision
  /\ plan = NoPlan
  /\ candidates = {}
  /\ definitionAttachments = {}
  /\ reformulations = 0
  /\ criticReretrievals = 0
  /\ criticDecision = NoCriticDecision
  /\ degraded = FALSE
  /\ envelope = NoEnvelope
  /\ rawModelOutput = {}
  /\ streamed = {}

\* Mutant of EffectiveVerdict: the injection flag is only logged.
VerdictAsGiven(decision) == decision

\* guardNode: a pass with an injection flag is turned into a refusal.
EffectiveVerdict(decision) ==
  IF decision.injectionDetected /\ decision.verdict = "pass"
  THEN [decision EXCEPT !.verdict = "refuse-out-of-scope"] ELSE decision

RefusalEnvelope(verdict) == [behaviorClass |-> verdict, claims |-> {}, prose |-> {}]

Guard ==
  /\ node = "guard"
  /\ \E decision \in GuardDecision :
       LET effective == EffectiveVerdict(decision) IN
       /\ guardDecision' = effective
       /\ envelope' = IF effective.verdict = "pass" THEN envelope
                      ELSE RefusalEnvelope(effective.verdict)
       /\ Proceed(RouteAfterGuard(envelope'))
  /\ UNCHANGED <<plan, candidates, definitionAttachments, reformulations,
                 criticReretrievals, criticDecision, degraded, rawModelOutput, streamed>>

Planner ==
  /\ node = "planner"
  /\ \E raw \in 0..(MaxHops + 1) :
       plan' = [question |-> EffectiveQuestion, hops |-> ClampHops(raw)]
  /\ Proceed("retrieve")
  /\ UNCHANGED <<guardDecision, candidates, definitionAttachments, reformulations,
                 criticReretrievals, criticDecision, degraded, envelope,
                 rawModelOutput, streamed>>

\* What the planned hops may return together, each at most TopK rows.
Retrievable(hops) == {found \in SUBSET Paths : Cardinality(found) <= hops * TopK}

\* retrieveNode: the merged hops replace the candidates; with the enrichment
\* access injected they are expanded, and the attachments are replaced too.
Retrieve ==
  /\ node = "retrieve"
  /\ \E merged \in Retrievable(plan.hops) :
       candidates' = IF deps.enrichment /\ deps.xref THEN Expand(merged) ELSE merged
  /\ definitionAttachments' = AttachmentsAfter(candidates')
  /\ Proceed(RouteAfterRetrieve(candidates'))
  /\ UNCHANGED <<guardDecision, plan, reformulations, criticReretrievals,
                 criticDecision, degraded, envelope,
                 rawModelOutput, streamed>>

\* Mutant of Reformulate: the rewrite is searched with the plan at hand.
ReformulateWithoutReplan ==
  /\ node = "reformulate"
  /\ reformulations' = reformulations + 1
  /\ Proceed("retrieve")
  /\ UNCHANGED <<guardDecision, plan, candidates, definitionAttachments,
                 criticReretrievals, criticDecision, degraded, envelope,
                 rawModelOutput, streamed>>

Reformulate ==
  /\ node = "reformulate"
  /\ reformulations' = reformulations + 1
  /\ Proceed("planner")
  /\ UNCHANGED <<guardDecision, plan, candidates, definitionAttachments,
                 criticReretrievals, criticDecision, degraded, envelope,
                 rawModelOutput, streamed>>

\* rerankNode: every reranker returns all its candidates, reordered and tagged.
Rerank ==
  /\ node = "rerank"
  /\ Proceed("synthesize")
  /\ UNCHANGED <<channels, streamed>>

Synthesize ==
  /\ node = "synthesize"
  /\ \E draft \in Drafts :
       /\ envelope' = Clamp(draft, candidates)
       /\ rawModelOutput' = draft.claims
       /\ streamed' = streamed \cup TextsOf(draft.claims)
  /\ Proceed("critic")
  /\ UNCHANGED <<guardDecision, plan, candidates, definitionAttachments, reformulations,
                 criticReretrievals, criticDecision, degraded>>

\* Mutant of Override: the model's verdict stands.
VerdictStands(verdict, claims) == verdict

\* criticNode: an uncited claim overrides the model's verdict.
Override(verdict, claims) ==
  IF Uncited(claims) = {} THEN verdict
  ELSE [grounded |-> FALSE,
        ungroundedClaims |-> verdict.ungroundedClaims \cup TextsOf(Uncited(claims))]

Critic ==
  /\ node = "critic"
  /\ \E verdict \in CriticDecision : criticDecision' = Override(verdict, envelope.claims)
  /\ Proceed(RouteAfterCritic(criticDecision'))
  /\ UNCHANGED <<guardDecision, plan, candidates, definitionAttachments, reformulations,
                 criticReretrievals, degraded, envelope,
                 rawModelOutput, streamed>>

BumpCriticReretrieval ==
  /\ node = "reretrieve"
  /\ criticReretrievals' = criticReretrievals + 1
  /\ Proceed("planner")
  /\ UNCHANGED <<guardDecision, plan, candidates, definitionAttachments, reformulations,
                 criticDecision, degraded, envelope,
                 rawModelOutput, streamed>>

\* degradeNode: keep what is cited and was not rejected, and rebuild the
\* prose from the kept claims alone.
Degrade ==
  /\ node = "degrade"
  /\ LET kept == Keep(envelope.claims, criticDecision.ungroundedClaims) IN
       envelope' = [envelope EXCEPT !.claims = kept, !.prose = TextsOf(kept)]
  /\ degraded' = TRUE
  /\ Proceed("END")
  /\ UNCHANGED <<guardDecision, plan, candidates, definitionAttachments, reformulations,
                 criticReretrievals, criticDecision, rawModelOutput, streamed>>

\* The nodes that await a provider: rerank only with its flag on.
Awaiting == {"guard", "planner", "retrieve", "reformulate", "synthesize", "critic"}
              \cup (IF deps.rerank THEN {"rerank"} ELSE {})

\* A provider rejects, or its answer does not parse: graph.invoke rejects.
\* A synthesis may have streamed a draft by then.
Reject ==
  /\ node \in Awaiting
  /\ node' = "failed"
  /\ streamed' \in IF node = "synthesize"
                   THEN {streamed \cup TextsOf(draft.claims) : draft \in Drafts} \cup {streamed}
                   ELSE {streamed}
  /\ UNCHANGED <<steps, deps, channels>>

Done == node \in Ended /\ UNCHANGED vars

Next ==
  \/ Guard \/ Planner \/ Retrieve \/ Reformulate \/ Rerank \/ Synthesize
  \/ Critic \/ BumpCriticReretrieval \/ Degrade \/ Reject \/ Done

Spec == Init /\ [][Next]_vars

-----------------------------------------------------------------------------
(* Properties.                                                             *)

\* Every channel keeps its declared shape.
TypeOK ==
  /\ node \in AgentNodes \cup Ended
  /\ steps \in Nat
  /\ deps \in Deps
  /\ guardDecision \in GuardDecision \cup {NoGuardDecision}
  /\ plan \in Plan \cup {NoPlan}
  /\ candidates \in SUBSET Paths
  /\ definitionAttachments \in SUBSET Terms
  /\ reformulations \in Nat
  /\ criticReretrievals \in Nat
  /\ criticDecision \in CriticDecision
  /\ degraded \in BOOLEAN
  /\ envelope \in Envelope \cup {NoEnvelope}
  /\ rawModelOutput \in SUBSET Claim
  /\ streamed \in SUBSET Texts

\* The pin-cite gate: however often the run re-planned, an envelope that
\* leaves the graph (answer, refusal or degraded) holds only claims that cite
\* something, and cite only candidates of the last retrieval, not an earlier one.
PublishedClaimsAreBacked ==
  node = "END" =>
    \A c \in envelope.claims : c.cites # {} /\ c.cites \subseteq candidates

\* The critic has the last word: an answer leaves the graph whole only after
\* a grounded verdict, and otherwise only degraded, after the re-retrieval
\* budget is spent, and without the texts the critic rejected in claims or prose.
CriticHasTheLastWord ==
  node = "END" /\ guardDecision.verdict = "pass" =>
    \/ criticDecision.grounded /\ ~degraded
    \/ /\ ~criticDecision.grounded /\ degraded
       /\ criticReretrievals = MaxCriticReretrievals
       /\ (TextsOf(envelope.claims) \cup envelope.prose)
            \cap criticDecision.ungroundedClaims = {}

\* A question the guard refuses, or in which it saw an injection, is never
\* planned, retrieved for or shown to synthesis, and ends as a bare refusal.
RefusedQuestionsGoNowhere ==
  guardDecision.verdict \in Refusals \/ guardDecision.injectionDetected =>
    /\ node = "END"
    /\ plan = NoPlan /\ candidates = {} /\ streamed = {}
    /\ envelope.behaviorClass \in Refusals /\ envelope.claims = {}

\* The rewrite rescues a thin first pass only: the reformulate edge is never
\* taken once a draft exists, once the critic sent the run back, or when the
\* retrieval it follows found something.
ReformulationRescuesFirstPass ==
  [][reformulations' # reformulations =>
       candidates = {} /\ envelope = NoEnvelope /\ criticReretrievals = 0]_vars

\* No stale plan: the plan retrieval runs was made for the question that is
\* effective now, so a rewritten question is re-planned before it is searched.
PlanMatchesQuestion == node = "retrieve" => plan.question = EffectiveQuestion

\* No stale attachments: the definitions the synthesis prompt shows are those
\* of the candidates it shows, not those of an earlier retrieval.
AttachmentsMatchCandidates ==
  node = "synthesize" =>
    definitionAttachments =
      IF deps.enrichment /\ deps.definitions THEN Attach(candidates) ELSE {}

\* The hop cap bounds the prompt: without graph expansion, synthesis never
\* sees more than MaxHops * TopK sources, whatever the planner asked for.
FanOutIsBounded ==
  ~(deps.enrichment /\ deps.xref) => Cardinality(candidates) <= MaxHops * TopK

\* The recursion limit is a backstop that never fires: no run takes more than
\* LongestPath super-steps, so the two loops are bounded by their own budgets.
RecursionLimitNeverFires == steps <= LongestPath /\ node # "out-of-steps"

\* How a consumer sees the run: its outcome, and what it has published.
Outcome ==
  IF node \in {"failed", "out-of-steps"} THEN "failed"
  ELSE IF node # "END" THEN "open"
  ELSE IF guardDecision.verdict # "pass" THEN "refused"
  ELSE IF degraded THEN "degraded" ELSE "answered"

Published == IF node = "END" THEN envelope.claims ELSE {}

\* The graph implements AnswerGate: seen through Outcome and Published, every
\* step of a run is a step of the promise.
Gate == INSTANCE AnswerGate WITH
  outcome <- Outcome, published <- Published,
  sources <- candidates, rejected <- criticDecision.ungroundedClaims

ImplementsAnswerGate == Gate!Spec

-----------------------------------------------------------------------------
(* Statements of the documentation that the code does not keep.            *)

\* agent-run.ts: one run gives the envelope the harness scores and the token
\* stream the SSE endpoint relays, "one artifact, two consumers".  So a claim
\* streamed in a run that publishes an answer is in the published envelope.
StreamIsTheArtifact == node = "END" => streamed \subseteq TextsOf(envelope.claims)

\* degradeNode: "Strip the ungrounded claims rather than guessing".  So a draft
\* the critic rejects at the cap does not reach the reader with every claim
\* it was drafted with.
DegradingStripsSomething ==
  degraded /\ rawModelOutput # {} => TextsOf(envelope.claims) # TextsOf(rawModelOutput)
=============================================================================
