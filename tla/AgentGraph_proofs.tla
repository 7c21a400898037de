-------------------------- MODULE AgentGraph_proofs --------------------------
(***************************************************************************)
(* Theorems about AgentGraph, for every corpus, every budget of the two    *)
(* loops and every recursion limit that covers the longest path.           *)
(*                                                                         *)
(* None of the properties is inductive by itself: whether a claim that     *)
(* leaves the graph is backed depends on the clamp of the last synthesis   *)
(* and on which nodes may still replace the candidates.  IInv says, node   *)
(* by node, what the channels hold when that node is due.                  *)
(***************************************************************************)
EXTENDS AgentGraph, FiniteSetTheorems, TLAPS

\* The nodes between a passing guard and the end of the run.
Working == AgentNodes \ {"guard"}

\* The super-steps the run may still take: what the node due and the unspent
\* budgets of the two loops allow.
Remaining ==
  LET loops == 3 * (MaxReformulations - reformulations)
                 + 6 * (MaxCriticReretrievals - criticReretrievals)
  IN CASE node = "guard" -> 7 + loops
       [] node = "planner" -> 6 + loops
       [] node = "retrieve" -> 5 + loops
       [] node = "reformulate" -> 4 + loops
       [] node = "rerank" -> 4 + loops
       [] node = "synthesize" -> 3 + loops
       [] node = "critic" -> 2 + loops
       [] node = "reretrieve" -> 1 + loops
       [] node = "degrade" -> 1 + loops
       [] OTHER -> 0

\* The loops stay within their budgets, and a loop node is only due while its
\* budget lasts; degrade is due only when the critic's is spent.
Budgets ==
  /\ reformulations <= MaxReformulations
  /\ criticReretrievals <= MaxCriticReretrievals
  /\ node = "reformulate" => reformulations < MaxReformulations
  /\ node = "reretrieve" => criticReretrievals < MaxCriticReretrievals
  /\ node = "degrade" => criticReretrievals = MaxCriticReretrievals
  /\ steps + Remaining <= LongestPath
  /\ node # "out-of-steps"

\* Until the guard has run nothing has happened; after it, the run works only
\* on a question that passed, and a refused one has ended untouched.
GuardFirst ==
  /\ node = "guard" =>
       /\ guardDecision = NoGuardDecision /\ plan = NoPlan /\ candidates = {}
       /\ envelope = NoEnvelope /\ streamed = {}
  /\ node \in Working => guardDecision.verdict = "pass" /\ ~guardDecision.injectionDetected
  /\ node = "END" => guardDecision.verdict \in Refusals \cup {"pass"}

\* A draft under review cites only the candidates it was clamped to.
DraftIsClamped ==
  node \in {"critic", "degrade"} =>
    /\ envelope \in Envelope
    /\ \A c \in envelope.claims : c.cites \subseteq candidates

\* The critic's verdict governs how the run ends.
Verdict ==
  /\ node # "END" => ~degraded
  /\ node = "degrade" => ~criticDecision.grounded

Flow ==
  /\ GuardFirst /\ DraftIsClamped /\ Verdict
  /\ PublishedClaimsAreBacked /\ CriticHasTheLastWord /\ RefusedQuestionsGoNowhere
  /\ PlanMatchesQuestion

IInv == TypeOK /\ Budgets /\ Flow

-----------------------------------------------------------------------------
(* The helpers.                                                            *)

\* clampEnvelopeToCandidates returns an envelope whose cites were all retrieved.
LEMMA ClampLemma ==
  ASSUME NEW draft \in Envelope, NEW found \in SUBSET Paths
  PROVE  /\ Clamp(draft, found) \in Envelope
         /\ \A c \in Clamp(draft, found).claims : c.cites \subseteq found
<1>1. \A c \in draft.claims : /\ [c EXCEPT !.cites = @ \cap found] \in Claim
                             /\ [c EXCEPT !.cites = @ \cap found].cites \subseteq found
  BY DEF Envelope, Claim
<1>2. Clamp(draft, found).claims = {[c EXCEPT !.cites = @ \cap found] : c \in draft.claims}
  BY DEF Clamp, Envelope
<1>3. Clamp(draft, found) \in Envelope
  BY <1>1 DEF Clamp, Envelope
<1>4. QED
  BY <1>1, <1>2, <1>3

\* degradeNode's filter returns only claims that were there, each cited and
\* none of them rejected.
LEMMA KeepLemma ==
  ASSUME NEW claims \in SUBSET Claim, NEW ungrounded \in SUBSET Texts
  PROVE  /\ Keep(claims, ungrounded) \in SUBSET claims
         /\ TextsOf(Keep(claims, ungrounded)) \in SUBSET Texts
         /\ TextsOf(Keep(claims, ungrounded)) \cap ungrounded = {}
         /\ \A c \in Keep(claims, ungrounded) : c.cites # {}
  BY DEF Keep, TextsOf, Claim

\* criticNode returns a decision, and a grounded one only when every claim
\* cites something.
LEMMA OverrideLemma ==
  ASSUME NEW verdict \in CriticDecision, NEW claims \in SUBSET Claim
  PROVE  /\ Override(verdict, claims) \in CriticDecision
         /\ Override(verdict, claims).grounded => \A c \in claims : c.cites # {}
<1>1. TextsOf(Uncited(claims)) \in SUBSET Texts
  BY DEF TextsOf, Uncited, Claim
<1>2. CASE Uncited(claims) = {}
  BY <1>2 DEF Override, Uncited
<1>3. CASE Uncited(claims) # {}
  BY <1>1, <1>3 DEF Override, CriticDecision
<1>4. QED
  BY <1>2, <1>3

\* A run with a node due other than degrade has super-steps to spare, so
\* Proceed leads where the edge leads.
LEMMA NoOverrun ==
  ASSUME TypeOK, Budgets, node \in AgentNodes \ {"degrade"}, NEW next, Proceed(next)
  PROVE  node' = next /\ steps' = steps + 1 /\ deps' = deps
<1>1. steps + 1 < RecursionLimit
  BY BoundsAssumption DEF TypeOK, Budgets, Remaining, AgentNodes, LongestPath
<1>2. QED
  BY <1>1, BoundsAssumption DEF Proceed, TypeOK

-----------------------------------------------------------------------------
(* The type invariant.                                                     *)

LEMMA InitTypeOK == Init => TypeOK
<1> SUFFICES ASSUME Init
             PROVE  TypeOK
  OBVIOUS
<1>1. deps \in Deps
  BY DataAssumption DEF Init
<1>2. node \in AgentNodes /\ criticDecision \in CriticDecision
  BY DEF Init, AgentNodes, CriticDecision, NoCriticDecision
<1>3. QED
  BY <1>1, <1>2 DEF Init, TypeOK

LEMMA NextTypeOK == TypeOK /\ [Next]_vars => TypeOK'
<1> SUFFICES ASSUME TypeOK, [Next]_vars
             PROVE  TypeOK'
  OBVIOUS
<1> USE DEF TypeOK
<1>1. ASSUME NEW next \in AgentNodes \cup {"END"}, Proceed(next)
      PROVE  node' \in AgentNodes \cup Ended /\ steps' \in Nat /\ deps' \in Deps
  BY <1>1, BoundsAssumption DEF Proceed, Ended
<1>2. CASE Guard
  <2> USE <1>2 DEF Guard
  <2>1. PICK decision \in GuardDecision :
          /\ guardDecision' = EffectiveVerdict(decision)
          /\ envelope' = IF EffectiveVerdict(decision).verdict = "pass" THEN envelope
                         ELSE RefusalEnvelope(EffectiveVerdict(decision).verdict)
          /\ Proceed(RouteAfterGuard(envelope'))
    OBVIOUS
  <2>2. EffectiveVerdict(decision) \in GuardDecision
    BY DEF EffectiveVerdict, GuardDecision, Refusals
  <2>3. RouteAfterGuard(envelope') \in AgentNodes \cup {"END"}
    BY DEF RouteAfterGuard, AgentNodes
  <2>4. envelope' \in Envelope \cup {NoEnvelope}
    BY <2>1, <2>2 DEF GuardDecision, RefusalEnvelope, Envelope, BehaviorClass
  <2>5. QED
    BY <1>1, <2>1, <2>2, <2>3, <2>4
<1>3. CASE Planner
  <2> USE <1>3 DEF Planner
  <2>1. PICK raw \in 0..(MaxHops + 1) :
          plan' = [question |-> EffectiveQuestion, hops |-> ClampHops(raw)]
    OBVIOUS
  <2>2. plan' \in Plan
    BY <2>1, BoundsAssumption DEF EffectiveQuestion, ClampHops, Plan
  <2>3. QED
    BY <1>1, <2>2 DEF AgentNodes
<1>4. CASE Retrieve
  <2> USE <1>4 DEF Retrieve
  <2>1. candidates' \in SUBSET Paths
    BY DataAssumption DEF Retrievable, Expand
  <2>2. definitionAttachments' \in SUBSET Terms
    BY DEF AttachmentsAfter, Attach
  <2>3. RouteAfterRetrieve(candidates') \in AgentNodes \cup {"END"}
    BY DEF RouteAfterRetrieve, AgentNodes
  <2>4. QED
    BY <1>1, <2>1, <2>2, <2>3
<1>5. CASE Reformulate
  BY <1>1, <1>5 DEF Reformulate, AgentNodes
<1>6. CASE Rerank
  BY <1>1, <1>6 DEF Rerank, AgentNodes, channels
<1>7. CASE Synthesize
  <2> USE <1>7 DEF Synthesize
  <2>1. PICK draft \in Drafts : /\ envelope' = Clamp(draft, candidates)
                               /\ rawModelOutput' = draft.claims
                               /\ streamed' = streamed \cup TextsOf(draft.claims)
    OBVIOUS
  <2>2. draft \in Envelope
    BY DataAssumption
  <2>3. TextsOf(draft.claims) \in SUBSET Texts /\ draft.claims \in SUBSET Claim
    BY <2>2 DEF TextsOf, Envelope, Claim
  <2>4. QED
    BY <1>1, <2>1, <2>2, <2>3, ClampLemma DEF AgentNodes
<1>8. CASE Critic
  <2> USE <1>8 DEF Critic
  <2>1. PICK verdict \in CriticDecision : criticDecision' = Override(verdict, envelope.claims)
    OBVIOUS
  <2>2. envelope.claims \in SUBSET Claim
    BY DEF Envelope, NoEnvelope
  <2>3. criticDecision' \in CriticDecision
    BY <2>1, <2>2, OverrideLemma
  <2>4. RouteAfterCritic(criticDecision') \in AgentNodes \cup {"END"}
    BY DEF RouteAfterCritic, AgentNodes
  <2>5. QED
    BY <1>1, <2>3, <2>4
<1>9. CASE BumpCriticReretrieval
  BY <1>1, <1>9 DEF BumpCriticReretrieval, AgentNodes
<1>10. CASE Degrade
  <2> USE <1>10 DEF Degrade
  <2>1. envelope.claims \in SUBSET Claim /\ criticDecision.ungroundedClaims \in SUBSET Texts
    BY DEF Envelope, NoEnvelope, CriticDecision
  <2> DEFINE kept == Keep(envelope.claims, criticDecision.ungroundedClaims)
  <2>2. kept \in SUBSET Claim /\ TextsOf(kept) \in SUBSET Texts
    BY <2>1 DEF Keep, TextsOf, Claim
  <2>3. envelope' = [envelope EXCEPT !.claims = kept, !.prose = TextsOf(kept)]
    OBVIOUS
  <2>4. envelope' \in Envelope \cup {NoEnvelope}
    <3>1. CASE envelope \in Envelope
      BY <2>2, <2>3, <3>1 DEF Envelope
    <3>2. CASE envelope = NoEnvelope
      <4>1. kept = {} /\ TextsOf(kept) = {}
        BY <3>2 DEF NoEnvelope, Keep, TextsOf
      <4>2. QED
        BY <2>3, <3>2, <4>1 DEF NoEnvelope
    <3>3. QED
      BY <3>1, <3>2
  <2>5. QED
    BY <1>1, <2>4
<1>11. CASE Reject
  <2>1. \A draft \in Drafts : TextsOf(draft.claims) \in SUBSET Texts
    BY DataAssumption DEF TextsOf, Envelope, Claim
  <2>2. streamed' = streamed \/ \E draft \in Drafts : streamed' = streamed \cup TextsOf(draft.claims)
    <3>1. CASE node = "synthesize"
      BY <1>11, <3>1 DEF Reject
    <3>2. CASE node # "synthesize"
      BY <1>11, <3>2 DEF Reject
    <3>3. QED
      BY <3>1, <3>2
  <2>3. streamed' \in SUBSET Texts
    BY <2>1, <2>2
  <2>4. node' \in AgentNodes \cup Ended /\ UNCHANGED <<steps, deps, channels>>
    BY <1>11 DEF Reject, Ended
  <2>5. QED
    BY <2>3, <2>4 DEF channels
<1>12. CASE UNCHANGED vars
  BY <1>12 DEF vars, channels
<1>13. QED
  BY <1>2, <1>3, <1>4, <1>5, <1>6, <1>7, <1>8, <1>9, <1>10, <1>11, <1>12 DEF Next, Done

\* Every channel keeps its declared shape, whatever the providers answer.
THEOREM TypeCorrect == Spec => []TypeOK
  BY InitTypeOK, NextTypeOK, PTL DEF Spec

-----------------------------------------------------------------------------
(* The loops are bounded by their own budgets.                             *)

LEMMA InitBudgets == Init => Budgets
  BY BoundsAssumption DEF Init, Budgets, Remaining, LongestPath

LEMMA NextBudgets == TypeOK /\ Budgets /\ [Next]_vars => Budgets'
<1> SUFFICES ASSUME TypeOK, Budgets, [Next]_vars
             PROVE  Budgets'
  OBVIOUS
<1> USE BoundsAssumption
<1>1. /\ steps \in Nat /\ reformulations \in Nat /\ criticReretrievals \in Nat
      /\ LongestPath \in Nat
  BY DEF TypeOK, LongestPath
<1>2. CASE Guard
  <2>1. node' \in {"planner", "END"} /\ steps' = steps + 1
    <3>1. PICK next : Proceed(next) /\ next \in {"planner", "END"}
      BY <1>2 DEF Guard, RouteAfterGuard
    <3>2. QED
      BY <1>2, <3>1, NoOverrun DEF Guard, AgentNodes
  <2>2. QED
    BY <1>1, <1>2, <2>1 DEF Guard, Budgets, Remaining
<1>3. CASE Planner
  <2>1. node' = "retrieve" /\ steps' = steps + 1
    BY <1>3, NoOverrun DEF Planner, AgentNodes
  <2>2. QED
    BY <1>1, <1>3, <2>1 DEF Planner, Budgets, Remaining
<1>4. CASE Retrieve
  <2>1. node' = RouteAfterRetrieve(candidates') /\ steps' = steps + 1
    BY <1>4, NoOverrun DEF Retrieve, AgentNodes
  <2>2. \/ node' = "reformulate" /\ reformulations < MaxReformulations
        \/ node' = "rerank"
    BY <2>1 DEF RouteAfterRetrieve
  <2>3. QED
    BY <1>1, <1>4, <2>1, <2>2 DEF Retrieve, Budgets, Remaining
<1>5. CASE Reformulate
  <2>1. node' = "planner" /\ steps' = steps + 1
    BY <1>5, NoOverrun DEF Reformulate, AgentNodes
  <2>2. QED
    BY <1>1, <1>5, <2>1 DEF Reformulate, Budgets, Remaining
<1>6. CASE Rerank
  <2>1. node' = "synthesize" /\ steps' = steps + 1
    BY <1>6, NoOverrun DEF Rerank, AgentNodes
  <2>2. QED
    BY <1>1, <1>6, <2>1 DEF Rerank, Budgets, Remaining, channels
<1>7. CASE Synthesize
  <2>1. node' = "critic" /\ steps' = steps + 1
    BY <1>7, NoOverrun DEF Synthesize, AgentNodes
  <2>2. QED
    BY <1>1, <1>7, <2>1 DEF Synthesize, Budgets, Remaining
<1>8. CASE Critic
  <2>1. node' = RouteAfterCritic(criticDecision') /\ steps' = steps + 1
    BY <1>8, NoOverrun DEF Critic, AgentNodes
  <2>2. \/ node' = "END"
        \/ node' = "reretrieve" /\ criticReretrievals < MaxCriticReretrievals
        \/ node' = "degrade" /\ ~(criticReretrievals < MaxCriticReretrievals)
    BY <2>1 DEF RouteAfterCritic
  <2>3. QED
    BY <1>1, <1>8, <2>1, <2>2 DEF Critic, Budgets, Remaining
<1>9. CASE BumpCriticReretrieval
  <2>1. node' = "planner" /\ steps' = steps + 1
    BY <1>9, NoOverrun DEF BumpCriticReretrieval, AgentNodes
  <2>2. QED
    BY <1>1, <1>9, <2>1 DEF BumpCriticReretrieval, Budgets, Remaining
<1>10. CASE Degrade
  <2>1. node' = "END" /\ steps' = steps + 1
    BY <1>10 DEF Degrade, Proceed
  <2>2. QED
    BY <1>1, <1>10, <2>1 DEF Degrade, Budgets, Remaining
<1>11. CASE Reject
  <2>1. node' = "failed" /\ UNCHANGED <<steps, reformulations, criticReretrievals>>
    BY <1>11 DEF Reject, channels
  <2>2. steps <= LongestPath
    BY <1>1 DEF Budgets, Remaining
  <2>3. QED
    BY <1>1, <2>1, <2>2 DEF Budgets, Remaining
<1>12. CASE UNCHANGED vars
  BY <1>12 DEF vars, channels, Budgets, Remaining
<1>13. QED
  BY <1>2, <1>3, <1>4, <1>5, <1>6, <1>7, <1>8, <1>9, <1>10, <1>11, <1>12 DEF Next, Done

-----------------------------------------------------------------------------
(* What the channels hold when each node is due.                           *)

LEMMA InitFlow == Init => Flow
  BY DEF Init, Flow, GuardFirst, DraftIsClamped, Verdict, PublishedClaimsAreBacked,
         CriticHasTheLastWord, RefusedQuestionsGoNowhere, PlanMatchesQuestion,
         Working, AgentNodes, NoGuardDecision, Refusals

\* The steps of a run that passed the guard and do not end it.
LEMMA MidRun ==
  ASSUME IInv, node \in Working, node' \in Working \cup {"failed"},
         guardDecision' = guardDecision, degraded' = degraded,
         DraftIsClamped', PlanMatchesQuestion',
         node' = "degrade" => ~criticDecision'.grounded
  PROVE  Flow'
<1>1. guardDecision'.verdict = "pass" /\ ~guardDecision'.injectionDetected
  BY DEF IInv, Flow, GuardFirst
<1>2. node' # "END" /\ node' # "guard"
  BY DEF Working, AgentNodes
<1>3. ~degraded'
  BY DEF IInv, Flow, Verdict, Working, AgentNodes
<1>4. QED
  BY <1>1, <1>2, <1>3
     DEF Flow, GuardFirst, Verdict, PublishedClaimsAreBacked, CriticHasTheLastWord,
         RefusedQuestionsGoNowhere, Refusals

LEMMA NextFlow == IInv /\ [Next]_vars => Flow'
<1> SUFFICES ASSUME IInv, [Next]_vars
             PROVE  Flow'
  OBVIOUS
<1>0. TypeOK /\ Budgets /\ Flow
  BY DEF IInv
<1>1. CASE Guard
  <2>1. PICK decision \in GuardDecision :
          /\ guardDecision' = EffectiveVerdict(decision)
          /\ envelope' = IF EffectiveVerdict(decision).verdict = "pass" THEN envelope
                         ELSE RefusalEnvelope(EffectiveVerdict(decision).verdict)
          /\ Proceed(RouteAfterGuard(envelope'))
    BY <1>1 DEF Guard
  <2>2. /\ guardDecision' \in GuardDecision
        /\ guardDecision'.verdict = "pass" => ~guardDecision'.injectionDetected
    BY <2>1 DEF EffectiveVerdict, GuardDecision, Refusals
  <2>3. node' = RouteAfterGuard(envelope')
    BY <1>0, <1>1, <2>1, NoOverrun DEF Guard, AgentNodes
  <2>4. /\ envelope = NoEnvelope /\ candidates' = {} /\ plan' = NoPlan /\ streamed' = {}
        /\ degraded' = degraded /\ ~degraded
    BY <1>0, <1>1 DEF Guard, Flow, GuardFirst, Verdict
  <2>5. CASE guardDecision'.verdict = "pass"
    <3>1. node' = "planner"
      BY <2>1, <2>3, <2>4, <2>5 DEF RouteAfterGuard
    <3>2. QED
      BY <2>2, <2>4, <2>5, <3>1
         DEF Flow, GuardFirst, DraftIsClamped, Verdict, PublishedClaimsAreBacked,
             CriticHasTheLastWord, RefusedQuestionsGoNowhere, PlanMatchesQuestion, Refusals
  <2>6. CASE guardDecision'.verdict # "pass"
    <3>1. envelope' = RefusalEnvelope(guardDecision'.verdict)
      BY <2>1, <2>6
    <3>2. guardDecision'.verdict \in Refusals
      BY <2>2, <2>6 DEF GuardDecision
    <3>3. /\ envelope'.behaviorClass \in Refusals /\ envelope'.claims = {}
          /\ envelope' # NoEnvelope
      BY <3>1, <3>2 DEF RefusalEnvelope, NoEnvelope, Refusals
    <3>4. node' = "END"
      BY <2>3, <3>3 DEF RouteAfterGuard
    <3>5. QED
      BY <2>4, <2>6, <3>2, <3>3, <3>4
         DEF Flow, GuardFirst, DraftIsClamped, Verdict, PublishedClaimsAreBacked,
             CriticHasTheLastWord, RefusedQuestionsGoNowhere, PlanMatchesQuestion,
             Working, AgentNodes
  <2>7. QED
    BY <2>5, <2>6
<1>2. CASE Planner
  <2>1. node' = "retrieve"
    BY <1>0, <1>2, NoOverrun DEF Planner, AgentNodes
  <2>2. plan'.question = EffectiveQuestion /\ reformulations' = reformulations
    BY <1>2 DEF Planner
  <2>3. DraftIsClamped' /\ PlanMatchesQuestion'
    BY <2>1, <2>2 DEF DraftIsClamped, PlanMatchesQuestion, EffectiveQuestion
  <2>4. QED
    BY <1>2, <2>1, <2>3, MidRun DEF Planner, Working, AgentNodes
<1>3. CASE Retrieve
  <2>1. node' \in {"rerank", "reformulate"}
    BY <1>0, <1>3, NoOverrun DEF Retrieve, RouteAfterRetrieve, AgentNodes
  <2>2. DraftIsClamped' /\ PlanMatchesQuestion'
    BY <2>1 DEF DraftIsClamped, PlanMatchesQuestion
  <2>3. QED
    BY <1>3, <2>1, <2>2, MidRun DEF Retrieve, Working, AgentNodes
<1>4. CASE Reformulate
  <2>1. node' = "planner"
    BY <1>0, <1>4, NoOverrun DEF Reformulate, AgentNodes
  <2>2. DraftIsClamped' /\ PlanMatchesQuestion'
    BY <2>1 DEF DraftIsClamped, PlanMatchesQuestion
  <2>3. QED
    BY <1>4, <2>1, <2>2, MidRun DEF Reformulate, Working, AgentNodes
<1>5. CASE Rerank
  <2>1. node' = "synthesize"
    BY <1>0, <1>5, NoOverrun DEF Rerank, AgentNodes
  <2>2. DraftIsClamped' /\ PlanMatchesQuestion'
    BY <2>1 DEF DraftIsClamped, PlanMatchesQuestion
  <2>3. QED
    BY <1>5, <2>1, <2>2, MidRun DEF Rerank, Working, AgentNodes, channels
<1>6. CASE Synthesize
  <2>1. node' = "critic"
    BY <1>0, <1>6, NoOverrun DEF Synthesize, AgentNodes
  <2>2. PICK draft \in Envelope : envelope' = Clamp(draft, candidates)
    BY <1>6, DataAssumption DEF Synthesize
  <2>3. candidates' = candidates /\ candidates \in SUBSET Paths
    BY <1>0, <1>6 DEF Synthesize, TypeOK
  <2>4. DraftIsClamped'
    BY <2>2, <2>3, ClampLemma DEF DraftIsClamped
  <2>5. PlanMatchesQuestion'
    BY <2>1 DEF PlanMatchesQuestion
  <2>6. QED
    BY <1>6, <2>1, <2>4, <2>5, MidRun DEF Synthesize, Working, AgentNodes
<1>7. CASE Critic
  <2>1. node' = RouteAfterCritic(criticDecision')
    BY <1>0, <1>7, NoOverrun DEF Critic, AgentNodes
  <2>2. /\ envelope \in Envelope /\ envelope' = envelope /\ candidates' = candidates
        /\ \A c \in envelope.claims : c.cites \subseteq candidates
    BY <1>0, <1>7 DEF Critic, Flow, DraftIsClamped
  <2>3. PICK verdict \in CriticDecision : criticDecision' = Override(verdict, envelope.claims)
    BY <1>7 DEF Critic
  <2>4. criticDecision'.grounded => \A c \in envelope.claims : c.cites # {}
    BY <2>2, <2>3, OverrideLemma DEF Envelope
  <2>5. CASE criticDecision'.grounded
    <3>1. node' = "END"
      BY <2>1, <2>5 DEF RouteAfterCritic
    <3>2. /\ guardDecision'.verdict = "pass" /\ ~guardDecision'.injectionDetected
          /\ ~degraded'
      BY <1>0, <1>7 DEF Critic, Flow, GuardFirst, Verdict, Working, AgentNodes
    <3>3. QED
      BY <2>2, <2>4, <2>5, <3>1, <3>2
         DEF Flow, GuardFirst, DraftIsClamped, Verdict, PublishedClaimsAreBacked,
             CriticHasTheLastWord, RefusedQuestionsGoNowhere, PlanMatchesQuestion,
             Working, AgentNodes, Refusals
  <2>6. CASE ~criticDecision'.grounded
    <3>1. node' \in {"reretrieve", "degrade"}
      BY <2>1, <2>6 DEF RouteAfterCritic
    <3>2. DraftIsClamped' /\ PlanMatchesQuestion'
      BY <2>2, <3>1 DEF DraftIsClamped, PlanMatchesQuestion
    <3>3. QED
      BY <1>7, <2>6, <3>1, <3>2, MidRun DEF Critic, Working, AgentNodes
  <2>7. QED
    BY <2>5, <2>6
<1>8. CASE BumpCriticReretrieval
  <2>1. node' = "planner"
    BY <1>0, <1>8, NoOverrun DEF BumpCriticReretrieval, AgentNodes
  <2>2. DraftIsClamped' /\ PlanMatchesQuestion'
    BY <2>1 DEF DraftIsClamped, PlanMatchesQuestion
  <2>3. QED
    BY <1>8, <2>1, <2>2, MidRun DEF BumpCriticReretrieval, Working, AgentNodes
<1>9. CASE Degrade
  <2> DEFINE kept == Keep(envelope.claims, criticDecision.ungroundedClaims)
  <2>1. node' = "END" /\ degraded' = TRUE
    BY <1>9 DEF Degrade, Proceed
  <2>2. /\ envelope \in Envelope /\ candidates' = candidates
        /\ \A c \in envelope.claims : c.cites \subseteq candidates
        /\ ~criticDecision.grounded /\ criticDecision' = criticDecision
        /\ criticDecision.ungroundedClaims \in SUBSET Texts
        /\ criticReretrievals' = MaxCriticReretrievals
    BY <1>0, <1>9 DEF Degrade, Flow, DraftIsClamped, Verdict, Budgets, TypeOK, CriticDecision
  <2>3. envelope'.claims = kept /\ envelope'.prose = TextsOf(kept)
    BY <1>9, <2>2 DEF Degrade, Envelope
  <2>4. envelope.claims \in SUBSET Claim
    BY <2>2 DEF Envelope
  <2>5. /\ kept \subseteq envelope.claims
        /\ TextsOf(kept) \cap criticDecision.ungroundedClaims = {}
        /\ \A c \in kept : c.cites # {}
    BY <2>2, <2>4, KeepLemma
  <2>6. guardDecision'.verdict = "pass" /\ ~guardDecision'.injectionDetected
    BY <1>0, <1>9 DEF Degrade, Flow, GuardFirst, Working, AgentNodes
  <2>7. PublishedClaimsAreBacked' /\ CriticHasTheLastWord'
    BY <2>1, <2>2, <2>3, <2>5 DEF PublishedClaimsAreBacked, CriticHasTheLastWord
  <2>8. QED
    BY <2>1, <2>6, <2>7
       DEF Flow, GuardFirst, DraftIsClamped, Verdict, RefusedQuestionsGoNowhere,
           PlanMatchesQuestion, Working, AgentNodes, Refusals
<1>10. CASE Reject
  <2>1. node' = "failed" /\ UNCHANGED channels /\ node \in AgentNodes
    BY <1>10 DEF Reject, Awaiting, AgentNodes
  <2>2. ~degraded /\ guardDecision.verdict \notin Refusals /\ ~guardDecision.injectionDetected
    BY <1>0, <2>1 DEF Flow, GuardFirst, Verdict, Working, AgentNodes, NoGuardDecision, Refusals
  <2>3. QED
    BY <2>1, <2>2
       DEF channels, Flow, GuardFirst, DraftIsClamped, Verdict, PublishedClaimsAreBacked,
           CriticHasTheLastWord, RefusedQuestionsGoNowhere, PlanMatchesQuestion,
           Working, AgentNodes
<1>11. CASE UNCHANGED vars
  BY <1>0, <1>11
     DEF vars, channels, Flow, GuardFirst, DraftIsClamped, Verdict, PublishedClaimsAreBacked,
         CriticHasTheLastWord, RefusedQuestionsGoNowhere, PlanMatchesQuestion, EffectiveQuestion
<1>12. QED
  BY <1>1, <1>2, <1>3, <1>4, <1>5, <1>6, <1>7, <1>8, <1>9, <1>10, <1>11 DEF Next, Done

LEMMA Invariance == Spec => []IInv
<1>1. Init => IInv
  BY InitTypeOK, InitBudgets, InitFlow DEF IInv
<1>2. IInv /\ [Next]_vars => IInv'
  BY NextTypeOK, NextBudgets, NextFlow DEF IInv
<1>3. QED
  BY <1>1, <1>2, PTL DEF Spec

\* The pin-cite gate of PublishedClaimsAreBacked, for every corpus and budget.
THEOREM PinCiteGate == Spec => []PublishedClaimsAreBacked
<1>1. IInv => PublishedClaimsAreBacked
  BY DEF IInv, Flow
<1>2. QED
  BY <1>1, Invariance, PTL

\* An answer leaves the graph whole only after a grounded verdict.
THEOREM CriticGate == Spec => []CriticHasTheLastWord
<1>1. IInv => CriticHasTheLastWord
  BY DEF IInv, Flow
<1>2. QED
  BY <1>1, Invariance, PTL

\* A refused or injected question is never planned, retrieved or synthesized.
THEOREM GuardGate == Spec => []RefusedQuestionsGoNowhere
<1>1. IInv => RefusedQuestionsGoNowhere
  BY DEF IInv, Flow
<1>2. QED
  BY <1>1, Invariance, PTL

\* Retrieval never runs a plan made for another question.
THEOREM PlansAreFresh == Spec => []PlanMatchesQuestion
<1>1. IInv => PlanMatchesQuestion
  BY DEF IInv, Flow
<1>2. QED
  BY <1>1, Invariance, PTL

\* For every budget of the loops a run ends within LongestPath super-steps,
\* so a recursion limit that covers that path never fires.
THEOREM LoopsAreBounded == Spec => []RecursionLimitNeverFires
<1>1. IInv => RecursionLimitNeverFires
  BY BoundsAssumption
     DEF IInv, TypeOK, Budgets, Remaining, RecursionLimitNeverFires, LongestPath
<1>2. QED
  BY <1>1, Invariance, PTL

-----------------------------------------------------------------------------
(* The rewrite rescues the first pass only.                                *)

\* Before the critic sends the run back there is no draft until synthesis,
\* and the reformulate edge is only due after a retrieval that found nothing.
FirstPass ==
  /\ node \in {"planner", "retrieve", "reformulate", "rerank", "synthesize"}
       /\ criticReretrievals = 0 => envelope = NoEnvelope
  /\ node = "reformulate" => candidates = {} /\ criticReretrievals = 0

LEMMA FirstPassInvariance == Spec => []FirstPass
<1>1. Init => FirstPass
  BY DEF Init, FirstPass
<1>2. IInv /\ FirstPass /\ [Next]_vars => FirstPass'
  <2> SUFFICES ASSUME IInv, FirstPass, [Next]_vars
               PROVE  FirstPass'
    OBVIOUS
  <2> USE DEF FirstPass
  <2>0. TypeOK /\ Budgets
    BY DEF IInv
  <2>1. CASE Guard
    <3>1. envelope = NoEnvelope
      BY <2>1 DEF Guard, IInv, Flow, GuardFirst
    <3>2. node' = RouteAfterGuard(envelope')
      BY <2>0, <2>1, NoOverrun DEF Guard, AgentNodes
    <3>3. node' \in {"planner", "END"} /\ (node' = "planner" => envelope' = NoEnvelope)
      BY <3>2 DEF RouteAfterGuard
    <3>4. QED
      BY <3>3
  <2>2. CASE Planner
    BY <2>0, <2>2, NoOverrun DEF Planner, AgentNodes
  <2>3. CASE Retrieve
    <3>1. node' = RouteAfterRetrieve(candidates')
      BY <2>0, <2>3, NoOverrun DEF Retrieve, AgentNodes
    <3>2. /\ node' \in {"reformulate", "rerank"}
          /\ node' = "reformulate" => candidates' = {} /\ criticReretrievals = 0
      BY <3>1 DEF RouteAfterRetrieve
    <3>3. QED
      BY <2>3, <3>2 DEF Retrieve
  <2>4. CASE Reformulate
    BY <2>0, <2>4, NoOverrun DEF Reformulate, AgentNodes
  <2>5. CASE Rerank
    BY <2>0, <2>5, NoOverrun DEF Rerank, AgentNodes, channels
  <2>6. CASE Synthesize
    BY <2>0, <2>6, NoOverrun DEF Synthesize, AgentNodes
  <2>7. CASE Critic
    <3>1. node' = RouteAfterCritic(criticDecision')
      BY <2>0, <2>7, NoOverrun DEF Critic, AgentNodes
    <3>2. QED
      BY <3>1 DEF RouteAfterCritic
  <2>8. CASE BumpCriticReretrieval
    <3>1. node' = "planner" /\ criticReretrievals' # 0
      BY <2>0, <2>8, NoOverrun DEF BumpCriticReretrieval, AgentNodes, TypeOK
    <3>2. QED
      BY <3>1
  <2>9. CASE Degrade
    BY <2>9 DEF Degrade, Proceed
  <2>10. CASE Reject
    BY <2>10 DEF Reject
  <2>11. CASE UNCHANGED vars
    BY <2>11 DEF vars, channels
  <2>12. QED
    BY <2>1, <2>2, <2>3, <2>4, <2>5, <2>6, <2>7, <2>8, <2>9, <2>10, <2>11 DEF Next, Done
<1>3. QED
  BY <1>1, <1>2, Invariance, PTL DEF Spec

\* A question is rewritten only when the first retrieval found nothing.
THEOREM RewriteIsARescue == Spec => ReformulationRescuesFirstPass
<1>1. FirstPass /\ [Next]_vars =>
        [reformulations' # reformulations =>
           candidates = {} /\ envelope = NoEnvelope /\ criticReretrievals = 0]_vars
  BY DEF FirstPass, Next, Done, Guard, Planner, Retrieve, Reformulate, Rerank, Synthesize,
         Critic, BumpCriticReretrieval, Degrade, Reject, vars, channels
<1>2. QED
  BY <1>1, FirstPassInvariance, PTL DEF Spec, ReformulationRescuesFirstPass

-----------------------------------------------------------------------------
(* The graph implements the promise of AnswerGate.                         *)

LEMMA GateInit == Init => Gate!Init
  BY DEF Init, Gate!Init, Outcome, Published, NoCriticDecision

\* While the run is open, whatever a step does to the candidates and to the
\* critic's verdict is a Gather.
LEMMA GatherStep ==
  ASSUME TypeOK, TypeOK', node \in AgentNodes, node' \in AgentNodes
  PROVE  Gate!Gather
<1>1. Outcome = "open" /\ Outcome' = "open" /\ Published' = {}
  BY DEF Outcome, Published, AgentNodes
<1>2. candidates' \in SUBSET Paths /\ criticDecision'.ungroundedClaims \in SUBSET Texts
  BY DEF TypeOK, CriticDecision
<1>3. QED
  BY <1>1, <1>2 DEF Gate!Gather

LEMMA GateNext == IInv /\ IInv' /\ [Next]_vars => [Gate!Next]_Gate!gateVars
<1> SUFFICES ASSUME IInv, IInv', [Next]_vars
             PROVE  [Gate!Next]_Gate!gateVars
  OBVIOUS
<1>0. TypeOK /\ Budgets /\ Flow /\ TypeOK' /\ Budgets' /\ Flow'
  BY DEF IInv
<1>1. ASSUME node \in AgentNodes, node' \in AgentNodes
      PROVE  Gate!Next
  BY <1>0, <1>1, GatherStep DEF Gate!Next
<1>2. CASE Guard
  <2>1. node' \in {"planner", "END"} /\ candidates' = candidates /\ candidates = {}
        /\ criticDecision' = criticDecision
    <3>1. PICK next : Proceed(next) /\ next \in {"planner", "END"}
      BY <1>2 DEF Guard, RouteAfterGuard
    <3>2. QED
      BY <1>0, <1>2, <3>1, NoOverrun DEF Guard, AgentNodes, Flow, GuardFirst
  <2>2. CASE node' = "planner"
    BY <1>1, <1>2, <2>2 DEF Guard, AgentNodes
  <2>3. CASE node' = "END"
    <3>1. guardDecision'.verdict # "pass"
      <4>1. PICK decision \in GuardDecision :
              /\ guardDecision' = EffectiveVerdict(decision)
              /\ envelope' = IF EffectiveVerdict(decision).verdict = "pass" THEN envelope
                             ELSE RefusalEnvelope(EffectiveVerdict(decision).verdict)
              /\ Proceed(RouteAfterGuard(envelope'))
        BY <1>2 DEF Guard
      <4>2. node' = RouteAfterGuard(envelope') /\ envelope = NoEnvelope
        BY <1>0, <1>2, <4>1, NoOverrun DEF Guard, AgentNodes, Flow, GuardFirst
      <4>3. QED
        BY <2>3, <4>1, <4>2 DEF RouteAfterGuard
    <3>2. guardDecision'.verdict \in Refusals
      BY <1>0, <2>3, <3>1 DEF Flow, GuardFirst
    <3>3. envelope'.claims = {}
      BY <1>0, <3>2 DEF Flow, RefusedQuestionsGoNowhere
    <3>4. Outcome = "open" /\ Outcome' = "refused" /\ Published' = {}
      BY <1>2, <2>3, <3>1, <3>3 DEF Guard, Outcome, Published
    <3>5. Gate!Refuse
      BY <2>1, <3>4 DEF Gate!Refuse
    <3>6. QED
      BY <3>5 DEF Gate!Next
  <2>4. QED
    BY <2>1, <2>2, <2>3
<1>3. CASE Planner
  BY <1>0, <1>1, <1>3, NoOverrun DEF Planner, AgentNodes
<1>4. CASE Retrieve
  BY <1>0, <1>1, <1>4, NoOverrun DEF Retrieve, RouteAfterRetrieve, AgentNodes
<1>5. CASE Reformulate
  BY <1>0, <1>1, <1>5, NoOverrun DEF Reformulate, AgentNodes
<1>6. CASE Rerank
  BY <1>0, <1>1, <1>6, NoOverrun DEF Rerank, AgentNodes
<1>7. CASE Synthesize
  BY <1>0, <1>1, <1>7, NoOverrun DEF Synthesize, AgentNodes
<1>8. CASE Critic
  <2>1. node' = RouteAfterCritic(criticDecision')
    BY <1>0, <1>8, NoOverrun DEF Critic, AgentNodes
  <2>2. CASE node' # "END"
    BY <1>1, <1>8, <2>1, <2>2 DEF Critic, RouteAfterCritic, AgentNodes
  <2>3. CASE node' = "END"
    <3>1. guardDecision'.verdict = "pass" /\ ~degraded'
      BY <1>0, <1>8 DEF Critic, Flow, GuardFirst, Verdict, Working, AgentNodes
    <3>2. Outcome = "open" /\ Outcome' = "answered" /\ Published' = envelope'.claims
      BY <1>8, <2>3, <3>1 DEF Critic, Outcome, Published
    <3>3. candidates' = candidates /\ envelope' = envelope /\ envelope \in Envelope
      BY <1>0, <1>8 DEF Critic, Flow, DraftIsClamped
    <3>4. envelope'.claims \in SUBSET {c \in Gate!Claim : Gate!Backed(c, candidates)}
      BY <1>0, <2>3, <3>3
         DEF Flow, PublishedClaimsAreBacked, Envelope, Claim, Gate!Claim, Gate!Backed
    <3>5. criticDecision'.ungroundedClaims \in SUBSET Texts
      BY <1>0 DEF TypeOK, CriticDecision
    <3>6. Gate!Answer
      BY <3>2, <3>3, <3>4, <3>5 DEF Gate!Answer
    <3>7. QED
      BY <3>6 DEF Gate!Next
  <2>4. QED
    BY <2>2, <2>3
<1>9. CASE BumpCriticReretrieval
  BY <1>0, <1>1, <1>9, NoOverrun DEF BumpCriticReretrieval, AgentNodes
<1>10. CASE Degrade
  <2> DEFINE kept == Keep(envelope.claims, criticDecision.ungroundedClaims)
  <2>1. node' = "END" /\ degraded' = TRUE
    BY <1>10 DEF Degrade, Proceed
  <2>2. guardDecision'.verdict = "pass"
    BY <1>0, <1>10 DEF Degrade, Flow, GuardFirst, Working, AgentNodes
  <2>3. Outcome = "open" /\ Outcome' = "degraded" /\ Published' = envelope'.claims
    BY <1>10, <2>1, <2>2 DEF Degrade, Outcome, Published
  <2>4. candidates' = candidates /\ criticDecision' = criticDecision /\ envelope \in Envelope
    BY <1>0, <1>10 DEF Degrade, Flow, DraftIsClamped
  <2>5. envelope'.claims = kept
    BY <1>10, <2>4 DEF Degrade, Envelope
  <2>6. \A c \in kept : c \in Claim /\ c.text \notin criticDecision.ungroundedClaims
    BY <2>4 DEF Keep, Envelope
  <2>7. envelope'.claims \in SUBSET {c \in Gate!Claim :
          Gate!Backed(c, candidates) /\ c.text \notin criticDecision.ungroundedClaims}
    BY <1>0, <2>1, <2>4, <2>5, <2>6
       DEF Flow, PublishedClaimsAreBacked, Claim, Gate!Claim, Gate!Backed
  <2>8. Gate!Degrade
    BY <2>3, <2>4, <2>7 DEF Gate!Degrade
  <2>9. QED
    BY <2>8 DEF Gate!Next
<1>11. CASE Reject
  <2>1. node' = "failed" /\ node \in AgentNodes /\ UNCHANGED channels
    BY <1>11 DEF Reject, Awaiting, AgentNodes
  <2>2. Outcome = "open" /\ Outcome' = "failed" /\ Published' = {}
    BY <2>1 DEF Outcome, Published, AgentNodes
  <2>3. Gate!Fail
    BY <2>1, <2>2 DEF Gate!Fail, channels
  <2>4. QED
    BY <2>3 DEF Gate!Next
<1>12. CASE UNCHANGED vars
  <2>1. Outcome' = Outcome /\ Published' = Published
    BY <1>12 DEF vars, channels, Outcome, Published
  <2>2. QED
    BY <1>12, <2>1 DEF vars, channels, Gate!gateVars
<1>13. QED
  BY <1>2, <1>3, <1>4, <1>5, <1>6, <1>7, <1>8, <1>9, <1>10, <1>11, <1>12 DEF Next, Done

\* The detailed graph implements the promise: Spec => Gate!Spec.
THEOREM Refinement == Spec => ImplementsAnswerGate
  BY GateInit, GateNext, Invariance, PTL DEF Spec, Gate!Spec, ImplementsAnswerGate

-----------------------------------------------------------------------------
(* What synthesis is shown.                                                *)

\* From a retrieval to the synthesis it feeds, the attachments are those of
\* its candidates; without the enrichment access there are none at all.
Attachments ==
  /\ ~deps.enrichment => definitionAttachments = {}
  /\ node \in {"rerank", "synthesize"} =>
       definitionAttachments =
         IF deps.enrichment /\ deps.definitions THEN Attach(candidates) ELSE {}

LEMMA NextAttachments == Attachments /\ [Next]_vars => Attachments'
<1> SUFFICES ASSUME Attachments, [Next]_vars
             PROVE  Attachments'
  OBVIOUS
<1>1. ASSUME NEW next, Proceed(next)
      PROVE  deps' = deps /\ node' \in {next, "out-of-steps"}
  BY <1>1 DEF Proceed
<1>2. CASE Guard
  <2>1. PICK next : Proceed(next) /\ next \in {"planner", "END"}
    BY <1>2 DEF Guard, RouteAfterGuard
  <2>2. QED
    BY <1>1, <1>2, <2>1 DEF Guard, Attachments
<1>3. CASE Planner
  BY <1>1, <1>3 DEF Planner, Attachments
<1>4. CASE Retrieve
  <2>1. deps' = deps /\ definitionAttachments' = AttachmentsAfter(candidates')
    BY <1>1, <1>4 DEF Retrieve
  <2>2. Attach(candidates') = Attach(candidates)'
    BY DEF Attach
  <2>3. definitionAttachments' =
          IF deps.enrichment /\ deps.definitions THEN Attach(candidates)' ELSE {}
    BY <2>1, <2>2 DEF AttachmentsAfter, Attachments
  <2>4. QED
    BY <2>1, <2>3 DEF Attachments
<1>5. CASE Reformulate
  BY <1>1, <1>5 DEF Reformulate, Attachments
<1>6. CASE Rerank
  <2>1. Attach(candidates)' = Attach(candidates)
    BY <1>6 DEF Rerank, channels, Attach
  <2>2. QED
    BY <1>1, <1>6, <2>1 DEF Rerank, channels, Attachments
<1>7. CASE Synthesize
  BY <1>1, <1>7 DEF Synthesize, Attachments
<1>8. CASE Critic
  <2>1. PICK next : Proceed(next) /\ next \in {"END", "reretrieve", "degrade"}
    BY <1>8 DEF Critic, RouteAfterCritic
  <2>2. QED
    BY <1>1, <1>8, <2>1 DEF Critic, Attachments
<1>9. CASE BumpCriticReretrieval
  BY <1>1, <1>9 DEF BumpCriticReretrieval, Attachments
<1>10. CASE Degrade
  BY <1>1, <1>10 DEF Degrade, Attachments
<1>11. CASE Reject
  BY <1>11 DEF Reject, channels, Attachments
<1>12. CASE UNCHANGED vars
  <2>1. Attach(candidates)' = Attach(candidates)
    BY <1>12 DEF vars, channels, Attach
  <2>2. QED
    BY <1>12, <2>1 DEF vars, channels, Attachments
<1>13. QED
  BY <1>2, <1>3, <1>4, <1>5, <1>6, <1>7, <1>8, <1>9, <1>10, <1>11, <1>12 DEF Next, Done

\* The definitions a synthesis prompt shows are those of the candidates it
\* shows, however often the run has retrieved.
THEOREM AttachmentsAreFresh == Spec => []AttachmentsMatchCandidates
<1>1. Init => Attachments
  BY DEF Init, Attachments
<1>2. Attachments => AttachmentsMatchCandidates
  BY DEF Attachments, AttachmentsMatchCandidates
<1>3. QED
  BY <1>1, <1>2, NextAttachments, PTL DEF Spec

LEMMA NextFanOut == TypeOK /\ FanOutIsBounded /\ [Next]_vars => FanOutIsBounded'
<1> SUFFICES ASSUME TypeOK, FanOutIsBounded, [Next]_vars
             PROVE  FanOutIsBounded'
  OBVIOUS
<1>1. deps' = deps
  BY DEF Next, Guard, Planner, Retrieve, Reformulate, Rerank, Synthesize, Critic,
         BumpCriticReretrieval, Degrade, Reject, Done, Proceed, vars
<1>2. CASE Retrieve
  <2>1. PICK merged \in Retrievable(plan.hops) :
          candidates' = IF deps.enrichment /\ deps.xref THEN Expand(merged) ELSE merged
    BY <1>2 DEF Retrieve
  <2>2. Cardinality(merged) \in Nat
    BY <2>1, DataAssumption, FS_Subset, FS_CardinalityType DEF Retrievable
  <2>3. plan.hops \in Nat /\ plan.hops <= MaxHops
    BY BoundsAssumption DEF TypeOK, Plan, NoPlan
  <2>4. plan.hops * TopK <= MaxHops * TopK /\ plan.hops * TopK \in Nat /\ MaxHops * TopK \in Nat
    BY <2>3, BoundsAssumption, SMTT(30)
  <2>5. Cardinality(merged) <= plan.hops * TopK
    BY <2>1 DEF Retrievable
  <2>6. Cardinality(merged) <= MaxHops * TopK
    BY <2>2, <2>4, <2>5
  <2>7. QED
    BY <1>1, <2>1, <2>6 DEF FanOutIsBounded
<1>3. CASE UNCHANGED candidates
  BY <1>1, <1>3 DEF FanOutIsBounded
<1>4. QED
  BY <1>2, <1>3 DEF Next, Guard, Planner, Reformulate, Rerank, Synthesize, Critic,
                    BumpCriticReretrieval, Degrade, Reject, Done, vars, channels

\* Without graph expansion no synthesis sees more than MaxHops * TopK sources.
THEOREM PromptIsBounded == Spec => []FanOutIsBounded
<1>1. Init => FanOutIsBounded
  <2>1. MaxHops * TopK \in Nat
    BY BoundsAssumption
  <2>2. QED
    BY <2>1, FS_EmptySet DEF Init, FanOutIsBounded
<1>2. QED
  BY <1>1, NextFanOut, TypeCorrect, PTL DEF Spec

-----------------------------------------------------------------------------

\* What leaves the graph was drafted last and shown on the way: the half of
\* "one artifact, two consumers" (agent-run.ts:4) that the code keeps.
PublishedWasStreamed ==
  /\ TextsOf(envelope.claims) \subseteq TextsOf(rawModelOutput)
  /\ TextsOf(rawModelOutput) \subseteq streamed

\* The clamp takes cites from claims and leaves their texts.
LEMMA ClampKeepsTexts ==
  ASSUME NEW draft \in Envelope, NEW found
  PROVE  TextsOf(Clamp(draft, found).claims) = TextsOf(draft.claims)
<1> DEFINE clamped(c) == [c EXCEPT !.cites = @ \cap found]
<1>1. \A c \in draft.claims : clamped(c).text = c.text
  BY DEF Envelope, Claim
<1>2. Clamp(draft, found).claims = {clamped(c) : c \in draft.claims}
  BY DEF Clamp, Envelope
<1> HIDE DEF clamped
<1>3. \A t \in TextsOf(Clamp(draft, found).claims) : t \in TextsOf(draft.claims)
  BY <1>1, <1>2 DEF TextsOf
<1>4. \A t \in TextsOf(draft.claims) : t \in TextsOf(Clamp(draft, found).claims)
  BY <1>1, <1>2 DEF TextsOf
<1>5. QED
  BY <1>3, <1>4

LEMMA NextStreamed == TypeOK /\ PublishedWasStreamed /\ [Next]_vars => PublishedWasStreamed'
<1> SUFFICES ASSUME TypeOK, PublishedWasStreamed, [Next]_vars
             PROVE  PublishedWasStreamed'
  OBVIOUS
<1>1. CASE Guard
  <2>1. envelope' = envelope \/ envelope'.claims = {}
    BY <1>1 DEF Guard, RefusalEnvelope
  <2>2. rawModelOutput' = rawModelOutput /\ streamed' = streamed
    BY <1>1 DEF Guard
  <2>3. CASE envelope'.claims = {}
    BY <2>2, <2>3 DEF PublishedWasStreamed, TextsOf
  <2>4. QED
    BY <2>1, <2>2, <2>3 DEF PublishedWasStreamed
<1>2. CASE Synthesize
  <2>1. PICK draft \in Drafts :
          /\ envelope' = Clamp(draft, candidates) /\ rawModelOutput' = draft.claims
          /\ streamed' = streamed \cup TextsOf(draft.claims)
    BY <1>2 DEF Synthesize
  <2>2. TextsOf(envelope'.claims) = TextsOf(draft.claims)
    BY <2>1, ClampKeepsTexts, DataAssumption
  <2>3. QED
    BY <2>1, <2>2 DEF PublishedWasStreamed
<1>3. CASE Degrade
  <2>1. /\ rawModelOutput' = rawModelOutput /\ streamed' = streamed
        /\ envelope'.claims = Keep(envelope.claims, criticDecision.ungroundedClaims)
    BY <1>3 DEF Degrade, TypeOK, Envelope, NoEnvelope
  <2>2. TextsOf(envelope'.claims) \subseteq TextsOf(envelope.claims)
    BY <2>1 DEF Keep, TextsOf
  <2>3. QED
    BY <2>1, <2>2 DEF PublishedWasStreamed
<1>4. CASE Reject
  <2>1. /\ envelope' = envelope /\ rawModelOutput' = rawModelOutput
        /\ streamed \subseteq streamed'
    BY <1>4 DEF Reject, channels
  <2>2. QED
    BY <2>1 DEF PublishedWasStreamed
<1>5. CASE UNCHANGED <<envelope, rawModelOutput, streamed>>
  BY <1>5 DEF PublishedWasStreamed
<1>6. QED
  BY <1>1, <1>2, <1>3, <1>4, <1>5 DEF Next, Planner, Retrieve, Reformulate, Rerank, Critic,
     BumpCriticReretrieval, Done, vars, channels

\* Every claim of an answer, whole or degraded, is of the last draft, and its
\* reader has seen it; what StreamIsTheArtifact asks for beside is not so.
THEOREM ReadersSawWhatIsPublished == Spec => []PublishedWasStreamed
<1>1. Init => PublishedWasStreamed
  BY DEF Init, PublishedWasStreamed, NoEnvelope, TextsOf
<1>2. QED
  BY <1>1, NextStreamed, TypeCorrect, PTL DEF Spec
=============================================================================
