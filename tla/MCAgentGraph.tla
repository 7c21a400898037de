---------------------------- MODULE MCAgentGraph ----------------------------
(* A small corpus for AgentGraph: three paths of which one is only reached  *)
(* through the cross-reference sidecar, two claim texts, one defined term.  *)
EXTENDS AgentGraph

CONSTANTS p1, p2, p3, t1, t2, term

MCTexts == {t1, t2}
MCPaths == {p1, p2, p3}
MCTerms == {term}
MCCrossRefs == {<<p3, p1>>}
MCResolvable == {p1, p3}
MCMentions == {<<term, p1>>}

\* Drafts: up to one claim per text, citing nothing, one path or two; the
\* prose states the claims, or also a sentence no claim carries.
MCCites == {{}, {p1}, {p2, p3}}
MCDrafts ==
  {[behaviorClass |-> "answer", claims |-> claims, prose |-> prose] :
     claims \in {{}} \cup {{[text |-> t1, cites |-> c]} : c \in MCCites}
                     \cup {{[text |-> t1, cites |-> c], [text |-> t2, cites |-> d]} :
                             c \in MCCites, d \in MCCites},
     prose \in {{t1}, {t1, t2}}}
  \cup {[behaviorClass |-> "flag-void-clause",
         claims |-> {[text |-> t2, cites |-> {p1}]}, prose |-> {t2}]}

\* Every component off; each flag the graph itself reads on, with and without
\* the enrichment access they need.
MCDeps ==
  {[xref |-> x, definitions |-> d, reformulation |-> r, rerank |-> r, enrichment |-> e] :
     x \in BOOLEAN, d \in BOOLEAN, r \in BOOLEAN, e \in BOOLEAN}
=============================================================================
