---------------------------- MODULE MCCorpusStore ----------------------------
(* An instance of CorpusStore for TLC: one statute, one fixture and three  *)
(* commits beside the first: the fixture is edited; the manifest's pin     *)
(* changes; the enrichment prompts change.                                 *)
EXTENDS CorpusStore

Commit(pin, fixture, naive, enrichment) ==
  [pins |-> [d \in {"rta"} |-> pin], fixtures |-> [d \in {"lease"} |-> fixture],
   naive |-> naive, enrichment |-> enrichment]

Main == Commit("old", "old", "citable-unit", "prompts-1")
FewCheckouts ==
  {Main, Commit("old", "new", "citable-unit", "prompts-1"),
   Commit("new", "old", "citable-unit", "prompts-1"),
   Commit("old", "old", "citable-unit", "prompts-2")}

OneIndex == [c \in {"citable-unit", "hierarchy-v1"} |-> "vector_voyage_law_2"]
=============================================================================
