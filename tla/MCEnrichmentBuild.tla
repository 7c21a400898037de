-------------------------- MODULE MCEnrichmentBuild --------------------------
(* Instances of EnrichmentBuild for TLC: a corpus of one document, and a  *)
(* later one where another, shorter document comes before it.              *)
EXTENDS EnrichmentBuild

Label(model, xref, context) ==
  [chunkerId |-> "hierarchy", enrichmentModel |-> model,
   promptVersions |-> [p \in RequiredPasses |->
     CASE p = "cross-references" -> xref [] p = "situating-context" -> context [] OTHER -> "v1"]]
Call(config, model, corpus) ==
  [config |-> config, chunker |-> "hierarchy", model |-> model, corpus |-> corpus]

\* Beside a first build: the same again, one prompt bumped, another model, a
\* larger corpus, a client of another model than the label's, a prompt version
\* missing.
Base == Call(Label("opus", "v1", "v1"), "opus", "old")
Beside ==
  {Base,
   Call(Label("opus", "v2", "v1"), "opus", "old"),
   Call(Label("haiku", "v1", "v1"), "haiku", "old"),
   Call(Label("opus", "v1", "v1"), "opus", "new"),
   Call(Label("opus", "v1", "v1"), "haiku", "old"),
   Call(Label("opus", "v1", Missing), "opus", "old")}
FewCalls == {[b \in Builds |-> IF b = 1 THEN Base ELSE other] : other \in Beside}

Old == <<"s1", "old">>
New == <<"s1", "new">>
Other == <<"s2", "old">>
TwoUnits == {Old, New, Other}
TreesOf == [c \in {"old", "new"} |-> IF c = "old" THEN <<"t1">> ELSE <<"t2", "t1">>]
UnitsOfTree == [t \in {"t1", "t2"} |-> IF t = "t1" THEN {Old, Other} ELSE {New}]
FindsOf == [p \in TreePasses |-> IF p = "cross-references" THEN {"x1", "x2"} ELSE {"y"}]

\* A process starts with empty caches, or with a snapshot that has a corrupt entry.
BadTreeKey == TreeCacheKey("definitions", "opus", "v1", "t1")
BadRequest ==
  [model |-> "opus", version |-> "v1", tree |-> "t1",
   facts |-> TreeFactsDigest([p \in TreePasses |-> CHOOSE f \in Finds[p] : TRUE]),
   chunk |-> [id |-> <<"hierarchy", "s2">>, unit |-> Other]]
BadChunkKey ==
  ChunkCacheKey("hierarchy", "opus", "v1", "t1", BadRequest.facts, BadRequest.chunk)
FewSeeds ==
  {[tree |-> NoTable, chunk |-> NoTable],
   [tree |-> [k \in {BadTreeKey} |-> [found |-> "y", valid |-> FALSE, of |-> BadTreeKey]],
    chunk |-> NoTable],
   [tree |-> NoTable,
    chunk |-> [k \in {BadChunkKey} |-> [context |-> Empty, of |-> BadRequest]]]}
=============================================================================
