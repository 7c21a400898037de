--------------------------- MODULE EnrichmentBuild ---------------------------
(***************************************************************************)
(* The offline enrichment build (packages/enrichment): for each document,  *)
(* three tree passes run together and then one batched call situates the   *)
(* chunks, citing what the passes found.  Builds share the two             *)
(* content-addressed caches of cache.ts: they run at once or one after the *)
(* other, over corpora, models, prompts and chunkers that change between   *)
(* them.  The model may answer anything; a call is given MaxAttempts.      *)
(* This is the contract of the library: the repository's own caller,       *)
(* enrich-cli.ts, builds once, over caches that are new and stay in        *)
(* memory, so that there nothing is shared and no second run is free.      *)
(***************************************************************************)
EXTENDS Naturals, Sequences, FiniteSets, Functions

CONSTANTS
  Builds,       \* the calls of runEnrichmentBuild
  Calls,        \* what the builds may be called with
  TreeHashes,   \* what hashTree tells apart: a document and its text
  TreeOf,       \* the trees of a corpus, document by document
  Units,        \* text-bearing citable units: their path and text
  UnitsOf,      \* the units of a tree
  Models, Versions, Chunkers, Corpora,
  Finds,        \* what each tree pass may find in a document
  Contexts,     \* the situating contexts the model may write
  Empty,        \* the context a corrupt snapshot entry may have
  Seeds,        \* cache snapshots a process may start from
  MaxAttempts   \* ENRICH_MAX_ATTEMPTS

TreePasses == {"cross-references", "definitions", "amendment-flags"}
RequiredPasses == TreePasses \cup {"situating-context"}

\* The pipeline config a build is labelled with; a prompt version may be missing.
Missing == "missing"
PipelineConfig ==
  [chunkerId : Chunkers, enrichmentModel : Models,
   promptVersions : [RequiredPasses -> Versions \cup {Missing}]]
BuildInput ==
  [config : PipelineConfig, chunker : Chunkers, model : Models, corpus : Corpora]

Path(unit) == unit[1]
\* hierarchyChunker, citableUnitChunker: one chunk per text-bearing unit, its id
\* prefixed with the strategy's.
Chunk == [id : Chunkers \X {Path(u) : u \in Units}, unit : Units]
Chunks(chunker, tree) == {[id |-> <<chunker, Path(u)>>, unit |-> u] : u \in UnitsOf[tree]}

\* What a pass or a batch was asked: the prompt names the pass and its version,
\* the content is the whole document.
TreeRequest == [pass : TreePasses, model : Models, version : Versions, tree : TreeHashes]
\* A pass's response: what it found, whether it passes the pass's validator, and
\* the request it answers.
Response == [found : UNION {Finds[p] : p \in TreePasses}, valid : BOOLEAN, of : TreeRequest]
Facts == [TreePasses \ {"amendment-flags"} -> UNION {Finds[p] : p \in TreePasses}]
ContextRequest ==
  [model : Models, version : Versions, tree : TreeHashes, facts : Facts, chunk : Chunk]
Situated == [context : Contexts \cup {Empty}, of : ContextRequest]

ASSUME BuildAssumption ==
  /\ IsFiniteSet(Builds) /\ Calls \subseteq [Builds -> BuildInput]
  /\ MaxAttempts \in Nat \ {0}
  /\ Missing \notin Versions /\ Empty \notin Contexts
  /\ TreeOf \in [Corpora -> Seq(TreeHashes) \ {<<>>}]
  /\ UnitsOf \in [TreeHashes -> SUBSET Units]
  /\ DOMAIN Finds = TreePasses

-----------------------------------------------------------------------------
\* Mutant of TreeCacheKey: the model is left out of the key.
TreeKeyWithoutModel(pass, model, version, tree) ==
  [pass |-> pass, model |-> CHOOSE m \in Models : TRUE, version |-> version, tree |-> tree]

\* treeCacheKey: a lossless array of its four parts.
TreeCacheKey(pass, model, version, tree) ==
  [pass |-> pass, model |-> model, version |-> version, tree |-> tree]

\* treeFactsDigest: the two sidecars a chunk's context may cite, not the third.
TreeFactsDigest(found) == [p \in TreePasses \ {"amendment-flags"} |-> found[p]]

\* Mutant of ChunkCacheKey: the digest of the cited facts is left out.
ChunkKeyWithoutFacts(chunker, model, version, tree, facts, chunk) ==
  <<chunker, model, version, tree, chunk>>

\* chunkCacheKey: strategy, model, prompt, document, cited facts and chunk.
ChunkCacheKey(chunker, model, version, tree, facts, chunk) ==
  <<chunker, model, version, tree, facts, chunk>>

\* A snapshot is what such a cache held: what it has under a key answers that
\* key's request, valid or not.
ASSUME SeedAssumption ==
  \A seed \in Seeds :
    /\ \A k \in DOMAIN seed.tree : seed.tree[k] \in Response /\ seed.tree[k].of = k
    /\ \A k \in DOMAIN seed.chunk :
         LET of == seed.chunk[k].of IN
         /\ of \in ContextRequest
         /\ \E chunker \in Chunkers :
              k = ChunkCacheKey(chunker, of.model, of.version, of.tree, of.facts, of.chunk)

VARIABLES
  input,      \* what each build was called with
  phase,      \* where each build is
  doc,        \* the document it works on
  found,      \* the tree passes of that document that it has answers of
  batch,      \* its batched call: the chunks it must cover, and attempts that failed
  artifact,   \* what it has made, document by document
  treeCache,  \* the stored responses of tree passes, by key
  inFlight,   \* the productions under way, by key: the attempts that failed
  chunkCache, \* the stored contexts, by key
  called,     \* the builds that called the model
  repeats     \* the builds whose input had been built when they began

vars == <<input, phase, doc, found, batch, artifact,
          treeCache, inFlight, chunkCache, called, repeats>>

Phases == {"idle", "tree", "chunk", "built", "failed"}
NoTable == [k \in {} |-> 0]
NoBatch == [chunks |-> {}, failed |-> 0]

\* The value of a key, set or replaced.
Put(table, key, value) ==
  [k \in DOMAIN table \cup {key} |-> IF k = key THEN value ELSE table[k]]
Drop(table, key) == Restrict(table, DOMAIN table \ {key})

\* The tree of the document a build is at, and what it asks and caches under.
Docs(b) == Len(TreeOf[input[b].corpus])
Tree(b) == TreeOf[input[b].corpus][doc[b]]
Version(b, pass) == input[b].config.promptVersions[pass]
RequestOf(b, pass) ==
  [pass |-> pass, model |-> input[b].model, version |-> Version(b, pass), tree |-> Tree(b)]
KeyOf(b, pass) == TreeCacheKey(pass, input[b].model, Version(b, pass), Tree(b))
\* Mutant of Waiters: only one of those who share a production is resumed.
OneWaiter(key) ==
  LET waiters == {b \in Builds : phase[b] = "tree" /\ key.pass \notin DOMAIN found[b]
                                 /\ KeyOf(b, key.pass) = key}
  IN {b \in waiters : b = CHOOSE c \in waiters : TRUE}

\* The builds that share the production of a key: the one that began it, and
\* those that joined.
Waiters(key) ==
  {b \in Builds : phase[b] = "tree" /\ key.pass \notin DOMAIN found[b] /\ KeyOf(b, key.pass) = key}

Init ==
  /\ input \in Calls
  /\ phase = [b \in Builds |-> "idle"]
  /\ doc = [b \in Builds |-> 1]
  /\ found = [b \in Builds |-> NoTable]
  /\ batch = [b \in Builds |-> NoBatch]
  /\ artifact = [b \in Builds |-> <<>>]
  /\ \E seed \in Seeds : treeCache = seed.tree /\ chunkCache = seed.chunk
  /\ inFlight = NoTable
  /\ called = {}
  /\ repeats = {}

-----------------------------------------------------------------------------
\* A build that fails returns nothing; productions it began go on without it.
Fail(B) ==
  /\ phase' = [b \in Builds |-> IF b \in B THEN "failed" ELSE phase[b]]
  /\ found' = [b \in Builds |-> IF b \in B THEN NoTable ELSE found[b]]
  /\ batch' = [b \in Builds |-> IF b \in B THEN NoBatch ELSE batch[b]]
  /\ artifact' = [b \in Builds |-> IF b \in B THEN <<>> ELSE artifact[b]]

\* Mutant of Misses: the store is not looked at.
MissesOfSlots(b, d) ==
  {p \in TreePasses : TreeCacheKey(p, input[b].model, Version(b, p),
                                   TreeOf[input[b].corpus][d]) \notin DOMAIN inFlight}

\* getOrCompute: a pass that is neither stored nor under way calls the model.
Misses(b, d) ==
  {p \in TreePasses : TreeCacheKey(p, input[b].model, Version(b, p),
                                   TreeOf[input[b].corpus][d])
                        \notin DOMAIN treeCache \cup DOMAIN inFlight}

\* enrichTree up to its await: the three passes of a document start together.
OpenDocument(b, d) ==
  LET Request(p) == [pass |-> p, model |-> input[b].model, version |-> Version(b, p),
                     tree |-> TreeOf[input[b].corpus][d]]
      Key(p) == TreeCacheKey(p, input[b].model, Version(b, p), TreeOf[input[b].corpus][d])
      new == {Key(p) : p \in Misses(b, d)}
      stored == {p \in TreePasses : Key(p) \in DOMAIN treeCache}
  IN
  /\ phase' = [phase EXCEPT ![b] = "tree"]
  /\ doc' = [doc EXCEPT ![b] = d]
  /\ found' = [found EXCEPT ![b] = [p \in stored |-> treeCache[Key(p)]]]
  /\ inFlight' = [k \in DOMAIN inFlight \cup new |->
                    IF k \in new THEN [of |-> Request(k.pass), failed |-> 0] ELSE inFlight[k]]
  /\ called' = IF new = {} THEN called ELSE called \cup {b}

\* Mutant of Coherent: the client's model is not compared with the label.
CoherentChunker(i) ==
  /\ i.chunker = i.config.chunkerId
  /\ \A p \in RequiredPasses : i.config.promptVersions[p] # Missing

\* assertCoherentDependencies, assertPromptVersions.
Coherent(i) ==
  /\ i.chunker = i.config.chunkerId
  /\ i.model = i.config.enrichmentModel
  /\ \A p \in RequiredPasses : i.config.promptVersions[p] # Missing

\* runEnrichmentBuild up to its first await.
Begin(b) ==
  /\ phase[b] = "idle"
  /\ repeats' = IF \E c \in Builds : phase[c] = "built" /\ input[c] = input[b]
                  THEN repeats \cup {b} ELSE repeats
  /\ UNCHANGED <<input, treeCache, chunkCache>>
  /\ \/ /\ Coherent(input[b])
        /\ OpenDocument(b, 1)
        /\ UNCHANGED <<batch, artifact>>
     \/ /\ ~Coherent(input[b])
        /\ Fail({b})
        /\ UNCHANGED <<doc, inFlight, called>>

\* The production of a key ends without a value: nothing is stored, the slot is
\* cleared, and everyone who shared it rejects.
Abandon(key) ==
  /\ inFlight' = Drop(inFlight, key)
  /\ Fail(Waiters(key))

\* Mutant of CallFails: an attempt too many.
OneAttemptMore(key) ==
  /\ \/ /\ inFlight[key].failed < MaxAttempts
        /\ inFlight' = [inFlight EXCEPT ![key].failed = @ + 1]
        /\ UNCHANGED <<phase, found, batch, artifact>>
     \/ /\ inFlight[key].failed = MaxAttempts
        /\ Abandon(key)
  /\ UNCHANGED <<input, doc, treeCache, chunkCache, called, repeats>>

\* A call times out and is killed, or its envelope is an error: it is made
\* again, up to MaxAttempts times.
CallFails(key) ==
  /\ \/ /\ inFlight[key].failed + 1 < MaxAttempts
        /\ inFlight' = [inFlight EXCEPT ![key].failed = @ + 1]
        /\ UNCHANGED <<phase, found, batch, artifact>>
     \/ /\ inFlight[key].failed + 1 = MaxAttempts
        /\ Abandon(key)
  /\ UNCHANGED <<input, doc, treeCache, chunkCache, called, repeats>>

\* Mutant of CallAnswers: the slot is cleared on failure alone.
AnswerKeepsSlot(key) ==
  \E what \in Finds[inFlight[key].of.pass] :
    LET response == [found |-> what, valid |-> TRUE, of |-> inFlight[key].of]
        waiters == Waiters(key)
    IN
    /\ treeCache' = Put(treeCache, key, response)
    /\ found' = [b \in Builds |-> IF b \in waiters THEN Put(found[b], key.pass, response)
                                  ELSE found[b]]
    /\ UNCHANGED <<input, phase, doc, batch, artifact, chunkCache, inFlight, called, repeats>>

\* A valid response is stored and every build that shares the call gets it.
CallAnswers(key) ==
  \E what \in Finds[inFlight[key].of.pass] :
    LET response == [found |-> what, valid |-> TRUE, of |-> inFlight[key].of]
        waiters == Waiters(key)
    IN
    /\ treeCache' = Put(treeCache, key, response)
    /\ inFlight' = Drop(inFlight, key)
    /\ found' = [b \in Builds |-> IF b \in waiters THEN Put(found[b], key.pass, response)
                                  ELSE found[b]]
    /\ UNCHANGED <<input, phase, doc, batch, artifact, chunkCache, called, repeats>>

\* Mutant of CallMisleads: the response is stored before it is validated.
StoreThenValidate(key) ==
  \E what \in Finds[inFlight[key].of.pass] :
    /\ treeCache' = Put(treeCache, key, [found |-> what, valid |-> FALSE, of |-> inFlight[key].of])
    /\ Abandon(key)
    /\ UNCHANGED <<input, doc, chunkCache, called, repeats>>

\* A response that is malformed or names an unknown path throws in the producer.
CallMisleads(key) ==
  /\ Abandon(key)
  /\ UNCHANGED <<input, doc, treeCache, chunkCache, called, repeats>>

-----------------------------------------------------------------------------
FactsOf(b) == TreeFactsDigest([p \in TreePasses |-> found[b][p].found])
ChunksOf(b) == Chunks(input[b].chunker, Tree(b))
ContextRequestOf(b, c) ==
  [model |-> input[b].model, version |-> Version(b, "situating-context"), tree |-> Tree(b),
   facts |-> FactsOf(b), chunk |-> c]
ChunkKeyOf(b, c) ==
  ChunkCacheKey(input[b].chunker, input[b].model, Version(b, "situating-context"), Tree(b),
                FactsOf(b), c)

\* enrichTree after its await, enrichChunks up to its own: the responses are
\* parsed again, which catches a bad snapshot, and one call takes what no
\* snapshot of the cache has.
CloseTree(b) ==
  /\ phase[b] = "tree" /\ DOMAIN found[b] = TreePasses
  /\ UNCHANGED <<input, doc, inFlight, treeCache, chunkCache, repeats>>
  /\ \/ /\ \A p \in TreePasses : found[b][p].valid
        /\ LET missing == {c \in ChunksOf(b) : ChunkKeyOf(b, c) \notin DOMAIN chunkCache} IN
           /\ batch' = [batch EXCEPT ![b] = [chunks |-> missing, failed |-> 0]]
           /\ called' = IF missing = {} THEN called ELSE called \cup {b}
        /\ phase' = [phase EXCEPT ![b] = "chunk"]
        /\ UNCHANGED <<found, artifact>>
     \/ /\ \E p \in TreePasses : ~found[b][p].valid
        /\ Fail({b})
        /\ UNCHANGED called

BatchFails(b) ==
  /\ phase[b] = "chunk" /\ batch[b].chunks # {}
  /\ \/ /\ batch[b].failed + 1 < MaxAttempts
        /\ batch' = [batch EXCEPT ![b].failed = @ + 1]
        /\ UNCHANGED <<phase, found, artifact>>
     \/ /\ batch[b].failed + 1 = MaxAttempts
        /\ Fail({b})
  /\ UNCHANGED <<input, doc, inFlight, treeCache, chunkCache, called, repeats>>

\* The batched answer is malformed, names an unknown chunk or misses one.
BatchMisleads(b) ==
  /\ phase[b] = "chunk" /\ batch[b].chunks # {}
  /\ Fail({b})
  /\ UNCHANGED <<input, doc, inFlight, treeCache, chunkCache, called, repeats>>

\* The end of a document: the next one is opened, or the build is made.
CloseDocument(b, contexts) ==
  /\ artifact' = [artifact EXCEPT ![b] = Append(@, [tree |-> found[b], contexts |-> contexts])]
  /\ batch' = [batch EXCEPT ![b] = NoBatch]
  /\ \/ /\ doc[b] < Docs(b)
        /\ OpenDocument(b, doc[b] + 1)
     \/ /\ doc[b] = Docs(b)
        /\ phase' = [phase EXCEPT ![b] = "built"]
        /\ found' = [found EXCEPT ![b] = NoTable]
        /\ UNCHANGED <<doc, inFlight, called>>

\* Mutant of ContextsAfter: what the answer has is served, whatever is stored.
FreshFirst(b, fresh) ==
  [c \in ChunksOf(b) |->
     IF c \in DOMAIN fresh THEN [context |-> fresh[c], of |-> ContextRequestOf(b, c)]
     ELSE chunkCache[ChunkKeyOf(b, c)]]

\* enrichChunks after its call: a context that is stored by now is served, and
\* what the batch brought for its chunk is dropped.
ContextsAfter(b, fresh) ==
  [c \in ChunksOf(b) |->
     IF ChunkKeyOf(b, c) \in DOMAIN chunkCache THEN chunkCache[ChunkKeyOf(b, c)]
     ELSE [context |-> fresh[c], of |-> ContextRequestOf(b, c)]]

\* Contexts are stored before any of them is found empty: an empty one can only
\* come from a snapshot.
Situate(b) ==
  /\ phase[b] = "chunk"
  /\ \E fresh \in [batch[b].chunks -> Contexts] :
     LET contexts == ContextsAfter(b, fresh)
         stored == {c \in ChunksOf(b) : ChunkKeyOf(b, c) \notin DOMAIN chunkCache}
     IN
     /\ chunkCache' = [k \in DOMAIN chunkCache \cup {ChunkKeyOf(b, c) : c \in stored} |->
                         IF k \in DOMAIN chunkCache THEN chunkCache[k]
                         ELSE contexts[CHOOSE c \in stored : ChunkKeyOf(b, c) = k]]
     /\ \/ /\ \A c \in ChunksOf(b) : contexts[c].context # Empty
           /\ CloseDocument(b, contexts)
        \/ /\ \E c \in ChunksOf(b) : contexts[c].context = Empty
           /\ Fail({b})
           /\ UNCHANGED <<doc, inFlight, called>>
  /\ UNCHANGED <<input, treeCache, repeats>>

BuildStep(b) == CloseTree(b) \/ BatchFails(b) \/ BatchMisleads(b) \/ Situate(b)
CallStep(key) == CallFails(key) \/ CallAnswers(key) \/ CallMisleads(key)
Next ==
  \/ \E b \in Builds : Begin(b) \/ BuildStep(b)
  \/ \E key \in DOMAIN inFlight : CallStep(key)

\* A call ends: claude -p is killed at its timeout and the attempts are counted.
\* What settles resumes the build that awaits it.
TreeKeys == {TreeCacheKey(p, m, v, t) : p \in TreePasses, m \in Models, v \in Versions,
                                        t \in TreeHashes}
Fairness ==
  /\ \A b \in Builds : WF_vars(BuildStep(b))
  /\ \A key \in TreeKeys : WF_vars(key \in DOMAIN inFlight /\ CallStep(key))
Spec == Init /\ [][Next]_vars /\ Fairness

-----------------------------------------------------------------------------
(* What must hold.                                                         *)

TypeOK ==
  /\ input \in Calls
  /\ phase \in [Builds -> Phases]
  /\ DOMAIN doc = Builds
  /\ \A b \in Builds :
       /\ doc[b] \in 1..Docs(b)
       /\ DOMAIN found[b] \subseteq TreePasses /\ \A p \in DOMAIN found[b] : found[b][p] \in Response
       /\ batch[b].chunks \subseteq Chunk /\ batch[b].failed \in 0..(MaxAttempts - 1)
       /\ Len(artifact[b]) \in 0..Docs(b)
  /\ DOMAIN treeCache \subseteq TreeKeys /\ DOMAIN inFlight \subseteq TreeKeys
  /\ \A k \in DOMAIN treeCache : treeCache[k] \in Response
  /\ \A k \in DOMAIN inFlight : inFlight[k].failed \in 0..(MaxAttempts - 1)
  /\ called \subseteq Builds /\ repeats \subseteq Builds

\* What a build ships is what its label says: each sidecar answers the prompt
\* version, model and document text of its own label and corpus, whoever made
\* the call and wherever the caches came from (assertCoherentDependencies,
\* treeCacheKey).
SidecarsMatchTheirLabel ==
  \A b \in Builds : \A d \in DOMAIN artifact[b] : \A p \in TreePasses :
    artifact[b][d].tree[p].of =
      [pass |-> p, model |-> input[b].config.enrichmentModel,
       version |-> input[b].config.promptVersions[p], tree |-> TreeOf[input[b].corpus][d]]

\* A chunk's context was written for that chunk of that document, and cites the
\* very definitions and cross-references it is shipped with (treeFactsDigest).
ContextsCiteTheirFacts ==
  \A b \in Builds : \A d \in DOMAIN artifact[b] :
    LET made == artifact[b][d] IN
    \A c \in DOMAIN made.contexts :
      made.contexts[c].of =
        [model |-> input[b].config.enrichmentModel,
         version |-> input[b].config.promptVersions["situating-context"],
         tree |-> TreeOf[input[b].corpus][d],
         facts |-> TreeFactsDigest([p \in TreePasses |-> made.tree[p].found]), chunk |-> c]

\* A build called with what was built before, over the same caches, costs nothing:
\* it calls no model and cannot fail (cache.ts, the 100% hits a re-run must have).
\* Two runs of enrich-cli.ts share no cache, so it does not speak of them.
RerunsAreFree == \A b \in repeats : b \notin called /\ phase[b] # "failed"

\* Builds of the same input that share the caches ship the same sidecars, in
\* whatever order their calls were answered: what is stored first is what both
\* serve (getOrCompute after the batch).
SameInputSameArtifact ==
  \A b, c \in Builds :
    phase[b] = "built" /\ phase[c] = "built" /\ input[b] = input[c] => artifact[b] = artifact[c]

\* A response that fails validation reaches neither the cache nor an artifact:
\* the next build asks again (runPass).  What is bad in the cache was in the
\* snapshot, as it is, and is never shipped.
NothingUnvalidatedIsKept ==
  /\ \A b \in Builds : \A d \in DOMAIN artifact[b] :
       \A p \in TreePasses : artifact[b][d].tree[p].valid
  /\ \E seed \in Seeds :
       \A k \in DOMAIN treeCache :
         treeCache[k].valid \/ (k \in DOMAIN seed.tree /\ treeCache[k] = seed.tree[k])

Once == INSTANCE OncePerKey WITH
  Keys <- TreeKeys, Values <- Response, entries <- treeCache, pending <- DOMAIN inFlight

\* Concurrent builds never produce a key twice, never replace a stored response,
\* and leave no trace of a failed one (createMemoryCache).
ImplementsOncePerKey == Once!Spec

\* Every build that began ends, also one that joined a call another build began
\* and that failed.
EveryBuildEnds == \A b \in Builds : phase[b] # "idle" ~> phase[b] \in {"built", "failed"}
=============================================================================
