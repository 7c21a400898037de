------------------------ MODULE EnrichmentBuild_proofs ------------------------
(***************************************************************************)
(* Theorems about EnrichmentBuild, for every number of builds, whatever    *)
(* they are called with and whatever the model answers.                    *)
(*                                                                         *)
(* One fact carries them all: everything a build holds or has made is a    *)
(* function of its input and of the two caches, which only grow.  Builds   *)
(* of the same input then make the same artifact, a build of an input that *)
(* was built before finds every key, and what is shipped answers the       *)
(* request that its key spells out.                                        *)
(***************************************************************************)
EXTENDS EnrichmentBuild, TLAPS

-----------------------------------------------------------------------------
(* What an input i and the caches, T of responses and C of contexts,       *)
(* determine of its d-th document.                                         *)

\* The request for a document's pass, which is also its cache key.
Ask(i, d, p) ==
  [pass |-> p, model |-> i.model, version |-> i.config.promptVersions[p],
   tree |-> TreeOf[i.corpus][d]]

Sidecars(T, i, d) == [p \in TreePasses |-> T[Ask(i, d, p)]]
FactsAt(T, i, d) == TreeFactsDigest([p \in TreePasses |-> Sidecars(T, i, d)[p].found])
ChunksAt(i, d) == Chunks(i.chunker, TreeOf[i.corpus][d])
ChunkKeyAt(T, i, d, c) ==
  ChunkCacheKey(i.chunker, i.model, i.config.promptVersions["situating-context"],
                TreeOf[i.corpus][d], FactsAt(T, i, d), c)
ContextsAt(T, C, i, d) == [c \in ChunksAt(i, d) |-> C[ChunkKeyAt(T, i, d, c)]]
Made(T, C, i, d) == [tree |-> Sidecars(T, i, d), contexts |-> ContextsAt(T, C, i, d)]

\* The caches have all of a document, and it is sound.
Passed(T, i, d) ==
  \A p \in TreePasses : Ask(i, d, p) \in DOMAIN T /\ T[Ask(i, d, p)].valid
Situable(T, C, i, d) ==
  \A c \in ChunksAt(i, d) : /\ ChunkKeyAt(T, i, d, c) \in DOMAIN C
                            /\ C[ChunkKeyAt(T, i, d, c)].context # Empty
Kept(T, C, i, d) == Passed(T, i, d) /\ Situable(T, C, i, d)

-----------------------------------------------------------------------------
(* The invariant.  A build is called with i, is in phase ph at document n, *)
(* has the responses f, the batch x, and has made a.                       *)

DocsOf(i) == Len(TreeOf[i.corpus])
Done(i, ph, n) ==
  IF ph \in {"tree", "chunk"} THEN n - 1 ELSE IF ph = "built" THEN DocsOf(i) ELSE 0

TreeOK(T, i, ph, n, f) ==
  /\ DOMAIN f \subseteq TreePasses
  /\ f = [p \in DOMAIN f |-> T[Ask(i, n, p)]]
  /\ \A p \in DOMAIN f : Ask(i, n, p) \in DOMAIN T
  /\ ph \notin {"tree", "chunk"} => DOMAIN f = {}
  /\ ph = "chunk" => DOMAIN f = TreePasses /\ Passed(T, i, n)
BatchOK(T, C, i, ph, n, x) ==
  /\ x = [chunks |-> x.chunks, failed |-> x.failed]
  /\ x.failed \in 0..(MaxAttempts - 1)
  /\ ph # "chunk" => x.chunks = {}
  /\ ph = "chunk" =>
       /\ x.chunks \subseteq ChunksAt(i, n)
       /\ \A c \in ChunksAt(i, n) : ChunkKeyAt(T, i, n, c) \notin DOMAIN C => c \in x.chunks
ArtifactOK(T, C, i, ph, n, a) ==
  /\ a = [d \in 1..Done(i, ph, n) |-> Made(T, C, i, d)]
  /\ \A d \in 1..Done(i, ph, n) : Kept(T, C, i, d)
Placed(T, C, i, ph, n, f, x, a) ==
  /\ n \in 1..DocsOf(i)
  /\ ph \in {"tree", "chunk", "built"} => Coherent(i)
  /\ TreeOK(T, i, ph, n, f)
  /\ BatchOK(T, C, i, ph, n, x)
  /\ ArtifactOK(T, C, i, ph, n, a)

\* A build whose input was built before has nothing left to ask.
Free(T, C, i, ph, f, x) ==
  /\ ph # "failed"
  /\ \A d \in 1..DocsOf(i) : Kept(T, C, i, d)
  /\ ph = "tree" => DOMAIN f = TreePasses
  /\ ph = "chunk" => x.chunks = {}

ShapeOK ==
  /\ input \in Calls /\ phase \in [Builds -> Phases]
  /\ DOMAIN doc = Builds /\ DOMAIN found = Builds /\ DOMAIN batch = Builds
  /\ DOMAIN artifact = Builds
  /\ called \subseteq Builds /\ repeats \subseteq Builds
BuildOK(b) ==
  /\ Placed(treeCache, chunkCache, input[b], phase[b], doc[b], found[b], batch[b], artifact[b])
  /\ phase[b] = "idle" => b \notin called /\ b \notin repeats
  /\ b \in repeats =>
       /\ b \notin called
       /\ Free(treeCache, chunkCache, input[b], phase[b], found[b], batch[b])
CachesOK ==
  /\ \A k \in DOMAIN treeCache : treeCache[k] \in Response /\ treeCache[k].of = k
  /\ \A k \in DOMAIN chunkCache : chunkCache[k].of =
       [model |-> k[2], version |-> k[3], tree |-> k[4], facts |-> k[5], chunk |-> k[6]]
SlotsOK ==
  /\ DOMAIN inFlight \subseteq TreeRequest
  /\ \A k \in DOMAIN inFlight :
       /\ inFlight[k] = [of |-> k, failed |-> inFlight[k].failed]
       /\ inFlight[k].failed \in 0..(MaxAttempts - 1)
  /\ DOMAIN inFlight \cap DOMAIN treeCache = {}

IInv == ShapeOK /\ CachesOK /\ SlotsOK /\ \A b \in Builds : BuildOK(b)

-----------------------------------------------------------------------------
(* The caches only grow.                                                   *)

Grows(T, U) == DOMAIN T \subseteq DOMAIN U /\ \A k \in DOMAIN T : U[k] = T[k]

\* What the caches have of a document they keep.
LEMMA PassedGrows ==
  ASSUME NEW T, NEW U, Grows(T, U), NEW i, NEW d, Passed(T, i, d)
  PROVE  Passed(U, i, d) /\ Sidecars(U, i, d) = Sidecars(T, i, d)
         /\ FactsAt(U, i, d) = FactsAt(T, i, d)
<1>1. \A p \in TreePasses : Ask(i, d, p) \in DOMAIN U /\ U[Ask(i, d, p)] = T[Ask(i, d, p)]
  BY DEF Grows, Passed
<1>2. Passed(U, i, d)
  BY <1>1 DEF Passed
<1>3. Sidecars(U, i, d) = Sidecars(T, i, d)
  BY <1>1 DEF Sidecars
<1>4. QED
  BY <1>2, <1>3 DEF FactsAt

LEMMA KeptGrows ==
  ASSUME NEW T, NEW U, Grows(T, U), NEW C, NEW D, Grows(C, D), NEW i, NEW d, Kept(T, C, i, d)
  PROVE  Kept(U, D, i, d) /\ Made(U, D, i, d) = Made(T, C, i, d)
<1>1. Passed(U, i, d) /\ Sidecars(U, i, d) = Sidecars(T, i, d)
      /\ FactsAt(U, i, d) = FactsAt(T, i, d)
  BY PassedGrows DEF Kept
<1>2. \A c \in ChunksAt(i, d) :
        /\ ChunkKeyAt(U, i, d, c) = ChunkKeyAt(T, i, d, c)
        /\ ChunkKeyAt(T, i, d, c) \in DOMAIN D
        /\ D[ChunkKeyAt(T, i, d, c)] = C[ChunkKeyAt(T, i, d, c)]
  BY <1>1 DEF ChunkKeyAt, Kept, Situable, Grows
<1>3. Situable(U, D, i, d)
  BY <1>2 DEF Kept, Situable
<1>4. ContextsAt(U, D, i, d) = ContextsAt(T, C, i, d)
  BY <1>2 DEF ContextsAt
<1>5. QED
  BY <1>1, <1>3, <1>4 DEF Kept, Made

LEMMA ArtifactGrows ==
  ASSUME NEW T, NEW U, Grows(T, U), NEW C, NEW D, Grows(C, D), NEW i, NEW ph, NEW n, NEW a,
         ArtifactOK(T, C, i, ph, n, a)
  PROVE  ArtifactOK(U, D, i, ph, n, a)
<1> DEFINE m == Done(i, ph, n)
<1>1. a = [d \in 1..m |-> Made(T, C, i, d)] /\ \A d \in 1..m : Kept(T, C, i, d)
  BY DEF ArtifactOK
<1> HIDE DEF m
<1>2. \A d \in 1..m : Kept(U, D, i, d) /\ Made(U, D, i, d) = Made(T, C, i, d)
  BY <1>1, KeptGrows
<1>3. a = [d \in 1..m |-> Made(U, D, i, d)]
  BY <1>1, <1>2
<1>4. QED
  BY <1>2, <1>3 DEF ArtifactOK, m

\* A build that takes no step stays in its place, whatever the others store.
LEMMA PlacedGrows ==
  ASSUME NEW T, NEW U, Grows(T, U), NEW C, NEW D, Grows(C, D),
         NEW i, NEW ph, NEW n, NEW f, NEW x, NEW a, Placed(T, C, i, ph, n, f, x, a)
  PROVE  /\ Placed(U, D, i, ph, n, f, x, a)
         /\ Free(T, C, i, ph, f, x) => Free(U, D, i, ph, f, x)
<1>1. TreeOK(U, i, ph, n, f)
  <2>1. \A p \in DOMAIN f : Ask(i, n, p) \in DOMAIN U /\ U[Ask(i, n, p)] = T[Ask(i, n, p)]
    BY DEF Placed, TreeOK, Grows
  <2>2. f = [p \in DOMAIN f |-> U[Ask(i, n, p)]]
    <3>1. f = [p \in DOMAIN f |-> T[Ask(i, n, p)]]
      BY DEF Placed, TreeOK
    <3> DEFINE S == DOMAIN f
    <3>2. [p \in S |-> T[Ask(i, n, p)]] = [p \in S |-> U[Ask(i, n, p)]]
      BY <2>1
    <3> HIDE DEF S
    <3>3. QED
      BY <3>1, <3>2 DEF S
  <2>3. ph = "chunk" => Passed(U, i, n)
    BY PassedGrows DEF Placed, TreeOK
  <2>4. QED
    BY <2>1, <2>2, <2>3 DEF Placed, TreeOK
<1>2. BatchOK(U, D, i, ph, n, x)
  <2>1. CASE ph # "chunk"
    BY <2>1 DEF Placed, BatchOK
  <2>2. CASE ph = "chunk"
    <3>1. FactsAt(U, i, n) = FactsAt(T, i, n)
      BY <2>2, PassedGrows DEF Placed, TreeOK
    <3>2. \A c \in ChunksAt(i, n) : ChunkKeyAt(U, i, n, c) = ChunkKeyAt(T, i, n, c)
      BY <3>1 DEF ChunkKeyAt
    <3>3. QED
      BY <2>2, <3>2 DEF Placed, BatchOK, Grows
  <2>3. QED
    BY <2>1, <2>2
<1>3. ArtifactOK(U, D, i, ph, n, a)
  BY ArtifactGrows DEF Placed
<1>4. Free(T, C, i, ph, f, x) => Free(U, D, i, ph, f, x)
  <2>1. Free(T, C, i, ph, f, x) => \A d \in 1..DocsOf(i) : Kept(U, D, i, d)
    BY KeptGrows DEF Free
  <2>2. QED
    BY <2>1 DEF Free
<1>5. QED
  BY <1>1, <1>2, <1>3, <1>4 DEF Placed

-----------------------------------------------------------------------------
(* The pieces of the steps.                                                *)

LEMMA CallTypes ==
  ASSUME input \in Calls, NEW b \in Builds
  PROVE  /\ input[b].model \in Models /\ input[b].chunker \in Chunkers /\ input[b].corpus \in Corpora
         /\ DocsOf(input[b]) \in Nat \ {0} /\ Docs(b) = DocsOf(input[b])
         /\ \A d \in 1..DocsOf(input[b]) : TreeOf[input[b].corpus][d] \in TreeHashes
         /\ Coherent(input[b]) =>
              \A d \in 1..DocsOf(input[b]), p \in TreePasses : Ask(input[b], d, p) \in TreeRequest
<1>1. input[b] \in BuildInput
  BY BuildAssumption
<1>2. TreeOf[input[b].corpus] \in Seq(TreeHashes) /\ TreeOf[input[b].corpus] # <<>>
  BY <1>1, BuildAssumption DEF BuildInput
<1>3. \A d \in 1..DocsOf(input[b]) : TreeOf[input[b].corpus][d] \in TreeHashes
  BY <1>2 DEF DocsOf
<1>4. DocsOf(input[b]) \in Nat \ {0}
  BY <1>2 DEF DocsOf
<1>5. ASSUME Coherent(input[b]), NEW d \in 1..DocsOf(input[b]), NEW p \in TreePasses
      PROVE  Ask(input[b], d, p) \in TreeRequest
  <2>1. p \in RequiredPasses /\ input[b].config.promptVersions[p] # Missing
    BY <1>5 DEF Coherent, RequiredPasses
  <2>2. input[b].config.promptVersions[p] \in Versions
    BY <1>1, <2>1 DEF BuildInput, PipelineConfig
  <2>3. QED
    BY <1>1, <1>3, <2>2 DEF Ask, TreeRequest, BuildInput
<1>6. QED
  BY <1>1, <1>3, <1>4, <1>5 DEF BuildInput, Docs, DocsOf

\* A build that failed holds nothing.
LEMMA FailedPlaced ==
  ASSUME NEW T, NEW C, NEW i, NEW n \in 1..DocsOf(i)
  PROVE  Placed(T, C, i, "failed", n, NoTable, NoBatch, <<>>)
<1>1. TreeOK(T, i, "failed", n, NoTable)
  BY DEF TreeOK, NoTable
<1>2. BatchOK(T, C, i, "failed", n, NoBatch)
  BY BuildAssumption DEF BatchOK, NoBatch
<1>3. ArtifactOK(T, C, i, "failed", n, <<>>)
  <2>1. Done(i, "failed", n) = 0
    BY DEF Done
  <2>2. <<>> = [d \in 1..0 |-> Made(T, C, i, d)]
    OBVIOUS
  <2>3. QED
    BY <2>1, <2>2 DEF ArtifactOK
<1>4. QED
  BY <1>1, <1>2, <1>3 DEF Placed

\* The builds that a step leaves alone need nothing but that the caches grow.
Untouched(b) ==
  /\ phase'[b] = phase[b] /\ doc'[b] = doc[b] /\ found'[b] = found[b]
  /\ batch'[b] = batch[b] /\ artifact'[b] = artifact[b]
  /\ b \in called' <=> b \in called
  /\ b \in repeats' <=> b \in repeats

LEMMA UntouchedStays ==
  ASSUME NEW b \in Builds, BuildOK(b), Untouched(b), input' = input,
         Grows(treeCache, treeCache'), Grows(chunkCache, chunkCache')
  PROVE  BuildOK(b)'
<1>1. /\ Placed(treeCache', chunkCache', input[b], phase[b], doc[b], found[b], batch[b],
                artifact[b])
      /\ Free(treeCache, chunkCache, input[b], phase[b], found[b], batch[b]) =>
           Free(treeCache', chunkCache', input[b], phase[b], found[b], batch[b])
  BY PlacedGrows DEF BuildOK
<1>2. QED
  BY <1>1 DEF BuildOK, Untouched

\* A document is opened: what is stored is taken, what is missing goes into
\* production.
LEMMA OpenFacts ==
  ASSUME ShapeOK, SlotsOK, CachesOK, NEW b \in Builds, Coherent(input[b]),
         NEW d \in 1..DocsOf(input[b]), OpenDocument(b, d)
  PROVE  /\ phase' = [phase EXCEPT ![b] = "tree"] /\ doc' = [doc EXCEPT ![b] = d]
         /\ DOMAIN found' = Builds /\ \A c \in Builds \ {b} : found'[c] = found[c]
         /\ TreeOK(treeCache, input[b], "tree", d, found'[b])
         /\ treeCache' = treeCache => SlotsOK'
         /\ DOMAIN inFlight \subseteq DOMAIN inFlight'
         /\ \A k \in DOMAIN inFlight' \ DOMAIN inFlight : k \notin DOMAIN treeCache
         /\ called' \in {called, called \cup {b}}
         /\ Passed(treeCache, input[b], d) => called' = called /\ DOMAIN found'[b] = TreePasses
<1> DEFINE i == input[b]
           misses == {p \in TreePasses : Ask(i, d, p) \notin DOMAIN treeCache \cup DOMAIN inFlight}
           new == {Ask(i, d, p) : p \in misses}
           stored == {p \in TreePasses : Ask(i, d, p) \in DOMAIN treeCache}
<1>1. /\ phase' = [phase EXCEPT ![b] = "tree"] /\ doc' = [doc EXCEPT ![b] = d]
      /\ found' = [found EXCEPT ![b] = [p \in stored |-> treeCache[Ask(i, d, p)]]]
      /\ inFlight' = [k \in DOMAIN inFlight \cup new |->
                        IF k \in new THEN [of |-> Ask(i, d, k.pass), failed |-> 0] ELSE inFlight[k]]
      /\ called' = IF new = {} THEN called ELSE called \cup {b}
  BY DEF OpenDocument, Misses, TreeCacheKey, Version, Ask
<1>2. /\ DOMAIN found' = Builds /\ \A c \in Builds \ {b} : found'[c] = found[c]
      /\ found'[b] = [p \in stored |-> treeCache[Ask(i, d, p)]]
  BY <1>1 DEF ShapeOK
<1>3. TreeOK(treeCache, i, "tree", d, found'[b])
  BY <1>2 DEF TreeOK
<1>4. \A k \in new : k \in TreeRequest /\ k \notin DOMAIN treeCache /\ Ask(i, d, k.pass) = k
  <2>1. \A p \in TreePasses : Ask(i, d, p) \in TreeRequest /\ Ask(i, d, p).pass = p
    BY CallTypes DEF ShapeOK, Ask
  <2>2. QED
    BY <2>1
<1> HIDE DEF i, new, stored
<1>5. treeCache' = treeCache => SlotsOK'
  <2> SUFFICES ASSUME treeCache' = treeCache
               PROVE  SlotsOK'
    OBVIOUS
  <2>1. DOMAIN inFlight' = DOMAIN inFlight \cup new
    BY <1>1
  <2>2. ASSUME NEW k \in DOMAIN inFlight'
        PROVE  /\ inFlight'[k] = [of |-> k, failed |-> inFlight'[k].failed]
               /\ inFlight'[k].failed \in 0..(MaxAttempts - 1)
               /\ k \in TreeRequest /\ k \notin DOMAIN treeCache
    <3>1. CASE k \in new
      <4>1. inFlight'[k] = [of |-> k, failed |-> 0]
        BY <1>1, <1>4, <3>1
      <4>2. QED
        BY <1>4, <3>1, <4>1, BuildAssumption
    <3>2. CASE k \notin new
      <4>1. k \in DOMAIN inFlight /\ inFlight'[k] = inFlight[k]
        BY <1>1, <2>1, <3>2
      <4>2. QED
        BY <4>1 DEF SlotsOK
    <3>3. QED
      BY <3>1, <3>2
  <2>3. QED
    BY <2>2 DEF SlotsOK
<1>6. /\ DOMAIN inFlight \subseteq DOMAIN inFlight'
      /\ \A k \in DOMAIN inFlight' \ DOMAIN inFlight : k \notin DOMAIN treeCache
  BY <1>1, <1>4
<1>7. Passed(treeCache, i, d) => called' = called /\ DOMAIN found'[b] = TreePasses
  <2>1. Passed(treeCache, i, d) => new = {} /\ stored = TreePasses
    BY DEF Passed, new, stored, i
  <2>2. QED
    BY <1>1, <1>2, <2>1
<1>8. called' \in {called, called \cup {b}}
  BY <1>1
<1>9. QED
  BY <1>1, <1>2, <1>3, <1>5, <1>6, <1>7, <1>8 DEF i

-----------------------------------------------------------------------------
(* The steps.                                                              *)

LEMMA BeginStep ==
  ASSUME IInv, NEW b \in Builds, Begin(b)
  PROVE  IInv'
<1> DEFINE i == input[b]
<1>1. /\ phase[b] = "idle" /\ UNCHANGED <<input, treeCache, chunkCache>>
      /\ BuildOK(b) /\ b \notin called /\ b \notin repeats
      /\ doc[b] \in 1..DocsOf(i)
  BY DEF Begin, IInv, BuildOK, Placed
<1>2. CachesOK' /\ Grows(treeCache, treeCache') /\ Grows(chunkCache, chunkCache')
  BY <1>1 DEF IInv, CachesOK, Grows
<1>3. /\ repeats' \in {repeats, repeats \cup {b}}
      /\ b \in repeats' => \E c \in Builds : phase[c] = "built" /\ input[c] = i
  BY <1>1 DEF Begin
<1>4. b \in repeats' => Coherent(i) /\ \A d \in 1..DocsOf(i) : Kept(treeCache, chunkCache, i, d)
  <2> SUFFICES ASSUME b \in repeats'
               PROVE  Coherent(i) /\ \A d \in 1..DocsOf(i) : Kept(treeCache, chunkCache, i, d)
    OBVIOUS
  <2>1. PICK c \in Builds : phase[c] = "built" /\ input[c] = i
    BY <1>3
  <2>2. Placed(treeCache, chunkCache, i, "built", doc[c], found[c], batch[c], artifact[c])
    BY <2>1 DEF IInv, BuildOK
  <2>3. Done(i, "built", doc[c]) = DocsOf(i)
    BY DEF Done
  <2>4. QED
    BY <2>2, <2>3 DEF Placed, ArtifactOK
<1>5. DocsOf(i) \in Nat \ {0}
  BY CallTypes DEF IInv, ShapeOK
<1>6. CASE Coherent(i) /\ OpenDocument(b, 1) /\ UNCHANGED <<batch, artifact>>
  <2>1. 1 \in 1..DocsOf(i)
    BY <1>5
  <2>2. /\ phase' = [phase EXCEPT ![b] = "tree"] /\ doc' = [doc EXCEPT ![b] = 1]
        /\ DOMAIN found' = Builds /\ \A c \in Builds \ {b} : found'[c] = found[c]
        /\ TreeOK(treeCache, i, "tree", 1, found'[b])
        /\ SlotsOK'
        /\ called' \in {called, called \cup {b}}
        /\ Passed(treeCache, i, 1) => called' = called /\ DOMAIN found'[b] = TreePasses
    BY <1>1, <1>6, <2>1, OpenFacts DEF IInv
  <2>3. ShapeOK'
    BY <1>1, <1>3, <1>6, <2>2 DEF IInv, ShapeOK, Phases
  <2>4. phase'[b] = "tree" /\ doc'[b] = 1 /\ batch'[b] = batch[b] /\ artifact'[b] = artifact[b]
    BY <1>6, <2>2 DEF IInv, ShapeOK
  <2>5. \A c \in Builds \ {b} : Untouched(c)
    BY <1>3, <1>6, <2>2 DEF IInv, ShapeOK, Untouched
  <2>6. \A c \in Builds \ {b} : BuildOK(c)'
    BY <1>1, <1>2, <2>5, UntouchedStays DEF IInv
  <2>7. BatchOK(treeCache, chunkCache, i, "tree", 1, batch[b])
    BY <1>1 DEF BuildOK, Placed, BatchOK
  <2>8. ArtifactOK(treeCache, chunkCache, i, "tree", 1, artifact[b])
    <3>1. Done(i, "idle", doc[b]) = 0 /\ Done(i, "tree", 1) = 0
      BY DEF Done
    <3>2. QED
      BY <1>1, <3>1 DEF BuildOK, Placed, ArtifactOK
  <2>9. Placed(treeCache, chunkCache, i, "tree", 1, found'[b], batch[b], artifact[b])
    BY <1>6, <2>1, <2>2, <2>7, <2>8 DEF Placed
  <2>10. b \in repeats' => /\ b \notin called'
                           /\ Free(treeCache, chunkCache, i, "tree", found'[b], batch[b])
    BY <1>1, <1>4, <2>1, <2>2 DEF Free, Kept
  <2>11. BuildOK(b)'
    BY <1>1, <2>4, <2>9, <2>10 DEF BuildOK
  <2>12. QED
    BY <1>2, <2>2, <2>3, <2>6, <2>11 DEF IInv
<1>7. CASE ~Coherent(i) /\ Fail({b}) /\ UNCHANGED <<doc, inFlight, called>>
  <2>1. /\ phase'[b] = "failed" /\ found'[b] = NoTable /\ batch'[b] = NoBatch /\ artifact'[b] = <<>>
        /\ b \notin repeats'
    BY <1>4, <1>7 DEF Fail
  <2>2. ShapeOK'
    BY <1>1, <1>3, <1>7 DEF IInv, ShapeOK, Fail, Phases
  <2>3. \A c \in Builds \ {b} : Untouched(c)
    BY <1>3, <1>7 DEF Fail, Untouched
  <2>4. \A c \in Builds \ {b} : BuildOK(c)'
    BY <1>1, <1>2, <2>3, UntouchedStays DEF IInv
  <2>5. Placed(treeCache, chunkCache, i, "failed", doc[b], NoTable, NoBatch, <<>>)
    BY <1>1, FailedPlaced
  <2>6. BuildOK(b)'
    BY <1>1, <1>7, <2>1, <2>5 DEF BuildOK
  <2>7. SlotsOK'
    BY <1>1, <1>7 DEF IInv, SlotsOK
  <2>8. QED
    BY <1>2, <2>2, <2>4, <2>6, <2>7 DEF IInv
<1>8. QED
  BY <1>6, <1>7 DEF Begin

\* Whoever waits for a production was never called with what was built before.
LEMMA WaitersAreNew ==
  ASSUME IInv, NEW key \in DOMAIN inFlight, NEW b \in Waiters(key)
  PROVE  /\ b \in Builds /\ phase[b] = "tree" /\ b \notin repeats
         /\ key.pass \in TreePasses \ DOMAIN found[b]
         /\ Ask(input[b], doc[b], key.pass) = key
         /\ doc[b] \in 1..DocsOf(input[b])
<1>1. b \in Builds /\ phase[b] = "tree" /\ key.pass \notin DOMAIN found[b]
      /\ KeyOf(b, key.pass) = key
  BY DEF Waiters
<1>2. key.pass \in TreePasses
  BY DEF IInv, SlotsOK, TreeRequest
<1>3. b \notin repeats /\ doc[b] \in 1..DocsOf(input[b])
  BY <1>1, <1>2 DEF IInv, BuildOK, Free, Placed
<1>4. Ask(input[b], doc[b], key.pass) = key
  BY <1>1 DEF KeyOf, TreeCacheKey, Version, Tree, Ask
<1>5. QED
  BY <1>1, <1>2, <1>3, <1>4

\* Builds that fail, and were not called with what was built before.
LEMMA FailStep ==
  ASSUME ShapeOK, \A b \in Builds : BuildOK(b), NEW B \in SUBSET Builds, Fail(B),
         \A b \in B : b \notin repeats, UNCHANGED <<input, doc, called, repeats>>,
         Grows(treeCache, treeCache'), Grows(chunkCache, chunkCache')
  PROVE  ShapeOK' /\ \A b \in Builds : BuildOK(b)'
<1>1. ShapeOK'
  BY DEF ShapeOK, Fail, Phases
<1>2. ASSUME NEW b \in Builds \ B
      PROVE  BuildOK(b)'
  <2>1. Untouched(b)
    BY DEF Fail, Untouched
  <2>2. QED
    BY <2>1, UntouchedStays
<1>3. ASSUME NEW b \in B
      PROVE  BuildOK(b)'
  <2>1. /\ phase'[b] = "failed" /\ found'[b] = NoTable /\ batch'[b] = NoBatch
        /\ artifact'[b] = <<>> /\ b \notin repeats' /\ doc'[b] = doc[b] /\ input'[b] = input[b]
    BY DEF Fail
  <2>2. doc[b] \in 1..DocsOf(input[b])
    BY DEF BuildOK, Placed
  <2>3. Placed(treeCache', chunkCache', input[b], "failed", doc[b], NoTable, NoBatch, <<>>)
    BY <2>2, FailedPlaced
  <2>4. QED
    BY <2>1, <2>3 DEF BuildOK
<1>4. QED
  BY <1>1, <1>2, <1>3

LEMMA SlotsDrop ==
  ASSUME SlotsOK, NEW key, inFlight' = Drop(inFlight, key),
         DOMAIN treeCache' \subseteq DOMAIN treeCache \cup {key}
  PROVE  SlotsOK'
<1>1. DOMAIN inFlight' = DOMAIN inFlight \ {key}
      /\ \A k \in DOMAIN inFlight' : inFlight'[k] = inFlight[k]
  BY DEF Drop, Restrict
<1>2. QED
  BY <1>1 DEF SlotsOK

LEMMA AbandonStep ==
  ASSUME IInv, NEW key \in DOMAIN inFlight, Abandon(key),
         UNCHANGED <<input, doc, treeCache, chunkCache, called, repeats>>
  PROVE  IInv'
<1>1. Waiters(key) \subseteq Builds /\ \A b \in Waiters(key) : b \notin repeats
  BY WaitersAreNew
<1>2. Grows(treeCache, treeCache') /\ Grows(chunkCache, chunkCache') /\ CachesOK'
  BY DEF Grows, IInv, CachesOK
<1>3. Fail(Waiters(key)) /\ inFlight' = Drop(inFlight, key)
  BY DEF Abandon
<1>4. ShapeOK' /\ \A b \in Builds : BuildOK(b)'
  BY <1>1, <1>2, <1>3, FailStep DEF IInv
<1>5. SlotsOK'
  BY <1>3, SlotsDrop DEF IInv
<1>6. QED
  BY <1>2, <1>4, <1>5 DEF IInv

LEMMA CallStepKeeps ==
  ASSUME IInv, NEW key \in DOMAIN inFlight, CallStep(key)
  PROVE  IInv'
<1>1. CASE CallFails(key)
  <2>1. CASE Abandon(key)
    BY <1>1, <2>1, AbandonStep DEF CallFails
  <2>2. CASE /\ inFlight[key].failed + 1 < MaxAttempts
             /\ inFlight' = [inFlight EXCEPT ![key].failed = @ + 1]
             /\ UNCHANGED <<phase, found, batch, artifact>>
    <3>1. UNCHANGED <<input, phase, doc, found, batch, artifact, treeCache, chunkCache, called, repeats>>
      BY <1>1, <2>2 DEF CallFails
    <3>2. ShapeOK' /\ CachesOK' /\ \A b \in Builds : BuildOK(b)'
      BY <3>1 DEF IInv, ShapeOK, CachesOK, BuildOK
    <3>3. SlotsOK'
      <4> DEFINE slot == inFlight[key]
      <4>1. slot = [of |-> key, failed |-> slot.failed] /\ slot.failed \in 0..(MaxAttempts - 1)
        BY DEF IInv, SlotsOK
      <4>2. inFlight' = [inFlight EXCEPT ![key] = [slot EXCEPT !.failed = slot.failed + 1]]
        BY <2>2
      <4> HIDE DEF slot
      <4>3. [slot EXCEPT !.failed = slot.failed + 1] = [of |-> key, failed |-> slot.failed + 1]
        BY <4>1
      <4>4. slot.failed + 1 \in 0..(MaxAttempts - 1)
        BY <2>2, <4>1, BuildAssumption DEF slot
      <4>5. QED
        BY <3>1, <4>2, <4>3, <4>4 DEF IInv, SlotsOK
    <3>4. QED
      BY <3>2, <3>3 DEF IInv
  <2>3. QED
    BY <1>1, <2>1, <2>2 DEF CallFails
<1>2. CASE CallMisleads(key)
  BY <1>2, AbandonStep DEF CallMisleads
<1>3. CASE CallAnswers(key)
  <2>1. PICK what \in Finds[inFlight[key].of.pass] :
          LET response == [found |-> what, valid |-> TRUE, of |-> inFlight[key].of] IN
          /\ treeCache' = Put(treeCache, key, response)
          /\ inFlight' = Drop(inFlight, key)
          /\ found' = [b \in Builds |-> IF b \in Waiters(key) THEN Put(found[b], key.pass, response)
                                        ELSE found[b]]
    BY <1>3 DEF CallAnswers
  <2> DEFINE response == [found |-> what, valid |-> TRUE, of |-> key]
  <2>2. inFlight[key].of = key /\ key \in TreeRequest /\ key.pass \in TreePasses
        /\ key \notin DOMAIN treeCache
    BY DEF IInv, SlotsOK, TreeRequest
  <2>3. response \in Response /\ response.of = key
    BY <2>1, <2>2, BuildAssumption DEF Response
  <2>4. /\ treeCache' = Put(treeCache, key, response)
        /\ found' = [b \in Builds |-> IF b \in Waiters(key) THEN Put(found[b], key.pass, response)
                                      ELSE found[b]]
        /\ UNCHANGED <<input, phase, doc, batch, artifact, chunkCache, called, repeats>>
    BY <1>3, <2>1, <2>2 DEF CallAnswers
  <2> HIDE DEF response
  <2>5. /\ DOMAIN treeCache' = DOMAIN treeCache \cup {key} /\ treeCache'[key] = response
        /\ \A k \in DOMAIN treeCache : treeCache'[k] = treeCache[k]
    BY <2>2, <2>4 DEF Put
  <2>6. Grows(treeCache, treeCache') /\ Grows(chunkCache, chunkCache')
    BY <2>4, <2>5 DEF Grows
  <2>7. CachesOK'
    BY <2>3, <2>4, <2>5 DEF IInv, CachesOK
  <2>8. SlotsOK'
    BY <2>1, <2>5, SlotsDrop DEF IInv
  <2>9. ShapeOK'
    BY <2>4 DEF IInv, ShapeOK
  <2>10. ASSUME NEW b \in Builds \ Waiters(key)
         PROVE  BuildOK(b)'
    <3>1. Untouched(b)
      BY <2>4 DEF Untouched
    <3>2. QED
      BY <2>4, <2>6, <3>1, UntouchedStays DEF IInv
  <2>11. ASSUME NEW b \in Waiters(key)
         PROVE  BuildOK(b)'
    <3> DEFINE i == input[b]
               f == found[b]
               g == Put(f, key.pass, response)
    <3>1. /\ b \in Builds /\ phase[b] = "tree" /\ b \notin repeats
          /\ key.pass \in TreePasses \ DOMAIN f /\ Ask(i, doc[b], key.pass) = key
      BY WaitersAreNew
    <3>2. found'[b] = g
      BY <2>4, <3>1
    <3>3. /\ Placed(treeCache, chunkCache, i, "tree", doc[b], f, batch[b], artifact[b])
          /\ Placed(treeCache', chunkCache', i, "tree", doc[b], f, batch[b], artifact[b])
      BY <2>6, <3>1, PlacedGrows DEF IInv, BuildOK
    <3>4. TreeOK(treeCache', i, "tree", doc[b], f)
      BY <3>3 DEF Placed
    <3> HIDE DEF i, f
    <3>5. g = [p \in DOMAIN f \cup {key.pass} |-> treeCache'[Ask(i, doc[b], p)]]
      <4>1. \A p \in DOMAIN f : f[p] = treeCache'[Ask(i, doc[b], p)]
        BY <3>4 DEF TreeOK
      <4>2. treeCache'[Ask(i, doc[b], key.pass)] = response
        BY <2>5, <3>1
      <4>3. QED
        BY <3>1, <4>1, <4>2 DEF Put
    <3>6. DOMAIN g = DOMAIN f \cup {key.pass}
      BY DEF Put
    <3> HIDE DEF g
    <3>7. TreeOK(treeCache', i, "tree", doc[b], g)
      BY <2>5, <3>1, <3>4, <3>5, <3>6 DEF TreeOK
    <3>8. Placed(treeCache', chunkCache', i, "tree", doc[b], g, batch[b], artifact[b])
      BY <3>3, <3>7 DEF Placed
    <3>9. QED
      BY <2>4, <3>1, <3>2, <3>8 DEF BuildOK, i
  <2>12. QED
    BY <2>7, <2>8, <2>9, <2>10, <2>11 DEF IInv
<1>4. QED
  BY <1>1, <1>2, <1>3 DEF CallStep

\* What a build has in its hands when all three passes have answered.
LEMMA TreeInHands ==
  ASSUME IInv, NEW b \in Builds, phase[b] \in {"tree", "chunk"}, DOMAIN found[b] = TreePasses
  PROVE  /\ found[b] = Sidecars(treeCache, input[b], doc[b])
         /\ FactsOf(b) = FactsAt(treeCache, input[b], doc[b])
         /\ ChunksOf(b) = ChunksAt(input[b], doc[b])
         /\ \A c : ChunkKeyOf(b, c) = ChunkKeyAt(treeCache, input[b], doc[b], c)
         /\ \A p \in TreePasses :
              /\ Ask(input[b], doc[b], p) \in DOMAIN treeCache
              /\ found[b][p] = treeCache[Ask(input[b], doc[b], p)]
         /\ doc[b] \in 1..DocsOf(input[b]) /\ Coherent(input[b])
<1> DEFINE i == input[b]
<1>1. /\ TreeOK(treeCache, i, phase[b], doc[b], found[b]) /\ doc[b] \in 1..DocsOf(i)
      /\ Coherent(i)
  BY DEF IInv, BuildOK, Placed
<1>2. found[b] = Sidecars(treeCache, i, doc[b])
  BY <1>1 DEF TreeOK, Sidecars
<1>3. FactsOf(b) = FactsAt(treeCache, i, doc[b])
  BY <1>2 DEF FactsOf, FactsAt
<1>4. \A c : ChunkKeyOf(b, c) = ChunkKeyAt(treeCache, i, doc[b], c)
  BY <1>3 DEF ChunkKeyOf, ChunkKeyAt, Version, Tree
<1>5. ChunksOf(b) = ChunksAt(i, doc[b])
  BY DEF ChunksOf, ChunksAt, Tree
<1>6. \A p \in TreePasses : /\ Ask(i, doc[b], p) \in DOMAIN treeCache
                            /\ found[b][p] = treeCache[Ask(i, doc[b], p)]
  BY <1>1, <1>2 DEF TreeOK, Sidecars
<1>7. QED
  BY <1>1, <1>2, <1>3, <1>4, <1>5, <1>6

LEMMA CloseTreeStep ==
  ASSUME IInv, NEW b \in Builds, CloseTree(b)
  PROVE  IInv'
<1> DEFINE i == input[b]
           n == doc[b]
           T == treeCache
           C == chunkCache
<1>1. /\ phase[b] = "tree" /\ DOMAIN found[b] = TreePasses
      /\ UNCHANGED <<input, doc, inFlight, treeCache, chunkCache, repeats>>
  BY DEF CloseTree
<1>2. /\ found[b] = Sidecars(T, i, n) /\ ChunksOf(b) = ChunksAt(i, n) /\ Coherent(i)
      /\ \A c : ChunkKeyOf(b, c) = ChunkKeyAt(T, i, n, c)
      /\ \A p \in TreePasses : Ask(i, n, p) \in DOMAIN T /\ found[b][p] = T[Ask(i, n, p)]
      /\ n \in 1..DocsOf(i)
  BY <1>1, TreeInHands
<1>3. Grows(treeCache, treeCache') /\ Grows(chunkCache, chunkCache') /\ CachesOK' /\ SlotsOK'
  BY <1>1 DEF Grows, IInv, CachesOK, SlotsOK
<1>4. CASE /\ \E p \in TreePasses : ~found[b][p].valid
           /\ Fail({b})
           /\ UNCHANGED called
  <2>1. b \notin repeats
    BY <1>2, <1>4 DEF IInv, BuildOK, Free, Kept, Passed
  <2>2. ShapeOK' /\ \A c \in Builds : BuildOK(c)'
    BY <1>1, <1>3, <1>4, <2>1, FailStep DEF IInv
  <2>3. QED
    BY <1>3, <2>2 DEF IInv
<1>5. CASE /\ \A p \in TreePasses : found[b][p].valid
           /\ LET missing == {c \in ChunksOf(b) : ChunkKeyOf(b, c) \notin DOMAIN chunkCache} IN
              /\ batch' = [batch EXCEPT ![b] = [chunks |-> missing, failed |-> 0]]
              /\ called' = IF missing = {} THEN called ELSE called \cup {b}
           /\ phase' = [phase EXCEPT ![b] = "chunk"]
           /\ UNCHANGED <<found, artifact>>
  <2> DEFINE missing == {c \in ChunksAt(i, n) : ChunkKeyAt(T, i, n, c) \notin DOMAIN C}
             x == [chunks |-> missing, failed |-> 0]
  <2>1. /\ batch' = [batch EXCEPT ![b] = x]
        /\ called' = IF missing = {} THEN called ELSE called \cup {b}
    BY <1>2, <1>5
  <2>2. Passed(T, i, n)
    BY <1>2, <1>5 DEF Passed
  <2>3. TreeOK(T, i, "chunk", n, found[b])
    BY <1>1, <2>2 DEF IInv, BuildOK, Placed, TreeOK
  <2>4. BatchOK(T, C, i, "chunk", n, x)
    BY BuildAssumption DEF BatchOK
  <2>5. ArtifactOK(T, C, i, "chunk", n, artifact[b])
    <3>1. Done(i, "chunk", n) = Done(i, "tree", n)
      BY DEF Done
    <3>2. QED
      BY <1>1, <3>1 DEF IInv, BuildOK, Placed, ArtifactOK
  <2>6. Placed(T, C, i, "chunk", n, found[b], x, artifact[b])
    BY <1>2, <2>3, <2>4, <2>5 DEF Placed
  <2>7. b \in repeats => missing = {}
    BY <1>2 DEF IInv, BuildOK, Free, Kept, Situable
  <2> HIDE DEF x, missing
  <2>8. phase'[b] = "chunk" /\ batch'[b] = x
    BY <1>5, <2>1 DEF IInv, ShapeOK
  <2>9. b \in repeats => b \notin called' /\ Free(T, C, i, "chunk", found[b], x)
    BY <2>1, <2>7 DEF IInv, BuildOK, Free, x
  <2>10. BuildOK(b)'
    BY <1>1, <1>5, <2>6, <2>8, <2>9 DEF BuildOK
  <2>11. ASSUME NEW c \in Builds \ {b}
         PROVE  BuildOK(c)'
    <3>1. Untouched(c)
      BY <1>1, <1>5, <2>1 DEF Untouched, IInv, ShapeOK
    <3>2. QED
      BY <1>1, <1>3, <3>1, UntouchedStays DEF IInv
  <2>12. ShapeOK'
    BY <1>1, <1>5, <2>1 DEF IInv, ShapeOK, Phases
  <2>13. QED
    BY <1>3, <2>10, <2>11, <2>12 DEF IInv
<1>6. QED
  BY <1>4, <1>5 DEF CloseTree

LEMMA BatchStep ==
  ASSUME IInv, NEW b \in Builds, BatchFails(b) \/ BatchMisleads(b)
  PROVE  IInv'
<1>1. /\ phase[b] = "chunk" /\ batch[b].chunks # {}
      /\ UNCHANGED <<input, doc, inFlight, treeCache, chunkCache, called, repeats>>
  BY DEF BatchFails, BatchMisleads
<1>2. Grows(treeCache, treeCache') /\ Grows(chunkCache, chunkCache') /\ CachesOK' /\ SlotsOK'
  BY <1>1 DEF Grows, IInv, CachesOK, SlotsOK
<1>3. b \notin repeats
  BY <1>1 DEF IInv, BuildOK, Free
<1>4. CASE Fail({b})
  <2>1. ShapeOK' /\ \A c \in Builds : BuildOK(c)'
    BY <1>1, <1>2, <1>3, <1>4, FailStep DEF IInv
  <2>2. QED
    BY <1>2, <2>1 DEF IInv
<1>5. CASE /\ batch[b].failed + 1 < MaxAttempts
           /\ batch' = [batch EXCEPT ![b].failed = @ + 1]
           /\ UNCHANGED <<phase, found, artifact>>
  <2> DEFINE x == batch[b]
             y == [x EXCEPT !.failed = x.failed + 1]
  <2>1. BatchOK(treeCache, chunkCache, input[b], "chunk", doc[b], x)
    BY <1>1 DEF IInv, BuildOK, Placed
  <2>2. batch'[b] = y /\ \A c \in Builds \ {b} : batch'[c] = batch[c]
    BY <1>5 DEF IInv, ShapeOK
  <2>3. x.failed + 1 < MaxAttempts
    BY <1>5
  <2> HIDE DEF x
  <2>4. y = [chunks |-> x.chunks, failed |-> x.failed + 1]
    BY <2>1 DEF BatchOK
  <2>5. BatchOK(treeCache, chunkCache, input[b], "chunk", doc[b], y)
    <3>1. x.failed + 1 \in 0..(MaxAttempts - 1)
      BY <2>1, <2>3, BuildAssumption DEF BatchOK
    <3>2. y.chunks = x.chunks /\ y.failed = x.failed + 1
      BY <2>4
    <3> HIDE DEF y
    <3>3. QED
      BY <2>1, <2>4, <3>1, <3>2 DEF BatchOK
  <2> HIDE DEF y
  <2>6. BuildOK(b)'
    BY <1>1, <1>3, <1>5, <2>2, <2>5 DEF IInv, BuildOK, Placed
  <2>7. ASSUME NEW c \in Builds \ {b}
        PROVE  BuildOK(c)'
    <3>1. Untouched(c)
      BY <1>1, <1>5, <2>2 DEF Untouched
    <3>2. QED
      BY <1>1, <1>2, <3>1, UntouchedStays DEF IInv
  <2>8. ShapeOK'
    BY <1>1, <1>5 DEF IInv, ShapeOK
  <2>9. QED
    BY <1>2, <2>6, <2>7, <2>8 DEF IInv
<1>6. QED
  BY <1>4, <1>5 DEF BatchFails, BatchMisleads

LEMMA AppendTable ==
  ASSUME NEW n \in Nat, NEW s, NEW e, DOMAIN s = 1..n, s = [d \in 1..n |-> s[d]]
  PROVE  Append(s, e) = [d \in 1..(n + 1) |-> IF d = n + 1 THEN e ELSE s[d]]
<1> DEFINE S == {s[d] : d \in 1..n} \cup {e}
           t == [d \in 1..(n + 1) |-> IF d = n + 1 THEN e ELSE s[d]]
<1>1. s \in Seq(S) /\ Len(s) = n /\ e \in S
  <2>1. s \in [1..n -> S]
    OBVIOUS
  <2> HIDE DEF S
  <2>2. s \in Seq(S)
    BY <2>1
  <2>3. QED
    BY <2>2 DEF S
<1> HIDE DEF S
<1>2. /\ Append(s, e) \in Seq(S) /\ Len(Append(s, e)) = n + 1
      /\ Append(s, e)[n + 1] = e /\ \A d \in 1..n : Append(s, e)[d] = s[d]
  BY <1>1
<1>3. DOMAIN Append(s, e) = 1..(n + 1)
  BY <1>2
<1>4. \A d \in 1..(n + 1) : Append(s, e)[d] = t[d]
  BY <1>2
<1>5. Append(s, e) = [d \in DOMAIN Append(s, e) |-> Append(s, e)[d]]
  BY <1>1
<1>6. QED
  BY <1>3, <1>4, <1>5

\* A batch that succeeds: what was stored is served, what is new is stored.
LEMMA SituateCache ==
  ASSUME IInv, NEW b \in Builds, phase[b] = "chunk",
         NEW fresh \in [batch[b].chunks -> Contexts],
         LET contexts == ContextsAfter(b, fresh)
             stored == {c \in ChunksOf(b) : ChunkKeyOf(b, c) \notin DOMAIN chunkCache}
         IN  chunkCache' = [k \in DOMAIN chunkCache \cup {ChunkKeyOf(b, c) : c \in stored} |->
                              IF k \in DOMAIN chunkCache THEN chunkCache[k]
                              ELSE contexts[CHOOSE c \in stored : ChunkKeyOf(b, c) = k]]
  PROVE  /\ Grows(chunkCache, chunkCache')
         /\ \A k \in DOMAIN chunkCache' : chunkCache'[k].of =
              [model |-> k[2], version |-> k[3], tree |-> k[4], facts |-> k[5], chunk |-> k[6]]
         /\ \A c \in ChunksAt(input[b], doc[b]) :
              ChunkKeyAt(treeCache, input[b], doc[b], c) \in DOMAIN chunkCache'
         /\ ContextsAfter(b, fresh) = ContextsAt(treeCache, chunkCache', input[b], doc[b])
<1> DEFINE i == input[b]
           n == doc[b]
           D == ChunksOf(b)
           K(c) == ChunkKeyOf(b, c)
           contexts == ContextsAfter(b, fresh)
           stored == {c \in D : K(c) \notin DOMAIN chunkCache}
<1>1. /\ D = ChunksAt(i, n) /\ \A c : K(c) = ChunkKeyAt(treeCache, i, n, c)
      /\ FactsOf(b) = FactsAt(treeCache, i, n)
  BY TreeInHands DEF IInv, BuildOK, Placed, TreeOK
<1>2. chunkCache' = [k \in DOMAIN chunkCache \cup {K(c) : c \in stored} |->
                       IF k \in DOMAIN chunkCache THEN chunkCache[k]
                       ELSE contexts[CHOOSE c \in stored : K(c) = k]]
  OBVIOUS
<1>3. contexts = [c \in D |-> IF K(c) \in DOMAIN chunkCache THEN chunkCache[K(c)]
                              ELSE [context |-> fresh[c], of |-> ContextRequestOf(b, c)]]
  BY DEF ContextsAfter
<1>4. \A c, e : K(c) = K(e) => c = e
  BY DEF ChunkKeyOf, ChunkCacheKey
<1>5. ASSUME NEW c \in stored
      PROVE  (CHOOSE e \in stored : K(e) = K(c)) = c
  BY <1>4
<1> HIDE DEF contexts
<1>6. \A c \in stored : /\ K(c) \in DOMAIN chunkCache'
                        /\ chunkCache'[K(c)] = contexts[c]
  <2> SUFFICES ASSUME NEW c \in stored
               PROVE  K(c) \in DOMAIN chunkCache' /\ chunkCache'[K(c)] = contexts[c]
    OBVIOUS
  <2>1. K(c) \notin DOMAIN chunkCache /\ K(c) \in DOMAIN chunkCache \cup {K(e) : e \in stored}
    OBVIOUS
  <2>2. chunkCache'[K(c)] = contexts[CHOOSE e \in stored : K(e) = K(c)]
    BY <1>2, <2>1
  <2>3. QED
    BY <1>2, <1>5, <2>1, <2>2
<1>7. \A k \in DOMAIN chunkCache : k \in DOMAIN chunkCache' /\ chunkCache'[k] = chunkCache[k]
  BY <1>2
<1>8. \A k \in DOMAIN chunkCache' : k \in DOMAIN chunkCache \/ \E c \in stored : k = K(c)
  BY <1>2
<1>9. \A c \in stored : contexts[c].of =
        [model |-> K(c)[2], version |-> K(c)[3], tree |-> K(c)[4], facts |-> K(c)[5],
         chunk |-> K(c)[6]]
  <2>1. \A c \in stored : contexts[c].of = ContextRequestOf(b, c)
    BY <1>3
  <2>2. \A c : ContextRequestOf(b, c) =
          [model |-> i.model, version |-> i.config.promptVersions["situating-context"],
           tree |-> TreeOf[i.corpus][n], facts |-> FactsAt(treeCache, i, n), chunk |-> c]
    BY <1>1 DEF ContextRequestOf, Version, Tree
  <2>3. \A c : /\ K(c)[2] = i.model
               /\ K(c)[3] = i.config.promptVersions["situating-context"]
               /\ K(c)[4] = TreeOf[i.corpus][n] /\ K(c)[5] = FactsAt(treeCache, i, n)
               /\ K(c)[6] = c
    BY <1>1 DEF ChunkKeyOf, ChunkCacheKey, Version, Tree
  <2> HIDE DEF K, stored
  <2>4. QED
    BY <2>1, <2>2, <2>3
<1>10. \A k \in DOMAIN chunkCache' : chunkCache'[k].of =
         [model |-> k[2], version |-> k[3], tree |-> k[4], facts |-> k[5], chunk |-> k[6]]
  <2> HIDE DEF K, stored
  <2>1. ASSUME NEW k \in DOMAIN chunkCache'
        PROVE  chunkCache'[k].of =
                 [model |-> k[2], version |-> k[3], tree |-> k[4], facts |-> k[5], chunk |-> k[6]]
    <3>1. CASE k \in DOMAIN chunkCache
      BY <1>7, <3>1 DEF IInv, CachesOK
    <3>2. CASE k \notin DOMAIN chunkCache
      <4>1. PICK c \in stored : k = K(c)
        BY <1>8, <3>2
      <4>2. QED
        BY <1>6, <1>9, <4>1
    <3>3. QED
      BY <3>1, <3>2
  <2>2. QED
    BY <2>1
<1>11. \A c \in D : K(c) \in DOMAIN chunkCache' /\ contexts[c] = chunkCache'[K(c)]
  <2>1. \A c \in D : c \notin stored => K(c) \in DOMAIN chunkCache /\ contexts[c] = chunkCache[K(c)]
    BY <1>3
  <2> HIDE DEF K, stored, D
  <2>2. QED
    BY <1>6, <1>7, <2>1
<1>12. contexts = ContextsAt(treeCache, chunkCache', i, n)
  <2>1. contexts = [c \in D |-> contexts[c]]
    BY <1>3
  <2>2. QED
    BY <1>1, <1>11, <2>1 DEF ContextsAt
<1>13. Grows(chunkCache, chunkCache')
  BY <1>7 DEF Grows
<1>14. \A c \in ChunksAt(i, n) : ChunkKeyAt(treeCache, i, n, c) \in DOMAIN chunkCache'
  BY <1>1, <1>11
<1> HIDE DEF D, K, stored
<1>15. QED
  BY <1>10, <1>12, <1>13, <1>14 DEF contexts

LEMMA SituateStep ==
  ASSUME IInv, NEW b \in Builds, Situate(b)
  PROVE  IInv'
<1> DEFINE i == input[b]
           n == doc[b]
           T == treeCache
           C == chunkCache
           D == chunkCache'
<1>1. /\ phase[b] = "chunk" /\ UNCHANGED <<input, treeCache, repeats>>
      /\ Placed(T, C, i, "chunk", n, found[b], batch[b], artifact[b])
      /\ b \in repeats => b \notin called /\ Free(T, C, i, "chunk", found[b], batch[b])
  BY DEF Situate, IInv, BuildOK
<1>2. PICK fresh \in [batch[b].chunks -> Contexts] :
        LET contexts == ContextsAfter(b, fresh)
            stored == {c \in ChunksOf(b) : ChunkKeyOf(b, c) \notin DOMAIN chunkCache}
        IN
        /\ chunkCache' = [k \in DOMAIN chunkCache \cup {ChunkKeyOf(b, c) : c \in stored} |->
                            IF k \in DOMAIN chunkCache THEN chunkCache[k]
                            ELSE contexts[CHOOSE c \in stored : ChunkKeyOf(b, c) = k]]
        /\ \/ /\ \A c \in ChunksOf(b) : contexts[c].context # Empty
              /\ CloseDocument(b, contexts)
           \/ /\ \E c \in ChunksOf(b) : contexts[c].context = Empty
              /\ Fail({b})
              /\ UNCHANGED <<doc, inFlight, called>>
  BY DEF Situate
<1> DEFINE contexts == ContextsAfter(b, fresh)
<1>3. /\ Grows(C, D)
      /\ \A k \in DOMAIN D : D[k].of =
           [model |-> k[2], version |-> k[3], tree |-> k[4], facts |-> k[5], chunk |-> k[6]]
      /\ \A c \in ChunksAt(i, n) : ChunkKeyAt(T, i, n, c) \in DOMAIN D
      /\ contexts = ContextsAt(T, D, i, n)
  BY <1>1, <1>2, SituateCache
<1>4. /\ ChunksOf(b) = ChunksAt(i, n) /\ found[b] = Sidecars(T, i, n) /\ Coherent(i)
      /\ n \in 1..DocsOf(i) /\ Passed(T, i, n)
  BY <1>1, TreeInHands DEF Placed, TreeOK
<1> HIDE DEF contexts
<1>5. Grows(treeCache, treeCache') /\ Grows(chunkCache, chunkCache') /\ CachesOK'
  BY <1>1, <1>3 DEF Grows, IInv, CachesOK
<1>6. DocsOf(i) \in Nat /\ DocsOf(i) = Docs(b)
  BY CallTypes DEF IInv, ShapeOK
<1>7. CASE /\ \E c \in ChunksOf(b) : contexts[c].context = Empty
           /\ Fail({b})
           /\ UNCHANGED <<doc, inFlight, called>>
  <2>1. b \notin repeats
    <3>1. SUFFICES ASSUME b \in repeats
                   PROVE  FALSE
      OBVIOUS
    <3>2. Kept(T, C, i, n)
      BY <1>1, <1>4, <3>1 DEF Free
    <3>3. Kept(T, D, i, n)
      BY <1>3, <3>2, KeptGrows DEF Grows
    <3>4. \A c \in ChunksAt(i, n) : contexts[c].context # Empty
      BY <1>3, <3>3 DEF Kept, Situable, ContextsAt
    <3>5. QED
      BY <1>4, <1>7, <3>4
  <2>2. ShapeOK' /\ \A c \in Builds : BuildOK(c)'
    BY <1>1, <1>5, <1>7, <2>1, FailStep DEF IInv
  <2>3. SlotsOK'
    BY <1>1, <1>7 DEF IInv, SlotsOK
  <2>4. QED
    BY <1>5, <2>2, <2>3 DEF IInv
<1>8. CASE /\ \A c \in ChunksOf(b) : contexts[c].context # Empty
           /\ CloseDocument(b, contexts)
  <2> DEFINE a == Append(artifact[b], [tree |-> found[b], contexts |-> contexts])
  <2>1. Kept(T, D, i, n) /\ Made(T, D, i, n) = [tree |-> found[b], contexts |-> contexts]
    <3>1. \A c \in ChunksAt(i, n) : D[ChunkKeyAt(T, i, n, c)].context # Empty
      BY <1>3, <1>4, <1>8 DEF ContextsAt
    <3>2. QED
      BY <1>3, <1>4, <3>1 DEF Kept, Situable, Made
  <2>2. ArtifactOK(T, D, i, "chunk", n, artifact[b])
    BY <1>1, <1>3, ArtifactGrows DEF Placed, Grows
  <2>3. /\ a = [d \in 1..n |-> Made(T, D, i, d)]
        /\ \A d \in 1..n : Kept(T, D, i, d)
    <3> DEFINE s == artifact[b]
    <3>1. Done(i, "chunk", n) = n - 1 /\ n - 1 \in Nat /\ (n - 1) + 1 = n
      BY <1>4 DEF Done
    <3>2. s = [d \in 1..(n - 1) |-> Made(T, D, i, d)] /\ \A d \in 1..(n - 1) : Kept(T, D, i, d)
      BY <2>2, <3>1 DEF ArtifactOK
    <3> HIDE DEF s
    <3>3. DOMAIN s = 1..(n - 1) /\ s = [d \in 1..(n - 1) |-> s[d]]
      BY <3>2
    <3>4. Append(s, Made(T, D, i, n))
            = [d \in 1..((n - 1) + 1) |-> IF d = (n - 1) + 1 THEN Made(T, D, i, n) ELSE s[d]]
      BY <3>1, <3>3, AppendTable
    <3>5. Append(s, Made(T, D, i, n)) = [d \in 1..n |-> Made(T, D, i, d)]
      BY <3>1, <3>2, <3>4
    <3>6. \A d \in 1..n : Kept(T, D, i, d)
      BY <2>1, <3>1, <3>2
    <3>7. QED
      BY <2>1, <3>5, <3>6 DEF s
  <2>4. /\ artifact' = [artifact EXCEPT ![b] = a]
        /\ batch' = [batch EXCEPT ![b] = NoBatch]
    BY <1>8 DEF CloseDocument
  <2> HIDE DEF a
  <2>5. artifact'[b] = a /\ batch'[b] = NoBatch
        /\ \A c \in Builds \ {b} : artifact'[c] = artifact[c] /\ batch'[c] = batch[c]
    BY <2>4 DEF IInv, ShapeOK
  <2>6. \A ph : ph # "chunk" => \A m : BatchOK(T, D, i, ph, m, NoBatch)
    BY BuildAssumption DEF BatchOK, NoBatch
  <2>7. b \in repeats => \A d \in 1..DocsOf(i) : Kept(T, C, i, d) /\ Kept(T, D, i, d)
    BY <1>1, <1>3, KeptGrows DEF Free, Grows
  <2>8. CASE doc[b] < Docs(b) /\ OpenDocument(b, doc[b] + 1)
    <3>1. n + 1 \in 1..DocsOf(i)
      BY <1>4, <1>6, <2>8
    <3>2. /\ phase' = [phase EXCEPT ![b] = "tree"] /\ doc' = [doc EXCEPT ![b] = n + 1]
          /\ DOMAIN found' = Builds /\ \A c \in Builds \ {b} : found'[c] = found[c]
          /\ TreeOK(T, i, "tree", n + 1, found'[b])
          /\ SlotsOK'
          /\ called' \in {called, called \cup {b}}
          /\ Passed(T, i, n + 1) => called' = called /\ DOMAIN found'[b] = TreePasses
      BY <1>1, <1>4, <2>8, <3>1, OpenFacts DEF IInv
    <3>3. phase'[b] = "tree" /\ doc'[b] = n + 1
      BY <3>2 DEF IInv, ShapeOK
    <3>4. ArtifactOK(T, D, i, "tree", n + 1, a)
      <4>1. Done(i, "tree", n + 1) = n
        BY <1>4 DEF Done
      <4>2. QED
        BY <2>3, <4>1 DEF ArtifactOK
    <3>5. Placed(T, D, i, "tree", n + 1, found'[b], NoBatch, a)
      BY <1>4, <2>6, <3>1, <3>2, <3>4 DEF Placed
    <3>6. b \in repeats => /\ b \notin called'
                           /\ Free(T, D, i, "tree", found'[b], NoBatch)
      BY <1>1, <2>7, <3>1, <3>2 DEF Free, Kept
    <3>7. BuildOK(b)'
      BY <1>1, <2>5, <3>3, <3>5, <3>6 DEF BuildOK
    <3>8. ASSUME NEW c \in Builds \ {b}
          PROVE  BuildOK(c)'
      <4>1. Untouched(c)
        BY <1>1, <2>5, <3>2 DEF Untouched, IInv, ShapeOK
      <4>2. QED
        BY <1>1, <1>5, <4>1, UntouchedStays DEF IInv
    <3>9. ShapeOK'
      BY <1>1, <2>4, <3>2 DEF IInv, ShapeOK, Phases
    <3>10. QED
      BY <1>5, <3>2, <3>7, <3>8, <3>9 DEF IInv
  <2>9. CASE /\ doc[b] = Docs(b)
             /\ phase' = [phase EXCEPT ![b] = "built"]
             /\ found' = [found EXCEPT ![b] = NoTable]
             /\ UNCHANGED <<doc, inFlight, called>>
    <3>1. /\ phase'[b] = "built" /\ found'[b] = NoTable /\ doc'[b] = n
          /\ \A c \in Builds \ {b} : phase'[c] = phase[c] /\ found'[c] = found[c]
      BY <2>9 DEF IInv, ShapeOK
    <3>2. TreeOK(T, i, "built", n, NoTable)
      BY DEF TreeOK, NoTable
    <3>3. ArtifactOK(T, D, i, "built", n, a)
      <4>1. Done(i, "built", n) = n
        BY <1>6, <2>9 DEF Done
      <4>2. QED
        BY <2>3, <4>1 DEF ArtifactOK
    <3>4. Placed(T, D, i, "built", n, NoTable, NoBatch, a)
      BY <1>4, <2>6, <3>2, <3>3 DEF Placed
    <3>5. b \in repeats => b \notin called' /\ Free(T, D, i, "built", NoTable, NoBatch)
      BY <1>1, <2>7, <2>9 DEF Free
    <3>6. BuildOK(b)'
      BY <1>1, <2>5, <3>1, <3>4, <3>5 DEF BuildOK
    <3>7. ASSUME NEW c \in Builds \ {b}
          PROVE  BuildOK(c)'
      <4>1. Untouched(c)
        BY <1>1, <2>5, <2>9, <3>1 DEF Untouched
      <4>2. QED
        BY <1>1, <1>5, <4>1, UntouchedStays DEF IInv
    <3>8. ShapeOK'
      BY <1>1, <2>4, <2>9 DEF IInv, ShapeOK, Phases
    <3>9. SlotsOK'
      BY <1>1, <2>9 DEF IInv, SlotsOK
    <3>10. QED
      BY <1>5, <3>6, <3>7, <3>8, <3>9 DEF IInv
  <2>10. QED
    BY <1>8, <2>8, <2>9 DEF CloseDocument
<1>9. QED
  BY <1>2, <1>7, <1>8 DEF contexts

LEMMA Invariance == Spec => []IInv
<1>1. Init => IInv
  <2> SUFFICES ASSUME Init
               PROVE  IInv
    OBVIOUS
  <2>1. PICK seed \in Seeds : treeCache = seed.tree /\ chunkCache = seed.chunk
    BY DEF Init
  <2>2. CachesOK
    <3>1. \A k \in DOMAIN treeCache : treeCache[k] \in Response /\ treeCache[k].of = k
      BY <2>1, SeedAssumption
    <3>2. ASSUME NEW k \in DOMAIN chunkCache
          PROVE  chunkCache[k].of = [model |-> k[2], version |-> k[3], tree |-> k[4],
                                     facts |-> k[5], chunk |-> k[6]]
      <4> DEFINE of == chunkCache[k].of
      <4>1. of \in ContextRequest
        BY <2>1, SeedAssumption
      <4>2. PICK chunker \in Chunkers :
              k = ChunkCacheKey(chunker, of.model, of.version, of.tree, of.facts, of.chunk)
        BY <2>1, SeedAssumption
      <4> HIDE DEF of
      <4>3. /\ k[2] = of.model /\ k[3] = of.version /\ k[4] = of.tree
            /\ k[5] = of.facts /\ k[6] = of.chunk
        BY <4>2 DEF ChunkCacheKey
      <4>4. of = [model |-> of.model, version |-> of.version, tree |-> of.tree,
                  facts |-> of.facts, chunk |-> of.chunk]
        BY <4>1 DEF ContextRequest
      <4>5. QED
        BY <4>3, <4>4 DEF of
    <3>3. QED
      BY <3>1, <3>2 DEF CachesOK
  <2>3. SlotsOK
    BY DEF Init, SlotsOK, NoTable
  <2>4. ShapeOK
    BY DEF Init, ShapeOK, Phases
  <2>5. ASSUME NEW b \in Builds
        PROVE  BuildOK(b)
    <3>1. /\ phase[b] = "idle" /\ doc[b] = 1 /\ found[b] = NoTable /\ batch[b] = NoBatch
          /\ artifact[b] = <<>> /\ b \notin called /\ b \notin repeats
      BY DEF Init
    <3>2. 1 \in 1..DocsOf(input[b])
      BY <2>4, CallTypes DEF ShapeOK
    <3>3. Placed(treeCache, chunkCache, input[b], "failed", 1, NoTable, NoBatch, <<>>)
      BY <3>2, FailedPlaced
    <3>4. Done(input[b], "failed", 1) = 0 /\ Done(input[b], "idle", 1) = 0
      BY DEF Done
    <3>5. Placed(treeCache, chunkCache, input[b], "idle", 1, NoTable, NoBatch, <<>>)
      BY <3>2, <3>3, <3>4 DEF Placed, TreeOK, BatchOK, ArtifactOK
    <3>6. QED
      BY <3>1, <3>5 DEF BuildOK
  <2>6. QED
    BY <2>2, <2>3, <2>4, <2>5 DEF IInv
<1>2. IInv /\ [Next]_vars => IInv'
  <2> SUFFICES ASSUME IInv, [Next]_vars
               PROVE  IInv'
    OBVIOUS
  <2>1. CASE UNCHANGED vars
    BY <2>1 DEF vars, IInv, ShapeOK, CachesOK, SlotsOK, BuildOK
  <2>2. QED
    BY <2>1, BeginStep, CallStepKeeps, CloseTreeStep, BatchStep, SituateStep DEF Next, BuildStep
<1>3. QED
  BY <1>1, <1>2, PTL DEF Spec

-----------------------------------------------------------------------------
(* What follows.                                                           *)

LEMMA KeysAreRequests ==
  ASSUME NEW k \in TreeRequest
  PROVE  k \in TreeKeys
<1>1. /\ k = TreeCacheKey(k.pass, k.model, k.version, k.tree)
      /\ k.pass \in TreePasses /\ k.model \in Models /\ k.version \in Versions
      /\ k.tree \in TreeHashes
  BY DEF TreeRequest, TreeCacheKey
<1>2. QED
  BY <1>1 DEF TreeKeys

LEMMA TableLength ==
  ASSUME NEW n \in Nat, NEW s, DOMAIN s = 1..n, s = [d \in 1..n |-> s[d]]
  PROVE  Len(s) = n
<1> DEFINE S == {s[d] : d \in 1..n}
<1>1. s \in [1..n -> S]
  OBVIOUS
<1> HIDE DEF S
<1>2. QED
  BY <1>1

\* What is made of a document is determined by the input and the caches.
LEMMA ArtifactIsMade ==
  ASSUME IInv, NEW b \in Builds
  PROVE  /\ Done(input[b], phase[b], doc[b]) \in 0..Docs(b)
         /\ DOMAIN artifact[b] = 1..Done(input[b], phase[b], doc[b])
         /\ Len(artifact[b]) = Done(input[b], phase[b], doc[b])
         /\ \A d \in DOMAIN artifact[b] :
              /\ artifact[b][d] = Made(treeCache, chunkCache, input[b], d)
              /\ Kept(treeCache, chunkCache, input[b], d)
              /\ d \in 1..DocsOf(input[b]) /\ Coherent(input[b])
<1> DEFINE m == Done(input[b], phase[b], doc[b])
           s == artifact[b]
<1>1. /\ Placed(treeCache, chunkCache, input[b], phase[b], doc[b], found[b], batch[b], s)
      /\ DocsOf(input[b]) = Docs(b) /\ Docs(b) \in Nat
  BY CallTypes DEF IInv, ShapeOK, BuildOK
<1>2. m \in 0..Docs(b) /\ (m # 0 => Coherent(input[b]))
  BY <1>1 DEF Placed, Done
<1>3. s = [d \in 1..m |-> Made(treeCache, chunkCache, input[b], d)]
      /\ \A d \in 1..m : Kept(treeCache, chunkCache, input[b], d)
  BY <1>1 DEF Placed, ArtifactOK
<1> HIDE DEF m, s
<1>4. DOMAIN s = 1..m /\ s = [d \in 1..m |-> s[d]]
  BY <1>3
<1>5. Len(s) = m
  BY <1>2, <1>4, TableLength
<1>6. \A d \in 1..m : /\ s[d] = Made(treeCache, chunkCache, input[b], d)
                      /\ Kept(treeCache, chunkCache, input[b], d)
                      /\ d \in 1..DocsOf(input[b]) /\ Coherent(input[b])
  BY <1>1, <1>2, <1>3
<1>7. QED
  BY <1>2, <1>4, <1>5, <1>6 DEF m, s

\* The state keeps its shape, whatever the model answers.
THEOREM TypeCorrect == Spec => []TypeOK
<1>1. IInv => TypeOK
  <2> SUFFICES ASSUME IInv
               PROVE  TypeOK
    OBVIOUS
  <2>1. ASSUME NEW b \in Builds
        PROVE  /\ doc[b] \in 1..Docs(b)
               /\ DOMAIN found[b] \subseteq TreePasses
               /\ \A p \in DOMAIN found[b] : found[b][p] \in Response
               /\ batch[b].chunks \subseteq Chunk /\ batch[b].failed \in 0..(MaxAttempts - 1)
               /\ Len(artifact[b]) \in 0..Docs(b)
    <3> DEFINE i == input[b]
    <3>1. Placed(treeCache, chunkCache, i, phase[b], doc[b], found[b], batch[b], artifact[b])
      BY DEF IInv, BuildOK
    <3>2. DocsOf(i) = Docs(b) /\ doc[b] \in 1..DocsOf(i)
      BY <3>1, CallTypes DEF Placed, IInv, ShapeOK
    <3>3. \A p \in DOMAIN found[b] : found[b][p] = treeCache[Ask(i, doc[b], p)]
                                     /\ Ask(i, doc[b], p) \in DOMAIN treeCache
      BY <3>1 DEF Placed, TreeOK
    <3>4. i.chunker \in Chunkers /\ TreeOf[i.corpus][doc[b]] \in TreeHashes
      BY <3>2, CallTypes DEF IInv, ShapeOK
    <3>5. ChunksAt(i, doc[b]) \subseteq Chunk
      <4>1. UnitsOf[TreeOf[i.corpus][doc[b]]] \subseteq Units
        BY <3>4, BuildAssumption
      <4>2. QED
        BY <3>4, <4>1 DEF ChunksAt, Chunks, Chunk
    <3>6. batch[b].chunks \subseteq ChunksAt(i, doc[b])
      BY <3>1 DEF Placed, BatchOK
    <3>7. QED
      BY <3>1, <3>2, <3>3, <3>5, <3>6, ArtifactIsMade DEF Placed, TreeOK, BatchOK, IInv, CachesOK
  <2>2. /\ DOMAIN treeCache \subseteq TreeKeys /\ DOMAIN inFlight \subseteq TreeKeys
        /\ \A k \in DOMAIN treeCache : treeCache[k] \in Response
        /\ \A k \in DOMAIN inFlight : inFlight[k].failed \in 0..(MaxAttempts - 1)
    <3>1. \A k \in DOMAIN treeCache : treeCache[k] \in Response /\ k \in TreeRequest
      BY DEF IInv, CachesOK, Response
    <3>2. QED
      BY <3>1, KeysAreRequests DEF IInv, SlotsOK
  <2>3. QED
    BY <2>1, <2>2 DEF IInv, ShapeOK, TypeOK
<1>2. QED
  BY <1>1, Invariance, PTL

\* No sidecar is shipped under a label it was not made with, however many builds
\* share the caches.
THEOREM SidecarsAnswerTheirLabel == Spec => []SidecarsMatchTheirLabel
<1>1. IInv => SidecarsMatchTheirLabel
  <2> SUFFICES ASSUME IInv, NEW b \in Builds, NEW d \in DOMAIN artifact[b], NEW p \in TreePasses
               PROVE  artifact[b][d].tree[p].of =
                        [pass |-> p, model |-> input[b].config.enrichmentModel,
                         version |-> input[b].config.promptVersions[p],
                         tree |-> TreeOf[input[b].corpus][d]]
    BY DEF SidecarsMatchTheirLabel
  <2>1. /\ artifact[b][d] = Made(treeCache, chunkCache, input[b], d)
        /\ Passed(treeCache, input[b], d) /\ Coherent(input[b])
    BY ArtifactIsMade DEF Kept
  <2>2. artifact[b][d].tree[p] = treeCache[Ask(input[b], d, p)]
    BY <2>1 DEF Made, Sidecars
  <2>3. treeCache[Ask(input[b], d, p)].of = Ask(input[b], d, p)
    BY <2>1 DEF Passed, IInv, CachesOK
  <2>4. input[b].model = input[b].config.enrichmentModel
    BY <2>1 DEF Coherent
  <2>5. QED
    BY <2>2, <2>3, <2>4 DEF Ask
<1>2. QED
  BY <1>1, Invariance, PTL

\* No chunk cites facts other than those it is shipped with.
THEOREM ContextsCiteWhatTheyShip == Spec => []ContextsCiteTheirFacts
<1>1. IInv => ContextsCiteTheirFacts
  <2> SUFFICES ASSUME IInv, NEW b \in Builds, NEW d \in DOMAIN artifact[b],
                      NEW c \in DOMAIN artifact[b][d].contexts
               PROVE  artifact[b][d].contexts[c].of =
                        [model |-> input[b].config.enrichmentModel,
                         version |-> input[b].config.promptVersions["situating-context"],
                         tree |-> TreeOf[input[b].corpus][d],
                         facts |-> TreeFactsDigest([p \in TreePasses |->
                                     artifact[b][d].tree[p].found]), chunk |-> c]
    BY DEF ContextsCiteTheirFacts
  <2> DEFINE i == input[b]
             k == ChunkKeyAt(treeCache, i, d, c)
  <2>1. /\ artifact[b][d] = Made(treeCache, chunkCache, i, d)
        /\ Kept(treeCache, chunkCache, i, d) /\ Coherent(i)
    BY ArtifactIsMade
  <2>2. /\ artifact[b][d].tree = Sidecars(treeCache, i, d)
        /\ artifact[b][d].contexts = ContextsAt(treeCache, chunkCache, i, d)
    BY <2>1 DEF Made
  <2>3. c \in ChunksAt(i, d) /\ artifact[b][d].contexts[c] = chunkCache[k] /\ k \in DOMAIN chunkCache
    BY <2>1, <2>2 DEF ContextsAt, Kept, Situable
  <2>4. chunkCache[k].of =
          [model |-> k[2], version |-> k[3], tree |-> k[4], facts |-> k[5], chunk |-> k[6]]
    BY <2>3 DEF IInv, CachesOK
  <2>5. /\ k[2] = i.model /\ k[3] = i.config.promptVersions["situating-context"]
        /\ k[4] = TreeOf[i.corpus][d] /\ k[5] = FactsAt(treeCache, i, d) /\ k[6] = c
    BY DEF ChunkKeyAt, ChunkCacheKey
  <2>6. i.model = i.config.enrichmentModel
    BY <2>1 DEF Coherent
  <2> HIDE DEF k
  <2>7. FactsAt(treeCache, i, d) =
          TreeFactsDigest([p \in TreePasses |-> artifact[b][d].tree[p].found])
    BY <2>2 DEF FactsAt
  <2>8. QED
    BY <2>3, <2>4, <2>5, <2>6, <2>7
<1>2. QED
  BY <1>1, Invariance, PTL

\* A build of what was built before over the same caches never calls the model,
\* and never fails.
THEOREM RerunsCostNothing == Spec => []RerunsAreFree
<1>1. IInv => RerunsAreFree
  BY DEF IInv, ShapeOK, BuildOK, Free, RerunsAreFree
<1>2. QED
  BY <1>1, Invariance, PTL

\* Two finished builds of one input are one and the same, in whatever order the
\* model answered them.
THEOREM SameInputSameBuild == Spec => []SameInputSameArtifact
<1>1. IInv => SameInputSameArtifact
  <2> SUFFICES ASSUME IInv, NEW b \in Builds, NEW c \in Builds,
                      phase[b] = "built", phase[c] = "built", input[b] = input[c]
               PROVE  artifact[b] = artifact[c]
    BY DEF SameInputSameArtifact
  <2>1. Done(input[b], phase[b], doc[b]) = DocsOf(input[b])
        /\ Done(input[c], phase[c], doc[c]) = DocsOf(input[b])
    BY DEF Done
  <2>2. /\ artifact[b] = [d \in 1..DocsOf(input[b]) |-> Made(treeCache, chunkCache, input[b], d)]
        /\ artifact[c] = [d \in 1..DocsOf(input[b]) |-> Made(treeCache, chunkCache, input[b], d)]
    BY <2>1 DEF IInv, BuildOK, Placed, ArtifactOK
  <2>3. QED
    BY <2>2
<1>2. QED
  BY <1>1, Invariance, PTL

\* The responses that are not valid were in the snapshot as they are.
OnlySeedsAreBad ==
  \E seed \in Seeds : \A k \in DOMAIN treeCache :
    treeCache[k].valid \/ (k \in DOMAIN seed.tree /\ treeCache[k] = seed.tree[k])

\* A response that fails validation leaves no trace.
THEOREM OnlyValidatedIsKept == Spec => []NothingUnvalidatedIsKept
<1>1. Init => OnlySeedsAreBad
  BY DEF Init, OnlySeedsAreBad
<1>2. OnlySeedsAreBad /\ [Next]_vars => OnlySeedsAreBad'
  <2> SUFFICES ASSUME OnlySeedsAreBad, [Next]_vars
               PROVE  OnlySeedsAreBad'
    OBVIOUS
  <2>1. CASE treeCache' = treeCache
    BY <2>1 DEF OnlySeedsAreBad
  <2>2. ASSUME NEW key \in DOMAIN inFlight, CallAnswers(key)
        PROVE  OnlySeedsAreBad'
    <3>1. PICK what \in Finds[inFlight[key].of.pass] :
            treeCache' = Put(treeCache, key, [found |-> what, valid |-> TRUE,
                                              of |-> inFlight[key].of])
      BY <2>2 DEF CallAnswers
    <3>2. /\ \A k \in DOMAIN treeCache' : k = key \/ k \in DOMAIN treeCache
          /\ treeCache'[key].valid
          /\ \A k \in DOMAIN treeCache : k # key => treeCache'[k] = treeCache[k]
      BY <3>1 DEF Put
    <3>3. QED
      BY <3>2 DEF OnlySeedsAreBad
  <2>3. QED
    BY <2>1, <2>2
       DEF Next, vars, Begin, BuildStep, CallStep, CallFails, CallMisleads, CloseTree, BatchFails,
           BatchMisleads, Situate
<1>3. IInv /\ OnlySeedsAreBad => NothingUnvalidatedIsKept
  <2> SUFFICES ASSUME IInv, NEW b \in Builds, NEW d \in DOMAIN artifact[b], NEW p \in TreePasses
               PROVE  artifact[b][d].tree[p].valid
    BY DEF NothingUnvalidatedIsKept, OnlySeedsAreBad
  <2>1. /\ artifact[b][d] = Made(treeCache, chunkCache, input[b], d)
        /\ Passed(treeCache, input[b], d)
    BY ArtifactIsMade DEF Kept
  <2>2. artifact[b][d].tree[p] = treeCache[Ask(input[b], d, p)]
    BY <2>1 DEF Made, Sidecars
  <2>3. QED
    BY <2>1, <2>2 DEF Passed
<1>4. QED
  BY <1>1, <1>2, <1>3, Invariance, PTL DEF Spec

-----------------------------------------------------------------------------
(* The caches implement the promise of OncePerKey.                         *)

LEMMA OpenIsBegin ==
  ASSUME IInv, IInv', NEW b \in Builds, Coherent(input[b]), NEW d \in 1..DocsOf(input[b]),
         OpenDocument(b, d), treeCache' = treeCache
  PROVE  Once!Begin
<1>1. /\ DOMAIN inFlight \subseteq DOMAIN inFlight'
      /\ \A k \in DOMAIN inFlight' \ DOMAIN inFlight : k \notin DOMAIN treeCache
  BY OpenFacts DEF IInv
<1>2. DOMAIN inFlight' \subseteq TreeKeys
  BY KeysAreRequests DEF IInv, SlotsOK
<1>3. QED
  BY <1>1, <1>2 DEF Once!Begin

LEMMA OnceStep ==
  ASSUME IInv, IInv', [Next]_vars
  PROVE  [Once!Next]_Once!onceVars
<1>1. CASE DOMAIN inFlight' = DOMAIN inFlight /\ treeCache' = treeCache
  BY <1>1 DEF Once!onceVars
<1>2. ASSUME NEW b \in Builds, Begin(b)
      PROVE  [Once!Next]_Once!onceVars
  <2>1. CASE ~Coherent(input[b])
    BY <1>1, <1>2, <2>1 DEF Begin
  <2>2. CASE Coherent(input[b])
    <3>1. OpenDocument(b, 1) /\ treeCache' = treeCache
      BY <1>2, <2>2 DEF Begin
    <3>2. 1 \in 1..DocsOf(input[b])
      BY CallTypes DEF IInv, ShapeOK
    <3>3. QED
      BY <2>2, <3>1, <3>2, OpenIsBegin DEF Once!Next
  <2>3. QED
    BY <2>1, <2>2
<1>3. ASSUME NEW b \in Builds, BuildStep(b)
      PROVE  [Once!Next]_Once!onceVars
  <2>1. CASE CloseTree(b) \/ BatchFails(b) \/ BatchMisleads(b)
    BY <1>1, <2>1 DEF CloseTree, BatchFails, BatchMisleads
  <2>2. CASE Situate(b)
    <3>1. /\ treeCache' = treeCache
          /\ \/ inFlight' = inFlight
             \/ doc[b] < Docs(b) /\ OpenDocument(b, doc[b] + 1)
      BY <2>2 DEF Situate, CloseDocument
    <3>2. /\ Coherent(input[b]) /\ doc[b] \in 1..DocsOf(input[b]) /\ DocsOf(input[b]) = Docs(b)
          /\ DocsOf(input[b]) \in Nat
      BY <2>2, CallTypes DEF Situate, IInv, ShapeOK, BuildOK, Placed
    <3>3. CASE doc[b] < Docs(b) /\ OpenDocument(b, doc[b] + 1)
      <4>1. doc[b] + 1 \in 1..DocsOf(input[b])
        BY <3>2, <3>3
      <4>2. QED
        BY <3>1, <3>2, <3>3, <4>1, OpenIsBegin DEF Once!Next
    <3>4. QED
      BY <1>1, <3>1, <3>3
  <2>3. QED
    BY <1>3, <2>1, <2>2 DEF BuildStep
<1>4. ASSUME NEW key \in DOMAIN inFlight, CallStep(key)
      PROVE  [Once!Next]_Once!onceVars
  <2>1. CASE Abandon(key) /\ treeCache' = treeCache
    <3>1. DOMAIN inFlight' = DOMAIN inFlight \ {key}
      BY <2>1 DEF Abandon, Drop, Restrict
    <3>2. Once!Abandon
      BY <2>1, <3>1 DEF Once!Abandon
    <3>3. QED
      BY <3>2 DEF Once!Next
  <2>2. CASE CallAnswers(key)
    <3>1. PICK response : treeCache' = Put(treeCache, key, response)
      BY <2>2 DEF CallAnswers
    <3>2. DOMAIN inFlight' = DOMAIN inFlight \ {key}
      BY <2>2 DEF CallAnswers, Drop, Restrict
    <3>3. /\ DOMAIN treeCache' = DOMAIN treeCache \cup {key}
          /\ \A k \in DOMAIN treeCache : k # key => treeCache'[k] = treeCache[k]
      BY <3>1 DEF Put
    <3>4. key \notin DOMAIN treeCache /\ treeCache'[key] \in Response
      BY <3>3 DEF IInv, SlotsOK, CachesOK
    <3>5. Once!Finish
      BY <3>2, <3>3, <3>4 DEF Once!Finish
    <3>6. QED
      BY <3>5 DEF Once!Next
  <2>3. CASE CallFails(key) /\ ~Abandon(key)
    BY <1>1, <2>3 DEF CallFails
  <2>4. QED
    BY <1>4, <2>1, <2>2, <2>3 DEF CallStep, CallFails, CallMisleads
<1>5. CASE UNCHANGED vars
  BY <1>1, <1>5 DEF vars
<1>6. QED
  BY <1>2, <1>3, <1>4, <1>5 DEF Next

\* Every key is produced once, for any number of builds that want it at once.
THEOREM CachesAreOncePerKey == Spec => ImplementsOncePerKey
<1>1. Init => Once!Init
  <2> SUFFICES ASSUME Init
               PROVE  Once!Init
    OBVIOUS
  <2>1. PICK seed \in Seeds : treeCache = seed.tree
    BY DEF Init
  <2>2. \A k \in DOMAIN treeCache : treeCache[k] \in Response /\ k \in TreeRequest
    BY <2>1, SeedAssumption DEF Response
  <2>3. DOMAIN treeCache \subseteq TreeKeys
    BY <2>2, KeysAreRequests
  <2>4. DOMAIN inFlight = {}
    BY DEF Init, NoTable
  <2>5. QED
    BY <2>2, <2>3, <2>4 DEF Once!Init
<1>2. IInv /\ IInv' /\ [Next]_vars => [Once!Next]_Once!onceVars
  BY OnceStep
<1>3. QED
  BY <1>1, <1>2, Invariance, PTL DEF Spec, ImplementsOncePerKey, Once!Spec

-----------------------------------------------------------------------------
(* Nobody waits for a call that nobody makes.  A build is resumed by the   *)
(* end of a production alone, so this is what EveryBuildEnds rests on.     *)

Awaited(b) ==
  phase[b] = "tree" => \A p \in TreePasses \ DOMAIN found[b] : KeyOf(b, p) \in DOMAIN inFlight

\* A document is opened: what is not stored is in production from then on.
LEMMA OpenAwaits ==
  ASSUME ShapeOK, NEW b \in Builds, NEW d, OpenDocument(b, d), input' = input
  PROVE  Awaited(b)' /\ DOMAIN inFlight \subseteq DOMAIN inFlight'
                     /\ \A c \in Builds \ {b} : UNCHANGED <<phase[c], doc[c], found[c]>>
<1> DEFINE key(p) == Ask(input[b], d, p)
           new == {key(p) : p \in {q \in TreePasses : key(q) \notin DOMAIN treeCache \cup DOMAIN inFlight}}
           stored == {p \in TreePasses : key(p) \in DOMAIN treeCache}
<1>1. /\ phase' = [phase EXCEPT ![b] = "tree"] /\ doc' = [doc EXCEPT ![b] = d]
      /\ found' = [found EXCEPT ![b] = [p \in stored |-> treeCache[key(p)]]]
      /\ DOMAIN inFlight' = DOMAIN inFlight \cup new
  BY DEF OpenDocument, Misses, TreeCacheKey, Version, Ask
<1>2. \A c \in Builds \ {b} : UNCHANGED <<phase[c], doc[c], found[c]>>
  BY <1>1 DEF ShapeOK
<1>3. doc'[b] = d /\ DOMAIN found'[b] = stored
  BY <1>1 DEF ShapeOK
<1>4. ASSUME NEW p \in TreePasses \ stored
      PROVE  KeyOf(b, p)' \in DOMAIN inFlight'
  <2>1. KeyOf(b, p)' = key(p)
    BY <1>3 DEF KeyOf, TreeCacheKey, Version, Tree, Ask
  <2>2. QED
    BY <1>1, <2>1
<1>5. QED
  BY <1>1, <1>2, <1>3, <1>4 DEF Awaited

\* Who awaits what it awaited before, while no production has ended.
LEMMA StillAwaits ==
  ASSUME NEW b, Awaited(b), UNCHANGED <<input, doc[b], found[b]>>,
         phase'[b] = "tree" => phase[b] = "tree", DOMAIN inFlight \subseteq DOMAIN inFlight'
  PROVE  Awaited(b)'
BY DEF Awaited, KeyOf, TreeCacheKey, Version, Tree

\* The end of a production takes everyone along who waits for it.
LEMMA EndResumesAll ==
  ASSUME ShapeOK, NEW key, inFlight' = Drop(inFlight, key), UNCHANGED <<input, doc>>,
         NEW b \in Builds, Awaited(b),
         \/ b \in Waiters(key) /\ (phase'[b] # "tree" \/ key.pass \in DOMAIN found'[b])
         \/ b \notin Waiters(key),
         phase'[b] = "tree" => phase[b] = "tree" /\ DOMAIN found[b] \subseteq DOMAIN found'[b]
  PROVE  Awaited(b)'
<1>1. DOMAIN inFlight' = DOMAIN inFlight \ {key}
  BY DEF Drop, Restrict
<1>2. SUFFICES ASSUME phase'[b] = "tree", NEW p \in TreePasses \ DOMAIN found'[b]
               PROVE  KeyOf(b, p)' \in DOMAIN inFlight'
  BY DEF Awaited
<1>3. KeyOf(b, p)' = KeyOf(b, p) /\ KeyOf(b, p).pass = p
  BY DEF KeyOf, TreeCacheKey, Version, Tree
<1>4. KeyOf(b, p) \in DOMAIN inFlight
  BY <1>2 DEF Awaited
<1>5. KeyOf(b, p) # key
  BY <1>2, <1>3 DEF Waiters
<1>6. QED
  BY <1>1, <1>3, <1>4, <1>5

NobodyWaitsInVain == \A b \in Builds : Awaited(b)

LEMMA AwaitedStep ==
  ASSUME IInv, NobodyWaitsInVain, [Next]_vars
  PROVE  NobodyWaitsInVain'
<1> SUFFICES ASSUME NEW c \in Builds
             PROVE  Awaited(c)'
  BY DEF NobodyWaitsInVain
<1>1. ShapeOK /\ Awaited(c)
  BY DEF IInv, NobodyWaitsInVain
<1>2. ASSUME NEW b \in Builds, NEW d, OpenDocument(b, d), input' = input
      PROVE  Awaited(c)'
  BY <1>1, <1>2, OpenAwaits, StillAwaits
<1>3. ASSUME NEW B, Fail(B), UNCHANGED <<input, doc, inFlight>>
      PROVE  Awaited(c)'
  <2>1. phase'[c] = "failed" \/ (phase'[c] = phase[c] /\ found'[c] = found[c])
    BY <1>3 DEF Fail
  <2>2. CASE phase'[c] = "failed"
    BY <2>2 DEF Awaited
  <2>3. CASE phase'[c] = phase[c] /\ found'[c] = found[c]
    BY <1>1, <1>3, <2>3, StillAwaits
  <2>4. QED
    BY <2>1, <2>2, <2>3
<1>4. ASSUME NEW b \in Builds, Begin(b)
      PROVE  Awaited(c)'
  BY <1>2, <1>3, <1>4 DEF Begin
<1>5. ASSUME NEW b \in Builds, BuildStep(b)
      PROVE  Awaited(c)'
  <2>1. CASE Fail({b}) /\ UNCHANGED <<input, doc, inFlight>>
    BY <1>3, <2>1
  <2>2. CASE /\ phase' = [phase EXCEPT ![b] = "chunk"] \/ phase' = [phase EXCEPT ![b] = "built"] \/ phase' = phase
             /\ found' = found \/ found' = [found EXCEPT ![b] = NoTable]
             /\ phase' = phase => found' = found
             /\ UNCHANGED <<input, doc, inFlight>>
    <3>1. phase'[c] = "tree" => phase[c] = "tree" /\ found'[c] = found[c]
      BY <1>1, <2>2 DEF ShapeOK
    <3>2. CASE phase'[c] = "tree"
      BY <1>1, <2>2, <3>1, <3>2, StillAwaits
    <3>3. QED
      BY <3>2 DEF Awaited
  <2>3. CASE \E d : OpenDocument(b, d) /\ input' = input
    BY <1>2, <2>3
  <2>4. CASE CloseTree(b)
    BY <2>1, <2>2, <2>4 DEF CloseTree
  <2>5. CASE BatchFails(b) \/ BatchMisleads(b)
    BY <2>1, <2>2, <2>5 DEF BatchFails, BatchMisleads
  <2>6. CASE Situate(b)
    <3>1. \/ Fail({b}) /\ UNCHANGED <<input, doc, inFlight>>
          \/ \E contexts : CloseDocument(b, contexts) /\ input' = input
      BY <2>6 DEF Situate
    <3>2. ASSUME NEW contexts, CloseDocument(b, contexts), input' = input
          PROVE  Awaited(c)'
      <4>1. CASE OpenDocument(b, doc[b] + 1)
        BY <2>3, <3>2, <4>1
      <4>2. CASE /\ phase' = [phase EXCEPT ![b] = "built"]
                 /\ found' = [found EXCEPT ![b] = NoTable]
                 /\ UNCHANGED <<doc, inFlight>>
        <5>1. phase'[c] = "tree" => phase[c] = "tree" /\ found'[c] = found[c]
          BY <1>1, <4>2 DEF ShapeOK
        <5>2. CASE phase'[c] = "tree"
          BY <1>1, <3>2, <4>2, <5>1, <5>2, StillAwaits
        <5>3. QED
          BY <5>2 DEF Awaited
      <4>3. QED
        BY <3>2, <4>1, <4>2 DEF CloseDocument
    <3>3. QED
      BY <2>1, <3>1, <3>2
  <2>7. QED
    BY <1>5, <2>4, <2>5, <2>6 DEF BuildStep
<1>6. ASSUME NEW key \in DOMAIN inFlight, CallStep(key)
      PROVE  Awaited(c)'
  <2>1. CASE Abandon(key) /\ UNCHANGED <<input, doc>>
    <3>1. /\ inFlight' = Drop(inFlight, key)
          /\ c \in Waiters(key) => phase'[c] = "failed"
          /\ phase'[c] = "tree" => phase[c] = "tree" /\ found'[c] = found[c]
      BY <2>1 DEF Abandon, Fail
    <3>2. CASE c \in Waiters(key)
      BY <3>1, <3>2 DEF Awaited
    <3>3. CASE c \notin Waiters(key)
      BY <1>1, <2>1, <3>1, <3>3, EndResumesAll
    <3>4. QED
      BY <3>2, <3>3
  <2>2. CASE CallAnswers(key)
    <3>1. PICK response :
            /\ inFlight' = Drop(inFlight, key) /\ UNCHANGED <<input, doc, phase>>
            /\ found' = [b \in Builds |-> IF b \in Waiters(key) THEN Put(found[b], key.pass, response)
                                          ELSE found[b]]
      BY <2>2 DEF CallAnswers
    <3>2. DOMAIN found'[c] = IF c \in Waiters(key) THEN DOMAIN found[c] \cup {key.pass}
                             ELSE DOMAIN found[c]
      BY <3>1 DEF Put
    <3>3. QED
      BY <1>1, <3>1, <3>2, EndResumesAll
  <2>3. CASE /\ inFlight' = [inFlight EXCEPT ![key].failed = @ + 1]
             /\ UNCHANGED <<input, doc, phase, found>>
    BY <1>1, <2>3, StillAwaits
  <2>4. QED
    BY <1>6, <2>1, <2>2, <2>3 DEF CallStep, CallFails, CallMisleads
<1>7. CASE UNCHANGED vars
  BY <1>1, <1>7, StillAwaits DEF vars
<1>8. QED
  BY <1>4, <1>5, <1>6, <1>7 DEF Next

\* No wake-up is lost: as long as a build waits for a pass, the production of
\* its key is under way, whoever began it and whoever of those who shared it
\* has failed since (createMemoryCache, getOrCompute).
THEOREM NoWakeUpIsLost == Spec => []NobodyWaitsInVain
<1>1. Init => NobodyWaitsInVain
  BY DEF Init, NobodyWaitsInVain, Awaited
<1>2. IInv /\ NobodyWaitsInVain /\ [Next]_vars => NobodyWaitsInVain'
  BY AwaitedStep
<1>3. QED
  BY <1>1, <1>2, Invariance, PTL DEF Spec

-----------------------------------------------------------------------------
(* What a build and a call have left to do, as numbers.                    *)

\* The documents after this one, each with the attempts of its batched call
\* and its two ends, and what is left of this one.
StepsLeft(b) ==
  LET after == (Docs(b) - doc[b]) * (MaxAttempts + 2) IN
  IF phase[b] = "tree" THEN after + MaxAttempts + 2
  ELSE IF phase[b] = "chunk" THEN after + 1 + (MaxAttempts - batch[b].failed)
  ELSE 0

\* A step of a build under way brings it nearer to its end, and nothing that
\* other builds and calls do sets it back; a step of a call ends it or takes
\* one of its attempts.
RunsDown ==
  /\ \A b \in Builds : phase[b] \in {"tree", "chunk"} =>
       /\ StepsLeft(b) \in Nat \ {0} /\ StepsLeft(b)' \in Nat
       /\ BuildStep(b) => StepsLeft(b)' < StepsLeft(b)
       /\ StepsLeft(b)' <= StepsLeft(b)
  /\ \A key \in DOMAIN inFlight :
       /\ CallStep(key) =>
            key \notin DOMAIN inFlight' \/ inFlight'[key].failed = inFlight[key].failed + 1
       /\ key \in DOMAIN inFlight' => inFlight'[key].failed >= inFlight[key].failed

LEMMA BuildMoves ==
  ASSUME IInv, NEW b \in Builds, BuildStep(b)
  PROVE  \/ /\ phase[b] = "tree" /\ phase'[b] = "chunk"
            /\ doc'[b] = doc[b] /\ batch'[b].failed = 0
         \/ /\ phase[b] = "chunk" /\ phase'[b] = "chunk" /\ doc'[b] = doc[b]
            /\ batch'[b].failed = batch[b].failed + 1 /\ batch[b].failed + 1 < MaxAttempts
         \/ /\ phase[b] = "chunk" /\ phase'[b] = "tree"
            /\ doc'[b] = doc[b] + 1 /\ doc[b] < Docs(b)
         \/ phase[b] \in {"tree", "chunk"} /\ phase'[b] \in {"built", "failed"}
<1>1. DOMAIN phase = Builds /\ DOMAIN doc = Builds /\ DOMAIN batch = Builds
  BY DEF IInv, ShapeOK
<1>2. ASSUME Fail({b})
      PROVE  phase'[b] = "failed"
  BY <1>2 DEF Fail
<1>3. CASE CloseTree(b)
  BY <1>1, <1>2, <1>3 DEF CloseTree
<1>4. CASE BatchFails(b)
  <2>1. CASE /\ batch[b].failed + 1 < MaxAttempts
             /\ batch' = [batch EXCEPT ![b].failed = @ + 1]
             /\ UNCHANGED phase
    <3>1. batch[b] = [chunks |-> batch[b].chunks, failed |-> batch[b].failed]
      BY DEF IInv, BuildOK, Placed, BatchOK
    <3>2. batch'[b] = [batch[b] EXCEPT !.failed = batch[b].failed + 1]
      BY <1>1, <2>1
    <3>3. batch'[b].failed = batch[b].failed + 1
      BY <3>1, <3>2
    <3>4. QED
      BY <1>4, <2>1, <3>3 DEF BatchFails
  <2>2. QED
    BY <1>2, <1>4, <2>1 DEF BatchFails
<1>5. CASE BatchMisleads(b)
  BY <1>2, <1>5 DEF BatchMisleads
<1>6. CASE Situate(b)
  <2>1. phase[b] = "chunk" /\ (Fail({b}) \/ \E contexts : CloseDocument(b, contexts))
    BY <1>6 DEF Situate
  <2>2. ASSUME NEW contexts, CloseDocument(b, contexts)
        PROVE  \/ phase'[b] = "tree" /\ doc'[b] = doc[b] + 1 /\ doc[b] < Docs(b)
               \/ phase'[b] = "built"
    BY <1>1, <2>2 DEF CloseDocument, OpenDocument
  <2>3. QED
    BY <1>2, <2>1, <2>2
<1>7. QED
  BY <1>3, <1>4, <1>5, <1>6 DEF BuildStep

\* What a build does not do itself leaves it where it is, or fails it.
LEMMA OthersLeaveIt ==
  ASSUME IInv, [Next]_vars, NEW b \in Builds, phase[b] \in {"tree", "chunk"}, ~BuildStep(b)
  PROVE  \/ phase'[b] = "failed"
         \/ phase'[b] = phase[b] /\ doc'[b] = doc[b] /\ batch'[b] = batch[b]
<1>1. DOMAIN phase = Builds /\ DOMAIN doc = Builds /\ DOMAIN batch = Builds
  BY DEF IInv, ShapeOK
<1>2. ASSUME NEW B, Fail(B), UNCHANGED doc
      PROVE  \/ phase'[b] = "failed"
             \/ phase'[b] = phase[b] /\ doc'[b] = doc[b] /\ batch'[b] = batch[b]
  BY <1>2 DEF Fail
<1>3. ASSUME NEW c \in Builds, c # b, Begin(c) \/ BuildStep(c)
      PROVE  \/ phase'[b] = "failed"
             \/ phase'[b] = phase[b] /\ doc'[b] = doc[b] /\ batch'[b] = batch[b]
  <2>1. CASE Begin(c)
    BY <1>1, <1>2, <1>3, <2>1 DEF Begin, OpenDocument
  <2>2. CASE CloseTree(c)
    BY <1>1, <1>2, <1>3, <2>2 DEF CloseTree
  <2>3. CASE BatchFails(c) \/ BatchMisleads(c)
    BY <1>1, <1>2, <1>3, <2>3 DEF BatchFails, BatchMisleads
  <2>4. CASE Situate(c)
    <3>1. \/ Fail({c}) /\ UNCHANGED doc
          \/ \E contexts : CloseDocument(c, contexts)
      BY <2>4 DEF Situate
    <3>2. ASSUME NEW contexts, CloseDocument(c, contexts)
          PROVE  phase'[b] = phase[b] /\ doc'[b] = doc[b] /\ batch'[b] = batch[b]
      BY <1>1, <1>3, <3>2 DEF CloseDocument, OpenDocument
    <3>3. QED
      BY <1>2, <3>1, <3>2
  <2>5. QED
    BY <1>3, <2>1, <2>2, <2>3, <2>4 DEF BuildStep
<1>4. ASSUME NEW key \in DOMAIN inFlight, CallStep(key)
      PROVE  \/ phase'[b] = "failed"
             \/ phase'[b] = phase[b] /\ doc'[b] = doc[b] /\ batch'[b] = batch[b]
  BY <1>2, <1>4 DEF CallStep, CallFails, CallAnswers, CallMisleads, Abandon
<1>5. ~Begin(b)
  BY DEF Begin
<1>6. CASE UNCHANGED vars
  BY <1>6 DEF vars
<1>7. QED
  BY <1>3, <1>4, <1>5, <1>6 DEF Next

\* The slot of a call in flight is cleared, or its attempts are counted.
LEMMA CallsRunDown ==
  ASSUME IInv, [Next]_vars, NEW key \in DOMAIN inFlight
  PROVE  /\ CallStep(key) =>
              \/ key \notin DOMAIN inFlight'
              \/ inFlight'[key].failed = inFlight[key].failed + 1
         /\ key \in DOMAIN inFlight' => inFlight'[key].failed >= inFlight[key].failed
<1>1. \A k \in DOMAIN inFlight :
        /\ inFlight[k] = [of |-> k, failed |-> inFlight[k].failed]
        /\ inFlight[k].failed \in Nat
  BY BuildAssumption DEF IInv, SlotsOK
<1>2. ASSUME NEW k \in DOMAIN inFlight, CallStep(k)
      PROVE  /\ \/ inFlight' = Drop(inFlight, k)
                \/ inFlight' = [inFlight EXCEPT ![k].failed = @ + 1]
             /\ \/ k \notin DOMAIN inFlight'
                \/ inFlight'[k].failed = inFlight[k].failed + 1
  <2>1. \/ inFlight' = Drop(inFlight, k)
        \/ inFlight' = [inFlight EXCEPT ![k].failed = @ + 1]
    BY <1>2 DEF CallStep, CallFails, CallAnswers, CallMisleads, Abandon
  <2>2. CASE inFlight' = Drop(inFlight, k)
    BY <2>2 DEF Drop, Restrict
  <2>3. CASE inFlight' = [inFlight EXCEPT ![k].failed = @ + 1]
    <3>1. inFlight'[k] = [inFlight[k] EXCEPT !.failed = inFlight[k].failed + 1]
      BY <2>3
    <3>2. inFlight'[k].failed = inFlight[k].failed + 1
      BY <1>1, <3>1
    <3>3. QED
      BY <2>3, <3>2
  <2>4. QED
    BY <2>1, <2>2, <2>3
<1>3. ASSUME NEW k \in DOMAIN inFlight, CallStep(k), key \in DOMAIN inFlight'
      PROVE  inFlight'[key].failed >= inFlight[key].failed
  <2>1. CASE key = k
    BY <1>1, <1>2, <1>3, <2>1
  <2>2. CASE key # k
    <3>1. inFlight'[key] = inFlight[key]
      BY <1>2, <1>3, <2>2 DEF Drop, Restrict
    <3>2. QED
      BY <1>1, <3>1
  <2>3. QED
    BY <2>1, <2>2
<1>4. ASSUME NEW b, NEW d, OpenDocument(b, d)
      PROVE  inFlight'[key] = inFlight[key]
  BY <1>4 DEF OpenDocument, Misses
<1>5. ASSUME NEW b \in Builds, Begin(b) \/ BuildStep(b)
      PROVE  inFlight'[key] = inFlight[key]
  <2>1. CASE Begin(b)
    BY <1>4, <2>1 DEF Begin
  <2>2. CASE CloseTree(b) \/ BatchFails(b) \/ BatchMisleads(b)
    BY <2>2 DEF CloseTree, BatchFails, BatchMisleads
  <2>3. CASE Situate(b)
    BY <1>4, <2>3 DEF Situate, CloseDocument
  <2>4. QED
    BY <1>5, <2>1, <2>2, <2>3 DEF BuildStep
<1>6. CASE UNCHANGED vars
  BY <1>1, <1>2, <1>6 DEF vars
<1>7. QED
  BY <1>1, <1>2, <1>3, <1>5, <1>6 DEF Next

LEMMA BuildsRunDown ==
  ASSUME IInv, [Next]_vars, NEW b \in Builds, phase[b] \in {"tree", "chunk"}
  PROVE  /\ StepsLeft(b) \in Nat \ {0} /\ StepsLeft(b)' \in Nat
         /\ BuildStep(b) => StepsLeft(b)' < StepsLeft(b)
         /\ StepsLeft(b)' <= StepsLeft(b)
<1> DEFINE M == MaxAttempts
           left == Docs(b) - doc[b]
           spent == batch[b].failed
<1>1. /\ M \in Nat \ {0} /\ left \in Nat /\ spent \in 0..(M - 1)
      /\ Docs(b) \in Nat /\ doc[b] \in Nat
  BY CallTypes, BuildAssumption DEF IInv, ShapeOK, BuildOK, Placed, BatchOK
<1>2. input' = input
  BY DEF Next, vars, Begin, BuildStep, CloseTree, BatchFails, BatchMisleads, Situate,
     CallStep, CallFails, CallAnswers, CallMisleads
<1>3. \A n \in Nat : n * (M + 2) \in Nat /\ (n + 1) * (M + 2) = n * (M + 2) + M + 2
  <2> HIDE DEF M
  <2>1. QED
    BY <1>1
<1>4. Docs(b)' = Docs(b)
  BY <1>2 DEF Docs
<1>5. /\ phase[b] = "tree" => StepsLeft(b) = left * (M + 2) + M + 2
      /\ phase[b] = "chunk" => StepsLeft(b) = left * (M + 2) + 1 + (M - spent)
  BY DEF StepsLeft
<1>6. /\ phase'[b] = "tree" => StepsLeft(b)' = (Docs(b) - doc'[b]) * (M + 2) + M + 2
      /\ phase'[b] = "chunk" =>
           StepsLeft(b)' = (Docs(b) - doc'[b]) * (M + 2) + 1 + (M - batch'[b].failed)
      /\ phase'[b] \notin {"tree", "chunk"} => StepsLeft(b)' = 0
  BY <1>4 DEF StepsLeft
<1> DEFINE rest == left * (M + 2)
<1>7. rest \in Nat
  BY <1>1, <1>3
<1>8. StepsLeft(b) \in Nat \ {0}
  <2> HIDE DEF rest, M, spent
  <2>1. QED
    BY <1>1, <1>5, <1>7 DEF rest
<1>9. CASE BuildStep(b)
  <2>1. CASE phase[b] = "tree" /\ phase'[b] = "chunk" /\ doc'[b] = doc[b] /\ batch'[b].failed = 0
    <3>1. StepsLeft(b) = rest + M + 2 /\ StepsLeft(b)' = rest + 1 + (M - 0)
      BY <1>5, <1>6, <2>1
    <3> HIDE DEF rest, M
    <3>2. QED
      BY <1>1, <1>7, <3>1
  <2>2. CASE /\ phase[b] = "chunk" /\ phase'[b] = "chunk" /\ doc'[b] = doc[b]
             /\ batch'[b].failed = spent + 1 /\ spent + 1 < M
    <3>1. StepsLeft(b) = rest + 1 + (M - spent) /\ StepsLeft(b)' = rest + 1 + (M - (spent + 1))
      BY <1>5, <1>6, <2>2
    <3>2. spent + 1 < M
      BY <2>2
    <3> HIDE DEF rest, M, spent
    <3>3. QED
      BY <1>1, <1>7, <3>1, <3>2
  <2>3. CASE /\ phase[b] = "chunk" /\ phase'[b] = "tree"
             /\ doc'[b] = doc[b] + 1 /\ doc[b] < Docs(b)
    <3> DEFINE next == Docs(b) - (doc[b] + 1)
               span == next * (M + 2)
    <3>1. next \in Nat /\ left = next + 1
      BY <1>1, <2>3
    <3>2. rest = span + M + 2 /\ span \in Nat
      <4> HIDE DEF next, left, M
      <4>1. QED
        BY <1>3, <3>1
    <3>3. StepsLeft(b) = rest + 1 + (M - spent) /\ StepsLeft(b)' = span + M + 2
      BY <1>5, <1>6, <2>3
    <3> HIDE DEF rest, M, spent, span
    <3>4. QED
      BY <1>1, <3>2, <3>3
  <2>4. CASE phase'[b] \in {"built", "failed"}
    BY <1>6, <1>8, <2>4
  <2>5. QED
    BY <1>8, <1>9, <2>1, <2>2, <2>3, <2>4, BuildMoves
<1>10. CASE ~BuildStep(b)
  <2>1. CASE phase'[b] = "failed"
    BY <1>6, <1>8, <1>10, <2>1
  <2>2. CASE phase'[b] = phase[b] /\ doc'[b] = doc[b] /\ batch'[b] = batch[b]
    <3>1. StepsLeft(b)' = StepsLeft(b)
      BY <1>4, <2>2 DEF StepsLeft
    <3>2. QED
      BY <1>8, <1>10, <3>1
  <2>3. QED
    BY <1>10, <2>1, <2>2, OthersLeaveIt
<1>11. QED
  BY <1>8, <1>9, <1>10

\* The safety half of EveryBuildEnds: builds and calls go one way, whatever
\* fails and whoever shares what.
THEOREM BuildsAndCallsRunDown == Spec => [][RunsDown]_vars
<1>1. IInv /\ [Next]_vars => RunsDown
  BY BuildsRunDown, CallsRunDown DEF RunsDown
<1>2. QED
  BY <1>1, Invariance, PTL DEF Spec
=============================================================================
