----------------------------- MODULE CorpusStore -----------------------------
(***************************************************************************)
(* How a checkout becomes what the service answers from: `ingest` parses   *)
(* and embeds the corpus and replaces the chunk rows in Atlas, `enrich`    *)
(* writes the tree sidecars to a file, and `serve` boots over both.  Each  *)
(* computes the corpus build hash from the files it finds; they run at the *)
(* same time, are killed anywhere, and the files change under them.        *)
(***************************************************************************)
EXTENDS Naturals, FiniteSets, Bags

CONSTANTS
  Statutes, Fixtures,   \* the documents under corpus/raw, and those committed
  Texts,                \* what a document may say
  Checkouts, First,     \* the commits that may be checked out, and the one at the start
  IndexName,            \* the vector index each pipeline configuration names
  Ingester, Enricher, Server,  \* the ingest, the enrichment build and the service
  Batches,              \* how many batches the corpus is embedded in
  MaxRetries,           \* how often one embedding batch is retried after a 429
  MaxChanges            \* how often the checkout and the raw files change

Documents == Statutes \cup Fixtures
Processes == {Ingester, Enricher, Server}
NoText == "no text"
None == [none |-> TRUE]
Torn == [torn |-> TRUE]  \* a file that is not wholly written

ASSUME StoreAssumption ==
  /\ IsFiniteSet(Documents) /\ Statutes \cap Fixtures = {} /\ NoText \notin Texts
  /\ Ingester # Enricher /\ Ingester # Server /\ Enricher # Server
  /\ First \in Checkouts /\ Batches \in Nat \ {0} /\ MaxRetries \in Nat /\ MaxChanges \in Nat
  /\ \A c \in Checkouts : /\ c.pins \in [Statutes -> Texts]
                          /\ c.fixtures \in [Fixtures -> Texts]
                          /\ {"naive", "enrichment"} \subseteq DOMAIN c

VARIABLES
  checkout,  \* the manifest's pins, the fixtures and both configurations
  raw,       \* the statutes under corpus/raw
  store,     \* the chunk rows in Atlas, a bag: no key keeps a row from being there twice
  indexes,   \* the search indexes that exist
  artifact,  \* corpus/enrichment/build.json
  proc,      \* the processes
  calm,      \* the running ones whose files were the pinned ones, and did not change since
  whole,     \* what the last ingest to touch the store had stored when it ended
  changes

vars == <<checkout, raw, store, indexes, artifact, proc, calm, whole, changes>>

Configs == {c.naive : c \in Checkouts}
EnrichmentConfigs == {c.enrichment : c \in Checkouts}
TextIndex == "text_bm25"

NotRunning ==
  [phase |-> "off", naive |-> NoText, enrichment |-> NoText,
   texts |-> [d \in Documents |-> NoText], pins |-> [d \in Statutes |-> NoText],
   fixtures |-> [d \in Fixtures |-> NoText], batch |-> 0, tries |-> 0,
   inserted |-> {}, sidecars |-> None]

Init ==
  /\ checkout = First
  /\ raw \in [Statutes -> {NoText}]
  /\ store = EmptyBag
  /\ indexes = {}
  /\ artifact = None
  /\ proc = [p \in Processes |-> NotRunning]
  /\ calm = {}
  /\ whole = None
  /\ changes = 0

-----------------------------------------------------------------------------
\* Mutant of CorpusHash: the hash of the manifest and the configuration alone.
HashWithoutFixtures(r) == [pins |-> r.pins, naive |-> r.naive]

\* buildRunRecord: a hash of the manifest's checksums, the fixtures and the
\* pipeline configuration, as the process read them; never of the store.
CorpusHash(r) == [pins |-> r.pins, fixtures |-> r.fixtures, naive |-> r.naive]

\* chunkParsedDocuments, and the vectors of the configured model.  The parser's
\* and the chunkers' code is the same in every commit here: a change of it that
\* keeps the chunker's id moves the rows and not the hash (pipelineConfigHash).
Rows(texts, naive) == {[doc |-> d, text |-> texts[d], naive |-> naive] : d \in Documents}
\* The texts a process's manifest and fixtures name.
Named(p) == [d \in Documents |-> IF d \in Statutes THEN proc[p].pins[d] ELSE proc[p].fixtures[d]]
Stored == BagToSet(store)

Verified == raw = checkout.pins
FileOf(d) == IF d \in Statutes THEN raw[d] ELSE checkout.fixtures[d]

\* What a process does after each of the reads that the three have in common.
NextPhase(p) ==
  CASE p = Ingester ->
         [parse |-> "embed", manifest |-> "fixtures"]
    [] p = Enricher ->
         [parse |-> "manifest", manifest |-> "fixtures", fixtures |-> "build"]
    [] p = Server ->
         [manifest |-> "fixtures", fixtures |-> "enrichment"]

Exit(p) == proc' = [proc EXCEPT ![p] = NotRunning] /\ calm' = calm \ {p}
Become(p, phase) == proc' = [proc EXCEPT ![p].phase = phase]

-----------------------------------------------------------------------------
\* Another commit is checked out, under whatever runs.
Checkout ==
  /\ changes < MaxChanges
  /\ changes' = changes + 1
  /\ checkout' \in Checkouts \ {checkout}
  /\ calm' = {}
  /\ UNCHANGED <<raw, store, indexes, artifact, proc, whole>>

\* corpus:fetch writes a statute that matches the manifest (CorpusFetch).
Fetch(d) ==
  /\ raw[d] # checkout.pins[d]
  /\ raw' = [raw EXCEPT ![d] = checkout.pins[d]]
  /\ calm' = {}
  /\ UNCHANGED <<checkout, store, indexes, artifact, proc, whole, changes>>

\* A process starts with the code, and so the configurations, of the checkout.
Start(p) ==
  /\ proc[p].phase = "off"
  /\ proc' = [proc EXCEPT ![p] = [NotRunning EXCEPT
                !.phase = IF p = Server THEN "manifest" ELSE "parse",
                !.naive = checkout.naive,
                !.enrichment = IF p = Ingester THEN @ ELSE checkout.enrichment]]
  /\ calm' = IF Verified /\ p # Server THEN calm \cup {p} ELSE calm
  /\ UNCHANGED <<checkout, raw, store, indexes, artifact, whole, changes>>

\* Any await rejects, or the process is killed: nothing is rolled back.
Die(p) ==
  /\ proc[p].phase # "off"
  /\ Exit(p)
  /\ UNCHANGED <<checkout, raw, store, indexes, artifact, whole, changes>>

\* loadOne: the documents are read and parsed in no fixed order; a statute that
\* is not there stops the process, one that is not the pinned one does not.
ParseDocument(p, d) ==
  /\ proc[p].phase = "parse"
  /\ proc[p].texts[d] = NoText
  /\ FileOf(d) # NoText
  /\ LET texts == [proc[p].texts EXCEPT ![d] = FileOf(d)] IN
     proc' = [proc EXCEPT
       ![p].texts = texts,
       ![p].phase = IF \A e \in Documents : texts[e] # NoText THEN NextPhase(p).parse ELSE @]
  /\ UNCHANGED <<checkout, raw, store, indexes, artifact, calm, whole, changes>>

\* loadManifestSnapshot
ReadManifest(p) ==
  /\ proc[p].phase = "manifest"
  /\ proc' = [proc EXCEPT ![p].pins = checkout.pins, ![p].phase = NextPhase(p).manifest]
  /\ UNCHANGED <<checkout, raw, store, indexes, artifact, calm, whole, changes>>

\* loadFixtureSnapshot, buildRunRecord.
ReadFixtures(p) ==
  /\ p # Ingester
  /\ proc[p].phase = "fixtures"
  /\ proc' = [proc EXCEPT ![p].fixtures = checkout.fixtures, ![p].phase = NextPhase(p).fixtures]
  /\ UNCHANGED <<checkout, raw, store, indexes, artifact, calm, whole, changes>>

-----------------------------------------------------------------------------
(* Ingest.                                                                 *)

\* Mutant of Embed: one retry too many.
EmbedOnceMore ==
  /\ proc[Ingester].phase = "embed" /\ proc[Ingester].tries <= MaxRetries
  /\ proc' = [proc EXCEPT ![Ingester].tries = @ + 1]
  /\ UNCHANGED <<checkout, raw, store, indexes, artifact, calm, whole, changes>>

\* A batch comes back with a vector of the right dimension for each text, or
\* with a 429 that may be retried; any other answer throws (Die).
Embed ==
  /\ proc[Ingester].phase = "embed"
  /\ proc[Ingester].batch < Batches
  /\ \/ /\ proc[Ingester].tries < MaxRetries
        /\ proc' = [proc EXCEPT ![Ingester].tries = @ + 1]
     \/ proc' = [proc EXCEPT ![Ingester].batch = @ + 1, ![Ingester].tries = 0]
  /\ UNCHANGED <<checkout, raw, store, indexes, artifact, calm, whole, changes>>

\* Mutant of Delete: the rows are inserted beside the old ones.
KeepRows ==
  /\ proc[Ingester].phase = "embed" /\ proc[Ingester].batch = Batches
  /\ whole' = None
  /\ Become(Ingester, "insert")
  /\ UNCHANGED <<checkout, raw, store, indexes, artifact, calm, changes>>

\* replaceChunks: deleteMany({}) ...
Delete ==
  /\ proc[Ingester].phase = "embed"
  /\ proc[Ingester].batch = Batches
  /\ store' = EmptyBag
  /\ whole' = None
  /\ Become(Ingester, "insert")
  /\ UNCHANGED <<checkout, raw, indexes, artifact, calm, changes>>

\* ... and insertMany, which is no transaction: the rows land one after another.
Insert ==
  /\ proc[Ingester].phase = "insert"
  /\ \E row \in Rows(proc[Ingester].texts, proc[Ingester].naive) :
       /\ row.doc \notin proc[Ingester].inserted
       /\ store' = store (+) SetToBag({row})
       /\ proc' = [proc EXCEPT ![Ingester].inserted = @ \cup {row.doc}]
  /\ whole' = None
  /\ UNCHANGED <<checkout, raw, indexes, artifact, calm, changes>>

\* ensureIndex, ensureTextIndex: an index of that name is kept, else created.
EnsureIndex ==
  /\ proc[Ingester].phase = "insert"
  /\ proc[Ingester].inserted = Documents
  /\ IF IndexName[proc[Ingester].naive] \in indexes
     THEN indexes' = indexes \cup {TextIndex} /\ Become(Ingester, "manifest")
     ELSE indexes' = indexes \cup {IndexName[proc[Ingester].naive]} /\ UNCHANGED proc
  /\ UNCHANGED <<checkout, raw, store, artifact, calm, whole, changes>>

\* The fixtures are hashed, and the build hash is printed.
PrintHash ==
  /\ proc[Ingester].phase = "fixtures"
  /\ whole' = [texts |-> proc[Ingester].texts, naive |-> proc[Ingester].naive,
               calm |-> Ingester \in calm,
               hash |-> CorpusHash([proc[Ingester] EXCEPT !.fixtures = checkout.fixtures])]
  /\ Exit(Ingester)
  /\ UNCHANGED <<checkout, raw, store, indexes, artifact, changes>>

-----------------------------------------------------------------------------
(* Enrich.                                                                 *)

\* runEnrichmentBuild ends (EnrichmentBuild), and writeFile truncates the file.
Build ==
  /\ proc[Enricher].phase = "build"
  /\ artifact' = Torn
  /\ Become(Enricher, "write")
  /\ UNCHANGED <<checkout, raw, store, indexes, calm, whole, changes>>

\* serializeEnrichmentArtifact: the sidecars under the hash and the configuration.
WriteArtifact ==
  /\ proc[Enricher].phase = "write"
  /\ artifact' = [hash |-> CorpusHash(proc[Enricher]), enrichment |-> proc[Enricher].enrichment,
                  texts |-> proc[Enricher].texts, calm |-> Enricher \in calm]
  /\ Exit(Enricher)
  /\ UNCHANGED <<checkout, raw, store, indexes, whole, changes>>

-----------------------------------------------------------------------------
(* Serve.                                                                  *)

\* Mutants of Loads: one guard is dropped.
LoadsAnyCorpus(a) == a \notin {None, Torn} /\ a.enrichment = proc[Server].enrichment
LoadsAnyConfig(a) == a \notin {None, Torn} /\ a.hash = CorpusHash(proc[Server])

\* loadEnrichmentArtifact, assertEnrichmentBuildMatchesCorpus,
\* assertEnrichmentConfigCurrent: else the boot fails.
Loads(a) ==
  /\ a \notin {None, Torn}
  /\ a.hash = CorpusHash(proc[Server])
  /\ a.enrichment = proc[Server].enrichment

\* resolveAgentEnrichment: no file is read unless one of the flags, which the
\* environment sets, asks for it.
ResolveEnrichment ==
  /\ proc[Server].phase = "enrichment"
  /\ \/ Become(Server, "serving")
     \/ /\ Loads(artifact)
        /\ proc' = [proc EXCEPT ![Server].sidecars = artifact, ![Server].phase = "serving"]
  /\ UNCHANGED <<checkout, raw, store, indexes, artifact, calm, whole, changes>>

Next ==
  \/ Checkout
  \/ \E d \in Statutes : Fetch(d)
  \/ \E p \in Processes : Start(p) \/ Die(p) \/ ReadManifest(p) \/ ReadFixtures(p)
  \/ \E p \in Processes, d \in Documents : ParseDocument(p, d)
  \/ Embed \/ Delete \/ Insert \/ EnsureIndex \/ PrintHash
  \/ Build \/ WriteArtifact \/ ResolveEnrichment

Spec == Init /\ [][Next]_vars

-----------------------------------------------------------------------------
(* What must hold.                                                         *)

TypeOK ==
  /\ checkout \in Checkouts /\ raw \in [Statutes -> Texts \cup {NoText}]
  /\ IsABag(store) /\ Stored \subseteq [doc : Documents, text : Texts, naive : Configs]
  /\ indexes \subseteq {IndexName[c] : c \in Configs} \cup {TextIndex}
  /\ \A p \in Processes :
       /\ proc[p].texts \in [Documents -> Texts \cup {NoText}]
       /\ proc[p].pins \in [Statutes -> Texts \cup {NoText}]
       /\ proc[p].fixtures \in [Fixtures -> Texts \cup {NoText}]
       /\ proc[p].batch \in 0..Batches /\ proc[p].inserted \subseteq Documents
       /\ proc[p].tries \in 0..MaxRetries
  /\ calm \subseteq Processes /\ changes \in 0..MaxChanges

\* An ingest that ends leaves in the store exactly the rows it embedded, each
\* once, and both indexes, whatever earlier runs that died between deleteMany and
\* the last row had left there (mongo-store.ts).
IngestRepairsTheStore ==
  whole # None =>
    /\ store = SetToBag(Rows(whole.texts, whole.naive))
    /\ {IndexName[whole.naive], TextIndex} \subseteq indexes

\* A service whose hash is the one such an ingest printed answers from exactly
\* the build that its run record names, if nobody changed the files under the
\* ingest and they were the pinned ones (run-record.ts).  A commit that changes
\* how documents are parsed or cut, and no pinned input, is not told apart.
EqualHashesEqualBuilds ==
  /\ proc[Server].phase = "serving"
  /\ whole # None
  /\ whole.calm
  /\ whole.hash = CorpusHash(proc[Server])
  => Stored = Rows(Named(Server), proc[Server].naive)

\* With a flag on, the sidecars a service expands with were made from the texts
\* its run record names, under the configuration it expects, if the same holds
\* of the enrichment (enrichment-build-guard.ts).
SidecarsAreOfTheServedBuild ==
  LET server == proc[Server] IN
  server.phase = "serving" /\ server.sidecars # None =>
    /\ server.sidecars.enrichment = server.enrichment
    /\ server.sidecars.calm => server.sidecars.texts = Named(Server)

\* "Every published number traces back to an exact build" (run-record.ts:11-12):
\* over a store that an undisturbed ingest left, what a service may cite is of
\* the build whose hash it reports.
AnswersTraceToTheirBuild ==
  proc[Server].phase = "serving" /\ whole # None /\ whole.calm
  => Stored \subseteq Rows(Named(Server), proc[Server].naive)
=============================================================================
