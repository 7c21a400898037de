# owners-manual: specifications

TLA+ models of owners-manual, a question-answering system over Ontario tenancy and
condominium law whose answers must carry pin-cites. The models are translated from the
TypeScript under `src/packages`; TLC checks them on small instances and TLAPS proves the
results that matter most for every value of the constants.

Paths below are relative to `src/packages/pipeline/src` unless they begin with `packages/`,
`evals/` or `src/`.

## 1. The system

| part | state it keeps | operations | interacts with | what is hard | correct when |
|---|---|---|---|---|---|
| agent graph (`agent-graph.ts`, `agent-nodes.ts`, `agent-run.ts`) | channels of one run: verdict, plan, candidates, attachments, two loop counters, critic verdict, envelope | nodes guard, planner, retrieve, reformulate, rerank, synthesize, critic, reretrieve, degrade, and their routers | model calls, retrieval, enrichment sidecars, token sink | two back edges that feed each other; channels a patch leaves out keep old values; model answers are arbitrary | no claim leaves without a retrieved cite, nothing the critic rejected leaves, every run ends within the recursion limit |
| chat service (`chat-service.ts`, `session-memory.ts`, `serve-cli.ts` `/chat`) | per request: loads, stream, turn to fold; Mongo: one summary row per session, one profile per owner | load profile and session, run, emit, summarize, save, flush, end | Mongo, summarizer, agent, Langfuse, clients | concurrent requests over one row; failures after the result was sent; process stops | one terminal event, last; summaries tell only answered turns of their session; a turn is lost only to a failure |
| stuffing arms and context cache (`stuff*.ts`, `live/stuff-cache-file.ts`, `live/vertex-cache-provisioner.ts`) | one record file, caches at Vertex, name resolved at boot | load record, reuse or create, save, route a question, strip the prefix | Vertex, corpus files, manifest, settings | crash between create and save, torn file, expiry while serving, flips of build and location, order probes | a process uses a cache of its own build; the model sees exactly the prompt |
| serve CLI (`serve-cli.ts`) | process configuration read at boot | boot, routes, shutdown | all of the above | boot guards; no draining at shutdown | answers only over the build it names |
| enrichment build (`packages/enrichment/src`) | two content-addressed caches, one with an in-flight table; what a build has made so far | label checks, three tree passes, one batched situating call per document | Claude client, cache snapshots | joined and failing concurrent calls; a key that leaves something out; missing keys decided before a call and stored after it | sidecars are what their label says; a repeated build is free; equal inputs give equal builds |
| ingest and store (`ingest-cli.ts`, `live/mongo-store.ts`, `embedding.ts`, `run-record.ts`, `live/enrichment-*.ts`) | Atlas chunk collection and indexes, run record, enrichment artifact | embed with retries, deleteMany then insertMany, index, guard | serve, Atlas, Vertex | a crash between delete and insert; hashes computed long after the files were read; a serve whose run record is not the store's | equal hashes mean equal builds; stale sidecars are never served |
| hybrid retrieval (`hybrid-retrieve.ts`, `rrf.ts`, `rerank*.ts`, `authority.ts`, `graph-expansion.ts`) | none beyond the request | allow-list, two searches, fusion, guard, cut, rerank | Atlas, agent | windows before the fusion and after it; an allow-list of nothing; arbitrary rankings from models | fusion keeps what both stages agree on, the filter is honoured, a reranker loses nothing |
| naive-rag arm (`naive-rag.ts`) | none | retrieve, synthesize | Atlas, Vertex | none | cites come from candidates |
| tracing (`live/langfuse-tracer.ts`, `packages/observability`) | open spans | span, flush | Langfuse | a rejecting flush | reporting only |
| core (`packages/core/src`) | none | parse, match and resolve citable paths | everything | prefix and range matching | agrees with the conformance set, in both languages |
| corpus CLI (`packages/corpus/src`) | raw files, manifest | fetch, normalize, verify, rebuild | publishers' sites | overlapping runs over one file, partial responses, drift, normalization before the hash | a raw file is what a manifest pins, or is reported |
| parser (`packages/parser/src`) | none | HTML to document tree | corpus | string processing | golden trees |
| providers (`packages/providers`) | none | configuration schemas | serve | none | |
| evals, golden set (`evals/.../golden_split.py`) | frozen split | assign | runners | growth of the set | an assigned item never changes its split |
| evals, disposition gate (`disposition*.py`, `annotation_queue.py`, `live_annotation_queue.py`) | annotation queue, dispositions, scores | run, score, queue, dispose, preflight | Langfuse | retried and crashed runs, failures without a trace id | no release with an undisposed failure |
| evals, runners and reports | results | call the arms, compute metrics | services | reading a stream to its end | |

`PROJECT.json` lists each part with its status, and under `hazards` every place in this code
whose failure a test would hardly reach, with the properties that cover it.

## 2. The modules

| module | models | proved about in |
|---|---|---|
| `AnswerGate` | what a run of the agent promises its consumer, without the graph | |
| `AgentGraph` | the LangGraph state machine; refines `AnswerGate` | `AgentGraph_proofs` |
| `ChatService` | `POST /chat`: concurrent requests, the SSE stream, the session memory | `ChatService_proofs` |
| `StuffCache` | the context cache over boots and crashes, and the routing of `/stuff` and `/stuff-oracle` | `StuffCache_proofs` |
| `OncePerKey` | what the enrichment cache promises, without the builds that use it | |
| `EnrichmentBuild` | concurrent and repeated enrichment builds over shared caches; refines `OncePerKey` | `EnrichmentBuild_proofs` |
| `CorpusFetch` | overlapping `corpus:fetch` and `corpus:verify` runs over drifting sites | `CorpusFetch_proofs` |
| `CorpusStore` | ingest, enrich and serve over one checkout, one store, one artifact | `CorpusStore_proofs` |
| `Retrieval` | one request to hybrid retrieval, and the rerankers | `Retrieval_proofs` |
| `MC...` | one for each of the seven components: the instance TLC checks | |

How they fit: `CorpusFetch` makes the raw files that `CorpusStore` ingests (there, `Fetch` is its
effect); `EnrichmentBuild` is the middle of `CorpusStore`'s enrichment process (`Build`);
`CorpusStore` ends where a service serves, whose routes are `ChatService` over `AgentGraph` over
`Retrieval`, and `StuffCache`. Each takes its neighbour's results as any value its schema
allows, so that nothing it shows depends on the neighbour's own behaviour.

`map` in `PROJECT.json` gives the source lines of every definition. Definitions whose comment
begins with "Mutant of" are plausible wrong versions of the definition after them; no
specification uses them, and each property is known to fail when the mutant that is
paired with it takes the definition's place.

### AgentGraph

A step is one LangGraph super-step: the node, the channels its patch replaces, and the router
after it; `Proceed` counts it against the recursion limit as LangGraph does. The guard's
verdict, the plan's length, the hits of retrieval, the draft and the critic's verdict are
chosen freely within the schemas of `agent-types.ts` and `answer-envelope.ts`; `Reject` is any
of these calls rejecting. A plan is reduced to the question it was made for and its number
of hops; a claim to its text and cites; the candidates to the set of their paths (`Rerank`
changes order and tags only). The synthesis prompt is not built.

### ChatService

`Receive` is the route opening the stream; `LoadProfile` and `LoadSession` are the two loads,
which run in parallel; `EmitToken`, `EmitResult` and `AgentFails` are the agent; `Summarize`
and `Save` are `persistSession`; `Flush` is the tracer's flush and the end of the response. An
action is what one request does between two awaits. `LoadFails` and `PersistFails` are the
rejections; a save may be applied although it rejects. `Stop` kills the process with every
open stream, for two reasons the code has: the shutdown hook waits for no request, and
a flush that rejects after the headers went out is caught by a handler that writes them again.
`Memory.turns` is a history: the turns a summary's text was folded from. The text itself is its
length. `discipline` is what the clients wait for before they send the next turn of a
conversation, since the service does not serialize turns itself.

### StuffCache

A boot reads twice: `Boot` hashes the manifest (`serve-cli.ts:148`) and `ReadCorpus` parses the
corpus (265), with the enrichment awaited in between; `LoadRecord`, `Reuse`, `Create` and `Save` are
the steps of `resolveStuffCachedContentName`. `Die` may come between any two, and `SaveTorn` is a
write cut short. `Tick`, `Configure`, `EditManifest` and `Fetch` are the world: with `drift` the raw
files may lag the manifest, as gitignored files under a fresh checkout do. Any of them may also fall
between the two reads of a boot, which then keys a cache of one text to the build of another though
the files match the manifest all along; `calm` is a history, in a process and in the cache it
creates, of whether that happened (`Disturb`). The manifest and the fixtures are hashed in one step,
and the documents parsed in one. `Ask` sends one question of either arm in any order. A prompt is
its SOURCES block (a text, an arm, an order) and the question.

### EnrichmentBuild

A build is one call of `runEnrichmentBuild`. `Begin` runs up to its first await: the two
assertions, then the three tree passes of the first document together. A pass that is neither
stored nor in flight starts a call (`inFlight`, by key, with the attempts that failed); one in
flight is joined; `Waiters` are all the builds that share it. `CallAnswers`, `CallFails` and
`CallMisleads` are the three ends of an attempt; a rejection fails every waiter, and productions
a failed build began go on without it. `CloseTree` parses the three responses again and decides
which chunks the batched call must cover; `Situate` stores what it brought, unless another build
has stored the key meanwhile, and goes on to the next document. All this is the contract of the
library. Its only caller in the repository, `enrich-cli.ts:94-101`, makes one build over caches
that are new and stay in memory: there nothing is shared, and running `enrich:build` again is
not free. Each response carries the
request it answers (`of`): that is what the label properties compare. `Seeds` are the snapshots a
process may start from, a corrupt one included. The second cache, of contexts, has no in-flight
table in the code and none here.

### CorpusFetch

A run's outcome is kept source by source, as the report does: `Read` is a response (in any
dress, or a part of it) or a file, compared at once; `Open` truncates the file; `Write` puts the
bytes down. Two runs that have one file open may leave it torn. A response is reduced to its
text and to the two things normalization changes. `alone` and `mixed` are histories of who else
touched a file. The manifest may be replaced by another between and under runs.

### CorpusStore

Three processes: `Start`, `Die`, `ParseDocument`, `ReadManifest` and `ReadFixtures` are common
to them, in the order `NextPhase` gives. Ingest parses, embeds in batches with bounded retries,
deletes all rows, inserts row by row, ensures the indexes, and only then reads the manifest and
the fixtures to compute the hash it prints. `Build` truncates the artifact and `WriteArtifact`
fills it. Serve reads its run record and then, if a flag asks for it, the artifact through its
two guards (`Loads`). `Checkout` and `Fetch` change files under all of them. The store is a bag,
since no unique key keeps a row from being stored twice. `calm` and `whole` are histories: whose
files have not changed since it started, and what the last ingest to touch the store left.
At most one process of each kind runs at a time.

### Retrieval

`Answer` is one of the two searches, of one reading of its index: any ranking by vector, any ranking
of some chunks by text, narrowed by the allow-list and then cut. `Fuse` adds reciprocal ranks as
exact fractions, breaks ties by id, guards and cuts. A reranker takes any reply, of the model or of
Cohere: candidates left out, named twice, or indices of none. `createLlmRerank` skips an index it
has had; `createCohereRerank` casts the JSON unvalidated and keeps every row that is of a candidate,
so that a repeated index doubles one: `repeated` is a history of whether the reply did that.
Cohere's rows are sorted by relevance and authority (`SortedRows`); the comparison does not tell a
row of no candidate from others as relevant, and where it is inconsistent the order is left to the
engine. Two relevances tell a tie from an order. A list without repetition is a finite set listed in
a strict total order (`InOrder`), so that sorting, filtering and cutting are said of sets and
orders; `Sorted` is the stable sort of JavaScript, the sort's comparison refined by the old order.
The rank constant is the code's 60. The searches are taken to be exact. A plan of the agent with an
empty list of levels is a filter that nothing passes: the pre-filter collapses to none, and the
guard behind the fusion then drops everything; the model shows this as zero candidates, and the
debug endpoint's schema forbids it.

## 3. What the runs show

| run | instance | result |
|---|---|---|
| `agent_graph` | 3 paths, 2 claim texts, all 16 combinations of flags and enrichment (reformulation and rerank together), 2 hops of 1 hit, one of each loop | all properties hold and `AnswerGate` is implemented; 420 thousand states |
| `agent_stream` | the same | violated: streamed text that the published envelope does not have |
| `agent_degrade` | the same | violated: a degraded answer with every claim of its draft |
| `chat_turns` | 2 turns of one conversation, 1 of another, one owner, 1 stop, both client disciplines | all properties hold, streams end; 454 thousand states |
| `chat_next_turn` | clients that go on at the result event | violated: the next turn does not see the one before it |
| `stuff_cache` | 2 builds of different text, 2 locations, 2 orders, TTL 2 of time 0..2, 2 caches | all properties hold; 2.3 million states up to the exchange of the builds and of the locations |
| `stuff_divergence` | the same, raw files may lag | violated: prefix and cache silently diverge |
| `enrichment_build` | 2 builds, the second with equal input, a bumped prompt, another model, a larger corpus, or a label that fails its checks; 2 answers where they matter; empty or corrupt snapshots; 2 attempts | all properties hold, `OncePerKey` is implemented, builds end; 48 thousand states |
| `corpus_fetch` | 2 interchangeable runs, 2 sources of different policies, 2 manifests, 1 drift, 1 edit | all properties hold; 1 million states |
| `corpus_store` | 1 statute, 1 fixture, 4 commits, 1 batch, 1 retry, 1 checkout | all properties hold; 950 thousand states |
| `corpus_trace` | the same | violated: a service reports the hash of a build it does not answer from |
| `retrieval` | 4 chunks of 3 documents on 3 levels, 3 windows, services that know all, some or no documents, replies of up to 3 rows | all properties hold; 506 thousand states |

Properties, and why they could fail:

* `PublishedClaimsAreBacked`, `CriticHasTheLastWord`: drafts, candidates and verdicts are
  replaced at different nodes of two nested loops; what leaves must match the last of each.
* `PlanMatchesQuestion`, `AttachmentsMatchCandidates`: channels that a patch leaves out keep a
  value made for an earlier question or retrieval.
* `RecursionLimitNeverFires`, `ReformulationRescuesFirstPass`, `FanOutIsBounded`: the budgets.
  `LongestPath` is 7 + 3 rewrites + 6 re-retrievals: with the code's caps of one each, 16 of 24.
* `RefusedQuestionsGoNowhere`: the guard's override is applied before routing.
* `TerminalEventIsLast`, `EveryStreamEnds`: nothing that goes wrong after the result reaches the
  stream, and every failure still leads to its end.
* `MemoryHoldsOnlyAnsweredTurns`, `TurnIsLostOnlyToAFailure`: load at the start and whole-row
  replacement at the end, over crashes and concurrent conversations.
* `ServedCacheIsOfThisBuild`, `RecordExpiresBeforeItsCache`, `AnswersSeeTheirPrompt`,
  `TornRecordStopsTheService`: the record as the only link between boots. `AnswersSeeTheirPrompt`
  excepts raw files that lag the manifest, and files that changed between the two reads of the boot
  that answers or of the one that created its cache (`calm`): without either exception TLC finds
  the answer over other SOURCES.
* `SidecarsMatchTheirLabel`, `ContextsCiteTheirFacts`: what is shipped was asked for by another
  build, perhaps in another process, and found by key; a key must cover all that the answer
  depends on. These and the next two groups are of the library over shared caches.
* `RerunsAreFree`, `SameInputSameArtifact`: the model answers differently each time; only the
  caches make builds repeatable, and one of them is read before an await and written after it.
* `NothingUnvalidatedIsKept`, `ImplementsOncePerKey`, `EveryBuildEnds`: a production that fails
  takes every build that shares it along, and nothing else.
* `StoredBytesAreVerified`, `OkMeansReproduced`, `MismatchIsReal`: what is compared is not what
  came, and what is written lies one step after the comparison, with other runs in between.
  `OkMeansReproduced` excepts a source that another fetch had also obtained: two fetches write one file
  without a lock.
* `IngestRepairsTheStore`: over any sequence of killed ingests that left parts of rows.
* `EqualHashesEqualBuilds`, `SidecarsAreOfTheServedBuild`: a hash is computed from files read
  again long after the parse; it is worth something only for makers whose files were the pinned
  ones and stayed (`calm`), which is what the code leaves to its operator. The window between the
  parse and the hash is therefore a hazard that no property covers.
* `FusionRespectsBothRankings`, `FilterIsHonoured`, `RerankLosesNothing`: windows, filters and
  model-made rankings, each able to lose or double a chunk. `RerankLosesNothing` says that no
  reranker loses one, and that only Cohere's repeats one, for a reply that names its index twice.

Bounds. The agent's caps in the code are one reformulation and one re-retrieval, which is what
is checked; two claims, one defined term and three paths (one reached only by expansion)
tell every branch of the clamp, the critic, the expansion and the attachments apart. Three
requests are the fewest with two turns of one conversation and a neighbour; one token, one stop
and summaries of length 1 and 2 over a cap of 1 reach each branch (a longer stream repeats
`EmitToken`). Two caches allow a recreation; two builds and two locations allow a flip, and
one back while a record of the first exists; time 0..2 with a TTL of 2 has a boot before, at
the create and at the expiry instant. Two builds are the fewest that can share a call, and what
a third would find in the caches a second finds; two attempts have a retry and an exhaustion;
the larger corpus puts a new document before the old one, so that positions shift. Two runs of
the corpus CLI are the fewest that contend for a file; one drift and one edit separate site,
manifest and file. One checkout under three processes separates what each of them has read;
one statute and one fixture are the two kinds of document, and a commit for each thing that
can change (fixture, pin, prompts) tells the hashes apart. Four chunks with windows of one to
three leave chunks outside each window; of three levels one is left out by some filter.
`MaxTokens`, `MaxStops`, `RawSizes`, `MaxTime`, `MaxCreates`, `MaxAttempts`, `MaxDrifts`,
`MaxEdits`, `Batches`, `MaxRetries`, `MaxChanges` and `MaxReply` are the named bounds; the theorems
hold for every value of them.

`chat_turns` switches deadlock checking off because a service whose clients have all been
answered really stops; the agent graph has `Done` instead, and the cache never stops. It is off
for the other four components for the same reason: builds, CLI runs and requests end, and a
world whose changes are spent stands still.

Fairness. `ChatService` has weak fairness of each request's handler as a whole. Node's
event loop resumes a handler whose promise has settled, and the drivers' promises settle;
the code sets no timeouts of its own, so this is the assumption `EveryStreamEnds` rests on.
Clients, stops and restarts are not fair. `EnrichmentBuild` has weak fairness of each call and
of each build's own steps: `claude -p` is killed at its timeout and its attempts are counted
(`claude-enrichment-client.ts`), so a call ends, and what settles resumes who awaits it. When a
build begins is not fair. The other modules state no liveness: a person starts the CLIs and the
service, and may kill them.

### Disagreements with the documentation

1. `agent_stream`: `agent-run.ts:4` says that envelope and token stream are "one artifact, two
   consumers"; `synthesizeNode` streams drafts that the critic or the clamp then replaces. The
   converse holds: what is published was streamed (`ReadersSawWhatIsPublished`).
2. `agent_degrade`: `agent-nodes.ts:421` says degrading strips the ungrounded claims; a verdict
   that is not grounded and names no claim text strips nothing.
3. `chat_next_turn`: `chat-service.ts:192` says the turn is persisted "so the next turn sees
   this one"; it is persisted after the result event, and the next save then drops it. For clients
   that wait for the end of the stream the comment is right (`WaitingClientsAreHeard`).
4. `stuff_divergence`: `stuff-cache.ts:22-24` says "the stuffed prefix and the cache can never
   silently diverge"; the cache is keyed by the manifest's checksums and filled from raw files
   that no boot compares with them. Files that change with the manifest while a boot awaits its
  enrichment lead to the same.
5. `corpus_trace`: `run-record.ts:11-12` says that with the returned hash "every published number
   traces back to an exact build"; `serve` hashes the files it finds and never compares them with
   the store.

No run is spent on a sixth: `agent-types.ts:147` says a reranker takes the candidates and "returns
them reordered"; Cohere's may return one twice, as the exception in `RerankLosesNothing` says.

## 4. What is proved

For every value of the constants that the assumptions named in the modules allow.

`AgentGraph_proofs` (from `BoundsAssumption`, `DataAssumption`): `TypeCorrect`, `PinCiteGate`,
`CriticGate`, `GuardGate`, `PlansAreFresh`, `LoopsAreBounded`, `RewriteIsARescue`,
`AttachmentsAreFresh`, `PromptIsBounded`, `ReadersSawWhatIsPublished`, and `Refinement` (the graph
implements `AnswerGate`). Hardly any of these is inductive: what leaves the graph depends on what
the last synthesis was clamped to and which node may still replace the candidates. `IInv` says
node by node what the channels hold (`Flow`), and bounds the run by a ranking of the nodes plus
the unspent loop budgets (`Budgets`, `Remaining`). The bound on candidates counts unions of at
most `MaxHops` sets, for which the paths must be finitely many.

`ChatService_proofs` (from `ChatAssumption`): `TypeCorrect`, `OneTerminalEvent`,
`ConversationsStayApart`, `TurnsAreRemembered`, `WaitingClientsAreHeard`, `StreamsRunDown`. A
stored summary is a copy of a pending one, which extends a loaded one: `Lineage` says of all three
that their turns are answered turns of the session, counted once; `Serial` says that, with clients
who wait for the end of the stream, a session has at most one open request, and what it loaded is
still what is stored. From it follows what the comment at `chat-service.ts:192` promises, for such
clients: `WaitingClientsAreHeard` says that of any two saved turns of a session one started from a
summary that holds the other. `StreamsRunDown` is the safety half of `EveryStreamEnds`: `Work`
counts what a handler has left, every step of it lowers the count, and nothing raises it.

`StuffCache_proofs` (from `StuffAssumption`): `TypeCorrect`, `RightCache`, `ExpiryIsConservative`,
`PromptsArriveWhole`, `TornRecordFailsLoud`. A process reaches its cache through a record another
process wrote, so the invariant says that every record, on disk or in a booting process, is
`Truthful` about the cache it names, and that without `drift` what a calm boot read, and the cache
it created, are of the text its build stands for (`Pinned`); while such a boot is between its two
reads, the build it has read is still the one on disk.

`EnrichmentBuild_proofs` (from `BuildAssumption`, `SeedAssumption`): `TypeCorrect`,
`SidecarsAnswerTheirLabel`, `ContextsCiteWhatTheyShip`, `RerunsCostNothing`, `SameInputSameBuild`,
`OnlyValidatedIsKept`, `NoWakeUpIsLost`, `BuildsAndCallsRunDown`, and `CachesAreOncePerKey` (the
builds implement `OncePerKey`). Two builds never look at each other, so nothing about a pair of
them is inductive. The argument is that whatever a build holds or has made is a function of its
input and of the two caches (`Placed`), that the caches only grow, and that an entry once there
answers its own key: then equal inputs give equal artifacts, and a build whose input has been
built finds every key it will ask for (`Free`). Two more are the safety half of `EveryBuildEnds`:
`NoWakeUpIsLost`, that a build never waits for a key whose production is not under way, since
opening a document starts what is missing and the end of a production takes along all who wait for
it; and `BuildsAndCallsRunDown`, that every step of a build lowers `StepsLeft` and every step of a
call spends an attempt or ends it. `SeedAssumption` says of a persisted snapshot what such a cache
held: its entries, valid or not, answer their keys.

`CorpusFetch_proofs` (from `FetchAssumption`, `PinAssumption`): `TypeCorrect`,
`OnlyVerifiedBytes`, `OkIsReproduced`, `MismatchesAreReal`. Between the comparison and the write a
run holds bytes no variable of the properties shows: the invariant says that a run about to write
holds the normalized bytes it compared, which its manifest pins (`Holds`), and of a run that
vouches for a file that nobody has touched it since (`Vouched`). `PinAssumption` says that
manifests pin normalized bytes, as their generator computes them.

`CorpusStore_proofs` (from `StoreAssumption`): `TypeCorrect`, `IngestRepairs`, `EqualHashes`,
`SidecarsTraced`. What is served is compared by hash alone, after the processes that hashed are
gone. The invariant follows each process while it reads: as long as it is calm, what it has read
is what the checkout still has (`CalmOK`); and it says of the store and the artifact what their
maker left, that a calm maker's texts are those its hash names (`Traced`). While an ingest
inserts, the store is exactly the rows of the documents it has inserted (`LoadOK`).

`Retrieval_proofs` (from `RetrievalAssumption`): `TypeCorrect`, `FusionIsMonotone`, `FilterIsKept`,
`RerankersPermute`, `FusionKeepsTheBest`. The store and the rankings are of any size, the factor any
positive number and the rank constant any at all. Nothing is proved by induction over lists: a set
is listed in a strict total order by counting, for each element, those before it (`Listing`), and
conversely every list without repetition lists its elements in their own order; `StableSort`,
`Narrowed` and `Beginning` say what sorting, filtering and cutting do to two elements' places. A
sort is by a weak order refined by a total one (`ProductOrder`). Scores are compared by multiplying
out, and `ScoreOrder` shows that a chunk before another in each list that has the other scores more.
`IInv` says what the later steps need once the lists are gone: the hits are `Search` of the very
ranking that was read, the candidates are the cut of what was fused (`CandidatesOK`), and what a
reranker leaves are all of them, a permutation but for a Cohere reply that repeats (`OutcomeOK`).
`FilterIsKept` counts: if the vector search was not cut it returned all that is eligible; if it was,
what it returned fills the candidates, because its window is at least as wide as they are.

Only model-checked: `EveryStreamEnds` and `EveryBuildEnds`, since fairness and `ENABLED` are out
of the prover's reach. Their safety halves above leave to TLC that an open handler, a build that
waits for nothing and a call in flight always have a step to take. Every other property of a
passing run is a theorem, and those of the five runs that expect a violation are refuted.

## 5. What is not modelled, and why

* Prompts and wording, tracing, cost and latency figures: text and reporting. Prompts that a
  model disobeys are covered by choosing its answers freely.
* `naive-rag.ts`: one retrieve and one synthesis per request, without state of its own.
* The parser, the chunkers' string work and `packages/core`: sequential functions over text
  with golden trees and a conformance set shared by both languages; here a document is its text
  and a citable path a value. So rows are a function of text and configuration, in every commit
  the same: `pipelineConfigHash` (`pipeline-config.ts:58-72`, 121) covers the chunker's id and not the
  parser's or the chunker's code, and a commit that changes only that code changes the rows under
  an equal hash. `EqualHashesEqualBuilds` does not speak of such commits.
* `packages/providers` and `packages/observability`: configuration schemas and a trace script.
* The golden split: a deterministic function of the items and the frozen manifest. The
  disposition gate and the annotation queue: a protocol with a person over Langfuse, whose
  semantics the repository does not fix. Metrics, ladders, calibration and dashboards: arithmetic
  over results.
* The copy of the rows a service keeps for one-hop expansion, which may lag behind the live
  collection (`live/enrichment-resolver.ts`), and a tracer flush that rejects, beyond its effect:
  two of the three hazards in `PROJECT.json` without a property, with their reasons. The third is
  modelled and excepted: files that change between an ingest's or an enrichment's parse and hash.
* Two ingests or two services at once: `CorpusStore` has one process of each kind, since they
  are started by hand over one checkout; two ingests over one collection would interleave their
  inserts, which nothing in the code prevents.
* Compose files, workflows, decision records and the legal texts.
