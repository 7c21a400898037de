----------------------------- MODULE StuffCache -----------------------------
(***************************************************************************)
(* The context cache of the stuffing arms: stuff-cache.ts decides at boot  *)
(* whether the recorded cache may be reused or one must be created,        *)
(* live/stuff-cache-file.ts keeps the record in one file,                  *)
(* live/vertex-cache-provisioner.ts creates the cache at Vertex, and       *)
(* stuff-send.ts sends only the question to a cached call, since Vertex    *)
(* prepends the cached prefix.  The service dies and boots again, between  *)
(* any two steps; the corpus, the settings and the clock move meanwhile.   *)
(***************************************************************************)
EXTENDS Naturals, Sequences, FiniteSets

CONSTANTS
  Builds,     \* the corpus build hashes
  Texts,      \* the corpus texts the raw files may hold
  TextOf,     \* the text each build's manifest stands for
  Models, Locations,
  Seeds,      \* the order seeds of a question; 0 is the canonical order
  TTL,        \* STUFF_CACHE_TTL_SECONDS
  Drifts,     \* whether raw files may differ from what the manifest pins
  MaxTime, MaxCreates  \* bounds

ASSUME StuffAssumption ==
  /\ TextOf \in [Builds -> Texts]
  /\ Seeds \subseteq Nat
  /\ TTL \in Nat \ {0} /\ MaxTime \in Nat /\ MaxCreates \in Nat
  /\ Drifts \subseteq BOOLEAN

VARIABLES
  now,       \* wall-clock time
  drift,     \* whether this behaviour lets the raw files drift
  build,     \* the build hash of the manifest on disk
  raw,       \* the text of the raw files on disk
  settings,  \* the model and location the service is configured with
  file,      \* corpus/stuff-cache.json
  caches,    \* the caches created at Vertex; the name of one is its number
  proc,      \* the service process: its phase, and what it read at boot
  call       \* the call of the last step, if any: what was asked, what the model saw

vars == <<now, drift, build, raw, settings, file, caches, proc, call>>

None == 0
Arms == {"stuff", "stuff-oracle"}
Settings == [model : Models, location : Locations]
StuffCacheRecord ==
  [name : Nat, build : Builds, settings : Settings, expires : Nat]
\* A cache at Vertex: its display name carries the build.  Here and in a process,
\* calm is a history: no file changed between the reads of the boot that made it.
CachedContent ==
  [contents : [text : Texts, arm : Arms, seed : Nat], build : Builds,
   settings : Settings, expires : Nat, calm : BOOLEAN]
\* The record file: what its text is, and the record it parses to, if any.
File(content, records) == [content |-> content, records |-> records]
Phases == {"down", "reading", "loading", "deciding", "saving", "serving"}
Outcomes == {"none", "answered", "diverged", "gone"}

-----------------------------------------------------------------------------
\* buildSynthesisPrompt: the SOURCES block over the arm's chunks of a text, in
\* the order of the seed; the question follows it.
SourcesBlock(text, arm, seed) == [text |-> text, arm |-> arm, seed |-> seed]
Prompt(text, arm, seed) == <<SourcesBlock(text, arm, seed), "question">>

\* Mutant of CachePrefix: the cache is created over a probe's order.
ProbePrefix(text) == SourcesBlock(text, "stuff", 1)

\* buildCachePrefix: the canonical order of the whole corpus.
CachePrefix(text) == SourcesBlock(text, "stuff", 0)

\* Mutant of Matches: caches are taken to be global.
MatchesAnywhere(record, b, s) == record.build = b /\ record.settings.model = s.model

\* Mutant of Matches: the record is matched by its settings alone.
MatchesAnyBuild(record, b, s) == record.settings = s

\* decideCacheAction: the record's key is the live one.
Matches(record, b, s) ==
  /\ record.build = b
  /\ record.settings.model = s.model
  /\ record.settings.location = s.location

\* decideCacheAction: and it has not expired; expiry is inclusive.
Reusable(record, b, s, nowMs) == Matches(record, b, s) /\ nowMs < record.expires

\* Mutant of RecordedExpiry: the TTL is counted from when the create returned.
ExpiryFromReturn(bootMs, returnMs) == returnMs + TTL

\* The expiry the record states: the TTL, from the clock read at boot.
RecordedExpiry(bootMs, returnMs) == bootMs + TTL

\* Mutant of Parses: a corrupt file is taken for a missing one.
LenientParse(content) == TRUE

\* parseStuffCacheStore: absent and blank mean no record; the rest must parse.
Parses(content) == content # "torn"

\* Mutant of CompleteCached: the arm alone picks the completion.
CachedForArm(arm, seed, name) == arm = "stuff" /\ name # None

\* completeForArm: only canonical-order stuff rides the cache.
CompleteCached(arm, seed, name) == arm = "stuff" /\ seed = 0 /\ name # None

\* Mutant of Send: the whole prompt goes out beside the cache.
SendWhole(prompt) == prompt

\* deriveStuffSendSuffix: what remains of the prompt after the prefix.
Send(prompt) == Tail(prompt)

-----------------------------------------------------------------------------
Down == [phase |-> "down", name |-> None]
NoCall == [outcome |-> "none", asked |-> <<>>, seen |-> <<>>, name |-> None]

Init ==
  /\ now = 0
  /\ drift \in Drifts
  /\ build \in Builds
  /\ raw = TextOf[build]
  /\ settings \in Settings
  /\ file = File("absent", {})
  /\ caches = <<>>
  /\ proc = Down
  /\ call = NoCall

disk == <<build, raw, settings, drift>>

Tick ==
  /\ now < MaxTime /\ now' = now + 1
  /\ call' = NoCall /\ UNCHANGED <<disk, file, caches, proc>>

\* The files change under a boot that has read some of them.
Disturb ==
  proc' = IF proc.phase = "reading" THEN [proc EXCEPT !.calm = FALSE] ELSE proc

\* The manifest is edited and the raw files fetched again; when drift is
\* possible the fetch comes later, or the files change without it.
EditManifest ==
  /\ build' \in Builds \ {build}
  /\ raw' = IF drift THEN raw ELSE TextOf[build']
  /\ Disturb
  /\ call' = NoCall /\ UNCHANGED <<now, drift, settings, file, caches>>

Fetch ==
  /\ drift /\ raw # TextOf[build]
  /\ raw' = TextOf[build]
  /\ Disturb
  /\ call' = NoCall /\ UNCHANGED <<now, drift, build, settings, file, caches>>

Configure ==
  /\ settings' \in Settings \ {settings}
  /\ call' = NoCall /\ UNCHANGED <<now, drift, build, raw, file, caches, proc>>

\* serve-cli main: the settings, and the build hash of the run record.
Boot ==
  /\ proc.phase = "down"
  /\ proc' = [phase |-> "reading", build |-> build, settings |-> settings,
              calm |-> TRUE, name |-> None]
  /\ call' = NoCall /\ UNCHANGED <<now, disk, file, caches>>

\* The enrichment has been awaited: the corpus is parsed, and the clock read.
ReadCorpus ==
  /\ proc.phase = "reading"
  /\ proc' = [phase |-> "loading", bootMs |-> now, build |-> proc.build, text |-> raw,
              settings |-> proc.settings, existing |-> {}, calm |-> proc.calm,
              name |-> None]
  /\ call' = NoCall /\ UNCHANGED <<now, disk, file, caches>>

\* loadRecord: a file that does not parse fails the boot.
LoadRecord ==
  /\ proc.phase = "loading"
  /\ proc' = IF Parses(file.content)
             THEN [proc EXCEPT !.phase = "deciding", !.existing = file.records]
             ELSE Down
  /\ call' = NoCall /\ UNCHANGED <<now, disk, file, caches>>

\* The process goes on with the cache of this name.
Named(phase, name) == [proc EXCEPT !.phase = phase, !.name = name]

Reuse ==
  /\ proc.phase = "deciding"
  /\ \E record \in proc.existing :
       /\ Reusable(record, proc.build, proc.settings, proc.bootMs)
       /\ proc' = Named("serving", record.name)
  /\ call' = NoCall /\ UNCHANGED <<now, disk, file, caches>>

\* provisioner.create: Vertex counts the TTL from when it creates the cache.
Create ==
  /\ proc.phase = "deciding"
  /\ \A record \in proc.existing :
       ~Reusable(record, proc.build, proc.settings, proc.bootMs)
  /\ Len(caches) < MaxCreates
  /\ caches' = Append(caches,
       [contents |-> CachePrefix(proc.text), build |-> proc.build,
        settings |-> proc.settings, expires |-> now + TTL, calm |-> proc.calm])
  /\ proc' = Named("saving", Len(caches'))
  /\ call' = NoCall /\ UNCHANGED <<now, disk, file>>

Save ==
  /\ proc.phase = "saving"
  /\ file' = File("json", {[name |-> proc.name, build |-> proc.build,
                            settings |-> proc.settings,
                            expires |-> RecordedExpiry(proc.bootMs, now)]})
  /\ proc' = [proc EXCEPT !.phase = "serving"]
  /\ call' = NoCall /\ UNCHANGED <<now, disk, caches>>

\* writeFileSync is cut short: the file was truncated, or half written.
SaveTorn ==
  /\ proc.phase = "saving"
  /\ \E content \in {"blank", "torn"} : file' = File(content, {})
  /\ proc' = Down
  /\ call' = NoCall /\ UNCHANGED <<now, disk, caches>>

\* The process dies, a create is refused, or the operator stops the service.
Die ==
  /\ proc.phase # "down"
  /\ proc' = Down
  /\ call' = NoCall /\ UNCHANGED <<now, disk, file, caches>>

\* The operator removes the record file.
Repair ==
  /\ file.content = "torn"
  /\ file' = File("absent", {})
  /\ call' = NoCall /\ UNCHANGED <<now, disk, caches, proc>>

Alive(name, s) ==
  /\ name \in DOMAIN caches
  /\ caches[name].settings = s
  /\ now < caches[name].expires

\* handleStuffRequest: what the model is shown, or why the call fails.
Call(prompt, cached, name) ==
  LET outcome ==
        CASE cached /\ Head(prompt) # CachePrefix(proc.text) -> "diverged"
          [] cached /\ Head(prompt) = CachePrefix(proc.text)
               /\ ~Alive(name, proc.settings) -> "gone"
          [] OTHER -> "answered"
  IN [outcome |-> outcome, asked |-> prompt, name |-> name,
      seen |-> IF outcome # "answered" THEN <<>>
               ELSE IF cached THEN <<caches[name].contents>> \o Send(prompt)
               ELSE prompt]

Ask ==
  /\ proc.phase = "serving"
  /\ \E arm \in Arms, seed \in Seeds :
       call' = Call(Prompt(proc.text, arm, seed),
                    CompleteCached(arm, seed, proc.name), proc.name)
  /\ UNCHANGED <<now, disk, file, caches, proc>>

Next == Tick \/ EditManifest \/ Fetch \/ Configure \/ Boot \/ ReadCorpus \/ LoadRecord
          \/ Reuse \/ Create \/ Save \/ SaveTorn \/ Die \/ Repair \/ Ask

Spec == Init /\ [][Next]_vars

-----------------------------------------------------------------------------
(* Properties.                                                             *)

\* The record file, the caches, the process and the last call have their
\* types, and every cache is over the canonical corpus order.
TypeOK ==
  /\ now \in 0..MaxTime /\ drift \in BOOLEAN /\ build \in Builds
  /\ raw \in Texts /\ settings \in Settings
  /\ file.content \in {"absent", "blank", "torn", "json"}
  /\ file.records \subseteq StuffCacheRecord
  /\ \A r1, r2 \in file.records : r1 = r2
  /\ (file.content = "json") <=> (file.records # {})
  /\ caches \in Seq(CachedContent)
  /\ \A n \in DOMAIN caches : caches[n].contents.seed = 0
  /\ proc.phase \in Phases /\ proc.name \in 0..Len(caches)
  /\ proc.phase = "serving" => proc.name # None
  /\ call.outcome \in Outcomes /\ call.name \in 0..Len(caches)

\* The cache a serving process names was created for its own build, model and
\* location, whatever flips of the settings and the manifest, crashes and
\* reuses lie between (decideCacheAction).
ServedCacheIsOfThisBuild ==
  proc.phase = "serving" =>
    /\ caches[proc.name].build = proc.build
    /\ caches[proc.name].settings = proc.settings

\* A record never promises more life than Vertex gives its cache: the expiry is
\* counted from a clock read before the create call (provisionStuffCache).
RecordExpiresBeforeItsCache ==
  \A record \in file.records : record.expires <= caches[record.name].expires

\* The stuffed prefix and the cache never silently diverge (stuff-cache.ts
\* header): what the model is shown is the prompt that was built.
PrefixAndCacheAgree == call.outcome = "answered" => call.seen = call.asked

\* As long as the raw files are those the manifest pins, an answer is given to
\* the very prompt that was built, cached or not, in whatever order the arm and
\* the seed ask for, unless a file changed between the two reads of the boot that
\* answers or of the one that created the cache: the build hash is computed before
\* the enrichment is awaited and the corpus parsed after it (serve-cli.ts:148, 265).
\* A call fails only because its cache expired under a process that resolved it
\* at boot (stuff-send.ts, serve-cli completeForArm).
AnswersSeeTheirPrompt ==
  /\ PrefixAndCacheAgree \/ drift \/ ~proc.calm \/ ~caches[call.name].calm
  /\ call.outcome # "diverged"
  /\ call.outcome = "gone" => now >= caches[call.name].expires

\* A torn record is never taken for a missing one: the service stays down until
\* somebody removes the file (parseStuffCacheStore throws).
TornRecordStopsTheService ==
  [][file.content = "torn" => proc'.phase \in {"down", "reading", "loading"}]_vars
=============================================================================
