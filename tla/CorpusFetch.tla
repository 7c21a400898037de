----------------------------- MODULE CorpusFetch -----------------------------
(***************************************************************************)
(* The corpus CLI (packages/corpus): `corpus:fetch` brings every selected  *)
(* source of the manifest from its site, normalizes what came, compares it *)
(* with the pinned checksum and writes it under corpus/raw;                *)
(* `corpus:verify` reads the same files back.  Runs overlap, sites drift   *)
(* and dress every response differently, the manifest is edited, calls and *)
(* writes fail, and a run may be killed in the middle of a file.           *)
(***************************************************************************)
EXTENDS Naturals, FiniteSets

CONSTANTS
  Runs,        \* the invocations of the CLI
  Sources,     \* the ids a manifest may name
  Unknown,     \* an id no manifest names
  Texts,       \* the legal texts a source may have
  Policies,    \* the normalization each source declares
  Manifests,   \* the manifests that are committed, the first one among them
  MaxDrifts, MaxEdits  \* how often a site and the manifest change

\* A response's bytes, as far as normalization tells them apart.
Bytes == [text : Texts, waf : BOOLEAN, ends : {"lf", "crlf"}]
Absent == [text |-> "no file", waf |-> FALSE, ends |-> "lf"]
Torn == [text |-> "torn", waf |-> FALSE, ends |-> "lf"]  \* opened, not wholly written
Files == Bytes \cup {Absent, Torn}

Statuses == {"todo", "read", "opened", "ok", "mismatch", "error"}
Settled == {"ok", "mismatch", "error"}

ASSUME FetchAssumption ==
  /\ IsFiniteSet(Runs) /\ Unknown \notin Sources
  /\ Absent.text \notin Texts /\ Torn.text \notin Texts
  /\ Policies \in [Sources -> {"none", "strip-waf", "crlf-to-lf"}]
  /\ Manifests # {} /\ MaxDrifts \in Nat /\ MaxEdits \in Nat
  /\ \A m \in Manifests : DOMAIN m # {} /\ DOMAIN m \subseteq Sources /\ \A s \in DOMAIN m : m[s] \in Bytes

VARIABLES
  site,      \* the text each source's site serves
  manifest,  \* the committed manifest: the normalized bytes it pins, by id
  raw,       \* the files under corpus/raw
  run,       \* each run: its mode, the manifest it loaded, what became of each source
  pinned,    \* every checksum that was ever committed for a source
  drifts, edits

vars == <<site, manifest, raw, run, pinned, drifts, edits>>

NotRun == [phase |-> "idle", verify |-> FALSE, entries |-> [s \in {} |-> Absent],
           status |-> [s \in {} |-> "todo"], got |-> [s \in {} |-> Absent], mixed |-> {}, alone |-> {}]

-----------------------------------------------------------------------------
\* Mutant of Normalize: the injected line is replaced, not removed.
MaskWaf(bytes, policy) == IF policy = "strip-waf" THEN [bytes EXCEPT !.waf = TRUE] ELSE bytes

\* normalizeBytes: a line that carries the WAF marker is dropped, or line
\* endings are collapsed.
Normalize(bytes, policy) ==
  CASE policy = "none" -> bytes
    [] policy = "strip-waf" -> [bytes EXCEPT !.waf = FALSE]
    [] policy = "crlf-to-lf" -> [bytes EXCEPT !.ends = "lf"]

\* A manifest pins the checksum of normalized bytes.
ASSUME PinAssumption ==
  \A m \in Manifests : \A s \in DOMAIN m : Normalize(m[s], Policies[s]) = m[s]

\* checksum: SHA-256 and length tell all normalized contents apart, a torn file's too.
Checksum(file, policy) == Normalize(file, policy)

\* Mutant of Selectable: an unknown id scopes the run to nothing.
AnyIds(only) == DOMAIN manifest # {}

\* parseManifest, selectSources: every id of --only must be in the manifest; no
\* id at all selects them all.
Selectable(only) == only \subseteq DOMAIN manifest
Selected(only) == IF only = {} THEN DOMAIN manifest ELSE DOMAIN manifest \cap only

Init ==
  /\ site \in [Sources -> Texts]
  /\ manifest \in Manifests
  /\ raw \in [Sources -> {Absent}]
  /\ run = [r \in Runs |-> NotRun]
  /\ pinned = [s \in Sources |-> IF s \in DOMAIN manifest THEN {manifest[s]} ELSE {}]
  /\ drifts = 0
  /\ edits = 0

-----------------------------------------------------------------------------
\* A site publishes another text.
Drift(s) ==
  /\ drifts < MaxDrifts
  /\ drifts' = drifts + 1
  /\ \E t \in Texts \ {site[s]} : site' = [site EXCEPT ![s] = t]
  /\ UNCHANGED <<manifest, raw, run, pinned, edits>>

\* generate-manifest, or a checkout: another manifest is committed.
EditManifest ==
  /\ edits < MaxEdits
  /\ edits' = edits + 1
  /\ manifest' \in Manifests \ {manifest}
  /\ pinned' = [s \in Sources |-> IF s \in DOMAIN manifest' THEN pinned[s] \cup {manifest'[s]}
                                  ELSE pinned[s]]
  /\ UNCHANGED <<site, raw, run, drifts>>

\* parseArgs, loadManifest, selectSources: a run that cannot select exits with 1.
Start(r) ==
  /\ run[r].phase = "idle"
  /\ \E only \in SUBSET (Sources \cup {Unknown}), verify \in BOOLEAN :
       IF Selectable(only)
       THEN run' = [run EXCEPT ![r] =
              [phase |-> "running", verify |-> verify,
               entries |-> [s \in Selected(only) |-> manifest[s]],
               status |-> [s \in Selected(only) |-> "todo"],
               got |-> [s \in Selected(only) |-> Absent], mixed |-> {}, alone |-> {}]]
       ELSE run' = [run EXCEPT ![r].phase = "exit 1"]
  /\ UNCHANGED <<site, manifest, raw, pinned, drifts, edits>>

Running(r, s, status) ==
  run[r].phase = "running" /\ s \in DOMAIN run[r].status /\ run[r].status[s] = status

\* A source's outcome is a value of the report; no failure stops the others.
Settle(r, s, status) == run' = [run EXCEPT ![r].status[s] = status]

\* curl fails or exits with an HTTP error; a file is not there yet.
ReadFails(r, s) ==
  /\ Running(r, s, "todo")
  /\ ~run[r].verify \/ raw[s] = Absent
  /\ Settle(r, s, "error")
  /\ UNCHANGED <<site, manifest, raw, pinned, drifts, edits>>

\* rebuildSource, verifySource: the normalized bytes are what the manifest pins.
Matches(r, s, file) == Checksum(file, Policies[s]) = run[r].entries[s]

\* Mutant of Keeps: the response is kept as it came.
KeepsRaw(s, file) == file

\* What a fetch holds on to, to write it: the bytes it compared.
Keeps(s, file) == Checksum(file, Policies[s])

\* What a site may answer: its text, in whatever dress the CDN gives it, or a
\* part of it, when curl is killed and its missing exit code is taken for 0.
Responses(s) ==
  {[text |-> site[s], waf |-> w, ends |-> e] : w \in BOOLEAN, e \in {"lf", "crlf"}} \cup {Torn}

\* A response comes, or a file is read, as far as somebody has written it; it
\* is compared at once.
Read(r, s) ==
  /\ Running(r, s, "todo")
  /\ \E file \in IF run[r].verify THEN {raw[s]} \ {Absent} ELSE Responses(s) :
       run' = [run EXCEPT
          ![r].got[s] = IF run[r].verify THEN file ELSE Keeps(s, file),
          ![r].status[s] = CASE ~Matches(r, s, file) -> "mismatch"
                             [] Matches(r, s, file) /\ run[r].verify -> "ok"
                             [] Matches(r, s, file) /\ ~run[r].verify -> "read",
          ![r].alone = IF Matches(r, s, file) /\ run[r].verify THEN @ \cup {s} ELSE @]
  /\ UNCHANGED <<site, manifest, raw, pinned, drifts, edits>>

\* The runs that had checked a file no longer vouch for it.
Disturb(r, s) == [q \in Runs |-> IF q = r THEN run[q]
                                 ELSE [run[q] EXCEPT !.alone = @ \ {s}]]

\* Another run has the same file open for other bytes.
Contends(q, r, s) == q # r /\ Running(q, s, "opened") /\ run[q].got[s] # run[r].got[s]

\* Mutant of Open: a source is opened for writing whatever was read.
OpenAnyway(r, s) ==
  /\ Running(r, s, "read") \/ (~run[r].verify /\ Running(r, s, "mismatch"))
  /\ raw' = [raw EXCEPT ![s] = Torn]
  /\ run' = [Disturb(r, s) EXCEPT ![r].status[s] = "opened"]
  /\ UNCHANGED <<site, manifest, pinned, drifts, edits>>

\* Mutant of Open: the file is opened before the response is there.
OpenEarly(r, s) ==
  /\ Running(r, s, "todo") /\ ~run[r].verify
  /\ raw' = [raw EXCEPT ![s] = Torn]
  /\ run' = [Disturb(r, s) EXCEPT ![r].status[s] = "opened"]
  /\ UNCHANGED <<site, manifest, pinned, drifts, edits>>

\* writeSource opens the file, which truncates it.  Nothing keeps a second run
\* from having it open too: from here on their bytes may mix.
Open(r, s) ==
  /\ Running(r, s, "read")
  /\ raw' = [raw EXCEPT ![s] = Torn]
  /\ run' = [q \in Runs |->
       IF q = r
       THEN [run[r] EXCEPT !.status[s] = "opened",
                           !.mixed = IF \E p \in Runs : Contends(p, r, s) THEN @ \cup {s} ELSE @]
       ELSE [Disturb(r, s)[q] EXCEPT !.mixed = IF Contends(q, r, s) THEN @ \cup {s} ELSE @]]
  /\ UNCHANGED <<site, manifest, pinned, drifts, edits>>

\* The bytes land; what another run has written there, or is still writing,
\* may be left mixed with them.
Write(r, s) ==
  /\ Running(r, s, "opened")
  /\ \/ raw' = [raw EXCEPT ![s] = run[r].got[s]]
     \/ s \in run[r].mixed /\ raw' = [raw EXCEPT ![s] = Torn]
  /\ run' = [Disturb(r, s) EXCEPT ![r].status[s] = "ok",
               ![r].alone = IF s \in run[r].mixed THEN @ ELSE @ \cup {s}]
  /\ UNCHANGED <<site, manifest, pinned, drifts, edits>>

\* The directory or the file cannot be written: an error of this source.
WriteFails(r, s) ==
  /\ Running(r, s, "read") \/ Running(r, s, "opened")
  /\ Settle(r, s, "error")
  /\ UNCHANGED <<site, manifest, raw, pinned, drifts, edits>>

\* Mutant of Exit: the report is ok when some source is.
ExitOnSome(r) ==
  IF \E s \in DOMAIN run[r].status : run[r].status[s] = "ok" THEN "exit 0" ELSE "exit 1"

\* summarize, run: 0 when no source failed.
Exit(r) ==
  IF \A s \in DOMAIN run[r].status : run[r].status[s] = "ok" THEN "exit 0" ELSE "exit 1"

Report(r) ==
  /\ run[r].phase = "running"
  /\ \A s \in DOMAIN run[r].status : run[r].status[s] \in Settled
  /\ run' = [run EXCEPT ![r].phase = Exit(r)]
  /\ UNCHANGED <<site, manifest, raw, pinned, drifts, edits>>

\* The run is killed; what it opened stays torn.
Kill(r) ==
  /\ run[r].phase = "running"
  /\ run' = [run EXCEPT ![r].phase = "killed"]
  /\ UNCHANGED <<site, manifest, raw, pinned, drifts, edits>>

SourceStep(r, s) ==
  ReadFails(r, s) \/ Read(r, s) \/ Open(r, s) \/ Write(r, s) \/ WriteFails(r, s)
Next ==
  \/ \E s \in Sources : Drift(s)
  \/ EditManifest
  \/ \E r \in Runs : Start(r) \/ Report(r) \/ Kill(r)
  \/ \E r \in Runs, s \in Sources : SourceStep(r, s)

Spec == Init /\ [][Next]_vars

-----------------------------------------------------------------------------
(* What must hold.                                                         *)

TypeOK ==
  /\ site \in [Sources -> Texts] /\ manifest \in Manifests /\ raw \in [Sources -> Files]
  /\ \A r \in Runs :
       /\ run[r].phase \in {"idle", "running", "killed", "exit 0", "exit 1"}
       /\ DOMAIN run[r].entries \subseteq Sources
       /\ run[r].status \in [DOMAIN run[r].entries -> Statuses]
       /\ run[r].got \in [DOMAIN run[r].entries -> Files]
       /\ \A s \in DOMAIN run[r].status :
            run[r].status[s] \in {"read", "opened"} => run[r].got[s] \in Bytes
       /\ run[r].alone \cup run[r].mixed \subseteq DOMAIN run[r].entries
  /\ drifts \in 0..MaxDrifts /\ edits \in 0..MaxEdits

\* A drifted, failed or dressed-up response never reaches the disk: a file is
\* absent, torn by a write that did not end, or the very bytes some manifest
\* pins for that source (rebuild.ts).
StoredBytesAreVerified ==
  \A s \in Sources : raw[s] \in {Absent, Torn} \/ raw[s] \in pinned[s]

\* A run that exits with 0 means what its report says: it was asked for
\* something, checked all of it, and every file is byte for byte what the
\* manifest it loaded pins, unless another run opened the file meanwhile
\* (cli.ts, summarize).
OkMeansReproduced ==
  \A r \in Runs : run[r].phase = "exit 0" =>
    /\ DOMAIN run[r].entries # {}
    /\ \A s \in DOMAIN run[r].entries :
         Normalize(run[r].got[s], Policies[s]) = run[r].entries[s]
    /\ \A s \in DOMAIN run[r].entries :
         \/ s \in run[r].alone /\ raw[s] = run[r].entries[s]
         \/ \E q \in Runs \ {r} : s \in DOMAIN run[q].got /\ run[q].got[s] # Absent /\ ~run[q].verify

\* A mismatch is a drift: neither the line the CDN injects nor a line ending
\* that the source's policy covers is ever reported as one (normalize.ts).
MismatchIsReal ==
  \A r \in Runs : \A s \in DOMAIN run[r].status : run[r].status[s] = "mismatch" =>
    LET got == run[r].got[s]  pin == run[r].entries[s] IN
    \/ got.text # pin.text
    \/ Policies[s] # "strip-waf" /\ got.waf # pin.waf
    \/ Policies[s] # "crlf-to-lf" /\ got.ends # pin.ends
=============================================================================
