-------------------------- MODULE CorpusStore_proofs --------------------------
(***************************************************************************)
(* Theorems about CorpusStore, for every corpus, every history of commits  *)
(* and any number of batches and retries.                                  *)
(*                                                                         *)
(* What is served is compared by hash alone, long after the processes that *)
(* hashed are gone.  The invariant therefore follows a process while it    *)
(* reads (ProcOK: as long as it is calm, what it has read is what the      *)
(* checkout still has), and says of the store and of the artifact what     *)
(* their maker left (StoreOK, ArtifactOK).                                 *)
(***************************************************************************)
EXTENDS CorpusStore, TLAPS

Phases == {"off", "parse", "embed", "insert", "manifest", "fixtures", "build", "write",
           "enrichment", "serving"}
SomeText == Texts \cup {NoText}
Names == Configs \cup EnrichmentConfigs \cup {NoText}
Hashes == [pins : [Statutes -> SomeText], fixtures : [Fixtures -> SomeText], naive : Names]
Artifacts ==
  [hash : Hashes, enrichment : Names, texts : [Documents -> SomeText], calm : BOOLEAN]
ProcRecord ==
  [phase : Phases, naive : Names, enrichment : Names, texts : [Documents -> SomeText],
   pins : [Statutes -> SomeText], fixtures : [Fixtures -> SomeText], batch : 0..Batches,
   tries : 0..MaxRetries, inserted : SUBSET Documents, sidecars : Artifacts \cup {None}]

ShapeOK ==
  /\ checkout \in Checkouts /\ raw \in [Statutes -> SomeText]
  /\ proc \in [Processes -> ProcRecord] /\ artifact \in Artifacts \cup {None, Torn}
  /\ calm \subseteq Processes /\ changes \in 0..MaxChanges

\* The texts a hash names, and what a calm maker's hash is worth.
NamedBy(hash) == [d \in Documents |-> IF d \in Statutes THEN hash.pins[d] ELSE hash.fixtures[d]]
Traced(a) == a.calm => a.texts = NamedBy(a.hash)

PhaseOf(p, phase) ==
  /\ p = Ingester => phase \in {"off", "parse", "embed", "insert", "manifest", "fixtures"}
  /\ p = Enricher => phase \in {"off", "parse", "manifest", "fixtures", "build", "write"}
  /\ p = Server => phase \in {"off", "manifest", "fixtures", "enrichment", "serving"}

\* What a calm process has read is what the checkout has.
CalmOK(x) ==
  /\ Verified /\ x.phase # "off"
  /\ \A d \in Documents : x.texts[d] \in {NoText, FileOf(d)}
  /\ x.phase \in {"fixtures", "build", "write"} => x.pins = checkout.pins
  /\ x.phase \in {"build", "write"} => x.fixtures = checkout.fixtures

\* A record of process p, wherever it is.
RecordOK(p, x) ==
  /\ PhaseOf(p, x.phase)
  /\ x.phase # "off" => x.naive \in Configs
  /\ x.phase \notin {"off", "parse"} /\ p # Server => \A d \in Documents : x.texts[d] # NoText
  /\ x.phase \in {"off", "parse", "embed"} => x.inserted = {}
  /\ x.phase # "serving" => x.sidecars = None
  /\ x.sidecars # None =>
       /\ x.sidecars.hash = CorpusHash(x) /\ x.sidecars.enrichment = x.enrichment
       /\ Traced(x.sidecars)

ProcOK(p) == RecordOK(p, proc[p]) /\ (p \in calm => p # Server /\ CalmOK(proc[p]))

\* The rows of the documents an ingest has inserted.
Inserted(x) == {[doc |-> d, text |-> x.texts[d], naive |-> x.naive] : d \in x.inserted}

StoreShape(s, ix) ==
  /\ IsABag(s) /\ BagToSet(s) \subseteq [doc : Documents, text : Texts, naive : Configs]
  /\ ix \subseteq {IndexName[c] : c \in Configs} \cup {TextIndex}
\* What the record x of an ingest says of the store it has deleted and refilled.
LoadOK(x, s, ix) ==
  /\ x.phase = "insert" => s = SetToBag(Inserted(x))
  /\ x.phase \in {"manifest", "fixtures"} =>
       s = SetToBag(Rows(x.texts, x.naive)) /\ {IndexName[x.naive], TextIndex} \subseteq ix
StoreOK == StoreShape(store, indexes) /\ LoadOK(proc[Ingester], store, indexes)
WholeOK ==
  whole # None =>
    /\ store = SetToBag(Rows(whole.texts, whole.naive))
    /\ {IndexName[whole.naive], TextIndex} \subseteq indexes
    /\ whole.naive = whole.hash.naive /\ Traced(whole)
ArtifactOK == artifact \notin {None, Torn} => Traced(artifact)

IInv == ShapeOK /\ (\A p \in Processes : ProcOK(p)) /\ StoreOK /\ WholeOK /\ ArtifactOK

-----------------------------------------------------------------------------
(* The pieces of the steps.                                                *)

LEMMA CheckoutTypes ==
  ASSUME NEW c \in Checkouts
  PROVE  /\ c.pins \in [Statutes -> Texts] /\ c.fixtures \in [Fixtures -> Texts]
         /\ c.naive \in Configs /\ c.naive \in Names /\ c.enrichment \in Names
BY StoreAssumption DEF Configs, EnrichmentConfigs, Names

LEMMA NotRunningType ==
  /\ NotRunning \in ProcRecord
  /\ \A p \in Processes : RecordOK(p, NotRunning)
<1>1. 0 \in 0..Batches /\ 0 \in 0..MaxRetries
  BY StoreAssumption
<1>2. NotRunning \in ProcRecord
  BY <1>1 DEF NotRunning, ProcRecord, Phases, Names, SomeText
<1>3. /\ NotRunning.phase = "off" /\ NotRunning.sidecars = None /\ NotRunning.inserted = {}
  BY DEF NotRunning
<1>4. \A p \in Processes : RecordOK(p, NotRunning)
  BY <1>3 DEF RecordOK, PhaseOf
<1>5. QED
  BY <1>2, <1>4

\* A step of one process, over files that stay.
LEMMA OneProcess ==
  ASSUME ShapeOK, \A q \in Processes : ProcOK(q), NEW p \in Processes, NEW y \in ProcRecord,
         proc' = [proc EXCEPT ![p] = y], RecordOK(p, y), UNCHANGED <<checkout, raw>>,
         calm' \subseteq calm \cup {p}, p \in calm' => p # Server /\ CalmOK(y)
  PROVE  /\ proc' \in [Processes -> ProcRecord] /\ calm' \subseteq Processes
         /\ proc'[p] = y /\ \A q \in Processes \ {p} : proc'[q] = proc[q]
         /\ \A q \in Processes : ProcOK(q)'
<1>1. /\ proc' \in [Processes -> ProcRecord] /\ calm' \subseteq Processes
      /\ proc'[p] = y /\ \A q \in Processes \ {p} : proc'[q] = proc[q]
  BY DEF ShapeOK
<1>2. ASSUME NEW x, CalmOK(x)
      PROVE  CalmOK(x)'
  BY <1>2 DEF CalmOK, Verified, FileOf
<1>3. ASSUME NEW q \in Processes \ {p}
      PROVE  ProcOK(q)'
  <2>1. proc'[q] = proc[q] /\ (q \in calm' => q \in calm) /\ ProcOK(q)
    BY <1>1
  <2>2. q \in calm' => q # Server /\ CalmOK(proc[q])
    BY <2>1 DEF ProcOK
  <2>3. CalmOK(proc[q]) => CalmOK(proc[q])'
    BY <2>1 DEF CalmOK, Verified, FileOf
  <2>4. QED
    BY <2>1, <2>2, <2>3 DEF ProcOK
<1>4. ProcOK(p)'
  <2>1. CalmOK(y) => CalmOK(proc[p])'
    BY <1>1 DEF CalmOK, Verified, FileOf
  <2>2. QED
    BY <1>1, <2>1 DEF ProcOK
<1>5. QED
  BY <1>1, <1>3, <1>4

\* What a calm process has read in full is what the checkout says.
LEMMA CalmTexts ==
  ASSUME ShapeOK, NEW x \in ProcRecord, CalmOK(x), \A d \in Documents : x.texts[d] # NoText
  PROVE  x.texts = [d \in Documents |-> IF d \in Statutes THEN checkout.pins[d]
                                        ELSE checkout.fixtures[d]]
<1>1. \A d \in Documents : x.texts[d] = IF d \in Statutes THEN checkout.pins[d]
                                        ELSE checkout.fixtures[d]
  BY DEF CalmOK, Verified, FileOf
<1>2. x.texts \in [Documents -> SomeText]
  BY DEF ProcRecord
<1>3. QED
  BY <1>1, <1>2

LEMMA BagAdd ==
  ASSUME NEW S, NEW r, r \notin S
  PROVE  SetToBag(S) (+) SetToBag({r}) = SetToBag(S \cup {r})
BY DEF SetToBag, (+)

-----------------------------------------------------------------------------
(* The steps.                                                              *)

\* What no step of the enrichment, the service or the files touches.
LEMMA StoreStays ==
  ASSUME StoreOK, WholeOK, UNCHANGED <<store, indexes, whole>>,
         \/ proc'[Ingester] = proc[Ingester]
         \/ proc'[Ingester].phase \notin {"insert", "manifest", "fixtures"}
         \/ /\ proc[Ingester].phase \in {"manifest", "fixtures"}
            /\ proc'[Ingester].phase \in {"manifest", "fixtures"}
            /\ proc'[Ingester].texts = proc[Ingester].texts
            /\ proc'[Ingester].naive = proc[Ingester].naive
  PROVE  StoreOK' /\ WholeOK'
<1>1. WholeOK'
  BY DEF WholeOK
<1>2. StoreShape(store, indexes)' /\ StoreShape(store', indexes')
  BY DEF StoreOK, StoreShape
<1>3. LoadOK(proc[Ingester], store', indexes')
  BY DEF StoreOK
<1>4. LoadOK(proc'[Ingester], store', indexes')
  BY <1>3 DEF LoadOK
<1>5. QED
  BY <1>1, <1>2, <1>4 DEF StoreOK

\* The files change, and nobody is calm any more.
LEMMA FilesStep ==
  ASSUME IInv, Checkout \/ \E d \in Statutes : Fetch(d)
  PROVE  IInv'
<1>1. /\ UNCHANGED <<proc, store, indexes, artifact, whole>> /\ calm' = {}
  BY DEF Checkout, Fetch
<1>2. ShapeOK'
  <2>1. CASE Checkout
    BY <1>1, <2>1, StoreAssumption DEF IInv, ShapeOK, Checkout
  <2>2. ASSUME NEW d \in Statutes, Fetch(d)
        PROVE  ShapeOK'
    BY <1>1, <2>2, CheckoutTypes DEF IInv, ShapeOK, Fetch, SomeText
  <2>3. QED
    BY <2>1, <2>2
<1>3. \A p \in Processes : ProcOK(p)'
  BY <1>1 DEF IInv, ProcOK
<1>4. StoreOK' /\ WholeOK'
  BY <1>1, StoreStays DEF IInv
<1>5. ArtifactOK'
  BY <1>1 DEF IInv, ArtifactOK
<1>6. QED
  BY <1>2, <1>3, <1>4, <1>5 DEF IInv

LEMMA StartStep ==
  ASSUME IInv, NEW p \in Processes, Start(p)
  PROVE  IInv'
<1> DEFINE phase == IF p = Server THEN "manifest" ELSE "parse"
           enrichment == IF p = Ingester THEN NotRunning.enrichment ELSE checkout.enrichment
           y == [NotRunning EXCEPT !.phase = phase, !.naive = checkout.naive,
                                   !.enrichment = enrichment]
<1>1. /\ proc' = [proc EXCEPT ![p] = y] /\ proc[p].phase = "off"
      /\ UNCHANGED <<checkout, raw, store, indexes, artifact, whole, changes>>
      /\ calm' = IF Verified /\ p # Server THEN calm \cup {p} ELSE calm
  BY DEF Start
<1>2. NotRunning \in ProcRecord /\ checkout \in Checkouts
      /\ checkout.naive \in Configs /\ checkout.naive \in Names /\ enrichment \in Names
      /\ phase \in Phases
  BY NotRunningType, CheckoutTypes DEF IInv, ShapeOK, Phases, ProcRecord
<1> HIDE DEF enrichment
<1>3. /\ y \in ProcRecord /\ y.phase = phase /\ y.naive = checkout.naive
      /\ y.texts = [d \in Documents |-> NoText] /\ y.inserted = {} /\ y.sidecars = None
  BY <1>2 DEF ProcRecord, NotRunning
<1> HIDE DEF y
<1>4. RecordOK(p, y)
  BY <1>2, <1>3, StoreAssumption DEF RecordOK, PhaseOf, Processes
<1>5. p \in calm' => p # Server /\ CalmOK(y)
  <2>1. p \notin calm
    BY <1>1 DEF IInv, ProcOK, CalmOK
  <2>2. p \in calm' => p # Server /\ Verified
    BY <1>1, <2>1
  <2>3. QED
    BY <1>3, <2>2 DEF CalmOK
<1>6. /\ proc' \in [Processes -> ProcRecord] /\ calm' \subseteq Processes
      /\ proc'[p] = y /\ \A q \in Processes \ {p} : proc'[q] = proc[q]
      /\ \A q \in Processes : ProcOK(q)'
  <2>1. calm' \subseteq calm \cup {p}
    BY <1>1
  <2>2. QED
    BY <1>1, <1>3, <1>4, <1>5, <2>1, OneProcess DEF IInv
<1>7. ShapeOK'
  BY <1>1, <1>6 DEF IInv, ShapeOK
<1>8. StoreOK' /\ WholeOK'
  <2>1. \/ proc'[Ingester] = proc[Ingester]
        \/ proc'[Ingester].phase \notin {"insert", "manifest", "fixtures"}
    BY <1>3, <1>6, StoreAssumption DEF Processes
  <2>2. QED
    BY <1>1, <2>1, StoreStays DEF IInv
<1>9. ArtifactOK'
  BY <1>1 DEF IInv, ArtifactOK
<1>10. QED
  BY <1>6, <1>7, <1>8, <1>9 DEF IInv

LEMMA DieStep ==
  ASSUME IInv, NEW p \in Processes, Die(p)
  PROVE  IInv'
<1>1. /\ proc' = [proc EXCEPT ![p] = NotRunning] /\ calm' = calm \ {p}
      /\ UNCHANGED <<checkout, raw, store, indexes, artifact, whole, changes>>
  BY DEF Die, Exit
<1>2. /\ proc' \in [Processes -> ProcRecord] /\ calm' \subseteq Processes
      /\ proc'[p] = NotRunning /\ \A q \in Processes \ {p} : proc'[q] = proc[q]
      /\ \A q \in Processes : ProcOK(q)'
  BY <1>1, NotRunningType, OneProcess DEF IInv
<1>3. ShapeOK'
  BY <1>1, <1>2 DEF IInv, ShapeOK
<1>4. StoreOK' /\ WholeOK'
  <2>1. \/ proc'[Ingester] = proc[Ingester]
        \/ proc'[Ingester].phase \notin {"insert", "manifest", "fixtures"}
    BY <1>2 DEF Processes, NotRunning
  <2>2. QED
    BY <1>1, <2>1, StoreStays DEF IInv
<1>5. ArtifactOK'
  BY <1>1 DEF IInv, ArtifactOK
<1>6. QED
  BY <1>2, <1>3, <1>4, <1>5 DEF IInv

LEMMA ParseStep ==
  ASSUME IInv, NEW p \in Processes, NEW d \in Documents, ParseDocument(p, d)
  PROVE  IInv'
<1> DEFINE x == proc[p]
           texts == [x.texts EXCEPT ![d] = FileOf(d)]
           phase == IF \A e \in Documents : texts[e] # NoText THEN NextPhase(p).parse ELSE x.phase
           y == [x EXCEPT !.texts = texts, !.phase = phase]
<1>1. /\ proc' = [proc EXCEPT ![p] = y] /\ x.phase = "parse" /\ FileOf(d) # NoText
      /\ UNCHANGED <<checkout, raw, store, indexes, artifact, calm, whole, changes>>
  BY DEF ParseDocument
<1>2. x \in ProcRecord /\ RecordOK(p, x) /\ (p \in calm => p # Server /\ CalmOK(x))
      /\ p \in {Ingester, Enricher} /\ p # Server
  BY <1>1, StoreAssumption DEF IInv, ShapeOK, ProcOK, RecordOK, PhaseOf, Processes
<1>3. FileOf(d) \in SomeText
  BY CheckoutTypes DEF IInv, ShapeOK, FileOf, SomeText, Documents
<1>4. texts \in [Documents -> SomeText]
      /\ \A e \in Documents : texts[e] = IF e = d THEN FileOf(d) ELSE x.texts[e]
  BY <1>2, <1>3 DEF ProcRecord
<1>5. /\ phase \in {"parse", "embed", "manifest"}
      /\ phase # "parse" => \A e \in Documents : texts[e] # NoText
      /\ p = Ingester => phase \in {"parse", "embed"}
      /\ p = Enricher => phase \in {"parse", "manifest"}
  BY <1>1, <1>2, StoreAssumption DEF NextPhase
<1> HIDE DEF x, texts, phase
<1>6. /\ y \in ProcRecord /\ y.phase = phase /\ y.texts = texts /\ y.naive = x.naive
      /\ y.inserted = x.inserted /\ y.sidecars = x.sidecars
  BY <1>2, <1>4, <1>5 DEF ProcRecord, Phases
<1> HIDE DEF y
<1>7. RecordOK(p, y)
  BY <1>1, <1>2, <1>5, <1>6, StoreAssumption DEF RecordOK, PhaseOf
<1>8. p \in calm => p # Server /\ CalmOK(y)
  BY <1>2, <1>4, <1>5, <1>6 DEF CalmOK
<1>9. /\ proc' \in [Processes -> ProcRecord] /\ calm' \subseteq Processes
      /\ proc'[p] = y /\ \A q \in Processes \ {p} : proc'[q] = proc[q]
      /\ \A q \in Processes : ProcOK(q)'
  BY <1>1, <1>6, <1>7, <1>8, OneProcess DEF IInv
<1>10. ShapeOK'
  BY <1>1, <1>9 DEF IInv, ShapeOK
<1>11. StoreOK' /\ WholeOK'
  <2>1. \/ proc'[Ingester] = proc[Ingester]
        \/ proc'[Ingester].phase \notin {"insert", "manifest", "fixtures"}
    BY <1>5, <1>6, <1>9 DEF Processes
  <2>2. QED
    BY <1>1, <2>1, StoreStays DEF IInv
<1>12. ArtifactOK'
  BY <1>1 DEF IInv, ArtifactOK
<1>13. QED
  BY <1>9, <1>10, <1>11, <1>12 DEF IInv

\* One process moves over files that stay: what is left to show of its record
\* y, and what the store and the artifact become.
LEMMA ProcessStep ==
  ASSUME IInv, NEW p \in Processes, NEW y \in ProcRecord,
         proc' = [proc EXCEPT ![p] = y], RecordOK(p, y), UNCHANGED <<checkout, raw, changes>>,
         calm' \subseteq calm, p \in calm' => p # Server /\ CalmOK(y),
         artifact' \in Artifacts \cup {None, Torn}
  PROVE  ShapeOK' /\ (\A q \in Processes : ProcOK(q)') /\ proc'[p] = y
         /\ \A q \in Processes \ {p} : proc'[q] = proc[q]
<1>1. calm' \subseteq calm \cup {p} /\ UNCHANGED <<checkout, raw>>
  OBVIOUS
<1>2. /\ proc' \in [Processes -> ProcRecord] /\ calm' \subseteq Processes
      /\ proc'[p] = y /\ \A q \in Processes \ {p} : proc'[q] = proc[q]
      /\ \A q \in Processes : ProcOK(q)'
  BY <1>1, OneProcess DEF IInv
<1>3. ShapeOK'
  BY <1>2 DEF IInv, ShapeOK
<1>4. QED
  BY <1>2, <1>3

\* What holds of a running process.
LEMMA Running ==
  ASSUME IInv, NEW p \in Processes
  PROVE  /\ proc[p] \in ProcRecord /\ RecordOK(p, proc[p])
         /\ p \in calm => p # Server /\ CalmOK(proc[p])
         /\ checkout \in Checkouts /\ raw \in [Statutes -> SomeText]
         /\ artifact \in Artifacts \cup {None, Torn}
BY DEF IInv, ShapeOK, ProcOK

LEMMA ManifestStep ==
  ASSUME IInv, NEW p \in Processes, ReadManifest(p)
  PROVE  IInv'
<1> DEFINE x == proc[p]
           y == [x EXCEPT !.pins = checkout.pins, !.phase = "fixtures"]
<1>1. NextPhase(p).manifest = "fixtures"
  BY StoreAssumption DEF NextPhase, Processes
<1>2. /\ proc' = [proc EXCEPT ![p] = y] /\ x.phase = "manifest"
      /\ UNCHANGED <<checkout, raw, store, indexes, artifact, calm, whole, changes>>
  BY <1>1 DEF ReadManifest
<1>3. /\ x \in ProcRecord /\ RecordOK(p, x)
      /\ p \in calm => p # Server /\ CalmOK(x)
      /\ checkout.pins \in [Statutes -> SomeText] /\ artifact \in Artifacts \cup {None, Torn}
  BY Running, CheckoutTypes DEF SomeText
<1> HIDE DEF x
<1>4. /\ y \in ProcRecord /\ y.phase = "fixtures" /\ y.texts = x.texts /\ y.naive = x.naive
      /\ y.inserted = x.inserted /\ y.sidecars = x.sidecars /\ y.pins = checkout.pins
  BY <1>3 DEF ProcRecord, Phases
<1> HIDE DEF y
<1>5. RecordOK(p, y)
  BY <1>2, <1>3, <1>4, StoreAssumption DEF RecordOK, PhaseOf
<1>6. p \in calm => p # Server /\ CalmOK(y)
  BY <1>2, <1>3, <1>4 DEF CalmOK
<1>7. /\ ShapeOK' /\ (\A q \in Processes : ProcOK(q)') /\ proc'[p] = y
      /\ \A q \in Processes \ {p} : proc'[q] = proc[q]
  BY <1>2, <1>3, <1>4, <1>5, <1>6, ProcessStep
<1>8. \/ proc'[Ingester] = proc[Ingester]
      \/ /\ proc[Ingester].phase \in {"manifest", "fixtures"}
         /\ proc'[Ingester].phase \in {"manifest", "fixtures"}
         /\ proc'[Ingester].texts = proc[Ingester].texts
         /\ proc'[Ingester].naive = proc[Ingester].naive
  BY <1>2, <1>4, <1>7 DEF Processes, x
<1>9. StoreOK' /\ WholeOK'
  BY <1>2, <1>8, StoreStays DEF IInv
<1>10. QED
  BY <1>2, <1>7, <1>9 DEF IInv, ArtifactOK

LEMMA FixturesStep ==
  ASSUME IInv, NEW p \in Processes, ReadFixtures(p)
  PROVE  IInv'
<1> DEFINE x == proc[p]
           phase == NextPhase(p).fixtures
           y == [x EXCEPT !.fixtures = checkout.fixtures, !.phase = phase]
<1>1. /\ proc' = [proc EXCEPT ![p] = y] /\ x.phase = "fixtures" /\ p # Ingester
      /\ UNCHANGED <<checkout, raw, store, indexes, artifact, calm, whole, changes>>
  BY DEF ReadFixtures
<1>2. \/ p = Enricher /\ phase = "build"
      \/ p = Server /\ phase = "enrichment"
  BY <1>1, StoreAssumption DEF NextPhase, Processes
<1>3. /\ x \in ProcRecord /\ RecordOK(p, x)
      /\ p \in calm => p # Server /\ CalmOK(x)
      /\ checkout.fixtures \in [Fixtures -> SomeText] /\ artifact \in Artifacts \cup {None, Torn}
  BY Running, CheckoutTypes DEF SomeText
<1> HIDE DEF x, phase
<1>4. /\ y \in ProcRecord /\ y.phase = phase /\ y.texts = x.texts /\ y.naive = x.naive
      /\ y.inserted = x.inserted /\ y.sidecars = x.sidecars /\ y.pins = x.pins
      /\ y.fixtures = checkout.fixtures
  BY <1>2, <1>3 DEF ProcRecord, Phases
<1> HIDE DEF y
<1>5. RecordOK(p, y)
  BY <1>1, <1>2, <1>3, <1>4, StoreAssumption DEF RecordOK, PhaseOf
<1>6. p \in calm => p # Server /\ CalmOK(y)
  BY <1>1, <1>2, <1>3, <1>4 DEF CalmOK
<1>7. /\ ShapeOK' /\ (\A q \in Processes : ProcOK(q)') /\ proc'[p] = y
      /\ \A q \in Processes \ {p} : proc'[q] = proc[q]
  BY <1>1, <1>3, <1>4, <1>5, <1>6, ProcessStep
<1>8. proc'[Ingester] = proc[Ingester]
  BY <1>1, <1>7 DEF Processes
<1>9. StoreOK' /\ WholeOK'
  BY <1>1, <1>8, StoreStays DEF IInv
<1>10. QED
  BY <1>1, <1>7, <1>9 DEF IInv, ArtifactOK

LEMMA EmbedStep ==
  ASSUME IInv, Embed
  PROVE  IInv'
<1> DEFINE x == proc[Ingester]
           once == [x EXCEPT !.tries = x.tries + 1]
           next == [x EXCEPT !.batch = x.batch + 1, !.tries = 0]
<1>1. /\ x.phase = "embed" /\ x.batch < Batches
      /\ UNCHANGED <<checkout, raw, store, indexes, artifact, calm, whole, changes>>
      /\ \/ x.tries < MaxRetries /\ proc' = [proc EXCEPT ![Ingester] = once]
         \/ proc' = [proc EXCEPT ![Ingester] = next]
  BY DEF Embed
<1>2. Ingester \in Processes
  BY DEF Processes
<1>3. /\ x \in ProcRecord /\ RecordOK(Ingester, x)
      /\ Ingester \in calm => Ingester # Server /\ CalmOK(x)
      /\ artifact \in Artifacts \cup {None, Torn}
  BY <1>2, Running
<1> HIDE DEF x
<1>4. x.batch \in 0..Batches /\ x.tries \in 0..MaxRetries
  BY <1>3 DEF ProcRecord
<1>5. 0 \in 0..MaxRetries /\ x.batch + 1 \in 0..Batches
      /\ (x.tries < MaxRetries => x.tries + 1 \in 0..MaxRetries)
  BY <1>1, <1>4, StoreAssumption
<1>6. PICK y \in ProcRecord :
        /\ proc' = [proc EXCEPT ![Ingester] = y] /\ y.phase = "embed" /\ y.texts = x.texts
        /\ y.naive = x.naive /\ y.inserted = x.inserted /\ y.sidecars = x.sidecars
  <2>1. CASE x.tries < MaxRetries /\ proc' = [proc EXCEPT ![Ingester] = once]
    <3>1. /\ once \in ProcRecord /\ once.phase = "embed" /\ once.texts = x.texts
          /\ once.naive = x.naive /\ once.inserted = x.inserted /\ once.sidecars = x.sidecars
      BY <1>1, <1>3, <1>5, <2>1 DEF ProcRecord
    <3> HIDE DEF once
    <3>2. QED
      BY <2>1, <3>1
  <2>2. CASE proc' = [proc EXCEPT ![Ingester] = next]
    <3>1. /\ next \in ProcRecord /\ next.phase = "embed" /\ next.texts = x.texts
          /\ next.naive = x.naive /\ next.inserted = x.inserted /\ next.sidecars = x.sidecars
      BY <1>1, <1>3, <1>5 DEF ProcRecord
    <3> HIDE DEF next
    <3>2. QED
      BY <2>2, <3>1
  <2>3. QED
    BY <1>1, <2>1, <2>2
<1>7. RecordOK(Ingester, y)
  BY <1>1, <1>3, <1>6, StoreAssumption DEF RecordOK, PhaseOf
<1>8. Ingester \in calm => Ingester # Server /\ CalmOK(y)
  BY <1>1, <1>3, <1>6 DEF CalmOK
<1>9. ShapeOK' /\ (\A q \in Processes : ProcOK(q)') /\ proc'[Ingester] = y
  BY <1>1, <1>2, <1>3, <1>6, <1>7, <1>8, ProcessStep
<1>10. proc'[Ingester].phase \notin {"insert", "manifest", "fixtures"}
  BY <1>6, <1>9
<1>11. StoreOK' /\ WholeOK'
  BY <1>1, <1>10, StoreStays DEF IInv
<1>12. QED
  BY <1>1, <1>9, <1>11 DEF IInv, ArtifactOK

LEMMA DeleteStep ==
  ASSUME IInv, Delete
  PROVE  IInv'
<1> DEFINE x == proc[Ingester]
           y == [x EXCEPT !.phase = "insert"]
<1>1. /\ x.phase = "embed" /\ proc' = [proc EXCEPT ![Ingester] = y]
      /\ store' = EmptyBag /\ whole' = None
      /\ UNCHANGED <<checkout, raw, indexes, artifact, calm, changes>>
  BY DEF Delete, Become
<1>2. Ingester \in Processes /\ Ingester # Server
  BY StoreAssumption DEF Processes
<1>3. /\ x \in ProcRecord /\ RecordOK(Ingester, x) /\ artifact \in Artifacts \cup {None, Torn}
      /\ Ingester \in calm => Ingester # Server /\ CalmOK(x)
  BY <1>2, Running
<1> HIDE DEF x
<1>4. /\ y \in ProcRecord /\ y.phase = "insert" /\ y.texts = x.texts /\ y.naive = x.naive
      /\ y.inserted = x.inserted /\ y.sidecars = x.sidecars
  BY <1>3 DEF ProcRecord, Phases
<1> HIDE DEF y
<1>5. RecordOK(Ingester, y) /\ y.inserted = {}
  BY <1>1, <1>2, <1>3, <1>4, StoreAssumption DEF RecordOK, PhaseOf
<1>6. Ingester \in calm => Ingester # Server /\ CalmOK(y)
  BY <1>1, <1>3, <1>4 DEF CalmOK
<1>7. ShapeOK' /\ (\A q \in Processes : ProcOK(q)') /\ proc'[Ingester] = y
  BY <1>1, <1>2, <1>3, <1>4, <1>5, <1>6, ProcessStep
<1>8. StoreOK'
  <2>1. Inserted(y) = {}
    BY <1>5 DEF Inserted
  <2>2. store' = SetToBag({}) /\ IsABag(store') /\ BagToSet(store') = {}
    BY <1>1 DEF EmptyBag, SetToBag, IsABag, BagToSet
  <2>3. StoreShape(store', indexes')
    BY <1>1, <2>2 DEF IInv, StoreOK, StoreShape
  <2>4. LoadOK(y, store', indexes')
    BY <1>4, <2>1, <2>2 DEF LoadOK
  <2>5. QED
    BY <1>7, <2>3, <2>4 DEF StoreOK
<1>9. WholeOK'
  BY <1>1 DEF WholeOK
<1>10. QED
  BY <1>1, <1>7, <1>8, <1>9 DEF IInv, ArtifactOK

LEMMA InsertStep ==
  ASSUME IInv, Insert
  PROVE  IInv'
<1> DEFINE x == proc[Ingester]
<1>1. /\ x.phase = "insert" /\ whole' = None
      /\ UNCHANGED <<checkout, raw, indexes, artifact, calm, changes>>
  BY DEF Insert
<1>2. PICK r \in Rows(x.texts, x.naive) :
        /\ r.doc \notin x.inserted /\ store' = store (+) SetToBag({r})
        /\ proc' = [proc EXCEPT ![Ingester].inserted = x.inserted \cup {r.doc}]
  <2>1. \E r \in Rows(x.texts, x.naive) :
          /\ r.doc \notin x.inserted /\ store' = store (+) SetToBag({r})
          /\ proc' = [proc EXCEPT ![Ingester].inserted = @ \cup {r.doc}]
    BY DEF Insert
  <2>2. QED
    BY <2>1
<1>2a. PICK d \in Documents : r = [doc |-> d, text |-> x.texts[d], naive |-> x.naive]
  BY DEF Rows
<1> DEFINE row == [doc |-> d, text |-> x.texts[d], naive |-> x.naive]
           y == [x EXCEPT !.inserted = x.inserted \cup {d}]
<1>3. /\ d \notin x.inserted /\ store' = store (+) SetToBag({row})
      /\ proc' = [proc EXCEPT ![Ingester] = y]
  BY <1>2, <1>2a
<1>4. Ingester \in Processes /\ Ingester # Server
  BY StoreAssumption DEF Processes
<1>5. /\ x \in ProcRecord /\ RecordOK(Ingester, x) /\ artifact \in Artifacts \cup {None, Torn}
      /\ Ingester \in calm => Ingester # Server /\ CalmOK(x)
  BY <1>4, Running
<1>6. store = SetToBag(Inserted(x)) /\ StoreShape(store, indexes)
  BY <1>1 DEF IInv, StoreOK, LoadOK
<1> HIDE DEF x
<1>7. row \in [doc : Documents, text : Texts, naive : Configs]
  <2>1. x.texts[d] # NoText /\ x.naive \in Configs
    BY <1>1, <1>4, <1>5 DEF RecordOK
  <2>2. x.texts[d] \in SomeText
    BY <1>5 DEF ProcRecord
  <2>3. QED
    BY <2>1, <2>2 DEF SomeText
<1>8. /\ y \in ProcRecord /\ y.phase = "insert" /\ y.texts = x.texts /\ y.naive = x.naive
      /\ y.inserted = x.inserted \cup {d} /\ y.sidecars = x.sidecars
  BY <1>1, <1>5 DEF ProcRecord, Phases
<1>9. Inserted(y) = Inserted(x) \cup {row} /\ row \notin Inserted(x)
  BY <1>3, <1>8 DEF Inserted
<1> HIDE DEF y, row
<1>10. RecordOK(Ingester, y)
  BY <1>1, <1>4, <1>5, <1>8, StoreAssumption DEF RecordOK, PhaseOf
<1>11. Ingester \in calm => Ingester # Server /\ CalmOK(y)
  BY <1>1, <1>5, <1>8 DEF CalmOK
<1>12. ShapeOK' /\ (\A q \in Processes : ProcOK(q)') /\ proc'[Ingester] = y
  BY <1>1, <1>3, <1>4, <1>5, <1>8, <1>10, <1>11, ProcessStep
<1>13. StoreOK'
  <2>1. store' = SetToBag(Inserted(y))
    BY <1>3, <1>6, <1>9, BagAdd
  <2>2. BagToSet(store) = Inserted(x) /\ BagToSet(store') = Inserted(y) /\ IsABag(store')
    BY <1>6, <2>1 DEF SetToBag, IsABag, BagToSet
  <2>3. StoreShape(store', indexes')
    BY <1>1, <1>6, <1>7, <1>9, <2>2 DEF StoreShape
  <2>4. LoadOK(y, store', indexes')
    BY <1>8, <2>1 DEF LoadOK
  <2>5. QED
    BY <1>12, <2>3, <2>4 DEF StoreOK
<1>14. WholeOK'
  BY <1>1 DEF WholeOK
<1>15. QED
  BY <1>1, <1>12, <1>13, <1>14 DEF IInv, ArtifactOK

LEMMA IndexStep ==
  ASSUME IInv, EnsureIndex
  PROVE  IInv'
<1> DEFINE x == proc[Ingester]
           y == [x EXCEPT !.phase = "manifest"]
           name == IndexName[x.naive]
<1>1. /\ x.phase = "insert" /\ x.inserted = Documents
      /\ UNCHANGED <<checkout, raw, store, artifact, calm, whole, changes>>
      /\ \/ /\ name \in indexes /\ indexes' = indexes \cup {TextIndex}
            /\ proc' = [proc EXCEPT ![Ingester] = y]
         \/ /\ indexes' = indexes \cup {name} /\ UNCHANGED proc
  BY DEF EnsureIndex, Become
<1>2. Ingester \in Processes /\ Ingester # Server
  BY StoreAssumption DEF Processes
<1>3. /\ x \in ProcRecord /\ RecordOK(Ingester, x) /\ artifact \in Artifacts \cup {None, Torn}
      /\ Ingester \in calm => Ingester # Server /\ CalmOK(x)
      /\ StoreShape(store, indexes) /\ LoadOK(x, store, indexes)
  BY <1>2, Running DEF IInv, StoreOK
<1> HIDE DEF x
<1>4. x.naive \in Configs
  BY <1>1, <1>3 DEF RecordOK
<1>5. StoreShape(store', indexes')
  BY <1>1, <1>3, <1>4 DEF StoreShape
<1>6. WholeOK'
  <2>1. indexes \subseteq indexes' /\ UNCHANGED <<store, whole>> /\ WholeOK
    BY <1>1 DEF IInv
  <2>2. QED
    BY <2>1 DEF WholeOK
<1>7. ArtifactOK'
  BY <1>1 DEF IInv, ArtifactOK
<1>8. CASE UNCHANGED proc
  <2>1. ShapeOK'
    BY <1>1, <1>8 DEF IInv, ShapeOK
  <2>2. \A q \in Processes : ProcOK(q)'
    BY <1>1, <1>8 DEF IInv, ProcOK, CalmOK, Verified, FileOf
  <2>3. LoadOK(x, store', indexes')
    BY <1>1, <1>3 DEF LoadOK
  <2>4. StoreOK'
    BY <1>5, <1>8, <2>3 DEF StoreOK, x
  <2>5. QED
    BY <1>6, <1>7, <2>1, <2>2, <2>4 DEF IInv
<1>9. CASE name \in indexes /\ indexes' = indexes \cup {TextIndex}
           /\ proc' = [proc EXCEPT ![Ingester] = y]
  <2>1. /\ y \in ProcRecord /\ y.phase = "manifest" /\ y.texts = x.texts /\ y.naive = x.naive
        /\ y.inserted = x.inserted /\ y.sidecars = x.sidecars
    BY <1>3 DEF ProcRecord, Phases
  <2> HIDE DEF y
  <2>2. RecordOK(Ingester, y)
    BY <1>1, <1>2, <1>3, <2>1, StoreAssumption DEF RecordOK, PhaseOf
  <2>3. Ingester \in calm => Ingester # Server /\ CalmOK(y)
    BY <1>1, <1>3, <2>1 DEF CalmOK
  <2>4. ShapeOK' /\ (\A q \in Processes : ProcOK(q)') /\ proc'[Ingester] = y
    BY <1>1, <1>2, <1>3, <1>9, <2>1, <2>2, <2>3, ProcessStep
  <2>5. Inserted(x) = Rows(x.texts, x.naive)
    BY <1>1 DEF Inserted, Rows
  <2>6. store' = SetToBag(Rows(y.texts, y.naive))
    BY <1>1, <1>3, <2>1, <2>5 DEF LoadOK
  <2>7. {IndexName[y.naive], TextIndex} \subseteq indexes'
    BY <1>9, <2>1
  <2>8. LoadOK(y, store', indexes')
    BY <2>1, <2>6, <2>7 DEF LoadOK
  <2>9. QED
    BY <1>5, <1>6, <1>7, <2>4, <2>8 DEF IInv, StoreOK
<1>10. QED
  BY <1>1, <1>8, <1>9

\* A calm maker's own pins and fixtures name the texts it read.
LEMMA CalmIsTraced ==
  ASSUME ShapeOK, NEW x \in ProcRecord, CalmOK(x), \A d \in Documents : x.texts[d] # NoText,
         NEW hash, hash.pins = checkout.pins, hash.fixtures = checkout.fixtures
  PROVE  x.texts = NamedBy(hash)
BY CalmTexts DEF NamedBy

LEMMA PrintStep ==
  ASSUME IInv, PrintHash
  PROVE  IInv'
<1> DEFINE x == proc[Ingester]
           hash == [pins |-> x.pins, fixtures |-> checkout.fixtures, naive |-> x.naive]
<1>1. /\ x.phase = "fixtures" /\ proc' = [proc EXCEPT ![Ingester] = NotRunning]
      /\ calm' = calm \ {Ingester}
      /\ whole' = [texts |-> x.texts, naive |-> x.naive, calm |-> Ingester \in calm,
                   hash |-> CorpusHash([x EXCEPT !.fixtures = checkout.fixtures])]
      /\ UNCHANGED <<checkout, raw, store, indexes, artifact, changes>>
  BY DEF PrintHash, Exit
<1>2. Ingester \in Processes /\ Ingester # Server
  BY StoreAssumption DEF Processes
<1>3. /\ x \in ProcRecord /\ RecordOK(Ingester, x) /\ artifact \in Artifacts \cup {None, Torn}
      /\ Ingester \in calm => Ingester # Server /\ CalmOK(x)
      /\ StoreShape(store, indexes) /\ LoadOK(x, store, indexes)
  BY <1>2, Running DEF IInv, StoreOK
<1>4. ShapeOK' /\ (\A q \in Processes : ProcOK(q)') /\ proc'[Ingester] = NotRunning
  <2>1. calm' \subseteq calm /\ Ingester \notin calm'
    BY <1>1
  <2>2. QED
    BY <1>1, <1>2, <1>3, <2>1, NotRunningType, ProcessStep
<1>5. StoreOK'
  <2>1. StoreShape(store', indexes')
    BY <1>1, <1>3
  <2>2. LoadOK(NotRunning, store', indexes')
    BY DEF LoadOK, NotRunning
  <2>3. QED
    BY <1>4, <2>1, <2>2 DEF StoreOK
<1> HIDE DEF x
<1>6. CorpusHash([x EXCEPT !.fixtures = checkout.fixtures]) = hash
  BY <1>3 DEF CorpusHash, ProcRecord
<1> HIDE DEF hash
<1>7. /\ whole'.texts = x.texts /\ whole'.naive = x.naive /\ whole'.hash = hash
      /\ whole'.calm = (Ingester \in calm)
  BY <1>1, <1>6
<1>8. Traced(whole')
  <2>1. CASE Ingester \in calm
    <3>1. /\ CalmOK(x) /\ ShapeOK /\ \A d \in Documents : x.texts[d] # NoText
          /\ hash.pins = checkout.pins /\ hash.fixtures = checkout.fixtures
      BY <1>1, <1>2, <1>3, <2>1 DEF IInv, CalmOK, RecordOK, hash
    <3>2. x.texts = NamedBy(hash)
      BY <1>3, <3>1, CalmIsTraced
    <3>3. QED
      BY <1>7, <3>2 DEF Traced
  <2>2. CASE Ingester \notin calm
    BY <1>7, <2>2 DEF Traced
  <2>3. QED
    BY <2>1, <2>2
<1>9. WholeOK'
  <2>1. whole'.naive = whole'.hash.naive
    BY <1>7 DEF hash
  <2>2. store' = SetToBag(Rows(whole'.texts, whole'.naive))
    BY <1>1, <1>3, <1>7 DEF LoadOK
  <2>3. {IndexName[whole'.naive], TextIndex} \subseteq indexes'
    BY <1>1, <1>3, <1>7 DEF LoadOK
  <2>4. QED
    BY <1>8, <2>1, <2>2, <2>3 DEF WholeOK
<1>10. QED
  BY <1>1, <1>4, <1>5, <1>9 DEF IInv, ArtifactOK

LEMMA BuildStep ==
  ASSUME IInv, Build
  PROVE  IInv'
<1> DEFINE x == proc[Enricher]
           y == [x EXCEPT !.phase = "write"]
<1>1. /\ x.phase = "build" /\ proc' = [proc EXCEPT ![Enricher] = y] /\ artifact' = Torn
      /\ UNCHANGED <<checkout, raw, store, indexes, calm, whole, changes>>
  BY DEF Build, Become
<1>2. Enricher \in Processes /\ Enricher # Server /\ Enricher # Ingester
  BY StoreAssumption DEF Processes
<1>3. /\ x \in ProcRecord /\ RecordOK(Enricher, x)
      /\ Enricher \in calm => Enricher # Server /\ CalmOK(x)
  BY <1>2, Running
<1> HIDE DEF x
<1>4. /\ y \in ProcRecord /\ y.phase = "write" /\ y.texts = x.texts /\ y.naive = x.naive
      /\ y.inserted = x.inserted /\ y.sidecars = x.sidecars /\ y.pins = x.pins
      /\ y.fixtures = x.fixtures
  BY <1>3 DEF ProcRecord, Phases
<1> HIDE DEF y
<1>5. RecordOK(Enricher, y)
  BY <1>1, <1>2, <1>3, <1>4, StoreAssumption DEF RecordOK, PhaseOf
<1>6. Enricher \in calm => Enricher # Server /\ CalmOK(y)
  BY <1>1, <1>3, <1>4 DEF CalmOK
<1>7. /\ ShapeOK' /\ (\A q \in Processes : ProcOK(q)')
      /\ \A q \in Processes \ {Enricher} : proc'[q] = proc[q]
  BY <1>1, <1>2, <1>3, <1>4, <1>5, <1>6, ProcessStep
<1>8. proc'[Ingester] = proc[Ingester]
  BY <1>2, <1>7 DEF Processes
<1>9. StoreOK' /\ WholeOK'
  BY <1>1, <1>8, StoreStays DEF IInv
<1>10. QED
  BY <1>1, <1>7, <1>9 DEF IInv, ArtifactOK

LEMMA WriteStep ==
  ASSUME IInv, WriteArtifact
  PROVE  IInv'
<1> DEFINE x == proc[Enricher]
<1>1. /\ x.phase = "write" /\ proc' = [proc EXCEPT ![Enricher] = NotRunning]
      /\ calm' = calm \ {Enricher}
      /\ artifact' = [hash |-> CorpusHash(x), enrichment |-> x.enrichment, texts |-> x.texts,
                      calm |-> Enricher \in calm]
      /\ UNCHANGED <<checkout, raw, store, indexes, whole, changes>>
  BY DEF WriteArtifact, Exit
<1>2. Enricher \in Processes /\ Enricher # Server /\ Enricher # Ingester
  BY StoreAssumption DEF Processes
<1>3. /\ x \in ProcRecord /\ RecordOK(Enricher, x)
      /\ Enricher \in calm => Enricher # Server /\ CalmOK(x)
  BY <1>2, Running
<1> HIDE DEF x
<1>4. CorpusHash(x) \in Hashes /\ x.enrichment \in Names /\ x.texts \in [Documents -> SomeText]
  BY <1>3 DEF CorpusHash, Hashes, ProcRecord
<1>5. artifact' \in Artifacts
  <2>1. (Enricher \in calm) \in BOOLEAN
    OBVIOUS
  <2>2. QED
    BY <1>1, <1>4, <2>1 DEF Artifacts
<1>6. /\ ShapeOK' /\ (\A q \in Processes : ProcOK(q)')
      /\ \A q \in Processes \ {Enricher} : proc'[q] = proc[q]
  <2>1. calm' \subseteq calm /\ Enricher \notin calm'
    BY <1>1
  <2>2. QED
    BY <1>1, <1>2, <1>5, <2>1, NotRunningType, ProcessStep
<1>7. proc'[Ingester] = proc[Ingester]
  BY <1>2, <1>6 DEF Processes
<1>8. StoreOK' /\ WholeOK'
  BY <1>1, <1>7, StoreStays DEF IInv
<1>9. Traced(artifact')
  <2>1. /\ artifact'.texts = x.texts /\ artifact'.hash = CorpusHash(x)
        /\ artifact'.calm = (Enricher \in calm)
    BY <1>1
  <2>2. CASE Enricher \in calm
    <3>1. /\ CalmOK(x) /\ ShapeOK /\ \A d \in Documents : x.texts[d] # NoText
          /\ CorpusHash(x).pins = checkout.pins /\ CorpusHash(x).fixtures = checkout.fixtures
      BY <1>1, <1>2, <1>3, <2>2 DEF IInv, CalmOK, RecordOK, CorpusHash
    <3>2. x.texts = NamedBy(CorpusHash(x))
      BY <1>3, <3>1, CalmIsTraced
    <3>3. QED
      BY <2>1, <3>2 DEF Traced
  <2>3. CASE Enricher \notin calm
    BY <2>1, <2>3 DEF Traced
  <2>4. QED
    BY <2>2, <2>3
<1>10. QED
  BY <1>6, <1>8, <1>9 DEF IInv, ArtifactOK

LEMMA ResolveStep ==
  ASSUME IInv, ResolveEnrichment
  PROVE  IInv'
<1> DEFINE x == proc[Server]
           bare == [x EXCEPT !.phase = "serving"]
           full == [x EXCEPT !.sidecars = artifact, !.phase = "serving"]
<1>1. /\ x.phase = "enrichment"
      /\ \/ proc' = [proc EXCEPT ![Server] = bare]
         \/ Loads(artifact) /\ proc' = [proc EXCEPT ![Server] = full]
      /\ UNCHANGED <<checkout, raw, store, indexes, artifact, calm, whole, changes>>
  BY DEF ResolveEnrichment, Become
<1>2. Server \in Processes /\ Server # Ingester
  BY StoreAssumption DEF Processes
<1>3. /\ x \in ProcRecord /\ RecordOK(Server, x) /\ artifact \in Artifacts \cup {None, Torn}
      /\ Server \notin calm
  BY <1>2, Running
<1>4. Loads(artifact) => /\ artifact \notin {None, Torn} /\ artifact.hash = CorpusHash(x)
                         /\ artifact.enrichment = x.enrichment
  BY DEF Loads
<1> HIDE DEF x
<1>5. PICK y \in ProcRecord : proc' = [proc EXCEPT ![Server] = y] /\ RecordOK(Server, y)
  <2>1. CASE proc' = [proc EXCEPT ![Server] = bare]
    <3>1. /\ bare \in ProcRecord /\ bare.phase = "serving" /\ bare.naive = x.naive
          /\ bare.sidecars = x.sidecars
      BY <1>3 DEF ProcRecord, Phases
    <3> HIDE DEF bare
    <3>2. RecordOK(Server, bare)
      BY <1>1, <1>2, <1>3, <3>1, StoreAssumption DEF RecordOK, PhaseOf
    <3>3. QED
      BY <2>1, <3>1, <3>2
  <2>2. CASE Loads(artifact) /\ proc' = [proc EXCEPT ![Server] = full]
    <3>1. artifact \in Artifacts /\ Traced(artifact)
      BY <1>3, <1>4, <2>2 DEF IInv, ArtifactOK
    <3>2. /\ full \in ProcRecord /\ full.phase = "serving" /\ full.naive = x.naive
          /\ full.sidecars = artifact /\ full.enrichment = x.enrichment
          /\ full.pins = x.pins /\ full.fixtures = x.fixtures
      BY <1>3, <3>1 DEF ProcRecord, Phases
    <3> HIDE DEF full
    <3>3. CorpusHash(full) = CorpusHash(x)
      BY <3>2 DEF CorpusHash
    <3>4. RecordOK(Server, full)
      BY <1>1, <1>2, <1>3, <1>4, <2>2, <3>1, <3>2, <3>3, StoreAssumption DEF RecordOK, PhaseOf
    <3>5. QED
      BY <2>2, <3>2, <3>4
  <2>3. QED
    BY <1>1, <2>1, <2>2
<1>6. /\ ShapeOK' /\ (\A q \in Processes : ProcOK(q)')
      /\ \A q \in Processes \ {Server} : proc'[q] = proc[q]
  BY <1>1, <1>2, <1>3, <1>5, ProcessStep
<1>7. proc'[Ingester] = proc[Ingester]
  BY <1>2, <1>6 DEF Processes
<1>8. StoreOK' /\ WholeOK'
  BY <1>1, <1>7, StoreStays DEF IInv
<1>9. QED
  BY <1>1, <1>6, <1>8 DEF IInv, ArtifactOK

-----------------------------------------------------------------------------
LEMMA InitInv ==
  ASSUME Init
  PROVE  IInv
<1>1. /\ proc = [p \in Processes |-> NotRunning] /\ calm = {} /\ changes = 0 /\ whole = None
      /\ store = EmptyBag /\ indexes = {} /\ artifact = None /\ checkout = First
      /\ raw \in [Statutes -> {NoText}]
  BY DEF Init
<1>2. ShapeOK
  BY <1>1, NotRunningType, StoreAssumption DEF ShapeOK, SomeText
<1>3. \A p \in Processes : ProcOK(p)
  BY <1>1, NotRunningType DEF ProcOK
<1>4. StoreShape(store, indexes)
  BY <1>1 DEF StoreShape, EmptyBag, SetToBag, IsABag, BagToSet
<1>5. LoadOK(proc[Ingester], store, indexes)
  <2>1. proc[Ingester] = NotRunning
    BY <1>1 DEF Processes
  <2>2. QED
    BY <2>1 DEF LoadOK, NotRunning
<1>6. QED
  BY <1>1, <1>2, <1>3, <1>4, <1>5 DEF IInv, StoreOK, WholeOK, ArtifactOK

LEMMA NextInv ==
  ASSUME IInv, [Next]_vars
  PROVE  IInv'
<1>1. CASE UNCHANGED vars
  <2>1. /\ UNCHANGED <<checkout, raw, store, indexes, artifact, proc, calm, whole, changes>>
    BY <1>1 DEF vars
  <2>2. ShapeOK' /\ ArtifactOK'
    BY <2>1 DEF IInv, ShapeOK, ArtifactOK
  <2>3. \A p \in Processes : ProcOK(p)'
    BY <2>1 DEF IInv, ProcOK, CalmOK, Verified, FileOf
  <2>4. StoreOK' /\ WholeOK'
    BY <2>1, StoreStays DEF IInv
  <2>5. QED
    BY <2>2, <2>3, <2>4 DEF IInv
<1>2. CASE Checkout \/ \E d \in Statutes : Fetch(d)
  BY <1>2, FilesStep
<1>3. ASSUME NEW p \in Processes, Start(p) \/ Die(p) \/ ReadManifest(p) \/ ReadFixtures(p)
      PROVE  IInv'
  BY <1>3, StartStep, DieStep, ManifestStep, FixturesStep
<1>4. ASSUME NEW p \in Processes, NEW d \in Documents, ParseDocument(p, d)
      PROVE  IInv'
  BY <1>4, ParseStep
<1>5. CASE Embed \/ Delete \/ Insert \/ EnsureIndex \/ PrintHash
  BY <1>5, EmbedStep, DeleteStep, InsertStep, IndexStep, PrintStep
<1>6. CASE Build \/ WriteArtifact \/ ResolveEnrichment
  BY <1>6, BuildStep, WriteStep, ResolveStep
<1>7. QED
  BY <1>1, <1>2, <1>3, <1>4, <1>5, <1>6 DEF Next

LEMMA Invariance == Spec => []IInv
BY InitInv, NextInv, PTL DEF Spec

\* Every variable has its type in every reachable state, and an embedding
\* batch is never retried more often than vertex-embedding allows.
THEOREM TypeCorrect == Spec => []TypeOK
<1>1. ASSUME IInv
      PROVE  TypeOK
  <2>1. ShapeOK /\ StoreShape(store, indexes)
    BY <1>1 DEF IInv, StoreOK
  <2>2. \A p \in Processes : proc[p] \in ProcRecord
    BY <2>1 DEF ShapeOK
  <2>3. QED
    BY <2>1, <2>2 DEF TypeOK, ShapeOK, StoreShape, Stored, ProcRecord, SomeText
<1>2. QED
  BY <1>1, Invariance, PTL

\* Whatever runs were killed before it, an ingest that ends leaves exactly its
\* rows, each once, and both indexes (replaceChunks, ensureIndex).
THEOREM IngestRepairs == Spec => []IngestRepairsTheStore
<1>1. ASSUME IInv
      PROVE  IngestRepairsTheStore
  BY <1>1 DEF IInv, WholeOK, IngestRepairsTheStore
<1>2. QED
  BY <1>1, Invariance, PTL

\* A service whose hash an undisturbed ingest printed answers from the build
\* its run record names (buildRunRecord).
THEOREM EqualHashes == Spec => []EqualHashesEqualBuilds
<1>1. ASSUME IInv
      PROVE  EqualHashesEqualBuilds
  <2>1. SUFFICES ASSUME whole # None, whole.calm, whole.hash = CorpusHash(proc[Server])
                 PROVE  Stored = Rows(Named(Server), proc[Server].naive)
    BY DEF EqualHashesEqualBuilds
  <2>2. /\ store = SetToBag(Rows(whole.texts, whole.naive))
        /\ whole.naive = proc[Server].naive /\ whole.texts = NamedBy(whole.hash)
    BY <1>1, <2>1 DEF IInv, WholeOK, Traced, CorpusHash
  <2>3. NamedBy(whole.hash) = Named(Server)
    BY <2>1 DEF NamedBy, Named, CorpusHash
  <2>4. Stored = Rows(whole.texts, whole.naive)
    BY <2>2 DEF Stored, BagToSet, SetToBag
  <2>5. QED
    BY <2>2, <2>3, <2>4
<1>2. QED
  BY <1>1, Invariance, PTL

\* The sidecars a service expands with are of its configuration, and were made
\* from the texts its run record names when their build was undisturbed
\* (assertEnrichmentBuildMatchesCorpus, assertEnrichmentConfigCurrent).
THEOREM SidecarsTraced == Spec => []SidecarsAreOfTheServedBuild
<1>1. ASSUME IInv
      PROVE  SidecarsAreOfTheServedBuild
  <2>1. SUFFICES ASSUME proc[Server].sidecars # None
                 PROVE  /\ proc[Server].sidecars.enrichment = proc[Server].enrichment
                        /\ proc[Server].sidecars.calm =>
                             proc[Server].sidecars.texts = Named(Server)
    BY DEF SidecarsAreOfTheServedBuild
  <2>2. /\ proc[Server].sidecars.hash = CorpusHash(proc[Server])
        /\ proc[Server].sidecars.enrichment = proc[Server].enrichment
        /\ Traced(proc[Server].sidecars)
    BY <1>1, <2>1 DEF IInv, ProcOK, RecordOK, Processes
  <2>3. NamedBy(CorpusHash(proc[Server])) = Named(Server)
    BY DEF NamedBy, Named, CorpusHash
  <2>4. QED
    BY <2>2, <2>3 DEF Traced
<1>2. QED
  BY <1>1, Invariance, PTL
=============================================================================
