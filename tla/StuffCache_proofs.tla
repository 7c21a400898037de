-------------------------- MODULE StuffCache_proofs --------------------------
(***************************************************************************)
(* Theorems about StuffCache, for any builds, settings, order seeds, TTL   *)
(* and bounds.                                                             *)
(*                                                                         *)
(* That a serving process names a cache of its own build and settings is   *)
(* not inductive: it is reached through a record that another process may  *)
(* have written, in a boot that was cut short or not.  The invariant says  *)
(* that every record, on disk or in the hands of a booting process, tells  *)
(* the truth about the cache it names.                                     *)
(***************************************************************************)
EXTENDS StuffCache, SequenceTheorems, TLAPS

\* A process between its reads of the manifest and of the corpus, and after both.
Reading ==
  [phase : {"reading"}, build : Builds, settings : Settings, calm : BOOLEAN,
   name : {None}]
Booted ==
  [phase : Phases \ {"down", "reading"}, bootMs : Nat, build : Builds, text : Texts,
   settings : Settings, existing : SUBSET StuffCacheRecord, calm : BOOLEAN, name : Nat]

ProcOK ==
  \/ proc = Down
  \/ proc \in Reading
  \/ proc \in Booted /\ proc.bootMs <= now

\* A record tells the truth about the cache it names.
Truthful(record) ==
  /\ record.name \in DOMAIN caches
  /\ caches[record.name].build = record.build
  /\ caches[record.name].settings = record.settings
  /\ record.expires <= caches[record.name].expires

Records ==
  /\ \A record \in file.records : Truthful(record)
  /\ proc \in Booted => \A record \in proc.existing : Truthful(record)

\* The cache a process created or chose is one of its own build and settings;
\* the one it is about to record outlives what it will record.
Chosen ==
  proc.phase \in {"saving", "serving"} =>
    /\ proc.name \in DOMAIN caches
    /\ caches[proc.name].build = proc.build
    /\ caches[proc.name].settings = proc.settings
    /\ proc.phase = "saving" => proc.bootMs + TTL <= caches[proc.name].expires

\* A cache is over the canonical order.  Without drift, one of a calm boot is over
\* the text its build stands for, as is what a calm process has read; while it
\* reads, what it has read is still there.
Pinned ==
  /\ \A n \in DOMAIN caches : \E t \in Texts :
       /\ caches[n].contents = CachePrefix(t)
       /\ ~drift /\ caches[n].calm => t = TextOf[caches[n].build]
  /\ ~drift => raw = TextOf[build]
  /\ ~drift /\ proc \in Reading /\ proc.calm => proc.build = build
  /\ ~drift /\ proc \in Booted /\ proc.calm => proc.text = TextOf[proc.build]

IInv == TypeOK /\ ProcOK /\ Records /\ Chosen /\ Pinned /\ AnswersSeeTheirPrompt

-----------------------------------------------------------------------------
(* Lemmas.                                                                 *)

\* What a new cache leaves of the old ones.
LEMMA AppendCache ==
  ASSUME NEW s \in Seq(CachedContent), NEW c \in CachedContent
  PROVE  /\ Append(s, c) \in Seq(CachedContent)
         /\ Len(Append(s, c)) = Len(s) + 1
         /\ Append(s, c)[Len(s) + 1] = c
         /\ DOMAIN Append(s, c) = DOMAIN s \cup {Len(s) + 1}
         /\ \A n \in DOMAIN s : Append(s, c)[n] = s[n]
  OBVIOUS

\* decideCacheAction compares all there is of the settings.
LEMMA MatchingSettings ==
  ASSUME NEW record \in StuffCacheRecord, NEW b \in Builds, NEW s \in Settings,
         Matches(record, b, s)
  PROVE  record.build = b /\ record.settings = s
  BY DEF Matches, StuffCacheRecord, Settings

\* The prefix of a text is a prompt's SOURCES block.
LEMMA PrefixType ==
  ASSUME NEW t \in Texts
  PROVE  /\ CachePrefix(t) \in [text : Texts, arm : Arms, seed : Nat]
         /\ CachePrefix(t).seed = 0 /\ CachePrefix(t).text = t
  BY DEF CachePrefix, SourcesBlock, Arms

\* A prompt falls apart into its SOURCES block and its question.
LEMMA PromptParts ==
  ASSUME NEW t, NEW arm, NEW seed
  PROVE  /\ Head(Prompt(t, arm, seed)) = SourcesBlock(t, arm, seed)
         /\ <<SourcesBlock(t, arm, seed)>> \o Send(Prompt(t, arm, seed)) = Prompt(t, arm, seed)
<1> DEFINE block == SourcesBlock(t, arm, seed)
           S == {block, "question"}
           prompt == <<block, "question">>
<1>1. /\ prompt \in Seq(S) /\ prompt # <<>> /\ Len(prompt) = 2
      /\ prompt[1] = block /\ prompt[2] = "question"
      /\ <<block>> \in Seq(S) /\ Len(<<block>>) = 1 /\ <<block>>[1] = block
  OBVIOUS
<1> HIDE DEF block, S
<1>2. /\ Tail(prompt) \in Seq(S) /\ Len(Tail(prompt)) = 1
      /\ Tail(prompt)[1] = "question"
  BY <1>1, HeadTailProperties
<1>3. /\ <<block>> \o Tail(prompt) \in Seq(S) /\ Len(<<block>> \o Tail(prompt)) = 2
      /\ \A i \in 1..2 : (<<block>> \o Tail(prompt))[i] = prompt[i]
  BY <1>1, <1>2, ConcatProperties
<1>4. <<block>> \o Tail(prompt) = prompt
  BY <1>1, <1>3, SeqEqual
<1>5. Head(prompt) = block
  OBVIOUS
<1> QED
  BY <1>4, <1>5 DEF Prompt, Send, block

\* A booted process read its clock in the past.
LEMMA BootedBefore ==
  ASSUME ProcOK, proc \in Booted
  PROVE  proc.bootMs <= now /\ proc.phase \notin {"down", "reading"}
  BY DEF ProcOK, Booted, Reading, Down

\* Naming its cache changes nothing else of a process.
LEMMA NamedProcess ==
  ASSUME proc \in Booted, NEW phase \in Phases \ {"down", "reading"}, NEW name \in Nat
  PROVE  LET next == Named(phase, name) IN
         /\ next \in Booted /\ next.phase = phase /\ next.name = name
         /\ next.build = proc.build /\ next.settings = proc.settings
         /\ next.text = proc.text /\ next.existing = proc.existing
         /\ next.bootMs = proc.bootMs /\ next.calm = proc.calm
  BY DEF Named, Booted

\* Who has got past its reads is booted.
LEMMA PastReading ==
  ASSUME ProcOK, proc.phase \notin {"down", "reading"}
  PROVE  proc \in Booted
  BY DEF ProcOK, Down, Reading

-----------------------------------------------------------------------------
(* IInv holds initially and every conjunct of it is kept by every step.    *)

LEMMA InitIInv == Init => IInv
<1> SUFFICES ASSUME Init PROVE IInv
  OBVIOUS
<1>1. TypeOK
  BY StuffAssumption DEF Init, TypeOK, File, Down, NoCall, None, Phases, Outcomes
<1>2. ProcOK /\ Records /\ Chosen
  BY DEF Init, ProcOK, Records, Chosen, File, Down, Booted, Reading, Phases
<1>3. Pinned /\ AnswersSeeTheirPrompt
  BY DEF Init, Pinned, AnswersSeeTheirPrompt, PrefixAndCacheAgree, Down, NoCall,
         Reading, Booted, Phases
<1> QED
  BY <1>1, <1>2, <1>3 DEF IInv

\* Who is between the two reads has read the manifest only.
LEMMA WhileReading ==
  ASSUME ProcOK, proc.phase = "reading"
  PROVE  proc \in Reading
  BY DEF ProcOK, Down, Booted

\* The steps of the environment: they leave the caches alone, and of a process
\* they touch nothing but whether its reads were calm.
Outside == Tick \/ EditManifest \/ Fetch \/ Configure \/ Repair

LEMMA OutsideStep == ASSUME IInv, Outside PROVE IInv'
<1> USE DEF disk
<1>1. TypeOK /\ ProcOK /\ Records /\ Chosen /\ Pinned
  BY DEF IInv
<1>2. UNCHANGED <<caches, drift>> /\ call' = NoCall
  BY DEF Outside, Tick, EditManifest, Fetch, Configure, Repair
<1>3. now' \in 0..MaxTime /\ now' >= now
  BY <1>1, StuffAssumption
  DEF Outside, Tick, EditManifest, Fetch, Configure, Repair, TypeOK
<1>4. build' \in Builds /\ raw' \in Texts /\ settings' \in Settings
  BY <1>1, StuffAssumption
  DEF Outside, Tick, EditManifest, Fetch, Configure, Repair, TypeOK
<1>5. file' = file \/ file' = File("absent", {})
  BY DEF Outside, Tick, EditManifest, Fetch, Configure, Repair
<1>6. ~drift => raw' = TextOf[build']
  BY <1>1 DEF Outside, Tick, EditManifest, Fetch, Configure, Repair, Pinned
<1>7. \/ proc' = proc /\ (proc.phase = "reading" => build' = build)
      \/ proc \in Reading /\ proc' \in Reading /\ ~proc'.calm
  <2>1. CASE EditManifest \/ Fetch
    <3>1. CASE proc.phase = "reading"
      <4>1. proc \in Reading /\ proc' = [proc EXCEPT !.calm = FALSE]
        BY <1>1, <2>1, <3>1, WhileReading DEF EditManifest, Fetch, Disturb
      <4> QED
        BY <4>1 DEF Reading
    <3>2. CASE proc.phase # "reading"
      BY <2>1, <3>2 DEF EditManifest, Fetch, Disturb
    <3> QED
      BY <3>1, <3>2
  <2>2. CASE Tick \/ Configure \/ Repair
    BY <2>2 DEF Tick, Configure, Repair
  <2> QED
    BY <2>1, <2>2 DEF Outside
<1>8. CASE proc' = proc /\ (proc.phase = "reading" => build' = build)
  <2>1. TypeOK'
    BY <1>1, <1>2, <1>3, <1>4, <1>5, <1>8, StuffAssumption
    DEF TypeOK, File, NoCall, None, Outcomes
  <2>2. ProcOK'
    BY <1>1, <1>2, <1>3, <1>8, StuffAssumption DEF ProcOK, TypeOK, Booted
  <2>3. Records' /\ Chosen'
    BY <1>1, <1>2, <1>5, <1>8 DEF Records, Truthful, Chosen, File
  <2>4. Pinned' /\ AnswersSeeTheirPrompt'
    BY <1>1, <1>2, <1>6, <1>8
    DEF Pinned, AnswersSeeTheirPrompt, PrefixAndCacheAgree, NoCall, Reading
  <2> QED
    BY <2>1, <2>2, <2>3, <2>4 DEF IInv
<1>9. CASE proc \in Reading /\ proc' \in Reading /\ ~proc'.calm
  <2>1. /\ proc'.phase = "reading" /\ proc'.name = None /\ proc.name = None
        /\ proc' \notin Booted
    BY <1>9 DEF Reading, Booted
  <2>2. TypeOK'
    BY <1>1, <1>2, <1>3, <1>4, <1>5, <2>1, StuffAssumption
    DEF TypeOK, File, NoCall, None, Outcomes, Phases
  <2>3. ProcOK' /\ Records' /\ Chosen'
    BY <1>1, <1>2, <1>5, <1>9, <2>1 DEF ProcOK, Records, Truthful, Chosen, File
  <2>4. Pinned' /\ AnswersSeeTheirPrompt'
    BY <1>1, <1>2, <1>6, <1>9, <2>1
    DEF Pinned, AnswersSeeTheirPrompt, PrefixAndCacheAgree, NoCall
  <2> QED
    BY <2>2, <2>3, <2>4 DEF IInv
<1> QED
  BY <1>7, <1>8, <1>9

\* The steps of a boot that keep the caches.
LEMMA BootStep ==
  ASSUME IInv, Boot \/ ReadCorpus \/ LoadRecord \/ Reuse \/ Save \/ SaveTorn \/ Die
  PROVE  IInv'
<1> USE DEF disk
<1>1. TypeOK /\ ProcOK /\ Records /\ Chosen /\ Pinned
  BY DEF IInv
<1>2. UNCHANGED <<now, disk, caches>> /\ call' = NoCall
  BY DEF Boot, ReadCorpus, LoadRecord, Reuse, Save, SaveTorn, Die
<1>3. AnswersSeeTheirPrompt'
  BY <1>2 DEF AnswersSeeTheirPrompt, PrefixAndCacheAgree, NoCall
<1>4. CASE proc' = Down /\ (UNCHANGED file \/ SaveTorn)
  <2>1. TypeOK'
    BY <1>1, <1>2, <1>4 DEF TypeOK, SaveTorn, File, Down, NoCall, None, Phases, Outcomes
  <2>2. ProcOK' /\ Records' /\ Chosen' /\ Pinned'
    BY <1>1, <1>2, <1>4
    DEF ProcOK, Records, Truthful, Chosen, Pinned, SaveTorn, File, Down, Booted,
        Reading, Phases
  <2> QED
    BY <1>3, <2>1, <2>2 DEF IInv
<1>5. CASE Boot
  <2>1. /\ proc' \in Reading /\ proc' \notin Booted /\ proc'.phase = "reading"
        /\ proc'.build = build /\ proc'.name = None
    BY <1>1, <1>5 DEF Boot, Reading, Booted, TypeOK, None
  <2>2. TypeOK' /\ ProcOK'
    BY <1>1, <1>2, <1>5, <2>1 DEF Boot, TypeOK, ProcOK, NoCall, None, Phases, Outcomes
  <2>3. Records' /\ Chosen' /\ Pinned'
    BY <1>1, <1>2, <1>5, <2>1 DEF Boot, Records, Truthful, Chosen, Pinned
  <2> QED
    BY <1>3, <2>2, <2>3 DEF IInv
<1>6. CASE ReadCorpus
  <2>1. proc \in Reading
    BY <1>1, <1>6, WhileReading DEF ReadCorpus
  <2>2. /\ proc' \in Booted /\ proc' \notin Reading /\ proc'.phase = "loading"
        /\ proc'.bootMs = now /\ proc'.existing = {} /\ proc'.name = None
        /\ proc'.text = raw /\ proc'.build = proc.build /\ proc'.calm = proc.calm
    BY <1>1, <1>6, <2>1 DEF ReadCorpus, Reading, Booted, TypeOK, Phases, None
  <2>3. TypeOK' /\ ProcOK'
    BY <1>1, <1>2, <1>6, <2>2
    DEF ReadCorpus, TypeOK, ProcOK, NoCall, None, Phases, Outcomes
  <2>4. Records' /\ Chosen' /\ Pinned'
    BY <1>1, <1>2, <1>6, <2>1, <2>2 DEF ReadCorpus, Records, Truthful, Chosen, Pinned
  <2> QED
    BY <1>3, <2>3, <2>4 DEF IInv
<1>7. CASE proc.phase # "down" /\ LoadRecord /\ proc' # Down
  <2>1. proc \in Booted
    BY <1>1, <1>7, PastReading DEF LoadRecord
  <2>2. proc' = [proc EXCEPT !.phase = "deciding", !.existing = file.records]
    BY <1>7 DEF LoadRecord
  <2>3. proc' \in Booted
    BY <1>1, <2>1, <2>2 DEF Booted, TypeOK, Phases
  <2>4. TypeOK' /\ ProcOK'
    BY <1>1, <1>2, <1>7, <2>1, <2>2, <2>3
    DEF LoadRecord, TypeOK, ProcOK, NoCall, None, Phases, Outcomes, Booted, Reading, Down
  <2>5. Records' /\ Chosen' /\ Pinned'
    BY <1>1, <1>2, <1>7, <2>1, <2>2 DEF LoadRecord, Records, Truthful, Chosen, Pinned, Booted, Reading, Phases
  <2> QED
    BY <1>3, <2>4, <2>5 DEF IInv
<1>8. CASE Reuse
  <2>1. proc.phase = "deciding"
    BY <1>8 DEF Reuse
  <2>2. PICK record \in proc.existing :
          /\ Reusable(record, proc.build, proc.settings, proc.bootMs)
          /\ proc' = Named("serving", record.name)
    BY <1>8 DEF Reuse
  <2>3. proc \in Booted /\ record \in StuffCacheRecord /\ Truthful(record)
    <3>1. proc \in Booted
      BY <1>1, <2>1, PastReading
    <3> QED
      BY <1>1, <3>1 DEF Records, Booted
  <2>4. record.build = proc.build /\ record.settings = proc.settings
    BY <2>2, <2>3, MatchingSettings DEF Reusable, Booted
  <2>5. /\ proc' \in Booted /\ proc'.phase = "serving" /\ proc'.name = record.name
        /\ UNCHANGED <<proc.build, proc.settings, proc.text, proc.existing, proc.bootMs>>
        /\ UNCHANGED proc.calm
    BY <2>2, <2>3, NamedProcess DEF StuffCacheRecord, Phases
  <2>6. proc' \notin Reading
    BY <2>5 DEF Reading
  <2>7. file' = file /\ record.name \in 1..Len(caches)
    BY <1>1, <1>8, <2>3 DEF Reuse, Truthful, TypeOK
  <2>8. ProcOK'
    BY <1>1, <1>2, <2>3, <2>5, BootedBefore DEF ProcOK
  <2>9. TypeOK'
    BY <1>1, <1>2, <2>5, <2>7 DEF TypeOK, NoCall, None, Phases, Outcomes
  <2>10. Records' /\ Chosen' /\ Pinned'
    BY <1>1, <1>2, <2>1, <2>3, <2>4, <2>5, <2>6, <2>7
    DEF Records, Truthful, Chosen, Pinned
  <2> QED
    BY <1>3, <2>8, <2>9, <2>10 DEF IInv
<1>9. CASE Save
  <2> DEFINE record == [name |-> proc.name, build |-> proc.build,
                        settings |-> proc.settings, expires |-> proc.bootMs + TTL]
  <2>1. proc.phase = "saving" /\ proc \in Booted
    BY <1>1, <1>9, PastReading DEF Save
  <2>2. file' = File("json", {record}) /\ proc' = [proc EXCEPT !.phase = "serving"]
    BY <1>9 DEF Save, RecordedExpiry
  <2>3. /\ proc' \in Booted /\ proc' \notin Reading
        /\ proc'.phase = "serving" /\ proc'.name = proc.name
        /\ UNCHANGED <<proc.build, proc.settings, proc.text, proc.existing, proc.bootMs>>
        /\ UNCHANGED proc.calm
    BY <2>1, <2>2 DEF Booted, Phases, Reading
  <2>4. record \in StuffCacheRecord
    BY <2>1, StuffAssumption DEF StuffCacheRecord, Booted
  <2>5. Truthful(record) /\ Truthful(record)'
    BY <1>1, <1>2, <2>1, <2>2 DEF Chosen, Truthful, Booted
  <2> HIDE DEF record
  <2>6. ProcOK'
    BY <1>1, <1>2, <2>1, <2>3, BootedBefore DEF ProcOK
  <2>7. proc'.name \in 1..Len(caches) /\ proc'.phase = "serving"
    BY <1>1, <2>1, <2>2, <2>3 DEF Chosen, TypeOK, Booted
  <2>8. TypeOK'
    BY <1>1, <1>2, <2>2, <2>4, <2>7 DEF TypeOK, NoCall, None, Phases, Outcomes, File
  <2>9. Records' /\ Chosen' /\ Pinned'
    BY <1>1, <1>2, <2>1, <2>2, <2>3, <2>5 DEF Records, Truthful, Chosen, Pinned, File
  <2> QED
    BY <1>3, <2>6, <2>8, <2>9 DEF IInv
<1>10. CASE LoadRecord /\ proc' = Down
  BY <1>4, <1>10 DEF LoadRecord
<1> QED
  BY <1>4, <1>5, <1>6, <1>7, <1>8, <1>9, <1>10 DEF LoadRecord, SaveTorn, Die

\* Vertex creates a cache: those that exist keep their names.
LEMMA CreateStep == ASSUME IInv, Create PROVE IInv'
<1> USE DEF disk
<1> DEFINE new == [contents |-> CachePrefix(proc.text), build |-> proc.build,
                   settings |-> proc.settings, expires |-> now + TTL,
                   calm |-> proc.calm]
<1>1. TypeOK /\ ProcOK /\ Records /\ Chosen /\ Pinned
  BY DEF IInv
<1>2. /\ proc.phase = "deciding" /\ caches' = Append(caches, new)
      /\ proc' = Named("saving", Len(caches'))
      /\ UNCHANGED <<now, disk, file>> /\ call' = NoCall
  BY DEF Create
<1>3. proc \in Booted /\ proc.bootMs <= now
  BY <1>1, <1>2, PastReading, BootedBefore
<1>4. proc.text \in Texts /\ proc.build \in Builds /\ proc.bootMs \in Nat
  BY <1>3 DEF Booted
<1>5. new \in CachedContent /\ new.contents.seed = 0
  BY <1>1, <1>3, <1>4, PrefixType, StuffAssumption DEF CachedContent, TypeOK, Booted
<1>6. /\ new.contents = CachePrefix(proc.text) /\ new.build = proc.build
      /\ new.settings = proc.settings /\ proc.bootMs + TTL <= new.expires
      /\ new.calm = proc.calm
  BY <1>1, <1>3, <1>4, StuffAssumption DEF TypeOK
<1> HIDE DEF new
<1>7. /\ caches' \in Seq(CachedContent) /\ Len(caches') = Len(caches) + 1
      /\ caches'[Len(caches')] = new /\ Len(caches) \in Nat
      /\ DOMAIN caches' = DOMAIN caches \cup {Len(caches')}
      /\ \A n \in DOMAIN caches : caches'[n] = caches[n]
  BY <1>1, <1>2, <1>5, AppendCache DEF TypeOK
<1>8. /\ proc' \in Booted /\ proc'.phase = "saving" /\ proc'.name = Len(caches')
      /\ UNCHANGED <<proc.build, proc.settings, proc.text, proc.existing, proc.bootMs>>
      /\ UNCHANGED proc.calm
  BY <1>2, <1>3, <1>7, NamedProcess DEF Phases
<1>9. proc' \notin Reading
  BY <1>8 DEF Reading
<1>10. TypeOK'
  BY <1>1, <1>2, <1>5, <1>7, <1>8 DEF TypeOK, NoCall, None, Phases, Outcomes
<1>11. ProcOK'
  BY <1>2, <1>3, <1>8 DEF ProcOK
<1>12. Records'
  BY <1>1, <1>2, <1>3, <1>7, <1>8 DEF Records, Truthful
<1>13. Chosen'
  BY <1>6, <1>7, <1>8 DEF Chosen
<1>14. Pinned'
  <2>1. ~drift /\ proc.calm => proc.text = TextOf[new.build]
    BY <1>1, <1>3, <1>6 DEF Pinned
  <2> QED
    BY <1>1, <1>2, <1>4, <1>6, <1>7, <1>8, <1>9, <2>1 DEF Pinned
<1>15. AnswersSeeTheirPrompt'
  BY <1>2 DEF AnswersSeeTheirPrompt, PrefixAndCacheAgree, NoCall
<1> QED
  BY <1>10, <1>11, <1>12, <1>13, <1>14, <1>15 DEF IInv

\* A question is answered: only the call changes.
LEMMA AskStep == ASSUME IInv, Ask PROVE IInv'
<1> USE DEF disk
<1>1. TypeOK /\ ProcOK /\ Records /\ Chosen /\ Pinned
  BY DEF IInv
<1>2. proc.phase = "serving" /\ UNCHANGED <<now, disk, file, caches, proc>>
  BY DEF Ask
<1>3. PICK arm \in Arms, seed \in Seeds :
        call' = Call(Prompt(proc.text, arm, seed),
                     CompleteCached(arm, seed, proc.name), proc.name)
  BY DEF Ask
<1> DEFINE prompt == Prompt(proc.text, arm, seed)
           cached == CompleteCached(arm, seed, proc.name)
<1>4. Head(prompt) = SourcesBlock(proc.text, arm, seed)
  BY PromptParts
<1>5. cached => Head(prompt) = CachePrefix(proc.text)
  BY <1>4 DEF CompleteCached, CachePrefix
<1>6. /\ proc.name \in DOMAIN caches /\ caches[proc.name].settings = proc.settings
      /\ caches[proc.name].build = proc.build /\ caches[proc.name].expires \in Nat
  <2>1. proc.name \in DOMAIN caches
    BY <1>1, <1>2 DEF Chosen
  <2>2. caches[proc.name] \in CachedContent
    BY <1>1, <2>1 DEF TypeOK
  <2> QED
    BY <1>1, <1>2, <2>1, <2>2 DEF Chosen, CachedContent
<1>7. /\ call'.outcome \in {"answered", "gone"} /\ call'.asked = prompt
      /\ call'.name = proc.name
      /\ call'.outcome = "gone" => ~Alive(proc.name, proc.settings)
      /\ call'.outcome = "answered" =>
           call'.seen = IF cached THEN <<caches[proc.name].contents>> \o Send(prompt)
                        ELSE prompt
  <2>1. CASE cached /\ ~Alive(proc.name, proc.settings)
    BY <1>3, <1>5, <2>1 DEF Call
  <2>2. CASE ~cached \/ Alive(proc.name, proc.settings)
    BY <1>3, <1>5, <2>2 DEF Call
  <2> QED
    BY <2>1, <2>2
<1>8. ASSUME ~drift, proc.calm, caches[proc.name].calm, cached
      PROVE  <<caches[proc.name].contents>> \o Send(prompt) = prompt
  <2>1. caches[proc.name].contents = CachePrefix(proc.text)
    <3>1. proc \in Booted
      BY <1>1, <1>2, PastReading
    <3>2. proc.text = TextOf[proc.build]
      BY <1>1, <1>8, <3>1 DEF Pinned
    <3> QED
      BY <1>1, <1>6, <1>8, <3>2 DEF Pinned
  <2>2. CachePrefix(proc.text) = SourcesBlock(proc.text, arm, seed)
    BY <1>4, <1>5, <1>8
  <2> QED
    BY <2>1, <2>2, PromptParts
<1>9. call'.outcome = "gone" => now >= caches[proc.name].expires
  BY <1>1, <1>6, <1>7 DEF Alive, TypeOK
<1>10. PrefixAndCacheAgree' \/ drift' \/ ~proc'.calm \/ ~caches'[call'.name].calm
  <2> SUFFICES ASSUME ~drift, proc.calm, caches[proc.name].calm,
                      call'.outcome = "answered"
               PROVE  call'.seen = call'.asked
    BY <1>2, <1>7 DEF PrefixAndCacheAgree
  <2>1. CASE cached
    BY <1>7, <1>8, <2>1
  <2>2. CASE ~cached
    BY <1>7, <2>2
  <2> QED
    BY <2>1, <2>2
<1>11. AnswersSeeTheirPrompt'
  BY <1>2, <1>7, <1>9, <1>10 DEF AnswersSeeTheirPrompt
<1>12. TypeOK'
  BY <1>1, <1>2, <1>7 DEF TypeOK, Outcomes
<1>13. ProcOK' /\ Records' /\ Chosen' /\ Pinned'
  BY <1>1, <1>2 DEF ProcOK, Records, Truthful, Chosen, Pinned, Down, Booted, Reading
<1> QED
  BY <1>11, <1>12, <1>13 DEF IInv

LEMMA IInvStep == IInv /\ [Next]_vars => IInv'
<1> SUFFICES ASSUME IInv, [Next]_vars PROVE IInv'
  OBVIOUS
<1>1. CASE UNCHANGED vars
  BY <1>1 DEF vars, IInv, TypeOK, ProcOK, Records, Truthful, Chosen, Pinned,
              AnswersSeeTheirPrompt, PrefixAndCacheAgree, Down, Booted, Reading
<1> QED
  BY <1>1, OutsideStep, BootStep, CreateStep, AskStep DEF Next, Outside

\* No process that got past reading the record has a torn file behind it.
UnreadWhileTorn == file.content = "torn" => proc.phase \in {"down", "reading", "loading"}

LEMMA TornStep ==
  IInv /\ UnreadWhileTorn /\ [Next]_vars =>
    /\ UnreadWhileTorn'
    /\ file.content = "torn" => proc'.phase \in {"down", "reading", "loading"}
<1> SUFFICES ASSUME IInv, UnreadWhileTorn, [Next]_vars
             PROVE  /\ UnreadWhileTorn'
                    /\ file.content = "torn" =>
                         proc'.phase \in {"down", "reading", "loading"}
  OBVIOUS
<1> USE DEF UnreadWhileTorn, File, Down
<1>1. CASE UNCHANGED vars \/ Tick \/ Configure \/ Repair \/ Ask
  BY <1>1 DEF vars, Tick, Configure, Repair, Ask
<1>2. CASE EditManifest \/ Fetch
  <2>1. CASE proc.phase = "reading"
    <3>1. proc \in Reading /\ proc' = [proc EXCEPT !.calm = FALSE]
      BY <1>2, <2>1, WhileReading DEF EditManifest, Fetch, Disturb, IInv
    <3>2. proc'.phase = "reading"
      BY <3>1 DEF Reading
    <3> QED
      BY <3>2
  <2>2. CASE proc.phase # "reading"
    BY <1>2, <2>2 DEF EditManifest, Fetch, Disturb
  <2> QED
    BY <2>1, <2>2
<1>3. CASE Boot \/ ReadCorpus \/ LoadRecord
  <2>1. CASE Boot \/ ReadCorpus
    BY <2>1 DEF Boot, ReadCorpus
  <2>2. CASE LoadRecord
    BY <2>2 DEF LoadRecord, Parses
  <2> QED
    BY <1>3, <2>1, <2>2
<1>4. CASE Reuse \/ Create
  BY <1>4 DEF Reuse, Create
<1>5. CASE Save
  BY <1>5 DEF Save
<1>6. CASE SaveTorn \/ Die
  BY <1>6 DEF SaveTorn, Die
<1> QED
  BY <1>1, <1>2, <1>3, <1>4, <1>5, <1>6 DEF Next

LEMMA IInvHolds == Spec => []IInv
  BY InitIInv, IInvStep, PTL DEF Spec

-----------------------------------------------------------------------------
(* The results.                                                            *)

\* The record file, the caches, the process and the last call keep their
\* types, and no cache is created over a permuted or a partial corpus.
THEOREM TypeCorrect == Spec => []TypeOK
<1>1. IInv => TypeOK
  BY DEF IInv
<1> QED
  BY <1>1, IInvHolds, PTL

\* decideCacheAction and the record file: whatever was flipped, cut short or
\* recreated before, a serving process names a cache of its own build, model
\* and location.
THEOREM RightCache == Spec => []ServedCacheIsOfThisBuild
<1>1. IInv => ServedCacheIsOfThisBuild
  BY DEF IInv, Chosen, ServedCacheIsOfThisBuild
<1> QED
  BY <1>1, IInvHolds, PTL

\* provisionStuffCache: the recorded expiry never outlives the cache.
THEOREM ExpiryIsConservative == Spec => []RecordExpiresBeforeItsCache
<1>1. IInv => RecordExpiresBeforeItsCache
  BY DEF IInv, Records, Truthful, RecordExpiresBeforeItsCache
<1> QED
  BY <1>1, IInvHolds, PTL

\* completeForArm and deriveStuffSendSuffix: with the raw files the manifest
\* pins, the model is shown the very prompt that was built, for every arm and
\* order, unless a file changed between the reads of the manifest and of the
\* corpus (serve-cli.ts:148, 265) by the boot that answers or by the one that
\* created the cache; and no question fails but on an expired cache.
THEOREM PromptsArriveWhole == Spec => []AnswersSeeTheirPrompt
<1>1. IInv => AnswersSeeTheirPrompt
  BY DEF IInv
<1> QED
  BY <1>1, IInvHolds, PTL

\* parseStuffCacheStore: a torn record lets no boot get past reading it.
THEOREM TornRecordFailsLoud == Spec => TornRecordStopsTheService
<1>1. Init => UnreadWhileTorn
  BY DEF Init, UnreadWhileTorn, File
<1>2. IInv /\ UnreadWhileTorn /\ [Next]_vars =>
        /\ UnreadWhileTorn'
        /\ [file.content = "torn" => proc'.phase \in {"down", "reading", "loading"}]_vars
  BY TornStep
<1> QED
  BY <1>1, <1>2, IInvHolds, PTL DEF Spec, TornRecordStopsTheService
=============================================================================
