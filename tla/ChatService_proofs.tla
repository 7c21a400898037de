------------------------- MODULE ChatService_proofs -------------------------
(***************************************************************************)
(* Theorems about ChatService, for every set of requests and sessions,     *)
(* every discipline and every wiring.                                      *)
(*                                                                         *)
(* What a row tells is a property of the copies of it that are under way:  *)
(* the summary a request loaded and the one it is about to save.  IInv     *)
(* says what those copies hold at every stage of the handler.              *)
(***************************************************************************)
EXTENDS ChatService, FiniteSetTheorems, TLAPS

\* The stages from which no request goes back to the store.
Past == {"flushing", "closed", "cut"}

\* A request works on its session only when it has one and the store is wired,
\* and folds only what it answered in substance.
Stages ==
  \A r \in Requests :
    /\ pc[r] \in {"unsent", "running"} => answer[r] = "none"
    /\ pc[r] = "running" /\ "session" \in loading[r] => Remembers(r)
    /\ pc[r] \in {"summarizing", "saving"} =>
         Remembers(r) /\ deps.summarize /\ answer[r] = "substantive"

\* The sentence of the protocol each response has spoken so far.
Streams ==
  \A r \in Requests :
    /\ pc[r] = "unsent" => stream[r] = <<>>
    /\ pc[r] = "running" => \A i \in DOMAIN stream[r] : stream[r][i] = "token"
    /\ answer[r] = "substantive" => \E i \in DOMAIN stream[r] : stream[r][i] = "result"

\* A summary of the session key: one count per turn, and every turn answered.
Sound(memory, key) ==
  /\ memory.turnCount = Cardinality(memory.turns)
  /\ \A q \in memory.turns :
       SessionOf[q] = key /\ answer[q] = "substantive" /\ pc[q] \in Past

\* The rows, and the copies the requests work on, are sound; a request that
\* has not been folded is in no copy.
Lineage ==
  /\ \A s \in Sessions : Sound(stored[s], s)
  /\ \A r \in Requests :
       /\ Sound(base[r], SessionOf[r])
       /\ r \notin base[r].turns
       /\ pc[r] = "saving" =>
            /\ fold[r].turns = base[r].turns \cup {r}
            /\ fold[r].turnCount = Cardinality(fold[r].turns)

\* With clients that wait for the end of the stream one request of a session
\* is open at a time, so the summary it loaded is still the stored one.
Serial ==
  discipline = "stream-end" =>
    /\ \A q, r \in Requests :
         q # r /\ SessionOf[q] = SessionOf[r] /\ SessionOf[r] # NoSession =>
           ~(pc[q] \in Open /\ pc[r] \in Open)
    /\ \A r \in Requests :
         Remembers(r) =>
           /\ pc[r] = "running" /\ "session" \notin loading[r] => base[r] = stored[SessionOf[r]]
           /\ pc[r] \in {"summarizing", "saving"} => base[r] = stored[SessionOf[r]]

IInv == TypeOK /\ Stages /\ TerminalEventIsLast /\ Streams /\ Lineage
          /\ Serial /\ TurnIsLostOnlyToAFailure

-----------------------------------------------------------------------------
(* Lemmas.                                                                 *)

\* A string that carries no terminal event carries one, as its last, once a
\* terminal event is appended, and none when a token is.
LEMMA AppendEvent ==
  ASSUME NEW s \in Seq(Events), NEW e \in Events,
         \A i \in DOMAIN s : s[i] = "token"
  PROVE  /\ Append(s, e) \in Seq(Events)
         /\ Append(s, e) # <<>>
         /\ Append(s, e)[Len(Append(s, e))] = e
         /\ Len(Append(s, e)) \in DOMAIN Append(s, e)
         /\ \A i \in DOMAIN Append(s, e) :
              i # Len(Append(s, e)) => Append(s, e)[i] = "token"
  OBVIOUS

\* Every text is within the cap once it is capped, so it always parses.
LEMMA CappedParses ==
  ASSUME NEW raw \in Nat, NEW size \in CapSummary(raw)
  PROVE  size \in 0..Cap /\ ParsesAsMemory(size)
  BY ChatAssumption DEF CapSummary, ParsesAsMemory

\* The empty summary is a summary with no turns.
LEMMA EmptyIsSound ==
  EmptySessionMemory \in Memory
    /\ EmptySessionMemory.turnCount = Cardinality(EmptySessionMemory.turns)
    /\ EmptySessionMemory.turns = {}
<1>1. Cardinality({}) = 0
  BY FS_EmptySet
<1>2. IsFiniteSet(Requests)
  BY ChatAssumption
<1>3. Cardinality(Requests) \in Nat
  BY <1>2, FS_CardinalityType
<1> QED
  BY <1>1, <1>3, ChatAssumption DEF EmptySessionMemory, Memory

\* Folding a turn that is not yet told keeps a summary one, and counts it.
LEMMA FoldIsSound ==
  ASSUME NEW memory \in Memory, NEW r \in Requests, r \notin memory.turns,
         memory.turnCount = Cardinality(memory.turns), NEW size \in 0..Cap
  PROVE  /\ AppendTurn(memory, r, size) \in Memory
         /\ AppendTurn(memory, r, size).turns = memory.turns \cup {r}
         /\ AppendTurn(memory, r, size).turnCount
              = Cardinality(AppendTurn(memory, r, size).turns)
<1> DEFINE more == memory.turns \cup {r}
<1>1. memory.turns \subseteq Requests /\ more \subseteq Requests
  BY DEF Memory
<1>2. IsFiniteSet(Requests)
  BY ChatAssumption
<1>3. IsFiniteSet(memory.turns) /\ IsFiniteSet(more)
  BY <1>1, <1>2, FS_Subset
<1>4. Cardinality(more) = Cardinality(memory.turns) + 1
  BY <1>3, FS_AddElement
<1>5. Cardinality(more) <= Cardinality(Requests)
  BY <1>1, <1>2, FS_Subset
<1>6. Cardinality(Requests) \in Nat /\ Cardinality(more) \in Nat
  BY <1>2, <1>3, FS_CardinalityType
<1>7. memory.turnCount + 1 \in 0..Cardinality(Requests)
  BY <1>4, <1>5, <1>6
<1> QED
  BY <1>1, <1>4, <1>7 DEF AppendTurn, NextTurnCount, Memory

\* The summarizer's text always parses: the turn is folded, and saved next.
LEMMA SummarizeFolds ==
  ASSUME TypeOK, Lineage, NEW r \in Requests, Summarize(r)
  PROVE  \E memory \in Memory :
           /\ memory.turns = base[r].turns \cup {r}
           /\ memory.turnCount = Cardinality(memory.turns)
           /\ fold' = [fold EXCEPT ![r] = memory]
           /\ pc' = [pc EXCEPT ![r] = "saving"]
<1>1. PICK raw \in RawSizes : \E size \in CapSummary(raw) :
        IF ParsesAsMemory(size)
        THEN fold' = [fold EXCEPT ![r] = AppendTurn(base[r], r, size)] /\ Goto(r, "saving")
        ELSE UNCHANGED fold /\ Goto(r, "flushing")
  BY DEF Summarize
<1>2. PICK size \in CapSummary(raw) :
        IF ParsesAsMemory(size)
        THEN fold' = [fold EXCEPT ![r] = AppendTurn(base[r], r, size)] /\ Goto(r, "saving")
        ELSE UNCHANGED fold /\ Goto(r, "flushing")
  BY <1>1
<1>3. size \in 0..Cap /\ ParsesAsMemory(size)
  BY CappedParses, ChatAssumption
<1>4. base[r] \in Memory /\ base[r].turnCount = Cardinality(base[r].turns) /\ r \notin base[r].turns
  BY DEF TypeOK, Lineage, Sound
<1> QED
  BY <1>2, <1>3, <1>4, FoldIsSound DEF Goto

\* A request that works on its session has one.
LEMMA RememberedSession ==
  ASSUME NEW r \in Requests, Remembers(r)
  PROVE  SessionOf[r] \in Sessions /\ SessionKey(r) = SessionOf[r]
  BY ChatAssumption DEF Remembers, SessionKey

-----------------------------------------------------------------------------
(* Every conjunct of IInv holds initially and is kept by every step.       *)

LEMMA InitIInv == Init => IInv
<1> SUFFICES ASSUME Init PROVE IInv
  OBVIOUS
<1>1. TypeOK
  BY EmptyIsSound, ChatAssumption DEF Init, TypeOK, Open, Over
<1>2. Stages /\ TerminalEventIsLast /\ Streams
  BY DEF Init, Stages, TerminalEventIsLast, Streams
<1>3. Lineage
  BY EmptyIsSound DEF Init, Lineage, Sound
<1>4. Serial /\ TurnIsLostOnlyToAFailure
  BY DEF Init, Serial, TurnIsLostOnlyToAFailure, Saved, Open
<1> QED
  BY <1>1, <1>2, <1>3, <1>4 DEF IInv

LEMMA TypeStep == ASSUME IInv, [Next]_vars PROVE TypeOK'
<1> USE DEF fixed, memories, Emit, Goto
<1>1. TypeOK
  BY DEF IInv
<1>2. \A r \in Requests : SessionOf[r] \in Sessions \cup {NoSession}
  BY ChatAssumption
<1>3. CASE Stop
  BY <1>1, <1>3, ChatAssumption DEF Stop, TypeOK, Open, Over
<1>4. CASE Start
  BY <1>1, <1>4 DEF Start, TypeOK
<1>5. ASSUME NEW r \in Requests, Receive(r) PROVE TypeOK'
  BY <1>1, <1>5 DEF Receive, TypeOK, Open
<1>6. ASSUME NEW r \in Requests, LoadProfile(r) PROVE TypeOK'
  BY <1>1, <1>6 DEF LoadProfile, TypeOK
<1>7. ASSUME NEW r \in Requests, LoadSession(r) PROVE TypeOK'
  <2>1. SessionKey(r) \in Sessions
    BY <1>7, RememberedSession DEF LoadSession, IInv, Stages
  <2> QED
    BY <1>1, <1>7, <2>1 DEF LoadSession, TypeOK
<1>8. ASSUME NEW r \in Requests, LoadFails(r) PROVE TypeOK'
  BY <1>1, <1>8 DEF LoadFails, TypeOK, Open, Events
<1>9. ASSUME NEW r \in Requests, EmitToken(r) PROVE TypeOK'
  BY <1>1, <1>9 DEF EmitToken, TypeOK, Events
<1>10. ASSUME NEW r \in Requests, EmitResult(r) PROVE TypeOK'
  BY <1>1, <1>10 DEF EmitResult, TypeOK, Open, Events
<1>11. ASSUME NEW r \in Requests, AgentFails(r) PROVE TypeOK'
  BY <1>1, <1>11 DEF AgentFails, TypeOK, Open, Events
<1>12. ASSUME NEW r \in Requests, Summarize(r) PROVE TypeOK'
  <2>1. PICK memory \in Memory :
          fold' = [fold EXCEPT ![r] = memory] /\ pc' = [pc EXCEPT ![r] = "saving"]
    BY <1>12, SummarizeFolds DEF IInv
  <2> QED
    BY <1>1, <1>12, <2>1 DEF Summarize, TypeOK, Open
<1>13. ASSUME NEW r \in Requests, Save(r) PROVE TypeOK'
  BY <1>1, <1>13 DEF Save, TypeOK, Open
<1>14. ASSUME NEW r \in Requests, PersistFails(r) PROVE TypeOK'
  BY <1>1, <1>14 DEF PersistFails, TypeOK, Open
<1>15. ASSUME NEW r \in Requests, Flush(r) PROVE TypeOK'
  BY <1>1, <1>15 DEF Flush, TypeOK, Open, Over
<1>16. CASE UNCHANGED vars
  BY <1>1, <1>16 DEF vars, TypeOK
<1> QED
  BY <1>3, <1>4, <1>5, <1>6, <1>7, <1>8, <1>9, <1>10, <1>11, <1>12, <1>13, <1>14, <1>15,
     <1>16 DEF Next, Step

LEMMA StageStep == ASSUME IInv, [Next]_vars PROVE Stages'
<1> USE DEF fixed, memories, Emit, Goto
<1>1. TypeOK /\ Stages
  BY DEF IInv
<1>2. CASE Stop
  BY <1>1, <1>2 DEF Stop, Stages, TypeOK, Remembers, Open
<1>3. CASE Start
  BY <1>1, <1>3 DEF Start, Stages, TypeOK, Remembers
<1>4. ASSUME NEW r \in Requests, Receive(r) PROVE Stages'
  BY <1>1, <1>4 DEF Receive, Stages, TypeOK, Remembers
<1>5. ASSUME NEW r \in Requests, LoadProfile(r) PROVE Stages'
  BY <1>1, <1>5 DEF LoadProfile, Stages, TypeOK, Remembers
<1>6. ASSUME NEW r \in Requests, LoadSession(r) PROVE Stages'
  BY <1>1, <1>6 DEF LoadSession, Stages, TypeOK, Remembers
<1>7. ASSUME NEW r \in Requests, LoadFails(r) PROVE Stages'
  BY <1>1, <1>7 DEF LoadFails, Stages, TypeOK, Remembers
<1>8. ASSUME NEW r \in Requests, EmitToken(r) PROVE Stages'
  BY <1>1, <1>8 DEF EmitToken, Stages, TypeOK, Remembers, AgentRuns
<1>9. ASSUME NEW r \in Requests, EmitResult(r) PROVE Stages'
  BY <1>1, <1>9 DEF EmitResult, Stages, TypeOK, Remembers, AgentRuns, Folds
<1>10. ASSUME NEW r \in Requests, AgentFails(r) PROVE Stages'
  BY <1>1, <1>10 DEF AgentFails, Stages, TypeOK, Remembers, AgentRuns
<1>11. ASSUME NEW r \in Requests, Summarize(r) PROVE Stages'
  BY <1>1, <1>11 DEF Summarize, Stages, TypeOK, Remembers
<1>12. ASSUME NEW r \in Requests, Save(r) PROVE Stages'
  BY <1>1, <1>12 DEF Save, Stages, TypeOK, Remembers
<1>13. ASSUME NEW r \in Requests, PersistFails(r) PROVE Stages'
  BY <1>1, <1>13 DEF PersistFails, Stages, TypeOK, Remembers
<1>14. ASSUME NEW r \in Requests, Flush(r) PROVE Stages'
  BY <1>1, <1>14 DEF Flush, Stages, TypeOK, Remembers
<1>15. CASE UNCHANGED vars
  BY <1>1, <1>15 DEF vars, Stages, TypeOK, Remembers
<1> QED
  BY <1>2, <1>3, <1>4, <1>5, <1>6, <1>7, <1>8, <1>9, <1>10, <1>11, <1>12, <1>13, <1>14, <1>15 DEF Next, Step

LEMMA StreamStep == ASSUME IInv, [Next]_vars PROVE (TerminalEventIsLast /\ Streams)'
<1> USE DEF fixed, memories, Emit, Goto
<1>1. TypeOK /\ Stages /\ TerminalEventIsLast /\ Streams
  BY DEF IInv
<1>2. CASE Stop
  BY <1>1, <1>2 DEF Stop, Stages, TypeOK, TerminalEventIsLast, Streams, Open
<1>3. CASE Start
  BY <1>1, <1>3 DEF Start, Stages, TypeOK, TerminalEventIsLast, Streams
<1>4. ASSUME NEW r \in Requests, Receive(r) PROVE (TerminalEventIsLast /\ Streams)'
  BY <1>1, <1>4 DEF Receive, Stages, TypeOK, TerminalEventIsLast, Streams
<1>5. ASSUME NEW r \in Requests, LoadProfile(r) PROVE (TerminalEventIsLast /\ Streams)'
  BY <1>1, <1>5 DEF LoadProfile, Stages, TypeOK, TerminalEventIsLast, Streams
<1>6. ASSUME NEW r \in Requests, LoadSession(r) PROVE (TerminalEventIsLast /\ Streams)'
  BY <1>1, <1>6 DEF LoadSession, Stages, TypeOK, TerminalEventIsLast, Streams
<1>7. ASSUME NEW r \in Requests, LoadFails(r) PROVE (TerminalEventIsLast /\ Streams)'
  BY <1>1, <1>7 DEF LoadFails, Stages, TypeOK, TerminalEventIsLast, Streams, Events
<1>8. ASSUME NEW r \in Requests, EmitToken(r) PROVE (TerminalEventIsLast /\ Streams)'
  BY <1>1, <1>8 DEF EmitToken, Stages, TypeOK, TerminalEventIsLast, Streams, AgentRuns, Events
<1>9. ASSUME NEW r \in Requests, EmitResult(r) PROVE (TerminalEventIsLast /\ Streams)'
  BY <1>1, <1>9 DEF EmitResult, Stages, TypeOK, TerminalEventIsLast, Streams, AgentRuns, Folds, Events
<1>10. ASSUME NEW r \in Requests, AgentFails(r) PROVE (TerminalEventIsLast /\ Streams)'
  BY <1>1, <1>10 DEF AgentFails, Stages, TypeOK, TerminalEventIsLast, Streams, AgentRuns, Events
<1>11. ASSUME NEW r \in Requests, Summarize(r) PROVE (TerminalEventIsLast /\ Streams)'
  BY <1>1, <1>11 DEF Summarize, Stages, TypeOK, TerminalEventIsLast, Streams
<1>12. ASSUME NEW r \in Requests, Save(r) PROVE (TerminalEventIsLast /\ Streams)'
  BY <1>1, <1>12 DEF Save, Stages, TypeOK, TerminalEventIsLast, Streams
<1>13. ASSUME NEW r \in Requests, PersistFails(r) PROVE (TerminalEventIsLast /\ Streams)'
  BY <1>1, <1>13 DEF PersistFails, Stages, TypeOK, TerminalEventIsLast, Streams
<1>14. ASSUME NEW r \in Requests, Flush(r) PROVE (TerminalEventIsLast /\ Streams)'
  BY <1>1, <1>14 DEF Flush, Stages, TypeOK, TerminalEventIsLast, Streams
<1>15. CASE UNCHANGED vars
  BY <1>1, <1>15 DEF vars, Stages, TypeOK, TerminalEventIsLast, Streams
<1> QED
  BY <1>2, <1>3, <1>4, <1>5, <1>6, <1>7, <1>8, <1>9, <1>10, <1>11, <1>12, <1>13, <1>14, <1>15 DEF Next, Step

LEMMA LineageStep == ASSUME IInv, [Next]_vars PROVE Lineage'
<1> USE DEF fixed, memories, Emit, Goto
<1>1. TypeOK /\ Stages /\ Lineage
  BY DEF IInv
<1>2. CASE Stop
  BY <1>1, <1>2 DEF Stop, TypeOK, Lineage, Sound, Past, Open, Memory
<1>3. CASE Start
  BY <1>1, <1>3 DEF Start, Stages, TypeOK, Lineage, Sound, Past, SessionKey, Remembers
<1>4. ASSUME NEW r \in Requests, Receive(r) PROVE Lineage'
  BY <1>1, <1>4 DEF Receive, Stages, TypeOK, Lineage, Sound, Past, SessionKey, Remembers
<1>5. ASSUME NEW r \in Requests, LoadProfile(r) PROVE Lineage'
  BY <1>1, <1>5 DEF LoadProfile, Stages, TypeOK, Lineage, Sound, Past, SessionKey, Remembers
<1>6. ASSUME NEW r \in Requests, LoadSession(r) PROVE Lineage'
  <2>1. SessionKey(r) \in Sessions /\ SessionKey(r) = SessionOf[r]
    BY <1>1, <1>6, RememberedSession DEF LoadSession, Stages
  <2>2. base' = [base EXCEPT ![r] = stored[SessionOf[r]]]
    BY <1>6, <2>1 DEF LoadSession
  <2>3. Sound(stored[SessionOf[r]], SessionOf[r]) /\ r \notin stored[SessionOf[r]].turns
    BY <1>1, <1>6, <2>1 DEF LoadSession, Lineage, Sound, Past
  <2>4. pc[r] = "running" /\ UNCHANGED <<fold, stored, pc, answer>>
    BY <1>6 DEF LoadSession
  <2> QED
    BY <1>1, <2>2, <2>3, <2>4 DEF TypeOK, Lineage, Sound
<1>7. ASSUME NEW r \in Requests, LoadFails(r) PROVE Lineage'
  BY <1>1, <1>7 DEF LoadFails, Stages, TypeOK, Lineage, Sound, Past, SessionKey, Remembers
<1>8. ASSUME NEW r \in Requests, EmitToken(r) PROVE Lineage'
  BY <1>1, <1>8 DEF EmitToken, Stages, TypeOK, Lineage, Sound, Past, SessionKey, Remembers, AgentRuns
<1>9. ASSUME NEW r \in Requests, EmitResult(r) PROVE Lineage'
  BY <1>1, <1>9 DEF EmitResult, Stages, TypeOK, Lineage, Sound, Past, SessionKey, Remembers, AgentRuns, Folds
<1>10. ASSUME NEW r \in Requests, AgentFails(r) PROVE Lineage'
  BY <1>1, <1>10 DEF AgentFails, Stages, TypeOK, Lineage, Sound, Past, SessionKey, Remembers, AgentRuns
<1>11. ASSUME NEW r \in Requests, Summarize(r) PROVE Lineage'
  <2>1. PICK memory \in Memory :
          /\ memory.turns = base[r].turns \cup {r}
          /\ memory.turnCount = Cardinality(memory.turns)
          /\ fold' = [fold EXCEPT ![r] = memory]
          /\ pc' = [pc EXCEPT ![r] = "saving"]
    BY <1>1, <1>11, SummarizeFolds
  <2>2. pc[r] = "summarizing" /\ UNCHANGED <<base, stored, answer>>
    BY <1>11 DEF Summarize
  <2>3. \A q \in Requests : pc[q] \in Past => pc'[q] \in Past
    BY <1>1, <2>1, <2>2 DEF TypeOK, Past
  <2>4. \A s \in Sessions : Sound(stored[s], s)'
    BY <1>1, <2>2, <2>3 DEF TypeOK, Lineage, Sound, Memory
  <2>5. \A q \in Requests : Sound(base[q], SessionOf[q])' /\ q \notin base'[q].turns
    BY <1>1, <2>2, <2>3 DEF TypeOK, Lineage, Sound, Memory
  <2>6. \A q \in Requests : pc'[q] = "saving" =>
          /\ fold'[q].turns = base'[q].turns \cup {q}
          /\ fold'[q].turnCount = Cardinality(fold'[q].turns)
    BY <1>1, <2>1, <2>2 DEF TypeOK, Lineage
  <2> QED
    BY <2>4, <2>5, <2>6 DEF Lineage
<1>12. ASSUME NEW r \in Requests, Save(r) PROVE Lineage'
  BY <1>1, <1>12 DEF Save, Stages, TypeOK, Lineage, Sound, Past, SessionKey, Remembers
<1>13. ASSUME NEW r \in Requests, PersistFails(r) PROVE Lineage'
  BY <1>1, <1>13 DEF PersistFails, Stages, TypeOK, Lineage, Sound, Past, SessionKey, Remembers
<1>14. ASSUME NEW r \in Requests, Flush(r) PROVE Lineage'
  BY <1>1, <1>14 DEF Flush, Stages, TypeOK, Lineage, Sound, Past, SessionKey, Remembers
<1>15. CASE UNCHANGED vars
  BY <1>1, <1>15 DEF vars, Stages, TypeOK, Lineage, Sound, Past, SessionKey, Remembers
<1> QED
  BY <1>2, <1>3, <1>4, <1>5, <1>6, <1>7, <1>8, <1>9, <1>10, <1>11, <1>12, <1>13, <1>14, <1>15 DEF Next, Step

LEMMA SerialStep == ASSUME IInv, [Next]_vars PROVE (Serial /\ TurnIsLostOnlyToAFailure)'
<1> USE DEF fixed, memories, Emit, Goto
<1>1. TypeOK /\ Stages /\ Lineage /\ Serial /\ TurnIsLostOnlyToAFailure
  BY DEF IInv
<1>2. CASE Stop
  BY <1>1, <1>2 DEF Stop, Stages, TypeOK, Serial, TurnIsLostOnlyToAFailure, Saved, Open, Remembers
<1>3. CASE Start
  BY <1>1, <1>3 DEF Start, Stages, TypeOK, Serial, TurnIsLostOnlyToAFailure, Saved, Open, Remembers
<1>4. ASSUME NEW r \in Requests, Receive(r) PROVE (Serial /\ TurnIsLostOnlyToAFailure)'
  <2>1. discipline = "stream-end" =>
          \A q \in Requests \ {r} :
            SessionOf[q] = SessionOf[r] /\ SessionOf[r] # NoSession => pc[q] \notin Open
    BY <1>4 DEF Receive, MayFollow, Over, Open
  <2>2. pc' = [pc EXCEPT ![r] = "running"]
    BY <1>4 DEF Receive
  <2>3. Remembers(r) => "session" \in loading'[r]
    BY <1>1, <1>4 DEF Receive, TypeOK
  <2>4. /\ \A q \in Requests \ {r} : loading'[q] = loading[q]
        /\ UNCHANGED <<deps, discipline, base, stored, answer, troubled>>
    BY <1>1, <1>4 DEF Receive, TypeOK
  <2> QED
    BY <1>1, <2>1, <2>2, <2>3, <2>4
    DEF TypeOK, Serial, TurnIsLostOnlyToAFailure, Saved, Open, Remembers
<1>5. ASSUME NEW r \in Requests, LoadProfile(r) PROVE (Serial /\ TurnIsLostOnlyToAFailure)'
  BY <1>1, <1>5 DEF LoadProfile, Stages, TypeOK, Serial, TurnIsLostOnlyToAFailure, Saved, Open, Remembers
<1>6. ASSUME NEW r \in Requests, LoadSession(r) PROVE (Serial /\ TurnIsLostOnlyToAFailure)'
  BY <1>1, <1>6 DEF LoadSession, Stages, TypeOK, Serial, TurnIsLostOnlyToAFailure, Saved, Open, Remembers, SessionKey
<1>7. ASSUME NEW r \in Requests, LoadFails(r) PROVE (Serial /\ TurnIsLostOnlyToAFailure)'
  BY <1>1, <1>7 DEF LoadFails, Stages, TypeOK, Serial, TurnIsLostOnlyToAFailure, Saved, Open, Remembers
<1>8. ASSUME NEW r \in Requests, EmitToken(r) PROVE (Serial /\ TurnIsLostOnlyToAFailure)'
  BY <1>1, <1>8 DEF EmitToken, Stages, TypeOK, Serial, TurnIsLostOnlyToAFailure, Saved, Open, Remembers, AgentRuns
<1>9. ASSUME NEW r \in Requests, EmitResult(r) PROVE (Serial /\ TurnIsLostOnlyToAFailure)'
  BY <1>1, <1>9 DEF EmitResult, Stages, TypeOK, Serial, TurnIsLostOnlyToAFailure, Saved, Open, Remembers, AgentRuns, Folds
<1>10. ASSUME NEW r \in Requests, AgentFails(r) PROVE (Serial /\ TurnIsLostOnlyToAFailure)'
  BY <1>1, <1>10 DEF AgentFails, Stages, TypeOK, Serial, TurnIsLostOnlyToAFailure, Saved, Open, Remembers, AgentRuns
<1>11. ASSUME NEW r \in Requests, Summarize(r) PROVE (Serial /\ TurnIsLostOnlyToAFailure)'
  <2>1. pc' = [pc EXCEPT ![r] = "saving"]
    BY <1>1, <1>11, SummarizeFolds
  <2>2. /\ pc[r] = "summarizing"
        /\ UNCHANGED <<deps, discipline, base, stored, loading, answer, troubled>>
    BY <1>11 DEF Summarize
  <2> QED
    BY <1>1, <2>1, <2>2 DEF TypeOK, Serial, TurnIsLostOnlyToAFailure, Saved, Open, Remembers
<1>12. ASSUME NEW r \in Requests, Save(r) PROVE (Serial /\ TurnIsLostOnlyToAFailure)'
  <2>1. Remembers(r) /\ SessionOf[r] \in Sessions /\ SessionKey(r) = SessionOf[r]
    BY <1>1, <1>12, RememberedSession DEF Save, Stages
  <2>2. /\ pc[r] = "saving"
        /\ stored' = [stored EXCEPT ![SessionOf[r]] = fold[r]]
        /\ pc' = [pc EXCEPT ![r] = "flushing"]
        /\ UNCHANGED <<deps, discipline, base, loading, answer, troubled>>
    BY <1>12, <2>1 DEF Save
  <2>3. discipline = "stream-end" =>
          stored'[SessionOf[r]].turns = stored[SessionOf[r]].turns \cup {r}
    BY <1>1, <2>1, <2>2 DEF TypeOK, Serial, Lineage
  <2>4. Serial'
    BY <1>1, <2>1, <2>2 DEF TypeOK, Serial, Open, Remembers
  <2>5. TurnIsLostOnlyToAFailure'
    BY <1>1, <2>1, <2>2, <2>3 DEF TypeOK, TurnIsLostOnlyToAFailure, Saved, Remembers
  <2> QED
    BY <2>4, <2>5
<1>13. ASSUME NEW r \in Requests, PersistFails(r) PROVE (Serial /\ TurnIsLostOnlyToAFailure)'
  <2>1. Remembers(r) /\ SessionOf[r] \in Sessions /\ SessionKey(r) = SessionOf[r]
    BY <1>1, <1>13, RememberedSession DEF PersistFails, Stages
  <2>2. /\ pc[r] \in {"summarizing", "saving"}
        /\ pc' = [pc EXCEPT ![r] = "flushing"]
        /\ troubled' = troubled \cup {r}
        /\ UNCHANGED <<deps, discipline, base, loading, answer>>
    BY <1>13 DEF PersistFails
  <2>3. CASE UNCHANGED stored
    BY <1>1, <2>2, <2>3
    DEF TypeOK, Serial, TurnIsLostOnlyToAFailure, Saved, Open, Remembers
  <2>4. CASE pc[r] = "saving" /\ stored' = [stored EXCEPT ![SessionOf[r]] = fold[r]]
    <3>1. discipline = "stream-end" =>
            stored'[SessionOf[r]].turns = stored[SessionOf[r]].turns \cup {r}
      BY <1>1, <2>1, <2>4 DEF TypeOK, Serial, Lineage
    <3>2. Serial'
      BY <1>1, <2>1, <2>2, <2>4 DEF TypeOK, Serial, Open, Remembers
    <3>3. TurnIsLostOnlyToAFailure'
      BY <1>1, <2>1, <2>2, <2>4, <3>1 DEF TypeOK, TurnIsLostOnlyToAFailure, Saved, Remembers
    <3> QED
      BY <3>2, <3>3
  <2> QED
    BY <1>13, <2>1, <2>3, <2>4 DEF PersistFails
<1>14. ASSUME NEW r \in Requests, Flush(r) PROVE (Serial /\ TurnIsLostOnlyToAFailure)'
  BY <1>1, <1>14 DEF Flush, Stages, TypeOK, Serial, TurnIsLostOnlyToAFailure, Saved, Open, Remembers
<1>15. CASE UNCHANGED vars
  BY <1>1, <1>15 DEF vars, Stages, TypeOK, Serial, TurnIsLostOnlyToAFailure, Saved, Open, Remembers
<1> QED
  BY <1>2, <1>3, <1>4, <1>5, <1>6, <1>7, <1>8, <1>9, <1>10, <1>11, <1>12, <1>13, <1>14, <1>15 DEF Next, Step

LEMMA IInvStep == IInv /\ [Next]_vars => IInv'
  BY TypeStep, StageStep, StreamStep, LineageStep, SerialStep DEF IInv

LEMMA IInvHolds == Spec => []IInv
  BY InitIInv, IInvStep, PTL DEF Spec

-----------------------------------------------------------------------------
(* The results.                                                            *)

\* Every row of the session collection and every copy of one is a summary of
\* the declared type, within the cap, with one count per turn at most.
THEOREM TypeCorrect == Spec => []TypeOK
<1>1. IInv => TypeOK
  BY DEF IInv
<1> QED
  BY <1>1, IInvHolds, PTL

\* The SSE protocol of handleChatRequest: nothing follows the terminal event,
\* and no response is closed by the handler without one.
THEOREM OneTerminalEvent == Spec => []TerminalEventIsLast
<1>1. IInv => TerminalEventIsLast
  BY DEF IInv
<1> QED
  BY <1>1, IInvHolds, PTL

\* persistSession and appendTurn: however requests interleave, crash and fail,
\* a stored summary tells answered turns of its own session, each counted once.
THEOREM ConversationsStayApart == Spec => []MemoryHoldsOnlyAnsweredTurns
<1>1. IInv => MemoryHoldsOnlyAnsweredTurns
  BY DEF IInv, TypeOK, Memory, Lineage, Sound, Streams, MemoryHoldsOnlyAnsweredTurns, Carried
<1> QED
  BY <1>1, IInvHolds, PTL

\* The session memory of clients that wait for the end of the stream: a saved
\* turn stays in the stored summary.
THEOREM TurnsAreRemembered == Spec => []TurnIsLostOnlyToAFailure
<1>1. IInv => TurnIsLostOnlyToAFailure
  BY DEF IInv
<1> QED
  BY <1>1, IInvHolds, PTL

-----------------------------------------------------------------------------
(* What clients get who wait for the end of the stream: the claim that     *)
(* NextTurnSeesThisOne finds broken for those who go on at the result.     *)

\* Of any two saved turns of a session the later one started from a summary
\* that holds the other.
TurnsChain ==
  discipline = "stream-end" =>
    \A q, r \in Requests :
      q # r /\ SessionOf[q] = SessionOf[r] /\ Saved(q) /\ Saved(r) =>
        q \in base[r].turns \/ r \in base[q].turns

\* A turn becomes a saved one by its save alone, and keeps what it loaded.
LEMMA SavedBySave ==
  ASSUME IInv, [Next]_vars, NEW x \in Requests, Saved(x)'
  PROVE  (Saved(x) \/ Save(x)) /\ base'[x] = base[x]
<1> USE DEF fixed, memories, Emit, Goto
<1>1. TypeOK /\ Stages /\ Lineage
  BY DEF IInv
<1>2. CASE Stop
  BY <1>1, <1>2 DEF Stop, TypeOK, Saved, Open, Remembers
<1>3. CASE Start
  BY <1>1, <1>3 DEF Start, Saved, Remembers
<1>4. ASSUME NEW r \in Requests, Receive(r) \/ LoadProfile(r) \/ EmitToken(r) \/ Flush(r)
      PROVE  Saved(x) /\ base'[x] = base[x]
  BY <1>1, <1>4 DEF Receive, LoadProfile, EmitToken, Flush, TypeOK, Saved, Remembers
<1>5. ASSUME NEW r \in Requests, LoadSession(r)
      PROVE  Saved(x) /\ base'[x] = base[x]
  BY <1>1, <1>5 DEF LoadSession, TypeOK, Saved, Remembers
<1>6. ASSUME NEW r \in Requests, LoadFails(r) \/ AgentFails(r)
      PROVE  Saved(x) /\ base'[x] = base[x]
  BY <1>1, <1>6 DEF LoadFails, AgentFails, AgentRuns, Stages, TypeOK, Saved, Remembers
<1>7. ASSUME NEW r \in Requests, EmitResult(r)
      PROVE  Saved(x) /\ base'[x] = base[x]
  BY <1>1, <1>7 DEF EmitResult, Folds, TypeOK, Saved, Remembers
<1>8. ASSUME NEW r \in Requests, Summarize(r)
      PROVE  Saved(x) /\ base'[x] = base[x]
  <2>1. pc' = [pc EXCEPT ![r] = "saving"]
    BY <1>1, <1>8, SummarizeFolds
  <2>2. QED
    BY <1>1, <1>8, <2>1 DEF Summarize, TypeOK, Saved, Remembers
<1>9. ASSUME NEW r \in Requests, Save(r)
      PROVE  (Saved(x) \/ Save(x)) /\ base'[x] = base[x]
  <2>1. CASE x = r
    BY <1>9, <2>1 DEF Save
  <2>2. CASE x # r
    BY <1>1, <1>9, <2>2 DEF Save, TypeOK, Saved, Remembers
  <2>3. QED
    BY <2>1, <2>2
<1>10. ASSUME NEW r \in Requests, PersistFails(r)
       PROVE  Saved(x) /\ base'[x] = base[x]
  BY <1>1, <1>10 DEF PersistFails, TypeOK, Saved, Remembers
<1>11. CASE UNCHANGED vars
  BY <1>11 DEF vars, Saved, Remembers
<1>12. QED
  BY <1>2, <1>3, <1>4, <1>5, <1>6, <1>7, <1>8, <1>9, <1>10, <1>11 DEF Next, Step

\* While a turn is saved its summary is still the stored one, and that holds
\* every turn saved before it.
LEMMA SaveSeesTheOthers ==
  ASSUME IInv, discipline = "stream-end", NEW r \in Requests, Save(r),
         NEW q \in Requests, Saved(q), SessionOf[q] = SessionOf[r]
  PROVE  q \in base[r].turns
<1>1. Remembers(r) /\ pc[r] = "saving"
  BY DEF IInv, Stages, Save
<1>2. base[r] = stored[SessionOf[r]]
  BY <1>1 DEF IInv, Serial
<1>3. q \in stored[SessionOf[q]].turns
  BY DEF IInv, TurnIsLostOnlyToAFailure
<1>4. QED
  BY <1>2, <1>3

LEMMA ChainStep == ASSUME IInv, TurnsChain, [Next]_vars PROVE TurnsChain'
<1>1. discipline' = discipline
  BY DEF Next, Step, vars, fixed, Stop, Start, Receive, LoadProfile, LoadSession, LoadFails,
         EmitToken, EmitResult, AgentFails, Summarize, Save, PersistFails, Flush
<1>2. SUFFICES ASSUME discipline = "stream-end", NEW q \in Requests, NEW r \in Requests,
                      q # r, SessionOf[q] = SessionOf[r], Saved(q)', Saved(r)'
               PROVE  q \in base'[r].turns \/ r \in base'[q].turns
  BY <1>1 DEF TurnsChain
<1>3. /\ Saved(q) \/ Save(q)
      /\ Saved(r) \/ Save(r)
      /\ base'[q] = base[q] /\ base'[r] = base[r]
  BY <1>2, SavedBySave
<1>4. CASE Saved(q) /\ Saved(r)
  BY <1>2, <1>3, <1>4 DEF TurnsChain
<1>5. CASE Save(r) /\ Saved(q)
  BY <1>2, <1>3, <1>5, SaveSeesTheOthers
<1>6. CASE Save(q) /\ Saved(r)
  BY <1>2, <1>3, <1>6, SaveSeesTheOthers
<1>7. CASE Save(q) /\ Save(r)
  <2>1. pc \in [Requests -> {"unsent"} \cup Open \cup Over]
    BY DEF IInv, TypeOK
  <2>2. pc[q] = "saving" /\ pc[r] = "saving" /\ pc' = [pc EXCEPT ![q] = "flushing"]
        /\ pc' = [pc EXCEPT ![r] = "flushing"]
    BY <1>7 DEF Save, Goto
  <2>3. FALSE
    BY <1>2, <2>1, <2>2
  <2>4. QED
    BY <2>3
<1>8. QED
  BY <1>3, <1>4, <1>5, <1>6, <1>7

\* The comment at chat-service.ts:192 holds of clients that wait for the end of
\* the stream: whatever fails, of two saved turns one was seen by the other.
THEOREM WaitingClientsAreHeard == Spec => []TurnsChain
<1>1. Init => TurnsChain
  BY DEF Init, TurnsChain, Saved
<1>2. IInv /\ TurnsChain /\ [Next]_vars => TurnsChain'
  BY ChainStep
<1>3. QED
  BY <1>1, <1>2, IInvHolds, PTL DEF Spec

-----------------------------------------------------------------------------
(* What a request has left to do, as a number: the safety half of          *)
(* EveryStreamEnds.                                                        *)

Pending(r, load) == IF load \in loading[r] THEN 1 ELSE 0

\* The steps that are left, at most.
Work(r) ==
  IF pc[r] = "running"
    THEN 4 + Pending(r, "profile") + Pending(r, "session") + (MaxTokens - Len(stream[r]))
  ELSE IF pc[r] = "summarizing" THEN 3
  ELSE IF pc[r] = "saving" THEN 2
  ELSE IF pc[r] = "flushing" THEN 1
  ELSE 0

\* A step of a request's handler brings it nearer to its end, one of another
\* request leaves it where it is, and no request is at its end while it is open.
RunsDown ==
  \A r \in Requests :
    pc[r] \in Open =>
      /\ Work(r) \in Nat \ {0} /\ Work(r)' \in Nat
      /\ Step(r) => Work(r)' < Work(r)
      /\ Work(r)' <= Work(r)

\* While a response is being written it has room for what the agent streams.
StreamsFit == \A r \in Requests : pc[r] \in {"unsent", "running"} => Len(stream[r]) <= MaxTokens

LEMMA StreamsFitStep ==
  ASSUME IInv, StreamsFit, [Next]_vars
  PROVE  StreamsFit'
<1> SUFFICES ASSUME NEW r \in Requests, pc'[r] \in {"unsent", "running"}
             PROVE  Len(stream'[r]) <= MaxTokens
  BY DEF StreamsFit
<1>1. /\ pc \in [Requests -> {"unsent"} \cup Open \cup Over] /\ stream \in [Requests -> Seq(Events)]
      /\ pc[r] \in {"unsent", "running"} => Len(stream[r]) <= MaxTokens
      /\ MaxTokens \in Nat
  BY ChatAssumption DEF IInv, TypeOK, StreamsFit
<1>2. CASE stream'[r] = stream[r] /\ pc[r] \in {"unsent", "running"}
  BY <1>1, <1>2
<1>3. CASE UNCHANGED vars
  BY <1>2, <1>3 DEF vars
<1>4. CASE Stop \/ Start
  BY <1>1, <1>2, <1>4 DEF Stop, Start, Open
<1>5. ASSUME NEW q \in Requests, Receive(q) \/ Step(q)
      PROVE  Len(stream'[r]) <= MaxTokens
  <2>1. CASE Receive(q) \/ LoadProfile(q) \/ LoadSession(q)
    BY <1>1, <1>2, <2>1 DEF Receive, LoadProfile, LoadSession, Goto
  <2>2. CASE EmitToken(q)
    <3>1. /\ stream' = [stream EXCEPT ![q] = Append(@, "token")] /\ pc' = pc
          /\ Len(stream[q]) < MaxTokens
      BY <2>2 DEF EmitToken, Emit
    <3>2. CASE q = r
      <4>1. stream'[r] = Append(stream[r], "token") /\ stream[r] \in Seq(Events)
        BY <1>1, <3>1, <3>2
      <4>2. Len(stream'[r]) = Len(stream[r]) + 1 /\ Len(stream[r]) \in Nat
        BY <4>1 DEF Events
      <4>3. QED
        BY <1>1, <3>1, <3>2, <4>2
    <3>3. CASE q # r
      BY <1>1, <1>2, <3>1, <3>3
    <3>4. QED
      BY <3>2, <3>3
  <2>3. CASE LoadFails(q) \/ EmitResult(q) \/ AgentFails(q)
    BY <1>1, <1>2, <2>3 DEF LoadFails, EmitResult, AgentFails, Goto, Emit
  <2>4. CASE Summarize(q) \/ Save(q) \/ PersistFails(q) \/ Flush(q)
    BY <1>1, <1>2, <2>4 DEF Summarize, Save, PersistFails, Flush, Goto
  <2>5. QED
    BY <1>5, <2>1, <2>2, <2>3, <2>4 DEF Step
<1>6. QED
  BY <1>3, <1>4, <1>5 DEF Next

\* What a request does not do itself changes nothing of what it has left, but
\* for the process that dies under it.
LEMMA OthersStandStill ==
  ASSUME IInv, [Next]_vars, NEW r \in Requests, pc[r] \in Open, ~Step(r)
  PROVE  \/ pc'[r] = "cut"
         \/ pc'[r] = pc[r] /\ loading'[r] = loading[r] /\ stream'[r] = stream[r]
<1>1. /\ pc \in [Requests -> {"unsent"} \cup Open \cup Over] /\ stream \in [Requests -> Seq(Events)]
      /\ loading \in [Requests -> SUBSET {"profile", "session"}]
  BY DEF IInv, TypeOK
<1>2. CASE UNCHANGED vars \/ Stop \/ Start
  BY <1>1, <1>2 DEF vars, Stop, Start
<1>3. ASSUME NEW q \in Requests, q # r, Receive(q) \/ Step(q)
      PROVE  pc'[r] = pc[r] /\ loading'[r] = loading[r] /\ stream'[r] = stream[r]
  BY <1>1, <1>3 DEF Receive, Step, LoadProfile, LoadSession, LoadFails, EmitToken, EmitResult,
     AgentFails, Summarize, Save, PersistFails, Flush, Goto, Emit
<1>4. ~Receive(r)
  BY DEF Receive, Open
<1>5. QED
  BY <1>2, <1>3, <1>4 DEF Next

LEMMA WorkIsDone ==
  ASSUME IInv, StreamsFit, NEW r \in Requests, pc[r] \in Open, Step(r)
  PROVE  Work(r)' \in Nat /\ Work(r)' < Work(r)
<1> DEFINE length == Len(stream[r])
<1>1. /\ pc \in [Requests -> {"unsent"} \cup Open \cup Over] /\ stream \in [Requests -> Seq(Events)]
      /\ loading \in [Requests -> SUBSET {"profile", "session"}]
      /\ pc[r] = "running" => length <= MaxTokens
      /\ MaxTokens \in Nat /\ length \in Nat
  BY ChatAssumption DEF IInv, TypeOK, StreamsFit
<1>2. Pending(r, "profile") \in 0..1 /\ Pending(r, "session") \in 0..1
  BY DEF Pending
<1>3. pc[r] = "running" =>
        Work(r) = 4 + Pending(r, "profile") + Pending(r, "session") + (MaxTokens - length)
  BY DEF Work
<1> HIDE DEF length
<1>4. pc[r] = "running" => Work(r) \in Nat /\ Work(r) >= 4
  BY <1>1, <1>2, <1>3
<1>5. CASE LoadProfile(r) \/ LoadSession(r)
  <2>1. /\ pc[r] = "running" /\ pc'[r] = "running" /\ stream'[r] = stream[r]
        /\ \/ "profile" \in loading[r] /\ loading'[r] = loading[r] \ {"profile"}
           \/ "session" \in loading[r] /\ loading'[r] = loading[r] \ {"session"}
    BY <1>1, <1>5 DEF LoadProfile, LoadSession
  <2>2. Work(r)' = 4 + Pending(r, "profile")' + Pending(r, "session")' + (MaxTokens - length)
    BY <2>1 DEF Work, length
  <2>3. Pending(r, "profile")' + Pending(r, "session")' + 1 =
          Pending(r, "profile") + Pending(r, "session")
        /\ Pending(r, "profile")' \in 0..1 /\ Pending(r, "session")' \in 0..1
    BY <2>1 DEF Pending
  <2>4. QED
    BY <1>1, <1>2, <1>3, <2>1, <2>2, <2>3
<1>6. CASE EmitToken(r)
  <2>1. /\ pc[r] = "running" /\ pc' = pc /\ loading' = loading /\ length < MaxTokens
        /\ stream'[r] = Append(stream[r], "token")
    BY <1>1, <1>6 DEF EmitToken, Emit, AgentRuns, length
  <2>2. Len(stream'[r]) = length + 1
    BY <1>1, <2>1 DEF length, Events
  <2>3. Work(r)' = 4 + Pending(r, "profile") + Pending(r, "session") + (MaxTokens - (length + 1))
    BY <2>1, <2>2 DEF Work, Pending
  <2>4. QED
    BY <1>1, <1>2, <1>3, <2>1, <2>3
<1>7. CASE LoadFails(r) \/ EmitResult(r) \/ AgentFails(r)
  <2>1. pc[r] = "running" /\ pc'[r] \in {"summarizing", "flushing"}
    BY <1>1, <1>7 DEF LoadFails, EmitResult, AgentFails, AgentRuns, Goto
  <2>2. Work(r)' \in {1, 3}
    BY <2>1 DEF Work
  <2>3. QED
    BY <1>4, <2>1, <2>2
<1>8. CASE Summarize(r) \/ Save(r) \/ PersistFails(r) \/ Flush(r)
  <2>1. \/ pc[r] = "summarizing" /\ pc'[r] \in {"saving", "flushing"}
        \/ pc[r] = "saving" /\ pc'[r] = "flushing"
        \/ pc[r] = "flushing" /\ pc'[r] = "closed"
    BY <1>1, <1>8 DEF Summarize, Save, PersistFails, Flush, Goto
  <2>2. QED
    BY <2>1 DEF Work
<1>9. QED
  BY <1>5, <1>6, <1>7, <1>8 DEF Step

\* No handler goes back or round: whatever fails, every step of a request
\* brings its stream nearer to its end, and no other request sets it back.
THEOREM StreamsRunDown == Spec => [][RunsDown]_vars
<1>1. Init => StreamsFit
  BY ChatAssumption DEF Init, StreamsFit
<1>2. IInv /\ StreamsFit /\ [Next]_vars => StreamsFit'
  BY StreamsFitStep
<1>3. IInv /\ StreamsFit /\ [Next]_vars => RunsDown
  <2>1. SUFFICES ASSUME IInv, StreamsFit, [Next]_vars, NEW r \in Requests, pc[r] \in Open
                 PROVE  /\ Work(r) \in Nat \ {0} /\ Work(r)' \in Nat
                        /\ Step(r) => Work(r)' < Work(r)
                        /\ Work(r)' <= Work(r)
    BY DEF RunsDown
  <2>2. Work(r) \in Nat \ {0}
    <3> DEFINE length == Len(stream[r])
    <3>1. /\ length \in Nat /\ MaxTokens \in Nat
          /\ pc[r] = "running" => length <= MaxTokens
      BY <2>1, ChatAssumption DEF IInv, TypeOK, StreamsFit
    <3>2. Pending(r, "profile") \in 0..1 /\ Pending(r, "session") \in 0..1
      BY DEF Pending
    <3>3. pc[r] = "running" =>
            Work(r) = 4 + Pending(r, "profile") + Pending(r, "session") + (MaxTokens - length)
      BY DEF Work
    <3>4. pc[r] # "running" => Work(r) \in 1..3
      BY <2>1 DEF Work, Open
    <3> HIDE DEF length
    <3>5. QED
      BY <3>1, <3>2, <3>3, <3>4
  <2>3. CASE Step(r)
    BY <2>1, <2>2, <2>3, WorkIsDone
  <2>4. CASE ~Step(r)
    <3>1. Work(r)' = 0 \/ Work(r)' = Work(r)
      BY <2>1, <2>4, OthersStandStill DEF Work, Pending
    <3>2. QED
      BY <2>2, <2>4, <3>1
  <2>5. QED
    BY <2>2, <2>3, <2>4
<1>4. QED
  BY <1>1, <1>2, <1>3, IInvHolds, PTL DEF Spec
=============================================================================
