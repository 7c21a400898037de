----------------------------- MODULE ChatService -----------------------------
(***************************************************************************)
(* POST /chat: serve-cli.ts opens the SSE response, chat-service.ts loads  *)
(* the owner's profile and the session's summary, runs the agent, emits    *)
(* token events and one terminal event, and only then folds the turn into  *)
(* the session summary and saves it; serve-cli.ts flushes the tracer and   *)
(* closes the stream.  Requests run concurrently in one Node process: an   *)
(* action is what one request does between two awaits.  The session store  *)
(* outlives the process.                                                   *)
(***************************************************************************)
EXTENDS Naturals, Sequences, FiniteSets

CONSTANTS
  Requests,     \* the chat requests a behaviour may send
  Sessions,     \* the conversations
  NoSession,    \* the absent sessionId
  SessionOf,    \* the sessionId of each request, or NoSession
  Owned,        \* the requests that carry an ownerId
  Disciplines,  \* the client disciplines a behaviour may follow
  DepsChoices,  \* the dependency records the service may be built with
  Cap,          \* SESSION_SUMMARY_MAX_CHARS, in units of text
  RawSizes,     \* bound: the lengths of text a summarizer returns
  MaxTokens,    \* bound: token events of one request
  MaxStops      \* bound: how often the process dies

\* When a client sends the next turn of a session: at the end of the stream
\* before it, at the result event, or without waiting.
Discipline == {"stream-end", "result", "any"}

Deps == [profileStore : BOOLEAN, sessionStore : BOOLEAN, summarize : BOOLEAN]

ASSUME ChatAssumption ==
  /\ NoSession \notin Sessions
  /\ SessionOf \in [Requests -> Sessions \cup {NoSession}]
  /\ Owned \subseteq Requests
  /\ IsFiniteSet(Requests)
  /\ Disciplines \subseteq Discipline
  /\ DepsChoices \subseteq Deps
  /\ Cap \in Nat /\ RawSizes \subseteq Nat /\ MaxTokens \in Nat /\ MaxStops \in Nat

VARIABLES
  server,       \* the process: up or down
  stops,        \* how often it has died
  deps,         \* what the service was built with
  discipline,   \* what its clients wait for
  pc,           \* where each request's handler is
  loading,      \* the loads each request still awaits
  base,         \* the session summary each request loaded
  answer,       \* the behaviour class of each request's envelope, once emitted
  stream,       \* the events each response has carried
  fold,         \* the summary each request is about to save
  stored,       \* the session collection: session id to summary
  troubled      \* history: the requests whose summarizer or save call failed

vars == <<server, stops, deps, discipline, pc, loading, base, answer, stream, fold,
          stored, troubled>>

\* A session summary: the turns folded into it (a history of what the text
\* tells), the length of its text, and its turn counter.
Memory == [turns : SUBSET Requests, size : 0..Cap, turnCount : 0..Cardinality(Requests)]

\* The summary of a session with no row, and of a request that loaded none.
EmptySessionMemory == [turns |-> {}, size |-> 0, turnCount |-> 0]

Open == {"running", "summarizing", "saving", "flushing"}
Over == {"closed", "cut"}
Events == {"token", "result", "error"}

Carried(r) == {stream[r][i] : i \in DOMAIN stream[r]}

-----------------------------------------------------------------------------
\* Mutant of SessionKey: the key is captured once for the process.
CapturedKey(r) == CHOOSE s \in Sessions : TRUE

\* The key a request's summary is loaded and saved under.
SessionKey(r) == SessionOf[r]

\* loadSession reads the store; persistSession also needs the summarizer.
Remembers(r) == SessionOf[r] # NoSession /\ deps.sessionStore

\* Mutant of Folds: a refusal is folded in like any other turn.
FoldsRefusals(r, class) == Remembers(r) /\ deps.summarize

\* persistSession: only an answer of substance is folded into the summary.
Folds(r, class) == Remembers(r) /\ deps.summarize /\ class = "substantive"

\* Mutant of CapSummary: the summarizer is trusted with the bound.
Uncapped(size) == {size}

\* capSummary: the lengths the capped text may have; the cut falls on a
\* blank in the second half when there is one, and on the cap otherwise.
CapSummary(size) == IF size <= Cap THEN {size} ELSE ((Cap \div 2) + 1)..Cap

\* parseSessionMemory: the schema rejects a text over the cap.
ParsesAsMemory(size) == size <= Cap

\* Mutant of NextTurnCount: the turn's question and answer count one each.
CountMessages(memory) == memory.turnCount + 2

NextTurnCount(memory) == memory.turnCount + 1

\* appendTurn, once the summarizer returned and its text was capped.
AppendTurn(memory, r, size) ==
  [turns |-> memory.turns \cup {r}, size |-> size, turnCount |-> NextTurnCount(memory)]

\* What the client of r waits for from an earlier turn q.
MayFollow(q) ==
  \/ discipline = "any"
  \/ pc[q] \in {"unsent"} \cup Over
  \/ discipline = "result" /\ Carried(q) \cap {"result", "error"} # {}

-----------------------------------------------------------------------------
Init ==
  /\ server = "up"
  /\ stops = 0
  /\ deps \in DepsChoices
  /\ discipline \in Disciplines
  /\ pc = [r \in Requests |-> "unsent"]
  /\ loading = [r \in Requests |-> {}]
  /\ base = [r \in Requests |-> EmptySessionMemory]
  /\ answer = [r \in Requests |-> "none"]
  /\ stream = [r \in Requests |-> <<>>]
  /\ fold = [r \in Requests |-> EmptySessionMemory]
  /\ stored = [s \in Sessions |-> EmptySessionMemory]
  /\ troubled = {}

fixed == <<server, stops, deps, discipline>>
memories == <<base, fold, stored>>

Emit(r, event) == stream' = [stream EXCEPT ![r] = Append(@, event)]
Goto(r, where) == pc' = [pc EXCEPT ![r] = where]

\* The client posts; serve-cli opens the stream and the two loads start together.
Receive(r) ==
  /\ server = "up"
  /\ pc[r] = "unsent"
  /\ \A q \in Requests \ {r} :
       SessionOf[q] = SessionOf[r] /\ SessionOf[r] # NoSession => MayFollow(q)
  /\ Goto(r, "running")
  /\ loading' = [loading EXCEPT ![r] =
       (IF r \in Owned /\ deps.profileStore THEN {"profile"} ELSE {})
         \cup (IF Remembers(r) THEN {"session"} ELSE {})]
  /\ UNCHANGED <<fixed, memories, answer, stream, troubled>>

LoadProfile(r) ==
  /\ pc[r] = "running" /\ "profile" \in loading[r]
  /\ loading' = [loading EXCEPT ![r] = @ \ {"profile"}]
  /\ UNCHANGED <<fixed, memories, pc, answer, stream, troubled>>

\* loadSession: a session with no row starts from the empty summary.
LoadSession(r) ==
  /\ pc[r] = "running" /\ "session" \in loading[r]
  /\ loading' = [loading EXCEPT ![r] = @ \ {"session"}]
  /\ base' = [base EXCEPT ![r] = stored[SessionKey(r)]]
  /\ UNCHANGED <<fixed, fold, stored, pc, answer, stream, troubled>>

\* Either load rejects, or finds a row its schema refuses: an error event.
LoadFails(r) ==
  /\ pc[r] = "running" /\ loading[r] # {}
  /\ loading' = [loading EXCEPT ![r] = {}]
  /\ Emit(r, "error")
  /\ Goto(r, "flushing")
  /\ UNCHANGED <<fixed, memories, answer, troubled>>

\* Both loads are in, and the agent runs on them.
AgentRuns(r) == pc[r] = "running" /\ loading[r] = {}

EmitToken(r) ==
  /\ AgentRuns(r)
  /\ Len(stream[r]) < MaxTokens
  /\ Emit(r, "token")
  /\ UNCHANGED <<fixed, memories, pc, loading, answer, troubled>>

\* The agent resolves: the result event goes out before anything is saved.
EmitResult(r) ==
  /\ AgentRuns(r)
  /\ \E class \in {"substantive", "refusal"} :
       /\ answer' = [answer EXCEPT ![r] = class]
       /\ Goto(r, IF Folds(r, class) THEN "summarizing" ELSE "flushing")
  /\ Emit(r, "result")
  /\ UNCHANGED <<fixed, memories, loading, troubled>>

AgentFails(r) ==
  /\ AgentRuns(r)
  /\ Emit(r, "error")
  /\ Goto(r, "flushing")
  /\ UNCHANGED <<fixed, memories, loading, answer, troubled>>

\* The summarizer returns; appendTurn caps and parses.  A text that does not
\* parse throws into the best-effort catch.
Summarize(r) ==
  /\ pc[r] = "summarizing"
  /\ \E raw \in RawSizes : \E size \in CapSummary(raw) :
       IF ParsesAsMemory(size)
       THEN /\ fold' = [fold EXCEPT ![r] = AppendTurn(base[r], r, size)]
            /\ Goto(r, "saving")
       ELSE /\ UNCHANGED fold
            /\ Goto(r, "flushing")
  /\ UNCHANGED <<fixed, base, stored, loading, answer, stream, troubled>>

\* replaceOne with upsert: the whole row of the session is replaced.
Save(r) ==
  /\ pc[r] = "saving"
  /\ stored' = [stored EXCEPT ![SessionKey(r)] = fold[r]]
  /\ Goto(r, "flushing")
  /\ UNCHANGED <<fixed, base, fold, loading, answer, stream, troubled>>

\* Mutant of PersistFails: the failure reaches the handler's outer catch.
PersistFailureIsReported(r) ==
  /\ pc[r] \in {"summarizing", "saving"}
  /\ Emit(r, "error")
  /\ Goto(r, "flushing")
  /\ troubled' = troubled \cup {r}
  /\ UNCHANGED <<fixed, memories, loading, answer>>

\* Mutant of PersistFails: the turn is folded again until it is saved.
PersistRetries(r) ==
  /\ pc[r] \in {"summarizing", "saving"}
  /\ Goto(r, "summarizing")
  /\ troubled' = troubled \cup {r}
  /\ UNCHANGED <<fixed, memories, loading, answer, stream>>

\* The summarizer or the save rejects: the failure is swallowed.  A save that
\* rejects may have been applied, its acknowledgement lost.
PersistFails(r) ==
  /\ pc[r] \in {"summarizing", "saving"}
  /\ \/ UNCHANGED stored
     \/ pc[r] = "saving" /\ stored' = [stored EXCEPT ![SessionKey(r)] = fold[r]]
  /\ Goto(r, "flushing")
  /\ troubled' = troubled \cup {r}
  /\ UNCHANGED <<fixed, base, fold, loading, answer, stream>>

\* The tracer is flushed, then the response ends.
Flush(r) ==
  /\ pc[r] = "flushing"
  /\ Goto(r, "closed")
  /\ UNCHANGED <<fixed, memories, loading, answer, stream, troubled>>

\* The process dies: a signal (the shutdown hook waits for no request), or a
\* flush that rejects once the headers are out, which nothing catches.
Stop ==
  /\ server = "up"
  /\ stops < MaxStops
  /\ server' = "down"
  /\ stops' = stops + 1
  /\ pc' = [r \in Requests |-> IF pc[r] \in Open THEN "cut" ELSE pc[r]]
  /\ UNCHANGED <<deps, discipline, loading, base, answer, stream, fold, stored, troubled>>

Start ==
  /\ server = "down"
  /\ server' = "up"
  /\ UNCHANGED <<stops, deps, discipline, pc, loading, memories, answer, stream, troubled>>

Step(r) ==
  \/ LoadProfile(r) \/ LoadSession(r) \/ LoadFails(r) \/ EmitToken(r)
  \/ EmitResult(r) \/ AgentFails(r) \/ Summarize(r) \/ Save(r) \/ PersistFails(r) \/ Flush(r)

Next == Stop \/ Start \/ \E r \in Requests : Receive(r) \/ Step(r)

\* Every load, model call, save and flush settles, one way or the other.
Fairness == \A r \in Requests : WF_vars(Step(r))

Spec == Init /\ [][Next]_vars /\ Fairness

-----------------------------------------------------------------------------
(* Properties.                                                             *)

\* Every row is a summary within the cap, or absent; a turn counts once.
TypeOK ==
  /\ server \in {"up", "down"} /\ stops \in 0..MaxStops
  /\ deps \in Deps /\ discipline \in Discipline
  /\ pc \in [Requests -> {"unsent"} \cup Open \cup Over]
  /\ loading \in [Requests -> SUBSET {"profile", "session"}]
  /\ answer \in [Requests -> {"none", "substantive", "refusal"}]
  /\ stream \in [Requests -> Seq(Events)]
  /\ base \in [Requests -> Memory]
  /\ fold \in [Requests -> Memory]
  /\ stored \in [Sessions -> Memory]
  /\ troubled \subseteq Requests

\* The stream is a sentence of the protocol: whatever fails and whenever, the
\* terminal event is the last one, and a response that ends has carried it.
\* In particular nothing that goes wrong after the result reaches the stream.
TerminalEventIsLast ==
  \A r \in Requests :
    /\ \A i \in DOMAIN stream[r] : stream[r][i] # "token" => i = Len(stream[r])
    /\ pc[r] \in {"summarizing", "saving", "flushing", "closed"} =>
         stream[r] # <<>> /\ stream[r][Len(stream[r])] # "token"

\* What a summary tells: only turns of its own conversation, and only those
\* whose client was answered in substance, one count each, whatever other
\* requests of other conversations do in between.
MemoryHoldsOnlyAnsweredTurns ==
  \A s \in Sessions :
    /\ \A r \in stored[s].turns :
         SessionOf[r] = s /\ answer[r] = "substantive" /\ "result" \in Carried(r)
    /\ stored[s].turnCount = Cardinality(stored[s].turns)

\* Turns whose save was acknowledged.
Saved(r) ==
  /\ pc[r] \in {"flushing", "closed"}
  /\ r \notin troubled
  /\ Remembers(r) /\ deps.summarize /\ answer[r] = "substantive"

\* With clients that wait for the end of the stream, a turn is missing from
\* the stored summary only when the summarizer or the store failed or the
\* process died: no later turn and no rambling summarizer costs it its place.
TurnIsLostOnlyToAFailure ==
  discipline = "stream-end" =>
    \A r \in Requests : Saved(r) => r \in stored[SessionOf[r]].turns

\* A request that was received ends: its stream is closed, or the process died.
EveryStreamEnds == \A r \in Requests : (pc[r] \in Open) ~> (pc[r] \in Over)

-----------------------------------------------------------------------------
\* chat-service.ts: after the result the turn is folded and persisted "so the
\* next turn sees this one".  When clients send the next turn once they have
\* the result, one of any two saved turns of a session was the later one, and
\* started from a summary that holds the other.
NextTurnSeesThisOne ==
  discipline = "result" =>
    \A q, r \in Requests :
      q # r /\ SessionOf[q] = SessionOf[r] /\ Saved(q) /\ Saved(r) =>
        q \in base[r].turns \/ r \in base[q].turns
=============================================================================
