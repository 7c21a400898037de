-------------------------- MODULE CorpusFetch_proofs --------------------------
(***************************************************************************)
(* Theorems about CorpusFetch, for every set of runs, sources, texts and   *)
(* manifests.                                                              *)
(*                                                                         *)
(* That a stored file is what some manifest pins is not inductive by       *)
(* itself: a run writes what it holds, long after it compared it and under *)
(* a manifest that may be gone by then.  Holds says what a run that is     *)
(* about to write has in its hands.                                        *)
(***************************************************************************)
EXTENDS CorpusFetch, TLAPS

Phases == {"idle", "running", "killed", "exit 0", "exit 1"}

\* The shape of one run's record.
RunRecord ==
  [phase : Phases, verify : BOOLEAN,
   entries : UNION {[D -> Bytes] : D \in SUBSET Sources},
   status : UNION {[D -> Statuses] : D \in SUBSET Sources},
   got : UNION {[D -> Files] : D \in SUBSET Sources},
   mixed : SUBSET Sources, alone : SUBSET Sources]

RunShape(x) ==
  /\ x \in RunRecord
  /\ DOMAIN x.status = DOMAIN x.entries /\ DOMAIN x.got = DOMAIN x.entries
  /\ x.alone \subseteq DOMAIN x.entries /\ x.mixed \subseteq DOMAIN x.entries

\* A run compares with committed checksums, and what it is about to write, or
\* is writing, is what it compared with.
Holds(x) ==
  \A s \in DOMAIN x.entries :
    /\ x.entries[s] \in pinned[s]
    /\ x.status[s] \in {"read", "opened"} => x.got[s] = x.entries[s]

RunsOK == DOMAIN run = Runs /\ \A r \in Runs : RunShape(run[r]) /\ Holds(run[r])

PinnedOK ==
  /\ DOMAIN pinned = Sources
  /\ \A s \in DOMAIN manifest : manifest[s] \in pinned[s]

FilesOK == site \in [Sources -> Texts] /\ manifest \in Manifests /\ raw \in [Sources -> Files]
CountsOK == drifts \in 0..MaxDrifts /\ edits \in 0..MaxEdits

IInv == FilesOK /\ CountsOK /\ PinnedOK /\ RunsOK /\ StoredBytesAreVerified

-----------------------------------------------------------------------------
(* The helpers.                                                            *)

\* normalizeBytes turns a response into bytes, and leaves the stand-ins for a
\* missing and a torn file what they are.
LEMMA NormalizeType ==
  ASSUME NEW file \in Files, NEW s \in Sources
  PROVE  Normalize(file, Policies[s]) \in Files
<1>1. Policies[s] \in {"none", "strip-waf", "crlf-to-lf"}
  BY FetchAssumption
<1>2. CASE file \in Bytes
  <2>1. file.text \in Texts /\ file.waf \in BOOLEAN /\ file.ends \in {"lf", "crlf"}
        /\ file = [text |-> file.text, waf |-> file.waf, ends |-> file.ends]
    BY <1>2 DEF Bytes
  <2>2. Normalize(file, Policies[s]) \in Bytes
    BY <1>1, <2>1 DEF Normalize, Bytes
  <2>3. QED
    BY <2>2 DEF Files
<1>3. CASE file = Absent
  BY <1>1, <1>3 DEF Normalize, Absent, Files
<1>4. CASE file = Torn
  BY <1>1, <1>4 DEF Normalize, Torn, Files
<1>5. QED
  BY <1>2, <1>3, <1>4 DEF Files

\* What a step over a file makes of the record of another run.
OthersFrame(x, y, s) ==
  /\ y.phase = x.phase /\ y.verify = x.verify /\ y.entries = x.entries
  /\ y.status = x.status /\ y.got = x.got /\ y.alone = x.alone \ {s}

\* Whoever disturbs a file changes nothing of the other runs but what they
\* vouch for.
LEMMA DisturbFrame ==
  ASSUME RunsOK, NEW r \in Runs, NEW s, NEW q \in Runs
  PROVE  /\ DOMAIN Disturb(r, s) = Runs
         /\ RunShape(Disturb(r, s)[q])
         /\ Holds(Disturb(r, s)[q])
         /\ Disturb(r, s)[r] = run[r]
         /\ q # r => /\ OthersFrame(run[q], Disturb(r, s)[q], s)
                     /\ Disturb(r, s)[q].mixed = run[q].mixed
<1>1. Disturb(r, s)[r] = run[r]
  BY DEF Disturb
<1>2. RunShape(run[q]) /\ Holds(run[q]) /\ run[q] \in RunRecord
  BY DEF RunsOK, RunShape
<1>3. CASE q # r
  <2> DEFINE x == run[q]
             y == [x EXCEPT !.alone = @ \ {s}]
  <2>1. Disturb(r, s)[q] = y
    BY <1>3 DEF Disturb
  <2> HIDE DEF x
  <2>2. x \in RunRecord /\ RunShape(x) /\ Holds(x)
    BY <1>2 DEF x
  <2>3. /\ y \in RunRecord /\ y.entries = x.entries /\ y.status = x.status /\ y.got = x.got
        /\ y.mixed = x.mixed /\ y.alone = x.alone \ {s} /\ y.phase = x.phase
        /\ y.verify = x.verify
    BY <2>2 DEF RunRecord
  <2>4. RunShape(y) /\ Holds(y)
    BY <2>2, <2>3 DEF RunShape, Holds
  <2>5. OthersFrame(x, y, s)
    BY <2>3 DEF OthersFrame
  <2>6. DOMAIN Disturb(r, s) = Runs
    BY DEF Disturb
  <2>7. QED
    BY <1>1, <2>1, <2>3, <2>4, <2>5, <2>6 DEF x
<1>4. QED
  BY <1>1, <1>2, <1>3 DEF Disturb

\* A step that replaces the record of one run, and may drop marks of others.
LEMMA RunStep ==
  ASSUME RunsOK, NEW r \in Runs, DOMAIN run' = Runs, pinned' = pinned,
         RunShape(run'[r]), Holds(run'[r]),
         \A q \in Runs \ {r} : RunShape(run'[q]) /\ Holds(run'[q])
  PROVE  RunsOK'
<1>1. \A q \in Runs : RunShape(run'[q]) /\ Holds(run'[q])
  OBVIOUS
<1>2. \A q \in Runs : Holds(run[q])'
  BY <1>1 DEF Holds
<1>3. \A q \in Runs : RunShape(run[q])'
  BY <1>1 DEF RunShape
<1>4. QED
  BY <1>2, <1>3 DEF RunsOK

\* What a step makes of the record of the run that takes it: one status, and
\* perhaps what it holds and its marks.
OwnFrame(x, y, s, status, bytes, mixed, alone) ==
  /\ y.phase = x.phase /\ y.verify = x.verify /\ y.entries = x.entries
  /\ y.status = [x.status EXCEPT ![s] = status] /\ y.got = [x.got EXCEPT ![s] = bytes]
  /\ y.mixed = mixed /\ y.alone = alone

LEMMA OwnStep ==
  ASSUME NEW x, RunShape(x), Holds(x), NEW s \in DOMAIN x.entries, NEW status \in Statuses,
         NEW bytes \in Files, NEW mixed \in SUBSET DOMAIN x.entries,
         NEW alone \in SUBSET DOMAIN x.entries,
         status \in {"read", "opened"} => bytes = x.entries[s]
  PROVE  LET y == [x EXCEPT !.status = [@ EXCEPT ![s] = status],
                            !.got = [@ EXCEPT ![s] = bytes],
                            !.mixed = mixed, !.alone = alone]
         IN RunShape(y) /\ Holds(y) /\ OwnFrame(x, y, s, status, bytes, mixed, alone)
<1> DEFINE D == DOMAIN x.entries
<1>1. /\ D \in SUBSET Sources /\ x.status \in [D -> Statuses] /\ x.got \in [D -> Files]
      /\ x.entries \in [D -> Bytes] /\ x.phase \in Phases /\ x.verify \in BOOLEAN
  BY DEF RunShape, RunRecord
<1>2. [x.status EXCEPT ![s] = status] \in [D -> Statuses] /\ [x.got EXCEPT ![s] = bytes] \in [D -> Files]
  BY <1>1
<1> DEFINE x1 == [x EXCEPT !.status = [@ EXCEPT ![s] = status]]
           x2 == [x1 EXCEPT !.got = [@ EXCEPT ![s] = bytes]]
           x3 == [x2 EXCEPT !.mixed = mixed]
<1>3. /\ x1 \in RunRecord /\ x1.status = [x.status EXCEPT ![s] = status]
      /\ x1.entries = x.entries /\ x1.got = x.got /\ x1.phase = x.phase /\ x1.verify = x.verify
  BY <1>1, <1>2 DEF RunShape, RunRecord
<1> HIDE DEF x1
<1>4. /\ x2 \in RunRecord /\ x2.status = x1.status /\ x2.entries = x1.entries
      /\ x2.got = [x.got EXCEPT ![s] = bytes] /\ x2.phase = x.phase /\ x2.verify = x.verify
  BY <1>1, <1>2, <1>3 DEF RunRecord
<1> HIDE DEF x2
<1>5. /\ x3 \in RunRecord /\ x3.status = x2.status /\ x3.entries = x2.entries
      /\ x3.got = x2.got /\ x3.mixed = mixed /\ x3.phase = x.phase /\ x3.verify = x.verify
  BY <1>1, <1>4 DEF RunRecord
<1> HIDE DEF x3
<1> DEFINE z == [x3 EXCEPT !.alone = alone]
<1>6. /\ z \in RunRecord /\ z.status = [x.status EXCEPT ![s] = status] /\ z.entries = x.entries
      /\ z.got = [x.got EXCEPT ![s] = bytes] /\ z.mixed = mixed /\ z.alone = alone
      /\ z.phase = x.phase /\ z.verify = x.verify
  BY <1>1, <1>3, <1>4, <1>5 DEF RunRecord
<1> HIDE DEF z
<1>7. RunShape(z)
  BY <1>1, <1>2, <1>6 DEF RunShape
<1>8. Holds(z)
  BY <1>1, <1>6 DEF Holds
<1>9. OwnFrame(x, z, s, status, bytes, mixed, alone)
  BY <1>6 DEF OwnFrame
<1>10. QED
  BY <1>7, <1>8, <1>9 DEF z, x3, x2, x1

-----------------------------------------------------------------------------
(* The runs.                                                               *)

LEMMA SettleRuns ==
  ASSUME RunsOK, NEW r \in Runs, NEW s \in DOMAIN run[r].entries,
         NEW status \in Statuses \ {"read", "opened"}, Settle(r, s, status), pinned' = pinned
  PROVE  /\ RunsOK' /\ \A q \in Runs \ {r} : run'[q] = run[q]
         /\ OwnFrame(run[r], run'[r], s, status, run[r].got[s], run[r].mixed, run[r].alone)
<1> DEFINE x == run[r]
           y == [x EXCEPT !.status = [@ EXCEPT ![s] = status],
                          !.got = [@ EXCEPT ![s] = x.got[s]],
                          !.mixed = x.mixed, !.alone = x.alone]
<1>1. RunShape(x) /\ Holds(x)
  BY DEF RunsOK
<1>2. x.got[s] \in Files /\ x.mixed \in SUBSET DOMAIN x.entries /\ x.alone \in SUBSET DOMAIN x.entries
  BY <1>1 DEF RunShape, RunRecord
<1>3. /\ RunShape(y) /\ Holds(y)
      /\ OwnFrame(x, y, s, status, x.got[s], x.mixed, x.alone)
  BY <1>1, <1>2, OwnStep
<1>4. run'[r] = [x EXCEPT !.status = [@ EXCEPT ![s] = status]]
  BY DEF Settle, RunsOK
<1> HIDE DEF x
<1>5. y = [x EXCEPT !.status = [@ EXCEPT ![s] = status]]
  BY <1>1 DEF RunShape, RunRecord
<1>6. \A q \in Runs \ {r} : run'[q] = run[q]
  BY DEF Settle, RunsOK
<1>7. DOMAIN run' = Runs
  BY DEF Settle, RunsOK
<1>8. \A q \in Runs \ {r} : RunShape(run'[q]) /\ Holds(run'[q])
  BY <1>6 DEF RunsOK
<1>9. QED
  BY <1>3, <1>4, <1>5, <1>6, <1>7, <1>8, RunStep DEF x

\* A run that begins takes over the manifest's checksums.
LEMMA StartRuns ==
  ASSUME IInv, NEW r \in Runs, Start(r)
  PROVE  RunsOK'
<1>1. PICK only \in SUBSET (Sources \cup {Unknown}), verify \in BOOLEAN :
        IF Selectable(only)
        THEN run' = [run EXCEPT ![r] =
               [phase |-> "running", verify |-> verify,
                entries |-> [s \in Selected(only) |-> manifest[s]],
                status |-> [s \in Selected(only) |-> "todo"],
                got |-> [s \in Selected(only) |-> Absent], mixed |-> {}, alone |-> {}]]
        ELSE run' = [run EXCEPT ![r].phase = "exit 1"]
  BY DEF Start
<1>2. DOMAIN run' = Runs /\ pinned' = pinned /\ \A q \in Runs \ {r} : run'[q] = run[q]
  BY <1>1 DEF Start, IInv, RunsOK
<1>3. \A q \in Runs \ {r} : RunShape(run'[q]) /\ Holds(run'[q])
  BY <1>2 DEF IInv, RunsOK
<1>4. RunShape(run[r]) /\ Holds(run[r])
  BY DEF IInv, RunsOK
<1>5. CASE Selectable(only)
  <2> DEFINE D == Selected(only)
             y == [phase |-> "running", verify |-> verify,
                   entries |-> [s \in D |-> manifest[s]], status |-> [s \in D |-> "todo"],
                   got |-> [s \in D |-> Absent], mixed |-> {}, alone |-> {}]
  <2>1. run'[r] = y
    BY <1>1, <1>5 DEF IInv, RunsOK
  <2>2. D \subseteq DOMAIN manifest /\ DOMAIN manifest \subseteq Sources
        /\ \A s \in DOMAIN manifest : manifest[s] \in Bytes
    BY FetchAssumption DEF Selected, IInv, FilesOK
  <2> HIDE DEF D
  <2>3. /\ [s \in D |-> manifest[s]] \in [D -> Bytes] /\ [s \in D |-> "todo"] \in [D -> Statuses]
        /\ [s \in D |-> Absent] \in [D -> Files] /\ D \in SUBSET Sources
    BY <2>2 DEF Statuses, Files
  <2>4. y \in RunRecord
    BY <2>3 DEF RunRecord, Phases
  <2>5. RunShape(y)
    BY <2>4 DEF RunShape
  <2>6. Holds(y)
    BY <2>2 DEF Holds, IInv, PinnedOK
  <2>7. QED
    BY <1>2, <1>3, <2>1, <2>5, <2>6, RunStep DEF IInv
<1>6. CASE ~Selectable(only)
  <2> DEFINE x == run[r]
             y == [x EXCEPT !.phase = "exit 1"]
  <2>1. run'[r] = y
    BY <1>1, <1>6 DEF IInv, RunsOK
  <2> HIDE DEF x
  <2>2. /\ y \in RunRecord /\ y.entries = x.entries /\ y.status = x.status /\ y.got = x.got
        /\ y.mixed = x.mixed /\ y.alone = x.alone
    BY <1>4 DEF x, RunShape, RunRecord, Phases
  <2>3. RunShape(y) /\ Holds(y)
    BY <1>4, <2>2 DEF x, RunShape, Holds
  <2>4. QED
    BY <1>2, <1>3, <2>1, <2>3, RunStep DEF IInv
<1>7. QED
  BY <1>5, <1>6

\* A run that ends, or is killed, keeps what it has.
LEMMA PhaseRuns ==
  ASSUME RunsOK, NEW r \in Runs, NEW phase \in Phases, run' = [run EXCEPT ![r].phase = phase],
         pinned' = pinned
  PROVE  RunsOK'
<1> DEFINE x == run[r]
           y == [x EXCEPT !.phase = phase]
<1>1. RunShape(x) /\ Holds(x)
  BY DEF RunsOK
<1>2. run'[r] = y /\ DOMAIN run' = Runs /\ \A q \in Runs \ {r} : run'[q] = run[q]
  BY DEF RunsOK
<1>3. \A q \in Runs \ {r} : RunShape(run'[q]) /\ Holds(run'[q])
  BY <1>2 DEF RunsOK
<1> HIDE DEF x
<1>4. /\ y \in RunRecord /\ y.entries = x.entries /\ y.status = x.status /\ y.got = x.got
      /\ y.mixed = x.mixed /\ y.alone = x.alone
  BY <1>1 DEF RunShape, RunRecord
<1>5. RunShape(y) /\ Holds(y)
  BY <1>1, <1>4 DEF RunShape, Holds
<1>6. QED
  BY <1>2, <1>3, <1>5, RunStep

LEMMA ReadRuns ==
  ASSUME IInv, NEW r \in Runs, NEW s \in Sources, Read(r, s)
  PROVE  /\ RunsOK' /\ \A q \in Runs \ {r} : run'[q] = run[q]
         /\ \E file \in IF run[r].verify THEN {raw[s]} \ {Absent} ELSE Responses(s) :
              \E status \in {"mismatch", "ok", "read"}, alone \in SUBSET DOMAIN run[r].entries :
                /\ OwnFrame(run[r], run'[r], s, status,
                            IF run[r].verify THEN file ELSE Keeps(s, file), run[r].mixed, alone)
                /\ status = "mismatch" <=> ~Matches(r, s, file)
                /\ status = "ok" <=> Matches(r, s, file) /\ run[r].verify
                /\ alone = IF status = "ok" THEN run[r].alone \cup {s} ELSE run[r].alone
<1> DEFINE x == run[r]
<1>1. RunShape(x) /\ Holds(x) /\ s \in DOMAIN x.entries /\ s \in Sources
  BY DEF IInv, RunsOK, Read, Running, RunShape
<1>2. PICK file \in IF run[r].verify THEN {raw[s]} \ {Absent} ELSE Responses(s) :
       run' = [run EXCEPT
          ![r].got[s] = IF run[r].verify THEN file ELSE Keeps(s, file),
          ![r].status[s] = CASE ~Matches(r, s, file) -> "mismatch"
                             [] Matches(r, s, file) /\ run[r].verify -> "ok"
                             [] Matches(r, s, file) /\ ~run[r].verify -> "read",
          ![r].alone = IF Matches(r, s, file) /\ run[r].verify THEN @ \cup {s} ELSE @]
  BY DEF Read
<1> DEFINE bytes == IF run[r].verify THEN file ELSE Keeps(s, file)
           status == CASE ~Matches(r, s, file) -> "mismatch"
                       [] Matches(r, s, file) /\ run[r].verify -> "ok"
                       [] Matches(r, s, file) /\ ~run[r].verify -> "read"
           alone == IF Matches(r, s, file) /\ run[r].verify THEN x.alone \cup {s} ELSE x.alone
           y == [x EXCEPT !.status = [@ EXCEPT ![s] = status],
                          !.got = [@ EXCEPT ![s] = bytes],
                          !.mixed = x.mixed, !.alone = alone]
           z == [x EXCEPT !.got = [@ EXCEPT ![s] = bytes],
                          !.status = [@ EXCEPT ![s] = status], !.alone = alone]
<1>3. file \in Files
  <2>1. site[s] \in Texts /\ raw[s] \in Files
    BY DEF IInv, FilesOK
  <2>2. Responses(s) \subseteq Files
    BY <2>1 DEF Responses, Files, Bytes
  <2>3. QED
    BY <2>1, <2>2
<1>4. bytes \in Files
  BY <1>1, <1>3, NormalizeType DEF Keeps, Checksum
<1>5. status \in {"mismatch", "ok", "read"} /\ status \in Statuses
  BY DEF Statuses
<1>6. status = "read" => bytes = x.entries[s]
  BY DEF Matches, Keeps
<1>7. alone \in SUBSET DOMAIN x.entries /\ x.mixed \in SUBSET DOMAIN x.entries
  BY <1>1 DEF RunShape
<1>8. pinned' = pinned /\ DOMAIN run' = Runs /\ \A q \in Runs \ {r} : run'[q] = run[q]
  BY <1>2 DEF Read, IInv, RunsOK
<1>9. run'[r] = z
  BY <1>2 DEF IInv, RunsOK
<1>10. \A q \in Runs \ {r} : RunShape(run'[q]) /\ Holds(run'[q])
  BY <1>8 DEF IInv, RunsOK
<1>14. /\ status = "mismatch" <=> ~Matches(r, s, file)
       /\ status = "ok" <=> Matches(r, s, file) /\ run[r].verify
       /\ alone = IF status = "ok" THEN run[r].alone \cup {s} ELSE run[r].alone
  OBVIOUS
<1> HIDE DEF x, bytes, status, alone
<1>11. RunShape(y) /\ Holds(y) /\ OwnFrame(x, y, s, status, bytes, x.mixed, alone)
  BY <1>1, <1>4, <1>5, <1>6, <1>7, OwnStep
<1>12. y = z
  <2>1. x \in RunRecord
    BY <1>1 DEF RunShape
  <2>2. [x EXCEPT !.status = [@ EXCEPT ![s] = status], !.got = [@ EXCEPT ![s] = bytes]]
          = [x EXCEPT !.got = [@ EXCEPT ![s] = bytes], !.status = [@ EXCEPT ![s] = status]]
    BY <2>1 DEF RunRecord
  <2>3. QED
    BY <2>1, <2>2 DEF RunRecord
<1>13. RunsOK'
  BY <1>8, <1>9, <1>10, <1>11, <1>12, RunStep DEF IInv
<1>15. OwnFrame(run[r], run'[r], s, status, IF run[r].verify THEN file ELSE Keeps(s, file),
                run[r].mixed, alone)
  BY <1>9, <1>11, <1>12 DEF x, bytes
<1>16. status \in {"mismatch", "ok", "read"} /\ alone \in SUBSET DOMAIN run[r].entries
       /\ (alone = IF status = "ok" THEN run[r].alone \cup {s} ELSE run[r].alone)
  BY <1>5, <1>7, <1>14 DEF x
<1>17. \E st \in {"mismatch", "ok", "read"}, al \in SUBSET DOMAIN run[r].entries :
         /\ OwnFrame(run[r], run'[r], s, st, IF run[r].verify THEN file ELSE Keeps(s, file),
                     run[r].mixed, al)
         /\ st = "mismatch" <=> ~Matches(r, s, file)
         /\ st = "ok" <=> Matches(r, s, file) /\ run[r].verify
         /\ al = IF st = "ok" THEN run[r].alone \cup {s} ELSE run[r].alone
  BY <1>14, <1>15, <1>16, Zenon
<1>18. QED
  BY <1>2, <1>8, <1>13, <1>17, Zenon

LEMMA OpenRuns ==
  ASSUME IInv, NEW r \in Runs, NEW s \in Sources, Open(r, s)
  PROVE  /\ RunsOK'
         /\ \A q \in Runs \ {r} :
              /\ OthersFrame(run[q], run'[q], s)
              /\ run'[q].mixed = run[q].mixed
                   \cup (IF Contends(q, r, s) THEN {s} ELSE {})
         /\ OwnFrame(run[r], run'[r], s, "opened", run[r].got[s],
              run[r].mixed \cup (IF \E p \in Runs : Contends(p, r, s) THEN {s} ELSE {}), run[r].alone)
<1> DEFINE x == run[r]
           mixed == x.mixed \cup (IF \E p \in Runs : Contends(p, r, s) THEN {s} ELSE {})
           y == [x EXCEPT !.status = [@ EXCEPT ![s] = "opened"],
                          !.got = [@ EXCEPT ![s] = x.got[s]],
                          !.mixed = mixed, !.alone = x.alone]
           z == [x EXCEPT !.status = [@ EXCEPT ![s] = "opened"], !.mixed = mixed]
<1>1. RunShape(x) /\ Holds(x) /\ s \in DOMAIN x.entries /\ x.status[s] = "read"
  BY DEF IInv, RunsOK, Open, Running, RunShape
<1>2. run'[r] = z /\ DOMAIN run' = Runs /\ pinned' = pinned
  <2>1. mixed = IF \E p \in Runs : Contends(p, r, s) THEN x.mixed \cup {s} ELSE x.mixed
    OBVIOUS
  <2>2. QED
    BY <2>1 DEF Open
<1>3. ASSUME NEW q \in Runs \ {r}
      PROVE  /\ RunShape(run'[q]) /\ Holds(run'[q]) /\ OthersFrame(run[q], run'[q], s)
             /\ run'[q].mixed = run[q].mixed \cup (IF Contends(q, r, s) THEN {s} ELSE {})
  <2> DEFINE v == Disturb(r, s)[q]
             w == [v EXCEPT !.mixed = IF Contends(q, r, s) THEN @ \cup {s} ELSE @]
  <2>1. run'[q] = w
    BY DEF Open
  <2>2. RunShape(v) /\ Holds(v) /\ OthersFrame(run[q], v, s) /\ v.mixed = run[q].mixed
    BY DisturbFrame DEF IInv
  <2>3. s \in DOMAIN v.entries \/ ~Contends(q, r, s)
    BY <2>2 DEF Contends, Running, Disturb, RunShape, RunRecord, IInv, RunsOK
  <2> HIDE DEF v
  <2>4. /\ w \in RunRecord /\ w.entries = v.entries /\ w.status = v.status /\ w.got = v.got
        /\ w.alone = v.alone /\ w.mixed \subseteq DOMAIN w.entries
        /\ w.mixed = v.mixed \cup (IF Contends(q, r, s) THEN {s} ELSE {})
        /\ w.phase = v.phase /\ w.verify = v.verify
    BY <2>2, <2>3 DEF RunShape, RunRecord
  <2>5. RunShape(w) /\ Holds(w)
    BY <2>2, <2>4 DEF RunShape, Holds
  <2>6. OthersFrame(run[q], w, s)
    BY <2>2, <2>4 DEF OthersFrame
  <2>7. QED
    BY <2>1, <2>2, <2>4, <2>5, <2>6
<1>4. x.got[s] \in Files /\ mixed \in SUBSET DOMAIN x.entries /\ x.alone \in SUBSET DOMAIN x.entries
  BY <1>1 DEF RunShape, RunRecord
<1>5. x.got[s] = x.entries[s] /\ "opened" \in Statuses
  BY <1>1 DEF Holds, Statuses
<1> HIDE DEF x, mixed
<1>6. RunShape(y) /\ Holds(y) /\ OwnFrame(x, y, s, "opened", x.got[s], mixed, x.alone)
  BY <1>1, <1>4, <1>5, OwnStep
<1>7. y = z
  BY <1>1 DEF RunShape, RunRecord
<1>8. RunsOK'
  BY <1>2, <1>3, <1>6, <1>7, RunStep DEF IInv
<1>9. OwnFrame(run[r], run'[r], s, "opened", run[r].got[s],
        run[r].mixed \cup (IF \E p \in Runs : Contends(p, r, s) THEN {s} ELSE {}), run[r].alone)
  BY <1>2, <1>6, <1>7 DEF x, mixed
<1>10. QED
  BY <1>3, <1>8, <1>9

LEMMA WriteRuns ==
  ASSUME IInv, NEW r \in Runs, NEW s \in Sources, Write(r, s)
  PROVE  /\ RunsOK' /\ \A q \in Runs \ {r} : /\ OthersFrame(run[q], run'[q], s)
                                          /\ run'[q].mixed = run[q].mixed
         /\ OwnFrame(run[r], run'[r], s, "ok", run[r].got[s], run[r].mixed,
              IF s \in run[r].mixed THEN run[r].alone ELSE run[r].alone \cup {s})
<1> DEFINE x == run[r]
           alone == IF s \in x.mixed THEN x.alone ELSE x.alone \cup {s}
           y == [x EXCEPT !.status = [@ EXCEPT ![s] = "ok"],
                          !.got = [@ EXCEPT ![s] = x.got[s]],
                          !.mixed = x.mixed, !.alone = alone]
           z == [x EXCEPT !.status = [@ EXCEPT ![s] = "ok"], !.alone = alone]
<1>1. RunShape(x) /\ Holds(x) /\ s \in DOMAIN x.entries
  BY DEF IInv, RunsOK, Write, Running, RunShape
<1>2. Disturb(r, s)[r] = x /\ DOMAIN Disturb(r, s) = Runs
  BY DEF Disturb
<1>3. run'[r] = z /\ DOMAIN run' = Runs /\ pinned' = pinned
  BY <1>2 DEF Write
<1>4. \A q \in Runs \ {r} : run'[q] = Disturb(r, s)[q]
  BY <1>2 DEF Write
<1>5. \A q \in Runs \ {r} : /\ RunShape(run'[q]) /\ Holds(run'[q])
                            /\ OthersFrame(run[q], run'[q], s) /\ run'[q].mixed = run[q].mixed
  BY <1>4, DisturbFrame DEF IInv
<1>6. /\ x.got[s] \in Files /\ x.mixed \in SUBSET DOMAIN x.entries
      /\ alone \in SUBSET DOMAIN x.entries /\ "ok" \in Statuses
  BY <1>1 DEF RunShape, RunRecord, Statuses
<1> HIDE DEF x, alone
<1>7. RunShape(y) /\ Holds(y) /\ OwnFrame(x, y, s, "ok", x.got[s], x.mixed, alone)
  BY <1>1, <1>6, OwnStep
<1>8. y = z
  BY <1>1 DEF RunShape, RunRecord
<1>9. RunsOK'
  BY <1>3, <1>5, <1>7, <1>8, RunStep DEF IInv
<1>10. OwnFrame(run[r], run'[r], s, "ok", run[r].got[s], run[r].mixed,
         IF s \in run[r].mixed THEN run[r].alone ELSE run[r].alone \cup {s})
  BY <1>3, <1>7, <1>8 DEF x, alone
<1>11. QED
  BY <1>5, <1>9, <1>10

LEMMA NextRuns == IInv /\ [Next]_vars => RunsOK'
<1> SUFFICES ASSUME IInv, [Next]_vars
             PROVE  RunsOK'
  OBVIOUS
<1>1. ASSUME NEW s \in Sources, Drift(s)
      PROVE  RunsOK'
  BY <1>1 DEF Drift, IInv, RunsOK, Holds, RunShape
<1>2. CASE EditManifest
  <2>1. run' = run /\ \A s \in Sources : pinned[s] \subseteq pinned'[s]
    BY <1>2 DEF EditManifest
  <2>2. ASSUME NEW r \in Runs
        PROVE  RunShape(run[r]) /\ Holds(run[r])'
    <3>1. RunShape(run[r]) /\ Holds(run[r])
      BY DEF IInv, RunsOK
    <3>2. DOMAIN run[r].entries \subseteq Sources
      BY <3>1 DEF RunShape, RunRecord
    <3>3. QED
      BY <2>1, <3>1, <3>2 DEF Holds
  <2>3. \A r \in Runs : RunShape(run'[r]) /\ Holds(run[r])'
    BY <2>1, <2>2
  <2>4. QED
    BY <2>1, <2>3 DEF IInv, RunsOK, RunShape
<1>3. ASSUME NEW r \in Runs, Start(r)
      PROVE  RunsOK'
  BY <1>3, StartRuns
<1>4. ASSUME NEW r \in Runs, Report(r) \/ Kill(r)
      PROVE  RunsOK'
  <2>1. PICK phase \in Phases : run' = [run EXCEPT ![r].phase = phase]
    BY <1>4 DEF Report, Exit, Kill, Phases
  <2>2. pinned' = pinned
    BY <1>4 DEF Report, Kill
  <2>3. QED
    BY <2>1, <2>2, PhaseRuns DEF IInv
<1>5. ASSUME NEW r \in Runs, NEW s \in Sources, SourceStep(r, s)
      PROVE  RunsOK'
  <2>1. CASE ReadFails(r, s) \/ WriteFails(r, s)
    <3>1. s \in DOMAIN run[r].entries
      BY <2>1 DEF ReadFails, WriteFails, Running, IInv, RunsOK, RunShape
    <3>2. Settle(r, s, "error") /\ pinned' = pinned /\ "error" \in Statuses \ {"read", "opened"}
      BY <2>1 DEF ReadFails, WriteFails, Statuses
    <3>3. QED
      BY <3>1, <3>2, SettleRuns DEF IInv
  <2>2. QED
    BY <1>5, <2>1, ReadRuns, OpenRuns, WriteRuns DEF SourceStep
<1>6. CASE UNCHANGED vars
  BY <1>6 DEF vars, IInv, RunsOK, Holds, RunShape
<1>7. QED
  BY <1>1, <1>2, <1>3, <1>4, <1>5, <1>6 DEF Next

-----------------------------------------------------------------------------
(* The files.                                                              *)

LEMMA NextFiles ==
  IInv /\ [Next]_vars => FilesOK' /\ CountsOK' /\ PinnedOK' /\ StoredBytesAreVerified'
<1> SUFFICES ASSUME IInv, [Next]_vars
             PROVE  FilesOK' /\ CountsOK' /\ PinnedOK' /\ StoredBytesAreVerified'
  OBVIOUS
<1> USE DEF IInv
<1>1. ASSUME NEW s \in Sources, Drift(s)
      PROVE  FilesOK' /\ CountsOK' /\ PinnedOK' /\ StoredBytesAreVerified'
  BY <1>1, FetchAssumption DEF Drift, FilesOK, CountsOK, PinnedOK, StoredBytesAreVerified
<1>2. CASE EditManifest
  <2>1. manifest' \in Manifests /\ DOMAIN manifest' \subseteq Sources
    BY <1>2, FetchAssumption DEF EditManifest
  <2>2. DOMAIN pinned' = Sources /\ \A s \in Sources : pinned[s] \subseteq pinned'[s]
    BY <1>2 DEF EditManifest
  <2>3. \A s \in DOMAIN manifest' : manifest'[s] \in pinned'[s]
    BY <1>2, <2>1 DEF EditManifest
  <2>4. PinnedOK'
    BY <2>2, <2>3 DEF PinnedOK
  <2>5. FilesOK' /\ CountsOK'
    BY <1>2, <2>1, FetchAssumption DEF EditManifest, FilesOK, CountsOK
  <2>6. StoredBytesAreVerified'
    BY <1>2, <2>2 DEF EditManifest, StoredBytesAreVerified
  <2>7. QED
    BY <2>4, <2>5, <2>6
<1>3. CASE UNCHANGED <<site, manifest, raw, pinned, drifts, edits>>
  BY <1>3 DEF FilesOK, CountsOK, PinnedOK, StoredBytesAreVerified
<1>4. ASSUME NEW r \in Runs, NEW s \in Sources, Open(r, s)
      PROVE  FilesOK' /\ CountsOK' /\ PinnedOK' /\ StoredBytesAreVerified'
  BY <1>4 DEF Open, FilesOK, CountsOK, PinnedOK, StoredBytesAreVerified, Files
<1>5. ASSUME NEW r \in Runs, NEW s \in Sources, Write(r, s)
      PROVE  FilesOK' /\ CountsOK' /\ PinnedOK' /\ StoredBytesAreVerified'
  <2>1. s \in DOMAIN run[r].entries /\ run[r].status[s] = "opened"
        /\ run[r].entries \in [DOMAIN run[r].entries -> Bytes]
    BY <1>5 DEF Write, Running, RunsOK, RunShape, RunRecord
  <2>2. run[r].got[s] \in pinned[s] /\ run[r].got[s] \in Bytes
    BY <2>1 DEF RunsOK, Holds
  <2>3. raw' = [raw EXCEPT ![s] = run[r].got[s]] \/ raw' = [raw EXCEPT ![s] = Torn]
    BY <1>5 DEF Write
  <2>4. UNCHANGED <<site, manifest, pinned, drifts, edits>>
    BY <1>5 DEF Write
  <2>5. QED
    BY <2>2, <2>3, <2>4 DEF FilesOK, CountsOK, PinnedOK, StoredBytesAreVerified, Files
<1>6. QED
  BY <1>1, <1>2, <1>3, <1>4, <1>5
     DEF Next, Start, Report, Kill, SourceStep, ReadFails, Read, WriteFails, vars

LEMMA InitIInv == Init => IInv
<1> SUFFICES ASSUME Init
             PROVE  IInv
  OBVIOUS
<1>1. FilesOK /\ CountsOK /\ PinnedOK /\ StoredBytesAreVerified
  BY FetchAssumption
     DEF Init, FilesOK, CountsOK, PinnedOK, StoredBytesAreVerified, Files
<1>2. RunShape(NotRun)
  <2> DEFINE none == [s \in {} |-> Absent]
             todo == [s \in {} |-> "todo"]
  <2>1. none \in [{} -> Bytes] /\ none \in [{} -> Files] /\ todo \in [{} -> Statuses]
    OBVIOUS
  <2>2. DOMAIN none = {} /\ DOMAIN todo = {} /\ {} \in SUBSET Sources
    OBVIOUS
  <2> HIDE DEF none, todo
  <2>3. NotRun = [phase |-> "idle", verify |-> FALSE, entries |-> none, status |-> todo,
                  got |-> none, mixed |-> {}, alone |-> {}]
    BY DEF NotRun, none, todo
  <2>4. NotRun \in RunRecord
    BY <2>1, <2>2, <2>3 DEF RunRecord, Phases
  <2>5. QED
    BY <2>2, <2>3, <2>4 DEF RunShape
<1>3. Holds(NotRun)
  BY DEF NotRun, Holds
<1>4. QED
  BY <1>1, <1>2, <1>3 DEF Init, IInv, RunsOK

LEMMA Invariance == Spec => []IInv
<1>1. IInv /\ [Next]_vars => IInv'
  BY NextRuns, NextFiles DEF IInv
<1>2. QED
  BY <1>1, InitIInv, PTL DEF Spec

\* The state keeps its shape, whatever sites answer and wherever runs stop.
THEOREM TypeCorrect == Spec => []TypeOK
<1>1. IInv => TypeOK
  <2> SUFFICES ASSUME IInv
               PROVE  TypeOK
    OBVIOUS
  <2>1. ASSUME NEW r \in Runs
        PROVE  /\ run[r].phase \in {"idle", "running", "killed", "exit 0", "exit 1"}
               /\ DOMAIN run[r].entries \subseteq Sources
               /\ run[r].status \in [DOMAIN run[r].entries -> Statuses]
               /\ run[r].got \in [DOMAIN run[r].entries -> Files]
               /\ \A s \in DOMAIN run[r].status :
                    run[r].status[s] \in {"read", "opened"} => run[r].got[s] \in Bytes
               /\ run[r].alone \cup run[r].mixed \subseteq DOMAIN run[r].entries
    <3>1. RunShape(run[r]) /\ Holds(run[r])
      BY DEF IInv, RunsOK
    <3>2. run[r].entries \in [DOMAIN run[r].entries -> Bytes]
      BY <3>1 DEF RunShape, RunRecord
    <3>3. /\ run[r].status \in [DOMAIN run[r].entries -> Statuses]
          /\ run[r].got \in [DOMAIN run[r].entries -> Files]
      BY <3>1 DEF RunShape, RunRecord
    <3>4. \A s \in DOMAIN run[r].entries :
            run[r].status[s] \in {"read", "opened"} => run[r].got[s] \in Bytes
      BY <3>1, <3>2 DEF Holds
    <3>5. /\ run[r].phase \in Phases /\ DOMAIN run[r].entries \subseteq Sources
          /\ run[r].alone \cup run[r].mixed \subseteq DOMAIN run[r].entries
      BY <3>1 DEF RunShape, RunRecord
    <3>6. QED
      BY <3>3, <3>4, <3>5 DEF Phases
  <2>2. QED
    BY <2>1 DEF IInv, FilesOK, CountsOK, TypeOK
<1>2. QED
  BY <1>1, Invariance, PTL

\* Only verified bytes are ever stored, under any number of overlapping runs
\* and manifests.
THEOREM OnlyVerifiedBytes == Spec => []StoredBytesAreVerified
<1>1. IInv => StoredBytesAreVerified
  BY DEF IInv
<1>2. QED
  BY <1>1, Invariance, PTL

-----------------------------------------------------------------------------
(* The reports.                                                            *)

\* What a run has made of its sources, and when it may say so.
Judged(x) ==
  /\ \A s \in DOMAIN x.entries :
       /\ Normalize(x.entries[s], Policies[s]) = x.entries[s]
       /\ x.status[s] \in {"read", "opened", "ok"} =>
            Normalize(x.got[s], Policies[s]) = x.entries[s]
       /\ x.status[s] = "mismatch" => Normalize(x.got[s], Policies[s]) # x.entries[s]
       /\ x.status[s] \in {"read", "opened"} => ~x.verify
       /\ s \in x.alone => x.status[s] = "ok"
  /\ x.phase \in {"running", "exit 0"} => DOMAIN x.entries # {}
  /\ x.phase = "exit 0" => \A s \in DOMAIN x.entries : x.status[s] = "ok"
  /\ x.phase = "idle" => DOMAIN x.entries = {}

\* A fetch has read a response for the source.
Fetched(q, s) == s \in DOMAIN run[q].entries /\ run[q].got[s] # Absent /\ ~run[q].verify

\* A run that vouches for a file is right; one that cannot has another to blame.
Vouched ==
  \A r \in Runs : \A s \in DOMAIN run[r].entries :
    /\ s \in run[r].alone => raw[s] = run[r].entries[s]
    /\ s \in run[r].mixed \/ (run[r].status[s] = "ok" /\ s \notin run[r].alone) =>
         \E q \in Runs \ {r} : Fetched(q, s)

PinsNormal == \A s \in Sources : \A bytes \in pinned[s] : Normalize(bytes, Policies[s]) = bytes

JInv == IInv /\ PinsNormal /\ (\A r \in Runs : Judged(run[r])) /\ Vouched

\* normalizeBytes is idempotent, and never touches the text.
LEMMA NormalizeTwice ==
  ASSUME NEW file \in Files, NEW s \in Sources
  PROVE  /\ Normalize(Normalize(file, Policies[s]), Policies[s]) = Normalize(file, Policies[s])
         /\ Normalize(file, Policies[s]).text = file.text
<1>1. Policies[s] \in {"none", "strip-waf", "crlf-to-lf"}
  BY FetchAssumption
<1>2. file = [text |-> file.text, waf |-> file.waf, ends |-> file.ends]
  BY DEF Files, Bytes, Absent, Torn
<1>3. CASE Policies[s] = "none"
  BY <1>3 DEF Normalize
<1>4. CASE Policies[s] = "strip-waf"
  BY <1>2, <1>4 DEF Normalize
<1>5. CASE Policies[s] = "crlf-to-lf"
  BY <1>2, <1>5 DEF Normalize
<1>6. QED
  BY <1>1, <1>3, <1>4, <1>5

\* Another run's step leaves a judgement what it is.
LEMMA JudgedOthers ==
  ASSUME NEW x, NEW y, NEW s, Judged(x), OthersFrame(x, y, s)
  PROVE  Judged(y)
<1>1. /\ y.phase = x.phase /\ y.verify = x.verify /\ y.entries = x.entries
      /\ y.status = x.status /\ y.got = x.got /\ y.alone \subseteq x.alone
  BY DEF OthersFrame
<1>2. ASSUME NEW t \in DOMAIN x.entries
      PROVE  /\ Normalize(y.entries[t], Policies[t]) = y.entries[t]
             /\ y.status[t] \in {"read", "opened", "ok"} =>
                  Normalize(y.got[t], Policies[t]) = y.entries[t]
             /\ y.status[t] = "mismatch" => Normalize(y.got[t], Policies[t]) # y.entries[t]
             /\ y.status[t] \in {"read", "opened"} => ~y.verify
             /\ t \in y.alone => y.status[t] = "ok"
  <2>1. /\ Normalize(x.entries[t], Policies[t]) = x.entries[t]
        /\ x.status[t] \in {"read", "opened", "ok"} =>
             Normalize(x.got[t], Policies[t]) = x.entries[t]
        /\ x.status[t] = "mismatch" => Normalize(x.got[t], Policies[t]) # x.entries[t]
        /\ x.status[t] \in {"read", "opened"} => ~x.verify
        /\ t \in x.alone => x.status[t] = "ok"
    BY DEF Judged
  <2>2. t \in y.alone => t \in x.alone
    BY <1>1
  <2>3. QED
    BY <1>1, <2>1, <2>2
<1>3. /\ y.phase \in {"running", "exit 0"} => DOMAIN y.entries # {}
      /\ y.phase = "exit 0" => \A t \in DOMAIN y.entries : y.status[t] = "ok"
      /\ y.phase = "idle" => DOMAIN y.entries = {}
  BY <1>1 DEF Judged
<1>4. QED
  BY <1>1, <1>2, <1>3 DEF Judged

\* A run's own step judges one source that it had not settled.
LEMMA JudgedOwn ==
  ASSUME NEW x, NEW y, NEW s \in DOMAIN x.entries, NEW status, NEW bytes, NEW mixed, NEW alone,
         RunShape(x), Judged(x), x.phase = "running",
         OwnFrame(x, y, s, status, bytes, mixed, alone),
         x.status[s] # "ok",
         status \in {"read", "opened", "ok"} => Normalize(bytes, Policies[s]) = x.entries[s],
         status = "mismatch" => Normalize(bytes, Policies[s]) # x.entries[s],
         status \in {"read", "opened"} => ~x.verify,
         alone \subseteq x.alone \cup (IF status = "ok" THEN {s} ELSE {})
  PROVE  Judged(y)
<1>1. /\ y.phase = "running" /\ y.verify = x.verify /\ y.entries = x.entries
      /\ \A t \in DOMAIN x.entries : /\ y.status[t] = IF t = s THEN status ELSE x.status[t]
                                     /\ y.got[t] = IF t = s THEN bytes ELSE x.got[t]
      /\ y.alone = alone
  BY DEF OwnFrame, RunShape, RunRecord
<1>2. DOMAIN x.entries # {}
  BY DEF Judged
<1>3. ASSUME NEW t \in DOMAIN x.entries
      PROVE  /\ Normalize(y.entries[t], Policies[t]) = y.entries[t]
             /\ y.status[t] \in {"read", "opened", "ok"} =>
                  Normalize(y.got[t], Policies[t]) = y.entries[t]
             /\ y.status[t] = "mismatch" => Normalize(y.got[t], Policies[t]) # y.entries[t]
             /\ y.status[t] \in {"read", "opened"} => ~y.verify
             /\ t \in y.alone => y.status[t] = "ok"
  <2>1. CASE t = s
    BY <1>1, <2>1 DEF Judged
  <2>2. CASE t # s
    BY <1>1, <2>2 DEF Judged
  <2>3. QED
    BY <2>1, <2>2
<1>4. QED
  BY <1>1, <1>2, <1>3 DEF Judged

\* What a run reads it judges.
LEMMA ReadJudged ==
  ASSUME JInv, NEW r \in Runs, NEW s \in Sources, Read(r, s)
  PROVE  Judged(run'[r])
<1>1. /\ RunShape(run[r]) /\ Judged(run[r]) /\ s \in DOMAIN run[r].entries
      /\ run[r].phase = "running" /\ run[r].status[s] = "todo"
  BY DEF JInv, IInv, RunsOK, RunShape, Read, Running
<1>2. PICK file \in IF run[r].verify THEN {raw[s]} \ {Absent} ELSE Responses(s) :
        \E status \in {"mismatch", "ok", "read"}, alone \in SUBSET DOMAIN run[r].entries :
          /\ OwnFrame(run[r], run'[r], s, status,
                      IF run[r].verify THEN file ELSE Keeps(s, file), run[r].mixed, alone)
          /\ status = "mismatch" <=> ~Matches(r, s, file)
          /\ status = "ok" <=> Matches(r, s, file) /\ run[r].verify
          /\ alone = IF status = "ok" THEN run[r].alone \cup {s} ELSE run[r].alone
  BY ReadRuns DEF JInv
<1>3. PICK status \in {"mismatch", "ok", "read"}, alone \in SUBSET DOMAIN run[r].entries :
          /\ OwnFrame(run[r], run'[r], s, status,
                      IF run[r].verify THEN file ELSE Keeps(s, file), run[r].mixed, alone)
          /\ status = "mismatch" <=> ~Matches(r, s, file)
          /\ status = "ok" <=> Matches(r, s, file) /\ run[r].verify
          /\ alone = IF status = "ok" THEN run[r].alone \cup {s} ELSE run[r].alone
  BY <1>2
<1> DEFINE bytes == IF run[r].verify THEN file ELSE Keeps(s, file)
<1>4. file \in Files
  <2>1. site[s] \in Texts /\ raw[s] \in Files
    BY DEF JInv, IInv, FilesOK
  <2>2. Responses(s) \subseteq Files
    BY <2>1 DEF Responses, Files, Bytes
  <2>3. QED
    BY <2>1, <2>2
<1>5. Normalize(bytes, Policies[s]) = Checksum(file, Policies[s])
  BY <1>4, NormalizeTwice DEF Keeps, Checksum
<1>6. Matches(r, s, file) <=> Normalize(bytes, Policies[s]) = run[r].entries[s]
  BY <1>5 DEF Matches
<1>7. status = "read" => ~run[r].verify
  BY <1>3
<1>8. alone \subseteq run[r].alone \cup (IF status = "ok" THEN {s} ELSE {})
  BY <1>3
<1>9. status \in {"read", "opened", "ok"} => Normalize(bytes, Policies[s]) = run[r].entries[s]
  BY <1>3, <1>6
<1>10. status = "mismatch" => Normalize(bytes, Policies[s]) # run[r].entries[s]
  BY <1>3, <1>6
<1>11. OwnFrame(run[r], run'[r], s, status, bytes, run[r].mixed, alone)
  BY <1>3
<1>12. run[r].status[s] # "ok" /\ (status \in {"read", "opened"} => ~run[r].verify)
  BY <1>1, <1>3, <1>7
<1> DEFINE x == run[r]
           y == run'[r]
<1>13. /\ s \in DOMAIN x.entries /\ RunShape(x) /\ Judged(x) /\ x.phase = "running"
       /\ x.status[s] # "ok" /\ (status \in {"read", "opened"} => ~x.verify)
       /\ OwnFrame(x, y, s, status, bytes, x.mixed, alone)
       /\ status \in {"read", "opened", "ok"} => Normalize(bytes, Policies[s]) = x.entries[s]
       /\ status = "mismatch" => Normalize(bytes, Policies[s]) # x.entries[s]
       /\ alone \subseteq x.alone \cup (IF status = "ok" THEN {s} ELSE {})
  BY <1>1, <1>8, <1>9, <1>10, <1>11, <1>12
<1> HIDE DEF bytes, x, y
<1>14. Judged(y)
  BY <1>13, JudgedOwn, Zenon
<1>15. QED
  BY <1>14 DEF y

\* What a run opens or writes it had judged.
LEMMA WriteJudged ==
  ASSUME JInv, NEW r \in Runs, NEW s \in Sources, Open(r, s) \/ Write(r, s)
  PROVE  Judged(run'[r])
<1>1. /\ RunShape(run[r]) /\ Judged(run[r]) /\ s \in DOMAIN run[r].entries
      /\ run[r].phase = "running" /\ run[r].status[s] \in {"read", "opened"}
  BY DEF JInv, IInv, RunsOK, RunShape, Open, Write, Running
<1>2. Normalize(run[r].got[s], Policies[s]) = run[r].entries[s] /\ ~run[r].verify
  BY <1>1 DEF Judged
<1>3. CASE Open(r, s)
  <2> DEFINE mixed == run[r].mixed \cup (IF \E p \in Runs : Contends(p, r, s) THEN {s} ELSE {})
  <2>1. OwnFrame(run[r], run'[r], s, "opened", run[r].got[s], mixed, run[r].alone)
    BY <1>3, OpenRuns DEF JInv
  <2> HIDE DEF mixed
  <2>2. QED
    BY <1>1, <1>2, <2>1, JudgedOwn
<1>4. CASE Write(r, s)
  <2> DEFINE alone == IF s \in run[r].mixed THEN run[r].alone ELSE run[r].alone \cup {s}
  <2>1. OwnFrame(run[r], run'[r], s, "ok", run[r].got[s], run[r].mixed, alone)
    BY <1>4, WriteRuns DEF JInv
  <2>2. alone \subseteq run[r].alone \cup {s}
    OBVIOUS
  <2> HIDE DEF alone
  <2>3. QED
    BY <1>1, <1>2, <2>1, <2>2, JudgedOwn
<1>5. QED
  BY <1>3, <1>4

\* A run selects something, all of it pinned.
LEMMA StartJudged ==
  ASSUME JInv, NEW r \in Runs, Start(r)
  PROVE  Judged(run'[r]) /\ run'[r].mixed = {} /\ run'[r].alone = {}
         /\ DOMAIN run[r].entries = {} /\ \A s \in DOMAIN run'[r].entries : run'[r].status[s] = "todo"
<1>1. PICK only \in SUBSET (Sources \cup {Unknown}), verify \in BOOLEAN :
        IF Selectable(only)
        THEN run' = [run EXCEPT ![r] =
               [phase |-> "running", verify |-> verify,
                entries |-> [s \in Selected(only) |-> manifest[s]],
                status |-> [s \in Selected(only) |-> "todo"],
                got |-> [s \in Selected(only) |-> Absent], mixed |-> {}, alone |-> {}]]
        ELSE run' = [run EXCEPT ![r].phase = "exit 1"]
  BY DEF Start
<1>2. RunShape(run[r]) /\ Judged(run[r]) /\ DOMAIN run[r].entries = {}
  BY DEF JInv, IInv, RunsOK, Start, Judged
<1>3. CASE Selectable(only)
  <2> DEFINE D == Selected(only)
             y == [phase |-> "running", verify |-> verify,
                   entries |-> [s \in D |-> manifest[s]], status |-> [s \in D |-> "todo"],
                   got |-> [s \in D |-> Absent], mixed |-> {}, alone |-> {}]
  <2>1. run'[r] = y
    BY <1>1, <1>3 DEF JInv, IInv, RunsOK
  <2>2. D # {} /\ D \subseteq DOMAIN manifest /\ manifest \in Manifests
    BY <1>3, FetchAssumption DEF Selected, Selectable, JInv, IInv, FilesOK
  <2> HIDE DEF D
  <2>3. \A s \in D : Normalize(manifest[s], Policies[s]) = manifest[s]
    BY <2>2, PinAssumption
  <2>4. Judged(y)
    BY <2>2, <2>3 DEF Judged
  <2>5. QED
    BY <1>2, <2>1, <2>4
<1>4. CASE ~Selectable(only)
  <2> DEFINE x == run[r]
             y == [x EXCEPT !.phase = "exit 1"]
  <2>1. run'[r] = y
    BY <1>1, <1>4 DEF JInv, IInv, RunsOK
  <2> HIDE DEF x
  <2>2. /\ y.entries = x.entries /\ y.phase = "exit 1" /\ y.mixed = x.mixed /\ y.alone = x.alone
        /\ DOMAIN x.entries = {} /\ x.mixed = {} /\ x.alone = {}
    BY <1>2 DEF x, RunShape, RunRecord
  <2>3. Judged(y)
    BY <2>2 DEF Judged
  <2>4. QED
    BY <1>2, <2>1, <2>2, <2>3
<1>5. QED
  BY <1>3, <1>4

\* What a step over one file leaves of the record of any other run.
SameBut(x, y, s) ==
  /\ y.verify = x.verify /\ y.entries = x.entries /\ y.status = x.status /\ y.got = x.got
  /\ y.alone \ {s} = x.alone \ {s} /\ y.mixed \ {s} = x.mixed \ {s}

\* What a fetch has read stays read.
LEMMA FetchedKept ==
  ASSUME RunsOK, NEW r \in Runs, NEW s \in DOMAIN run[r].entries,
         NEW status, NEW bytes, NEW mixed, NEW alone,
         OwnFrame(run[r], run'[r], s, status, bytes, mixed, alone),
         run[r].verify \/ bytes # Absent \/ bytes = run[r].got[s],
         \A q \in Runs \ {r} : SameBut(run[q], run'[q], s)
  PROVE  \A q \in Runs : \A t \in Sources : Fetched(q, t) => Fetched(q, t)'
<1> SUFFICES ASSUME NEW q \in Runs, NEW t \in Sources, Fetched(q, t)
             PROVE  Fetched(q, t)'
  OBVIOUS
<1>1. CASE q # r
  BY <1>1 DEF SameBut, Fetched
<1>2. CASE q = r
  <2>1. RunShape(run[r])
    BY DEF RunsOK
  <2>2. /\ run'[r].verify = run[r].verify /\ run'[r].entries = run[r].entries
        /\ \A u \in DOMAIN run[r].entries :
             run'[r].got[u] = IF u = s THEN bytes ELSE run[r].got[u]
    BY <2>1 DEF OwnFrame, RunShape, RunRecord
  <2>3. QED
    BY <1>2, <2>2 DEF Fetched
<1>3. QED
  BY <1>1, <1>2

\* A step over one file has to answer for that file only.
LEMMA VouchStep ==
  ASSUME RunsOK, Vouched, NEW r \in Runs, NEW s \in DOMAIN run[r].entries,
         NEW status, NEW bytes, NEW mixed, NEW alone,
         OwnFrame(run[r], run'[r], s, status, bytes, mixed, alone),
         mixed \ {s} = run[r].mixed \ {s}, alone \ {s} = run[r].alone \ {s},
         run[r].verify \/ bytes # Absent \/ bytes = run[r].got[s],
         \A q \in Runs \ {r} : SameBut(run[q], run'[q], s),
         \A t \in Sources \ {s} : raw'[t] = raw[t],
         \A q \in Runs : s \in DOMAIN run[q].entries =>
           /\ s \in run'[q].alone => raw'[s] = run[q].entries[s]
           /\ s \in run'[q].mixed \/ (run'[q].status[s] = "ok" /\ s \notin run'[q].alone) =>
                \E p \in Runs \ {q} : Fetched(p, s)'
  PROVE  Vouched'
<1>1. \A q \in Runs : \A t \in Sources : Fetched(q, t) => Fetched(q, t)'
  BY FetchedKept
<1>2. ASSUME NEW q \in Runs
      PROVE  /\ RunShape(run[q]) /\ run'[q].entries = run[q].entries
             /\ \A t \in DOMAIN run[q].entries \ {s} :
                  /\ run'[q].status[t] = run[q].status[t]
                  /\ t \in run'[q].alone <=> t \in run[q].alone
                  /\ t \in run'[q].mixed <=> t \in run[q].mixed
  <2>1. RunShape(run[q])
    BY DEF RunsOK
  <2>2. CASE q # r
    BY <2>1, <2>2 DEF SameBut
  <2>3. CASE q = r
    BY <2>1, <2>3 DEF OwnFrame, RunShape, RunRecord
  <2>4. QED
    BY <2>1, <2>2, <2>3
<1>3. ASSUME NEW q \in Runs, NEW t \in DOMAIN run'[q].entries
      PROVE  /\ t \in run'[q].alone => raw'[t] = run'[q].entries[t]
             /\ t \in run'[q].mixed \/ (run'[q].status[t] = "ok" /\ t \notin run'[q].alone) =>
                  \E p \in Runs \ {q} : Fetched(p, t)'
  <2>1. t \in DOMAIN run[q].entries /\ t \in Sources /\ run'[q].entries = run[q].entries
    BY <1>2, <1>3 DEF RunShape, RunRecord
  <2>2. CASE t = s
    BY <2>1, <2>2
  <2>3. CASE t # s
    <3>1. /\ run'[q].status[t] = run[q].status[t] /\ raw'[t] = raw[t]
          /\ t \in run'[q].alone <=> t \in run[q].alone
          /\ t \in run'[q].mixed <=> t \in run[q].mixed
      BY <1>2, <2>1, <2>3
    <3>2. /\ t \in run[q].alone => raw[t] = run[q].entries[t]
          /\ t \in run[q].mixed \/ (run[q].status[t] = "ok" /\ t \notin run[q].alone) =>
               \E p \in Runs \ {q} : Fetched(p, t)
      BY <2>1 DEF Vouched
    <3>3. QED
      BY <1>1, <2>1, <3>1, <3>2
  <2>4. QED
    BY <2>2, <2>3
<1>4. QED
  BY <1>3 DEF Vouched

LEMMA ReadVouched ==
  ASSUME JInv, NEW r \in Runs, NEW s \in Sources, Read(r, s)
  PROVE  Vouched'
<1> DEFINE x == run[r]
<1>1. /\ RunsOK /\ Vouched /\ RunShape(x) /\ Judged(x) /\ s \in DOMAIN x.entries
      /\ x.status[s] = "todo" /\ raw' = raw
  BY DEF JInv, IInv, RunsOK, RunShape, Read, Running
<1>2. PICK file \in IF x.verify THEN {raw[s]} \ {Absent} ELSE Responses(s) :
        \E status \in {"mismatch", "ok", "read"}, alone \in SUBSET DOMAIN x.entries :
          /\ OwnFrame(x, run'[r], s, status,
                      IF x.verify THEN file ELSE Keeps(s, file), x.mixed, alone)
          /\ status = "mismatch" <=> ~Matches(r, s, file)
          /\ status = "ok" <=> Matches(r, s, file) /\ x.verify
          /\ alone = IF status = "ok" THEN x.alone \cup {s} ELSE x.alone
  BY ReadRuns DEF JInv
<1>3. PICK status \in {"mismatch", "ok", "read"}, alone \in SUBSET DOMAIN x.entries :
          /\ OwnFrame(x, run'[r], s, status,
                      IF x.verify THEN file ELSE Keeps(s, file), x.mixed, alone)
          /\ status = "mismatch" <=> ~Matches(r, s, file)
          /\ status = "ok" <=> Matches(r, s, file) /\ x.verify
          /\ alone = IF status = "ok" THEN x.alone \cup {s} ELSE x.alone
  BY <1>2
<1> DEFINE bytes == IF x.verify THEN file ELSE Keeps(s, file)
<1>4. x.verify \/ bytes # Absent
  <2>1. SUFFICES ASSUME ~x.verify
                 PROVE  Keeps(s, file) # Absent
    OBVIOUS
  <2>2. file \in Responses(s) /\ site[s] \in Texts
    BY <2>1 DEF JInv, IInv, FilesOK
  <2>3. file \in Files /\ file.text # Absent.text
    <3>1. CASE file = Torn
      BY <3>1 DEF Files, Absent, Torn
    <3>2. CASE file # Torn
      <4>1. PICK w \in BOOLEAN, e \in {"lf", "crlf"} :
              file = [text |-> site[s], waf |-> w, ends |-> e]
        BY <2>2, <3>2 DEF Responses
      <4>2. file \in Bytes /\ file.text = site[s]
        BY <2>2, <4>1 DEF Bytes
      <4>3. QED
        BY <2>2, <4>2, FetchAssumption DEF Files
    <3>3. QED
      BY <3>1, <3>2
  <2>4. QED
    BY <2>3, NormalizeTwice DEF Keeps, Checksum
<1>5. \A q \in Runs \ {r} : SameBut(run[q], run'[q], s)
  <2>1. \A q \in Runs \ {r} : run'[q] = run[q]
    BY ReadRuns DEF JInv
  <2>2. QED
    BY <2>1 DEF SameBut
<1>6. s \notin x.alone
  BY <1>1 DEF Judged
<1>7. status = "ok" => raw[s] = x.entries[s]
  <2>1. SUFFICES ASSUME status = "ok"
                 PROVE  raw[s] = x.entries[s]
    OBVIOUS
  <2>2. file = raw[s] /\ raw[s] # Absent /\ Normalize(raw[s], Policies[s]) = x.entries[s]
    BY <1>2, <1>3, <2>1 DEF Matches, Checksum
  <2>3. raw[s] \in {Torn} \cup pinned[s]
    BY <2>2 DEF JInv, IInv, StoredBytesAreVerified
  <2>4. x.entries[s] \in Bytes
    BY <1>1 DEF RunShape, RunRecord
  <2>5. raw[s] # Torn
    BY <2>2, <2>4, FetchAssumption, NormalizeTwice DEF Files, Bytes, Torn
  <2>6. QED
    BY <2>2, <2>3, <2>5 DEF JInv, PinsNormal
<1>8. /\ run'[r].mixed = x.mixed /\ run'[r].alone = alone /\ run'[r].status[s] = status
  BY <1>1, <1>3 DEF OwnFrame, RunShape, RunRecord
<1>9. \A q \in Runs : \A t \in Sources : Fetched(q, t) => Fetched(q, t)'
  <2>1. OwnFrame(run[r], run'[r], s, status, bytes, x.mixed, alone)
    BY <1>3
  <2> HIDE DEF bytes
  <2>2. QED
    BY <1>1, <1>4, <1>5, <2>1, FetchedKept
<1>10. ASSUME NEW q \in Runs, s \in DOMAIN run[q].entries
       PROVE  /\ s \in run'[q].alone => raw'[s] = run[q].entries[s]
              /\ s \in run'[q].mixed \/ (run'[q].status[s] = "ok" /\ s \notin run'[q].alone) =>
                   \E p \in Runs \ {q} : Fetched(p, s)'
  <2>1. /\ s \in run[q].alone => raw[s] = run[q].entries[s]
        /\ s \in run[q].mixed \/ (run[q].status[s] = "ok" /\ s \notin run[q].alone) =>
             \E p \in Runs \ {q} : Fetched(p, s)
    BY <1>1, <1>10 DEF Vouched
  <2>2. CASE q # r
    <3>1. run'[q] = run[q]
      BY <2>2, ReadRuns DEF JInv
    <3>2. QED
      BY <1>1, <1>9, <2>1, <3>1
  <2>3. CASE q = r
    <3>1. s \in run'[q].alone => raw'[s] = run[q].entries[s]
      BY <1>1, <1>3, <1>6, <1>7, <1>8, <2>3
    <3>2. ~(run'[q].status[s] = "ok" /\ s \notin run'[q].alone)
      BY <1>3, <1>8, <2>3
    <3>3. QED
      BY <1>8, <1>9, <2>1, <2>3, <3>1, <3>2
  <2>4. QED
    BY <2>2, <2>3
<1>11. alone \ {s} = x.alone \ {s}
  BY <1>3
<1>12. OwnFrame(x, run'[r], s, status, bytes, x.mixed, alone)
  BY <1>3
<1> HIDE DEF bytes
<1>13. QED
  BY <1>1, <1>4, <1>5, <1>10, <1>11, <1>12, VouchStep

\* A fetch that has a response in its hands.
LEMMA HandsFull ==
  ASSUME JInv, NEW q \in Runs, NEW s \in Sources, Running(q, s, "read") \/ Running(q, s, "opened")
  PROVE  /\ Fetched(q, s) /\ run[q].got[s] = run[q].entries[s] /\ run[q].got[s] # Absent
         /\ s \in DOMAIN run[q].entries /\ s \notin run[q].alone
<1>1. RunShape(run[q]) /\ Judged(run[q]) /\ Holds(run[q])
  BY DEF JInv, IInv, RunsOK
<1>2. s \in DOMAIN run[q].entries /\ run[q].status[s] \in {"read", "opened"}
  BY <1>1 DEF RunShape, Running
<1>3. run[q].got[s] = run[q].entries[s] /\ ~run[q].verify /\ s \notin run[q].alone
  BY <1>1, <1>2 DEF Judged, Holds
<1>4. run[q].entries[s] \in Bytes
  BY <1>1, <1>2 DEF RunShape, RunRecord
<1>5. Absent \notin Bytes
  BY FetchAssumption DEF Absent, Bytes
<1>6. QED
  BY <1>2, <1>3, <1>4, <1>5 DEF Fetched

LEMMA OpenVouched ==
  ASSUME JInv, NEW r \in Runs, NEW s \in Sources, Open(r, s)
  PROVE  Vouched'
<1> DEFINE x == run[r]
           mixed == x.mixed \cup (IF \E p \in Runs : Contends(p, r, s) THEN {s} ELSE {})
<1>1. /\ Fetched(r, s) /\ x.got[s] # Absent /\ s \in DOMAIN x.entries /\ s \notin x.alone
      /\ RunsOK /\ Vouched /\ RunShape(x)
  BY HandsFull DEF Open, JInv, IInv, RunsOK
<1>2. OwnFrame(x, run'[r], s, "opened", x.got[s], mixed, x.alone)
  BY OpenRuns DEF JInv
<1>3. \A q \in Runs \ {r} : /\ OthersFrame(run[q], run'[q], s)
                            /\ run'[q].mixed = run[q].mixed \cup (IF Contends(q, r, s) THEN {s} ELSE {})
  BY OpenRuns DEF JInv
<1>4. \A q \in Runs \ {r} : SameBut(run[q], run'[q], s)
  BY <1>3 DEF SameBut, OthersFrame
<1>5. \A t \in Sources \ {s} : raw'[t] = raw[t]
  BY DEF Open, JInv, IInv, FilesOK
<1>6. run'[r].mixed = mixed /\ run'[r].alone = x.alone /\ run'[r].status[s] = "opened"
  BY <1>1, <1>2 DEF OwnFrame, RunShape, RunRecord
<1>7. mixed \ {s} = x.mixed \ {s}
  OBVIOUS
<1>8. \A p \in Runs : Contends(p, r, s) => p # r /\ Fetched(p, s)
  BY HandsFull DEF Contends
<1>9. s \in mixed => s \in x.mixed \/ \E p \in Runs \ {r} : Fetched(p, s)
  BY <1>8
<1> HIDE DEF x, mixed
<1>10. \A q \in Runs : \A t \in Sources : Fetched(q, t) => Fetched(q, t)'
  BY <1>1, <1>2, <1>4, FetchedKept DEF x
<1>11. ASSUME NEW q \in Runs, s \in DOMAIN run[q].entries
       PROVE  /\ s \in run'[q].alone => raw'[s] = run[q].entries[s]
              /\ s \in run'[q].mixed \/ (run'[q].status[s] = "ok" /\ s \notin run'[q].alone) =>
                   \E p \in Runs \ {q} : Fetched(p, s)'
  <2>1. CASE q # r
    <3>1. s \notin run'[q].alone
      BY <1>3, <2>1 DEF OthersFrame
    <3>2. Fetched(r, s)'
      BY <1>1, <1>10
    <3>3. QED
      BY <2>1, <3>1, <3>2
  <2>2. CASE q = r
    <3>1. s \notin run'[q].alone /\ run'[q].status[s] # "ok"
      BY <1>1, <1>6, <2>2
    <3>2. s \in x.mixed => \E p \in Runs \ {q} : Fetched(p, s)
      BY <1>11, <2>2, <1>1 DEF Vouched, x
    <3>3. QED
      BY <1>6, <1>9, <1>10, <2>2, <3>1, <3>2
  <2>3. QED
    BY <2>1, <2>2
<1>12. QED
  BY <1>1, <1>2, <1>4, <1>5, <1>7, <1>11, VouchStep DEF x

LEMMA WriteVouched ==
  ASSUME JInv, NEW r \in Runs, NEW s \in Sources, Write(r, s)
  PROVE  Vouched'
<1> DEFINE x == run[r]
           alone == IF s \in x.mixed THEN x.alone ELSE x.alone \cup {s}
<1>1. /\ Fetched(r, s) /\ x.got[s] # Absent /\ s \in DOMAIN x.entries /\ s \notin x.alone
      /\ RunsOK /\ Vouched /\ RunShape(x) /\ x.got[s] = x.entries[s]
  BY HandsFull DEF Write, JInv, IInv, RunsOK
<1>2. OwnFrame(x, run'[r], s, "ok", x.got[s], x.mixed, alone)
  BY WriteRuns DEF JInv
<1>3. \A q \in Runs \ {r} : /\ OthersFrame(run[q], run'[q], s)
                            /\ run'[q].mixed = run[q].mixed
  BY WriteRuns DEF JInv
<1>4. \A q \in Runs \ {r} : SameBut(run[q], run'[q], s)
  BY <1>3 DEF SameBut, OthersFrame
<1>5. /\ \A t \in Sources \ {s} : raw'[t] = raw[t]
      /\ s \notin x.mixed => raw'[s] = x.entries[s]
  BY <1>1 DEF Write, JInv, IInv, FilesOK
<1>6. run'[r].mixed = x.mixed /\ run'[r].alone = alone /\ run'[r].status[s] = "ok"
  BY <1>1, <1>2 DEF OwnFrame, RunShape, RunRecord
<1>7. /\ alone \ {s} = x.alone \ {s}
      /\ s \in x.mixed => s \notin alone
      /\ s \notin x.mixed => s \in alone
  BY <1>1
<1> HIDE DEF x, alone
<1>8. \A q \in Runs : \A t \in Sources : Fetched(q, t) => Fetched(q, t)'
  BY <1>1, <1>2, <1>4, FetchedKept DEF x
<1>9. ASSUME NEW q \in Runs, s \in DOMAIN run[q].entries
      PROVE  /\ s \in run'[q].alone => raw'[s] = run[q].entries[s]
             /\ s \in run'[q].mixed \/ (run'[q].status[s] = "ok" /\ s \notin run'[q].alone) =>
                  \E p \in Runs \ {q} : Fetched(p, s)'
  <2>1. CASE q # r
    <3>1. s \notin run'[q].alone
      BY <1>3, <2>1 DEF OthersFrame
    <3>2. Fetched(r, s)'
      BY <1>1, <1>8
    <3>3. QED
      BY <2>1, <3>1, <3>2
  <2>2. CASE q = r
    <3>1. s \in x.mixed => \E p \in Runs \ {q} : Fetched(p, s)
      BY <1>9, <2>2, <1>1 DEF Vouched, x
    <3>2. s \in run'[q].alone => raw'[s] = run[q].entries[s]
      BY <1>5, <1>6, <1>7, <2>2 DEF x
    <3>3. s \in run'[q].mixed \/ s \notin run'[q].alone => s \in x.mixed
      BY <1>6, <1>7, <2>2
    <3>4. QED
      BY <1>8, <3>1, <3>2, <3>3
  <2>3. QED
    BY <2>1, <2>2
<1>10. QED
  BY <1>1, <1>2, <1>4, <1>5, <1>7, <1>9, VouchStep DEF x

\* A source that fails is nobody's to vouch for.
LEMMA FailVouched ==
  ASSUME JInv, NEW r \in Runs, NEW s \in Sources, ReadFails(r, s) \/ WriteFails(r, s)
  PROVE  Vouched' /\ Judged(run'[r]) /\ \A q \in Runs \ {r} : run'[q] = run[q]
<1> DEFINE x == run[r]
<1>1. /\ RunsOK /\ Vouched /\ RunShape(x) /\ Judged(x) /\ s \in DOMAIN x.entries
      /\ x.phase = "running" /\ x.status[s] \in {"todo", "read", "opened"} /\ raw' = raw
  BY DEF JInv, IInv, RunsOK, RunShape, ReadFails, WriteFails, Running
<1>2. Settle(r, s, "error") /\ pinned' = pinned /\ "error" \in Statuses \ {"read", "opened"}
  BY DEF ReadFails, WriteFails, Statuses
<1>3. /\ OwnFrame(x, run'[r], s, "error", x.got[s], x.mixed, x.alone)
      /\ \A q \in Runs \ {r} : run'[q] = run[q]
  BY <1>1, <1>2, SettleRuns
<1>4. s \notin x.alone
  BY <1>1 DEF Judged
<1>5. Judged(run'[r])
  <2> DEFINE status == "error"
             bytes == x.got[s]
             y == run'[r]
  <2>1. /\ s \in DOMAIN x.entries /\ RunShape(x) /\ Judged(x) /\ x.phase = "running"
        /\ x.status[s] # "ok" /\ (status \in {"read", "opened"} => ~x.verify)
        /\ OwnFrame(x, y, s, status, bytes, x.mixed, x.alone)
        /\ status \in {"read", "opened", "ok"} => Normalize(bytes, Policies[s]) = x.entries[s]
        /\ status = "mismatch" => Normalize(bytes, Policies[s]) # x.entries[s]
        /\ x.alone \subseteq x.alone \cup (IF status = "ok" THEN {s} ELSE {})
    BY <1>1, <1>3
  <2> HIDE DEF x, status, bytes, y
  <2>2. Judged(y)
    BY <2>1, JudgedOwn, Zenon
  <2>3. QED
    BY <2>2 DEF y
<1>6. \A q \in Runs \ {r} : SameBut(run[q], run'[q], s)
  BY <1>3 DEF SameBut
<1>7. run'[r].mixed = x.mixed /\ run'[r].alone = x.alone /\ run'[r].status[s] = "error"
  BY <1>1, <1>3 DEF OwnFrame, RunShape, RunRecord
<1> HIDE DEF x
<1>8. \A q \in Runs : \A t \in Sources : Fetched(q, t) => Fetched(q, t)'
  BY <1>1, <1>3, <1>6, FetchedKept DEF x
<1>9. ASSUME NEW q \in Runs, s \in DOMAIN run[q].entries
      PROVE  /\ s \in run'[q].alone => raw'[s] = run[q].entries[s]
             /\ s \in run'[q].mixed \/ (run'[q].status[s] = "ok" /\ s \notin run'[q].alone) =>
                  \E p \in Runs \ {q} : Fetched(p, s)'
  <2>1. /\ s \in run[q].alone => raw[s] = run[q].entries[s]
        /\ s \in run[q].mixed \/ (run[q].status[s] = "ok" /\ s \notin run[q].alone) =>
             \E p \in Runs \ {q} : Fetched(p, s)
    BY <1>1, <1>9 DEF Vouched
  <2>2. CASE q # r
    BY <1>1, <1>3, <1>8, <2>1, <2>2
  <2>3. CASE q = r
    BY <1>1, <1>4, <1>7, <1>8, <2>1, <2>3 DEF x
  <2>4. QED
    BY <2>2, <2>3
<1>10. Vouched'
  BY <1>1, <1>3, <1>6, <1>9, VouchStep DEF x
<1>11. QED
  BY <1>3, <1>5, <1>10

LEMMA StartVouched ==
  ASSUME JInv, NEW r \in Runs, Start(r)
  PROVE  Vouched'
<1>1. /\ DOMAIN run[r].entries = {} /\ run'[r].mixed = {} /\ run'[r].alone = {}
      /\ \A s \in DOMAIN run'[r].entries : run'[r].status[s] = "todo"
  BY StartJudged
<1>2. \A q \in Runs \ {r} : run'[q] = run[q]
  BY DEF Start, JInv, IInv, RunsOK
<1>3. \A q \in Runs : \A t : Fetched(q, t) => Fetched(q, t)'
  BY <1>1, <1>2 DEF Fetched
<1>4. raw' = raw
  BY DEF Start
<1>5. ASSUME NEW q \in Runs, NEW t \in DOMAIN run'[q].entries
      PROVE  /\ t \in run'[q].alone => raw'[t] = run'[q].entries[t]
             /\ t \in run'[q].mixed \/ (run'[q].status[t] = "ok" /\ t \notin run'[q].alone) =>
                  \E p \in Runs \ {q} : Fetched(p, t)'
  <2>1. CASE q = r
    BY <1>1, <1>5, <2>1
  <2>2. CASE q # r
    BY <1>2, <1>3, <1>4, <1>5, <2>2 DEF Vouched, JInv
  <2>3. QED
    BY <2>1, <2>2
<1>6. QED
  BY <1>5 DEF Vouched

\* A run that ends says what it has judged.
LEMMA EndJudged ==
  ASSUME JInv, NEW r \in Runs, Report(r) \/ Kill(r)
  PROVE  /\ \A q \in Runs : Judged(run'[q])
         /\ Vouched'
<1> DEFINE x == run[r]
<1>1. /\ RunShape(x) /\ Judged(x) /\ x.phase = "running" /\ x \in RunRecord
      /\ DOMAIN run = Runs /\ raw' = raw
  BY DEF JInv, IInv, RunsOK, RunShape, Report, Kill
<1>2. PICK phase \in {"killed", "exit 0", "exit 1"} :
        /\ run' = [run EXCEPT ![r].phase = phase]
        /\ phase = "exit 0" => \A s \in DOMAIN x.status : x.status[s] = "ok"
  BY DEF Report, Exit, Kill
<1>3. /\ \A q \in Runs \ {r} : run'[q] = run[q]
      /\ run'[r] = [x EXCEPT !.phase = phase]
  BY <1>1, <1>2
<1> HIDE DEF x
<1>4. /\ run'[r].phase = phase /\ run'[r].verify = x.verify /\ run'[r].entries = x.entries
      /\ run'[r].status = x.status /\ run'[r].got = x.got /\ run'[r].mixed = x.mixed
      /\ run'[r].alone = x.alone
  BY <1>1, <1>3 DEF RunRecord
<1>5. phase = "exit 0" => \A s \in DOMAIN x.entries : x.status[s] = "ok"
  BY <1>1, <1>2 DEF x, RunShape
<1>6. Judged(run'[r])
  <2>1. DOMAIN x.entries # {}
    BY <1>1 DEF Judged
  <2>2. \A s \in DOMAIN x.entries :
          /\ Normalize(x.entries[s], Policies[s]) = x.entries[s]
          /\ x.status[s] \in {"read", "opened", "ok"} =>
               Normalize(x.got[s], Policies[s]) = x.entries[s]
          /\ x.status[s] = "mismatch" => Normalize(x.got[s], Policies[s]) # x.entries[s]
          /\ x.status[s] \in {"read", "opened"} => ~x.verify
          /\ s \in x.alone => x.status[s] = "ok"
    BY <1>1 DEF Judged
  <2> DEFINE y == run'[r]
  <2>3. /\ y.phase = phase /\ y.verify = x.verify /\ y.entries = x.entries
        /\ y.status = x.status /\ y.got = x.got /\ y.alone = x.alone
    BY <1>4
  <2> HIDE DEF y
  <2>4. Judged(y)
    BY <1>5, <2>1, <2>2, <2>3 DEF Judged
  <2>5. QED
    BY <2>4 DEF y
<1>7. \A q \in Runs : Judged(run'[q])
  BY <1>3, <1>6 DEF JInv
<1>8. \A q \in Runs : /\ run'[q].entries = run[q].entries /\ run'[q].status = run[q].status
                      /\ run'[q].got = run[q].got /\ run'[q].verify = run[q].verify
                      /\ run'[q].alone = run[q].alone /\ run'[q].mixed = run[q].mixed
  BY <1>3, <1>4 DEF x
<1>9. \A q \in Runs : \A t : Fetched(q, t) => Fetched(q, t)'
  BY <1>8 DEF Fetched
<1>10. ASSUME NEW q \in Runs, NEW t \in DOMAIN run'[q].entries
       PROVE  /\ t \in run'[q].alone => raw'[t] = run'[q].entries[t]
              /\ t \in run'[q].mixed \/ (run'[q].status[t] = "ok" /\ t \notin run'[q].alone) =>
                   \E p \in Runs \ {q} : Fetched(p, t)'
  <2>1. t \in DOMAIN run[q].entries
    BY <1>8, <1>10
  <2>2. /\ t \in run[q].alone => raw[t] = run[q].entries[t]
        /\ t \in run[q].mixed \/ (run[q].status[t] = "ok" /\ t \notin run[q].alone) =>
             \E p \in Runs \ {q} : Fetched(p, t)
    BY <2>1 DEF Vouched, JInv
  <2>3. (\E p \in Runs \ {q} : Fetched(p, t)) => \E p \in Runs \ {q} : Fetched(p, t)'
    BY <1>9
  <2>4. /\ run'[q].entries = run[q].entries /\ run'[q].status = run[q].status
        /\ run'[q].alone = run[q].alone /\ run'[q].mixed = run[q].mixed
    BY <1>8
  <2> HIDE DEF x
  <2>5. QED
    BY <1>1, <2>2, <2>3, <2>4
<1>11. Vouched'
  BY <1>10 DEF Vouched
<1>12. QED
  BY <1>7, <1>11

LEMMA NextReports == JInv /\ [Next]_vars => JInv'
<1> SUFFICES ASSUME JInv, [Next]_vars
             PROVE  JInv'
  OBVIOUS
<1>1. IInv'
  BY NextRuns, NextFiles DEF JInv, IInv
<1>2. ASSUME \A r \in Runs : Judged(run'[r]), Vouched', PinsNormal'
      PROVE  JInv'
  <2>1. \A r \in Runs : Judged(run[r])'
    BY <1>2 DEF Judged
  <2>2. QED
    BY <1>1, <1>2, <2>1 DEF JInv
<1>3. ASSUME pinned' = pinned
      PROVE  PinsNormal'
  BY <1>3 DEF PinsNormal, JInv
<1>4. ASSUME UNCHANGED <<run, raw>>
      PROVE  (\A r \in Runs : Judged(run'[r])) /\ Vouched'
  <2>1. \A r \in Runs : Judged(run'[r])
    BY <1>4 DEF JInv
  <2>2. Vouched'
    BY <1>4 DEF JInv, Vouched, Fetched
  <2>3. QED
    BY <2>1, <2>2
<1>5. ASSUME NEW s \in Sources, Drift(s)
      PROVE  JInv'
  BY <1>2, <1>3, <1>4, <1>5 DEF Drift
<1>6. CASE EditManifest
  <2>1. manifest' \in Manifests /\ DOMAIN manifest' \subseteq Sources
    BY <1>6, FetchAssumption DEF EditManifest
  <2>2. \A s \in Sources : \A bytes \in pinned'[s] :
          bytes \in pinned[s] \/ (s \in DOMAIN manifest' /\ bytes = manifest'[s])
    BY <1>6 DEF EditManifest
  <2>3. PinsNormal'
    BY <2>1, <2>2, PinAssumption DEF PinsNormal, JInv
  <2>4. QED
    BY <1>2, <1>4, <1>6, <2>3 DEF EditManifest
<1>7. ASSUME NEW r \in Runs, Start(r)
      PROVE  JInv'
  <2>1. \A q \in Runs \ {r} : run'[q] = run[q]
    BY <1>7 DEF Start, JInv, IInv, RunsOK
  <2>2. \A q \in Runs : Judged(run'[q])
    BY <1>7, <2>1, StartJudged DEF JInv
  <2>3. pinned' = pinned
    BY <1>7 DEF Start
  <2>4. QED
    BY <1>2, <1>3, <1>7, <2>2, <2>3, StartVouched
<1>8. ASSUME NEW r \in Runs, Report(r) \/ Kill(r)
      PROVE  JInv'
  <2>1. pinned' = pinned
    BY <1>8 DEF Report, Kill
  <2>2. QED
    BY <1>2, <1>3, <1>8, <2>1, EndJudged
<1>9. ASSUME NEW r \in Runs, NEW s \in Sources, SourceStep(r, s)
      PROVE  JInv'
  <2>1. pinned' = pinned
    BY <1>9 DEF SourceStep, ReadFails, Read, Open, Write, WriteFails
  <2>2. CASE ReadFails(r, s) \/ WriteFails(r, s)
    <3>1. \A q \in Runs : Judged(run'[q])
      BY <2>2, FailVouched DEF JInv
    <3>2. QED
      BY <1>2, <1>3, <2>1, <2>2, <3>1, FailVouched
  <2>3. CASE Read(r, s)
    <3>1. \A q \in Runs \ {r} : run'[q] = run[q]
      BY <2>3, ReadRuns DEF JInv
    <3>2. \A q \in Runs : Judged(run'[q])
      BY <2>3, <3>1, ReadJudged DEF JInv
    <3>3. QED
      BY <1>2, <1>3, <2>1, <2>3, <3>2, ReadVouched
  <2>4. CASE Open(r, s) \/ Write(r, s)
    <3>1. \A q \in Runs \ {r} : OthersFrame(run[q], run'[q], s)
      BY <2>4, OpenRuns, WriteRuns DEF JInv
    <3>2. \A q \in Runs \ {r} : Judged(run'[q])
      BY <3>1, JudgedOthers DEF JInv
    <3>3. \A q \in Runs : Judged(run'[q])
      BY <2>4, <3>2, WriteJudged
    <3>4. QED
      BY <1>2, <1>3, <2>1, <2>4, <3>3, OpenVouched, WriteVouched
  <2>5. QED
    BY <1>9, <2>2, <2>3, <2>4 DEF SourceStep
<1>10. CASE UNCHANGED vars
  BY <1>2, <1>3, <1>4, <1>10 DEF vars
<1>11. QED
  BY <1>5, <1>6, <1>7, <1>8, <1>9, <1>10 DEF Next

LEMMA ReportInvariance == Spec => []JInv
<1>1. Init => JInv
  <2> SUFFICES ASSUME Init
               PROVE  JInv
    OBVIOUS
  <2>1. manifest \in Manifests /\ DOMAIN manifest \subseteq Sources
    BY FetchAssumption DEF Init
  <2>2. PinsNormal
    BY <2>1, PinAssumption DEF Init, PinsNormal
  <2>3. \A r \in Runs : run[r] = NotRun
    BY DEF Init
  <2>4. Judged(NotRun)
    BY DEF Judged, NotRun
  <2>5. Vouched
    BY <2>3 DEF Vouched, NotRun
  <2>6. QED
    BY InitIInv, <2>2, <2>3, <2>4, <2>5 DEF JInv
<1>2. QED
  BY <1>1, NextReports, PTL DEF Spec

\* Exit code 0 can be relied on, by however many runs it is reported.
THEOREM OkIsReproduced == Spec => []OkMeansReproduced
<1>1. JInv => OkMeansReproduced
  <2> SUFFICES ASSUME JInv, NEW r \in Runs, run[r].phase = "exit 0"
               PROVE  /\ DOMAIN run[r].entries # {}
                      /\ \A s \in DOMAIN run[r].entries :
                           Normalize(run[r].got[s], Policies[s]) = run[r].entries[s]
                      /\ \A s \in DOMAIN run[r].entries :
                           \/ s \in run[r].alone /\ raw[s] = run[r].entries[s]
                           \/ \E q \in Runs \ {r} : s \in DOMAIN run[q].got
                                                    /\ run[q].got[s] # Absent /\ ~run[q].verify
    BY DEF OkMeansReproduced
  <2>1. Judged(run[r]) /\ Vouched /\ \A q \in Runs : RunShape(run[q])
    BY DEF JInv, IInv, RunsOK
  <2>2. /\ DOMAIN run[r].entries # {}
        /\ \A s \in DOMAIN run[r].entries :
             /\ run[r].status[s] = "ok"
             /\ Normalize(run[r].got[s], Policies[s]) = run[r].entries[s]
    BY <2>1 DEF Judged
  <2>3. ASSUME NEW s \in DOMAIN run[r].entries
        PROVE  \/ s \in run[r].alone /\ raw[s] = run[r].entries[s]
               \/ \E q \in Runs \ {r} : s \in DOMAIN run[q].got
                                        /\ run[q].got[s] # Absent /\ ~run[q].verify
    <3>1. \/ s \in run[r].alone /\ raw[s] = run[r].entries[s]
          \/ \E q \in Runs \ {r} : Fetched(q, s)
      BY <2>1, <2>2 DEF Vouched
    <3>2. QED
      BY <2>1, <3>1 DEF Fetched, RunShape
  <2>4. QED
    BY <2>2, <2>3
<1>2. QED
  BY <1>1, ReportInvariance, PTL

\* Drift is never reported for the noise the policies cover.
THEOREM MismatchesAreReal == Spec => []MismatchIsReal
<1>1. JInv => MismatchIsReal
  <2> SUFFICES ASSUME JInv, NEW r \in Runs, NEW s \in DOMAIN run[r].status,
                      run[r].status[s] = "mismatch"
               PROVE  \/ run[r].got[s].text # run[r].entries[s].text
                      \/ Policies[s] # "strip-waf" /\ run[r].got[s].waf # run[r].entries[s].waf
                      \/ Policies[s] # "crlf-to-lf" /\ run[r].got[s].ends # run[r].entries[s].ends
    BY DEF MismatchIsReal
  <2> DEFINE got == run[r].got[s]
             pin == run[r].entries[s]
  <2>1. Judged(run[r]) /\ RunShape(run[r]) /\ s \in DOMAIN run[r].entries /\ s \in Sources
    BY DEF JInv, IInv, RunsOK, RunShape, RunRecord
  <2>2. Normalize(pin, Policies[s]) = pin /\ Normalize(got, Policies[s]) # pin
    BY <2>1 DEF Judged
  <2>3. got \in Files /\ pin \in Files
    BY <2>1 DEF RunShape, RunRecord, Files
  <2>4. Policies[s] \in {"none", "strip-waf", "crlf-to-lf"}
    BY <2>1, FetchAssumption
  <2> HIDE DEF got, pin
  <2>5. /\ got = [text |-> got.text, waf |-> got.waf, ends |-> got.ends]
        /\ pin = [text |-> pin.text, waf |-> pin.waf, ends |-> pin.ends]
    BY <2>3 DEF Files, Bytes, Absent, Torn
  <2>6. CASE Policies[s] = "none"
    <3>1. got # pin
      BY <2>2, <2>6 DEF Normalize
    <3>2. got.text # pin.text \/ got.waf # pin.waf \/ got.ends # pin.ends
      BY <2>5, <3>1
    <3>3. QED
      BY <2>6, <3>2 DEF got, pin
  <2>7. CASE Policies[s] = "strip-waf"
    <3>1. pin.waf = FALSE
      BY <2>2, <2>5, <2>7 DEF Normalize
    <3>2. Normalize(got, Policies[s]) = [text |-> got.text, waf |-> FALSE, ends |-> got.ends]
      BY <2>5, <2>7 DEF Normalize
    <3>3. QED
      BY <2>2, <2>5, <2>7, <3>1, <3>2 DEF got, pin
  <2>8. CASE Policies[s] = "crlf-to-lf"
    <3>1. pin.ends = "lf"
      BY <2>2, <2>5, <2>8 DEF Normalize
    <3>2. Normalize(got, Policies[s]) = [text |-> got.text, waf |-> got.waf, ends |-> "lf"]
      BY <2>5, <2>8 DEF Normalize
    <3>3. QED
      BY <2>2, <2>5, <2>8, <3>1, <3>2 DEF got, pin
  <2>9. QED
    BY <2>4, <2>6, <2>7, <2>8
<1>2. QED
  BY <1>1, ReportInvariance, PTL
=============================================================================
