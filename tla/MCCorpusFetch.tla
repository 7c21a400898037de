---------------------------- MODULE MCCorpusFetch ----------------------------
(* An instance of CorpusFetch for TLC: two sources, one dressed by the CDN *)
(* and one with line endings, two texts, two overlapping runs.             *)
EXTENDS CorpusFetch, TLC

CONSTANTS r1, r2
TwoRuns == {r1, r2}
SameRuns == Permutations(TwoRuns)

PolicyOf == [s \in {"rta", "condo"} |-> IF s = "rta" THEN "strip-waf" ELSE "crlf-to-lf"]

\* What a manifest pins is normalized: its author computes it with checksum.
Pin(s, t) == Normalize([text |-> t, waf |-> FALSE, ends |-> "lf"], PolicyOf[s])
FewManifests ==
  {[s \in {"rta", "condo"} |-> Pin(s, "old")],
   [s \in {"rta"} |-> Pin(s, "new")]}
=============================================================================
