--------------------------- MODULE MCChatService ---------------------------
(***************************************************************************)
(* ChatService with two turns of one conversation and one of another, one  *)
(* of them with an owner, and one process death.                           *)
(***************************************************************************)
EXTENDS ChatService, TLC

CONSTANTS r1, r2, r3, s1, s2

MCRequests == {r1, r2, r3}
MCSessions == {s1, s2}
MCSessionOf == (r1 :> s1) @@ (r2 :> s1) @@ (r3 :> s2)
\* What serve-cli.ts wires.
MCDeps == {[profileStore |-> TRUE, sessionStore |-> TRUE, summarize |-> TRUE]}
=============================================================================
