----------------------------- MODULE MCRetrieval -----------------------------
(* An instance of Retrieval for TLC: four chunks of three documents, one   *)
(* of each of three levels, with a service that knows them all, one it     *)
(* does not, or none; windows that hold less than the store.               *)
EXTENDS Retrieval

FourKeys == 1..4
ThreeDocuments == {"act", "guideline", "lease"}
KeyDocs == <<"lease", "act", "guideline", "lease">>
DocLevels == [d \in ThreeDocuments |-> CASE d = "act" -> 0 [] d = "guideline" -> 2 [] d = "lease" -> 6]
ThreeCorpora == {{}, ThreeDocuments, {"guideline", "lease"}}
ThreeWindows == {<<1, 3>>, <<2, 1>>, <<3, 1>>}
=============================================================================
