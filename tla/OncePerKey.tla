----------------------------- MODULE OncePerKey -----------------------------
(***************************************************************************)
(* What the enrichment cache promises, said without the builds that use    *)
(* it: a key's value is being produced or is there, never both; what is    *)
(* there is never produced again nor replaced; and a production that fails *)
(* leaves the key as it found it.                                          *)
(***************************************************************************)

CONSTANTS
  Keys,   \* the cache keys
  Values  \* what a production may yield

VARIABLES
  entries,  \* the values the cache holds, by key
  pending   \* the keys whose production is under way

onceVars == <<entries, pending>>

Init ==
  /\ DOMAIN entries \subseteq Keys
  /\ \A k \in DOMAIN entries : entries[k] \in Values
  /\ pending = {}

\* Some callers miss: each key they miss goes into production once.
Begin ==
  /\ pending \subseteq pending' /\ pending' \subseteq Keys
  /\ (pending' \ pending) \cap DOMAIN entries = {}
  /\ UNCHANGED entries

Finish ==
  \E k \in pending :
    /\ pending' = pending \ {k}
    /\ DOMAIN entries' = DOMAIN entries \cup {k}
    /\ entries'[k] \in Values
    /\ \A key \in DOMAIN entries : entries'[key] = entries[key]

Abandon ==
  \E k \in pending :
    /\ pending' = pending \ {k}
    /\ UNCHANGED entries

Next == Begin \/ Finish \/ Abandon

Spec == Init /\ [][Next]_onceVars
=============================================================================
