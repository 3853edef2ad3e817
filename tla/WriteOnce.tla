----------------------------- MODULE WriteOnce -----------------------------
(* What every versioned store promises: an entry is written once, under a   *)
(* key that has none, and is then read back as written for ever.            *)
EXTENDS FiniteSets

CONSTANTS Key, Value

VARIABLE stored         \* the entries, as pairs of a key and its value

KeysOf(entries) == {e[1] : e \in entries}

Init == stored = {}

(* A step adds one entry, and its key is new.                               *)
Write ==
    LET new == stored' \ stored IN
    /\ stored \subseteq stored'
    /\ Cardinality(new) = 1
    /\ KeysOf(new) \subseteq Key \ KeysOf(stored)
    /\ \A e \in new : e[2] \in Value

Spec == Init /\ [][Write]_stored
=============================================================================
