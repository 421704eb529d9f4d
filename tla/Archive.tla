------------------------------ MODULE Archive ------------------------------
(***************************************************************************)
(* What the request log promises of its disk: a turn that was kept stays   *)
(* kept until the forgetting of its key was asked for or its shard outlived *)
(* the retention period, and a turn that left never comes back.            *)
(***************************************************************************)
CONSTANTS Turns, Keys, KeyOf

VARIABLES
    kept,    \* turns an export may find
    left,    \* turns that were kept once and are not any more
    old,     \* turns that were kept for the retention period
    named    \* keys whose forgetting was asked for

archiveVars == <<kept, left, old, named>>

Init == kept = {} /\ left = {} /\ old = {} /\ named = {}

\* A batch reaches the disk.
Keep(S) ==
    /\ S \cap (kept \cup left) = {}
    /\ kept' = kept \cup S
    /\ UNCHANGED <<left, old, named>>

Age(S) ==
    /\ S \subseteq kept
    /\ old' = old \cup S
    /\ UNCHANGED <<kept, left, named>>

Name(k) ==
    /\ named' = named \cup {k}
    /\ UNCHANGED <<kept, left, old>>

\* Turns leave together: all of forgotten keys, or all past their time.
Leave(S) ==
    /\ S \subseteq kept
    /\ (\A t \in S : KeyOf[t] \in named) \/ S \subseteq old
    /\ kept' = kept \ S
    /\ left' = left \cup S
    /\ UNCHANGED <<old, named>>

Next ==
    \/ \E S \in SUBSET Turns : Keep(S) \/ Age(S) \/ Leave(S)
    \/ \E k \in Keys : Name(k)

Spec == Init /\ [][Next]_archiveVars
=============================================================================
