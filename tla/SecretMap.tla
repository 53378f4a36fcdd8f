----------------------------- MODULE SecretMap ------------------------------
(***************************************************************************)
(* What core/secret promises its callers: a map from references to         *)
(* credentials that is changed by whole requests.  A change is answered    *)
(* only once it would survive a power loss, a refused change leaves        *)
(* nothing behind, and a crash undoes at most what was not answered yet.   *)
(***************************************************************************)
CONSTANTS Refs, Materials, None

VARIABLES
    shown,  \* the map a reader sees, and a restarted process would read
    kept,   \* the map a power loss leaves
    asked,  \* the change under way, or None
    up      \* the store is open

mapVars == <<shown, kept, asked, up>>

Maps == [Refs -> Materials \cup {None}]
Empty == [r \in Refs |-> None]

\* A request's deletions, then its puts.
Changed(map, puts, deletes) ==
    [r \in Refs |-> IF puts[r] # None THEN puts[r]
                    ELSE IF r \in deletes THEN None ELSE map[r]]

MapInit == shown = Empty /\ kept = Empty /\ asked = None /\ up = FALSE

Ask ==
    /\ up /\ asked = None
    /\ \E puts \in Maps, deletes \in SUBSET Refs :
         asked' = [to |-> Changed(shown, puts, deletes), done |-> FALSE]
    /\ UNCHANGED <<shown, kept, up>>

Commit ==
    /\ asked # None /\ ~asked.done
    /\ shown' = asked.to
    /\ asked' = [to |-> asked.to, done |-> TRUE]
    /\ UNCHANGED <<kept, up>>

Answer ==
    /\ asked # None /\ asked.done
    /\ kept' = shown /\ asked' = None
    /\ UNCHANGED <<shown, up>>

Refuse ==
    /\ asked # None /\ ~asked.done
    /\ asked' = None
    /\ UNCHANGED <<shown, kept, up>>

Settle == kept' = shown /\ UNCHANGED <<shown, asked, up>>

Open == ~up /\ up' = TRUE /\ UNCHANGED <<shown, kept, asked>>

\* The store is closed, or its process or the machine stops.
Crash ==
    /\ up' = FALSE /\ asked' = None
    /\ shown' \in {shown, kept}
    /\ UNCHANGED kept

MapNext == Open \/ Ask \/ Commit \/ Answer \/ Refuse \/ Settle \/ Crash

MapSpec == MapInit /\ [][MapNext]_mapVars

=============================================================================
