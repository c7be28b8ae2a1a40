------------------------------ MODULE MapTick ------------------------------
(***************************************************************************)
(* What the world thread relies on when it lets worker threads update the  *)
(* maps: a tick is a barrier.  While sessions are being served or delayed  *)
(* updates applied no map moves; in between every loaded map is updated    *)
(* exactly once, unless the tick unloads it or fails to; and a map that is *)
(* gone is not updated.                                                    *)
(***************************************************************************)
EXTENDS Naturals

CONSTANT Maps

VARIABLES
    phase,    \* what the world thread is doing
    loaded,   \* the maps of i_maps
    updates,  \* how often a map was updated in this tick
    skipped   \* maps this tick found unloadable but occupied

vars == <<phase, loaded, updates, skipped>>

Init ==
    /\ phase = "sessions" /\ loaded = {}
    /\ updates = [m \in Maps |-> 0] /\ skipped = {}

Create(m) ==
    /\ phase = "sessions" /\ m \notin loaded
    /\ loaded' = loaded \cup {m}
    /\ UNCHANGED <<phase, updates, skipped>>

BeginMaps ==
    /\ phase = "sessions" /\ phase' = "maps"
    /\ updates' = [m \in Maps |-> 0] /\ skipped' = {}
    /\ UNCHANGED loaded

Untouched(m) == m \in loaded \ skipped /\ updates[m] = 0

Unload(m) ==
    /\ phase = "maps" /\ Untouched(m)
    /\ loaded' = loaded \ {m}
    /\ UNCHANGED <<phase, updates, skipped>>

Skip(m) ==
    /\ phase = "maps" /\ Untouched(m)
    /\ skipped' = skipped \cup {m}
    /\ UNCHANGED <<phase, loaded, updates>>

Update(m) ==
    /\ phase = "maps" /\ Untouched(m)
    /\ updates' = [updates EXCEPT ![m] = 1]
    /\ UNCHANGED <<phase, loaded, skipped>>

EndMaps ==
    /\ phase = "maps" /\ \A m \in loaded : ~Untouched(m)
    /\ phase' = "delayed"
    /\ UNCHANGED <<loaded, updates, skipped>>

EndTick ==
    /\ phase = "delayed" /\ phase' = "sessions"
    /\ UNCHANGED <<loaded, updates, skipped>>

Stop ==
    /\ phase = "sessions" /\ phase' = "stopped"
    /\ loaded' = {}
    /\ UNCHANGED <<updates, skipped>>

Next ==
    \/ \E m \in Maps : Create(m) \/ Unload(m) \/ Skip(m) \/ Update(m)
    \/ BeginMaps \/ EndMaps \/ EndTick \/ Stop

Spec == Init /\ [][Next]_vars
=============================================================================
