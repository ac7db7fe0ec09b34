----------------------------- MODULE VoiceSlot -----------------------------
(***************************************************************************)
(* What the music player promises a guild: its one voice connection is     *)
(* asked for by one request at a time, belongs to one dispatcher while it  *)
(* lasts, and is never given back to a dispatcher that lost it.            *)
(***************************************************************************)
CONSTANTS Requests, Dispatchers, Free

VARIABLES
    holder,  \* who has the connection: a request that joins, a dispatcher, or Free
    lost     \* the dispatchers that had it and have it no more

vars == <<holder, lost>>

Init == holder = Free /\ lost = {}

Ask(r) == holder = Free /\ holder' = r /\ UNCHANGED lost

Connect(d) ==
    /\ holder \in Requests
    /\ d \notin lost
    /\ holder' = d
    /\ UNCHANGED lost

Refuse == holder \in Requests /\ holder' = Free /\ UNCHANGED lost

Drop ==
    /\ holder \in Dispatchers
    /\ holder' = Free
    /\ lost' = lost \union {holder}

Next ==
    \/ \E r \in Requests : Ask(r)
    \/ \E d \in Dispatchers : Connect(d)
    \/ Refuse
    \/ Drop

Spec == Init /\ [][Next]_vars
=============================================================================
