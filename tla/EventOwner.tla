----------------------------- MODULE EventOwner -----------------------------
(***************************************************************************)
(* What the handover promises about gateway events: every event name has   *)
(* one owner, which only the container started last can become, and a      *)
(* worker decides about an event in one step, by who owns its name then.   *)
(* Only a worker of the container that is being replaced, which has not    *)
(* been told so yet, may answer what it does not own.  Whoever cannot find *)
(* out who owns an event does nothing about it.                            *)
(***************************************************************************)
CONSTANTS
    Containers,
    Worker,     \* pairs of a container and a shard range
    EventNames,
    Message,    \* gateway events
    Nobody,     \* no owner
    NoEvent     \* stands for an event not delivered yet

VARIABLES
    owner,      \* owner[e]: the container that owns event name e
    newest,     \* the container started last
    event,      \* event[m]: name and range of a delivered gateway event
    verdict     \* verdict[m][w]: what worker w made of m

vars == <<owner, newest, event, verdict>>

Init ==
    /\ owner = [e \in EventNames |-> Nobody]
    /\ newest \in Containers
    /\ event = [m \in Message |-> NoEvent]
    /\ verdict = [m \in Message |-> [w \in Worker |-> "none"]]

Start(c) == newest' = c /\ UNCHANGED <<owner, event, verdict>>

Take(e) ==
    /\ owner' = [owner EXCEPT ![e] = newest]
    /\ UNCHANGED <<newest, event, verdict>>

Arrive(m, d, to) ==
    /\ event[m] = NoEvent
    /\ \A w \in to : w[2] = d.range
    /\ event' = [event EXCEPT ![m] = d]
    /\ verdict' = [verdict EXCEPT ![m] =
                     [w \in Worker |-> IF w \in to THEN "pending" ELSE "none"]]
    /\ UNCHANGED <<owner, newest>>

Owns(w, m) == owner[event[m].name] = w[1]

Decide(m, w, v) ==
    /\ verdict[m][w] = "pending"
    /\ verdict' = [verdict EXCEPT ![m][w] = v]
    /\ UNCHANGED <<owner, newest, event>>

Answer(m, w) == Decide(m, w, "answered") /\ Owns(w, m)
Ignore(m, w) == Decide(m, w, "ignored") /\ ~Owns(w, m)

\* Right all the same, or late to learn of the other container.
AnswerUntold(m, w) == Decide(m, w, "untold") /\ (w[1] = newest => Owns(w, m))

\* The worker fails to find out who owns the event.
Lose(m, w) == Decide(m, w, "lost")

\* What a container has not decided yet goes down with it.
Stop(c) ==
    /\ verdict' = [m \in Message |-> [w \in Worker |->
                     IF w[1] = c /\ verdict[m][w] = "pending" THEN "none" ELSE verdict[m][w]]]
    /\ UNCHANGED <<owner, newest, event>>

Next ==
    \/ \E c \in Containers : Start(c) \/ Stop(c)
    \/ \E e \in EventNames : Take(e)
    \/ \E m \in Message, w \in Worker :
          Answer(m, w) \/ Ignore(m, w) \/ AnswerUntold(m, w) \/ Lose(m, w)
    \/ \E m \in Message, e \in EventNames, to \in SUBSET Worker :
          \E v \in Worker : Arrive(m, [name |-> e, range |-> v[2]], to)

Spec == Init /\ [][Next]_vars
=============================================================================
