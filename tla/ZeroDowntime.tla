---------------------------- MODULE ZeroDowntime ----------------------------
(***************************************************************************)
(* The handover between the two bot containers, "no1" and "no2".           *)
(*                                                                         *)
(* Every container runs one worker per shard range.  A new container tells *)
(* every running worker, over the WebSocket relay, to start checking who   *)
(* owns an event; connects to the gateway; writes its uuid under the key   *)
(* event-<name> of every event name; tells its own workers to stop         *)
(* checking; and asks the docker controller to stop the other container.   *)
(* While both run, Discord delivers a gateway event to both, and each      *)
(* handles it or returns early after checkZeroDowntimeUUID.                *)
(***************************************************************************)
EXTENDS Naturals, Sequences, FiniteSets

CONSTANTS
    Ranges,      \* the shard ranges; each container has one worker per range
    EventNames,  \* the names under typeOnEvent and typeOnceEvent
    Message,     \* gateway events (bound: each is delivered at most once)
    NoEvent,     \* stands for an event not delivered yet
    MaxDeploys,  \* bound on container starts
    MaxFaults    \* bound on dropped sockets, dead containers, failed calls, overtaken stops

ASSUME RangesAssumption == Ranges # {}
ASSUME NoEventAssumption == NoEvent \notin [name : EventNames, range : Ranges]
ASSUME BoundsAssumption == MaxDeploys \in Nat /\ MaxFaults \in Nat

Uuid == {"no1", "no2"}
Other(u) == IF u = "no1" THEN "no2" ELSE "no1"

\* What checkZeroDowntimeUUID compares with when redis has no key.
NoUuid == "uuid"

Worker == Uuid \X Ranges
WorkersOf(u) == {u} \X Ranges

\* The payloads of op '1', which the relay sends on as op '2': a starting
\* container tells all workers to check, a ready one tells its own not to.
Flag == [restart : BOOLEAN, uuid : Uuid \union {"all"}]

RestartToOwnWorkers(u) == [restart |-> TRUE, uuid |-> u]
Restart(u) == [restart |-> TRUE, uuid |-> "all"]
Release(u) == [restart |-> FALSE, uuid |-> u]

AddressedTo(f, w) == f.uuid \in {w[1], "all"}

Phase == {"off", "boot", "wedged", "gateway", "session", "claim", "stop", "serve"}
\* The phases in which the worker's shards have a gateway session.
Online == {"session", "claim", "stop", "serve"}
Settled == {"off", "wedged", "serve"}

\* What a worker has made of a gateway event.
\* It answers because it read its own uuid ("owned") or because its flag told
\* it not to check; "untold" marks the second kind in a worker that missed, or
\* has not read yet, the message that it has to check.  "failed" is a redis read
\* that was rejected: the handler ends and does nothing about the event.
Progress ==
    {"none", "queued", "reading", "owned", "unchecked", "untold", "skipped", "failed"}

VARIABLES
    phase,      \* phase[w]: how far init() and the ready handler are
    claimed,    \* claimed[w]: the names the ready handler of w has written
    checkUUID,  \* checkUUID[w]: global.bot.checkUUID
    socket,     \* socket[w]: readyState of the worker's WebSocket
    inbox,      \* inbox[w]: op '2' messages the relay sent and w has not read
    eventKey,   \* eventKey[e]: the value of redis key event-<e>
    doomed,     \* containers with a stop on its way to docker
    event,      \* event[m]: name and range of a delivered gateway event
    progress,   \* progress[m][w]
    newest,     \* history: the container started last
    missed,     \* history: w may have missed a Restart since it started
    switched,   \* history: event[m]'s key changed hands since delivery
    ownerAt,    \* history: the owner of event[m]'s key at delivery
    deploys,    \* number of container starts
    faults      \* number of faults

wvars == <<phase, claimed, checkUUID, socket, inbox, missed>>
mvars == <<event, progress, switched, ownerAt>>
bounds == <<deploys, faults>>
vars == <<wvars, eventKey, doomed, mvars, newest, bounds>>

Init ==
    /\ phase = [w \in Worker |-> "off"]
    /\ claimed = [w \in Worker |-> {}]
    /\ checkUUID = [w \in Worker |-> TRUE]
    /\ socket = [w \in Worker |-> "closed"]
    /\ inbox = [w \in Worker |-> <<>>]
    /\ eventKey = [e \in EventNames |-> NoUuid]
    /\ doomed = {}
    /\ event = [m \in Message |-> NoEvent]
    /\ progress = [m \in Message |-> [w \in Worker |-> "none"]]
    /\ newest = "no1"
    /\ missed = [w \in Worker |-> FALSE]
    /\ switched = [m \in Message |-> FALSE]
    /\ ownerAt = [m \in Message |-> NoUuid]
    /\ deploys = 0
    /\ faults = 0

-----------------------------------------------------------------------------
(* The container: started by the operator, who waits for the running one   *)
(* to have finished its own start; stopped by the docker controller.       *)

\* A start may overtake a stop of the same container, which has crashed or was
\* not running; if nothing has failed before, that is a fault.
Deploy(u) ==
    /\ deploys < MaxDeploys
    /\ \/ (u \notin doomed \/ faults > 0) /\ UNCHANGED faults
       \/ u \in doomed /\ faults = 0 /\ MaxFaults > 0 /\ faults' = 1
    /\ \A w \in WorkersOf(u) : phase[w] = "off"
    /\ \A w \in WorkersOf(Other(u)) : phase[w] \in Settled
    /\ phase' = [w \in Worker |-> IF w[1] = u THEN "boot" ELSE phase[w]]
    /\ socket' = [w \in Worker |-> IF w[1] = u THEN "connecting" ELSE socket[w]]
    /\ newest' = u
    /\ deploys' = deploys + 1
    /\ UNCHANGED <<claimed, checkUUID, inbox, missed, eventKey, doomed, mvars>>

\* Every process of the container ends, and with it what it had in memory.
Dies(u) ==
    /\ phase' = [w \in Worker |-> IF w[1] = u THEN "off" ELSE phase[w]]
    /\ claimed' = [w \in Worker |-> IF w[1] = u THEN {} ELSE claimed[w]]
    /\ checkUUID' = [w \in Worker |-> IF w[1] = u THEN TRUE ELSE checkUUID[w]]
    /\ socket' = [w \in Worker |-> IF w[1] = u THEN "closed" ELSE socket[w]]
    /\ inbox' = [w \in Worker |-> IF w[1] = u THEN <<>> ELSE inbox[w]]
    /\ missed' = [w \in Worker |-> IF w[1] = u THEN FALSE ELSE missed[w]]
    /\ progress' = [m \in Message |-> [w \in Worker |->
                      IF w[1] = u /\ progress[m][w] \in {"queued", "reading"}
                      THEN "none" ELSE progress[m][w]]]
    /\ UNCHANGED <<eventKey, event, switched, ownerAt, newest, deploys>>

\* The stop the controller began without awaiting it takes effect, on whatever
\* runs in the container by then: nothing, if it has crashed, or what was
\* started since.
ContainerStops(u) ==
    /\ u \in doomed
    /\ doomed' = doomed \ {u}
    /\ Dies(u)
    /\ UNCHANGED faults

\* A worker's death ends the primary, and the primary's end every worker.
Crash(u) ==
    /\ faults < MaxFaults
    /\ \E w \in WorkersOf(u) : phase[w] # "off"
    /\ Dies(u)
    /\ faults' = faults + 1
    /\ UNCHANGED doomed

-----------------------------------------------------------------------------
(* The WebSocket of a worker and the relay.                                *)

SocketOpens(w) ==
    /\ socket[w] = "connecting"
    /\ socket' = [socket EXCEPT ![w] = "open"]
    /\ UNCHANGED <<phase, claimed, checkUUID, inbox, missed, eventKey, doomed, mvars, newest, bounds>>

\* 'close': what the relay sent and the worker has not read is gone.
SocketCloses(w) ==
    /\ faults < MaxFaults
    /\ socket[w] \in {"connecting", "open"}
    /\ socket' = [socket EXCEPT ![w] = "closed"]
    /\ inbox' = [inbox EXCEPT ![w] = <<>>]
    /\ missed' = [missed EXCEPT ![w] = @ \/ inbox[w] # <<>>]
    /\ faults' = faults + 1
    /\ UNCHANGED <<phase, claimed, checkUUID, eventKey, doomed, mvars, newest, deploys>>

\* setTimeout(start, 500) after 'close'.
SocketRetries(w) ==
    /\ phase[w] # "off"
    /\ socket[w] = "closed"
    /\ socket' = [socket EXCEPT ![w] = "connecting"]
    /\ UNCHANGED <<phase, claimed, checkUUID, inbox, missed, eventKey, doomed, mvars, newest, bounds>>

\* A sender whose socket is closing or closed loses the message in silence;
\* the relay skips every client that is not open.
Reached(w, sender) == socket[sender] = "open" /\ socket[w] = "open"

Send(sender, f) ==
    /\ inbox' = [w \in Worker |-> IF Reached(w, sender) THEN Append(inbox[w], f) ELSE inbox[w]]
    /\ missed' = [w \in Worker |->
                   missed[w] \/ (f.restart /\ phase[w] # "off" /\ ~Reached(w, sender))]

\* op '2' at the client.
ReceiveFlag(w) ==
    /\ inbox[w] # <<>>
    /\ LET f == Head(inbox[w])
       IN  checkUUID' = [checkUUID EXCEPT ![w] = IF AddressedTo(f, w) THEN f.restart ELSE @]
    /\ inbox' = [inbox EXCEPT ![w] = Tail(@)]
    /\ UNCHANGED <<phase, claimed, socket, missed, eventKey, doomed, mvars, newest, bounds>>

-----------------------------------------------------------------------------
(* A worker's start: init() and the once-only ready handler.               *)

\* send(restart: true) and then connect().  send throws while the socket is
\* connecting; the rejection of init() is logged and connect() never runs.
Hello(w) ==
    /\ phase[w] = "boot"
    /\ \/ /\ socket[w] = "connecting"
          /\ phase' = [phase EXCEPT ![w] = "wedged"]
          /\ UNCHANGED <<inbox, missed>>
       \/ /\ socket[w] # "connecting"
          /\ phase' = [phase EXCEPT ![w] = "gateway"]
          /\ Send(w, Restart(w[1]))
    /\ UNCHANGED <<claimed, checkUUID, socket, eventKey, doomed, mvars, newest, bounds>>

\* The gateway accepts the shards: events may come before the client is ready.
Identify(w) ==
    /\ phase[w] = "gateway"
    /\ phase' = [phase EXCEPT ![w] = "session"]
    /\ UNCHANGED <<claimed, checkUUID, socket, inbox, missed, eventKey, doomed, mvars, newest, bounds>>

\* The client's 'ready' event; its listener is attached with once().
EveryReady == {"session", "serve"}
FirstReady == {"session"}

Ready(w) ==
    /\ phase[w] \in FirstReady
    /\ phase' = [phase EXCEPT ![w] = "claim"]
    /\ claimed' = [claimed EXCEPT ![w] = {}]
    /\ UNCHANGED <<checkUUID, socket, inbox, missed, eventKey, doomed, mvars, newest, bounds>>

\* One awaited SET of the two loops.
ClaimKey(w, e) ==
    /\ phase[w] = "claim"
    /\ e \notin claimed[w]
    /\ claimed' = [claimed EXCEPT ![w] = @ \union {e}]
    /\ eventKey' = [eventKey EXCEPT ![e] = w[1]]
    /\ switched' = [m \in Message |->
                      switched[m] \/ (/\ event[m] # NoEvent
                                      /\ event[m].name = e
                                      /\ eventKey[e] # w[1])]
    /\ UNCHANGED <<phase, checkUUID, socket, inbox, missed, doomed,
                   event, progress, ownerAt, newest, bounds>>

\* A SET is rejected: the handler ends with the names it has written.  The
\* rejection is only logged, and the worker lives on.
ClaimFails(w) ==
    /\ phase[w] = "claim"
    /\ claimed[w] # EventNames
    /\ faults < MaxFaults
    /\ phase' = [phase EXCEPT ![w] = "serve"]
    /\ faults' = faults + 1
    /\ UNCHANGED <<claimed, checkUUID, socket, inbox, missed, eventKey, doomed, mvars, newest, deploys>>

\* send(restart: false) once the loops are over; a throw ends the handler.
OneClaimed(w) == claimed[w] # {}
AllClaimed(w) == claimed[w] = EventNames

ReleaseWorkers(w) ==
    /\ phase[w] = "claim"
    /\ AllClaimed(w)
    /\ \/ /\ socket[w] = "connecting"
          /\ phase' = [phase EXCEPT ![w] = "serve"]
          /\ UNCHANGED <<inbox, missed>>
       \/ /\ socket[w] # "connecting"
          /\ phase' = [phase EXCEPT ![w] = "stop"]
          /\ Send(w, Release(w[1]))
    /\ UNCHANGED <<claimed, checkUUID, socket, eventKey, doomed, mvars, newest, bounds>>

\* GET /api/docker?uuid=<the other>: the controller starts the stop and
\* answers at once.  The request itself may fail.
StopItself(w) == w[1]
StopTarget(w) == Other(w[1])

StopOther(w) ==
    /\ phase[w] = "stop"
    /\ phase' = [phase EXCEPT ![w] = "serve"]
    /\ \/ doomed' = doomed \union {StopTarget(w)} /\ UNCHANGED faults
       \/ /\ faults < MaxFaults
          /\ faults' = faults + 1
          /\ UNCHANGED doomed
    /\ UNCHANGED <<claimed, checkUUID, socket, inbox, missed, eventKey, mvars, newest, deploys>>

-----------------------------------------------------------------------------
(* Gateway events: a handler of a gated event starts with                  *)
(*     if (await checkZeroDowntimeUUID(name)) return                       *)

Receivers(r) == {w \in Worker : w[2] = r /\ phase[w] \in Online}

Deliver(m, e, r) ==
    /\ event[m] = NoEvent
    /\ Receivers(r) # {}
    /\ event' = [event EXCEPT ![m] = [name |-> e, range |-> r]]
    /\ progress' = [progress EXCEPT ![m] =
                      [w \in Worker |-> IF w \in Receivers(r) THEN "queued" ELSE "none"]]
    /\ ownerAt' = [ownerAt EXCEPT ![m] = eventKey[e]]
    /\ UNCHANGED <<wvars, eventKey, doomed, switched, newest, bounds>>

\* A message not yet read will make w check.
Untold(w) ==
    \E i \in DOMAIN inbox[w] : inbox[w][i].restart /\ AddressedTo(inbox[w][i], w)

\* if (!global.bot.checkUUID) return false, before the first await.
CheckFlag(w, m) ==
    /\ progress[m][w] = "queued"
    /\ progress' = [progress EXCEPT ![m][w] =
                      IF checkUUID[w] THEN "reading"
                      ELSE IF missed[w] \/ Untold(w) THEN "untold"
                      ELSE "unchecked"]
    /\ UNCHANGED <<wvars, eventKey, doomed, event, switched, ownerAt, newest, bounds>>

KeyIsMine(w, e) == eventKey[e] = w[1]

\* The GET of event-<name>, and what the handler does with the answer, or
\* without one.
CheckKey(w, m) ==
    /\ progress[m][w] = "reading"
    /\ \/ /\ progress' = [progress EXCEPT ![m][w] =
                            IF KeyIsMine(w, event[m].name) THEN "owned" ELSE "skipped"]
          /\ UNCHANGED faults
       \/ /\ faults < MaxFaults
          /\ progress' = [progress EXCEPT ![m][w] = "failed"]
          /\ faults' = faults + 1
    /\ UNCHANGED <<wvars, eventKey, doomed, event, switched, ownerAt, newest, deploys>>

-----------------------------------------------------------------------------
WorkerStep(w) ==
    \/ SocketOpens(w) \/ SocketRetries(w) \/ ReceiveFlag(w)
    \/ Hello(w) \/ Identify(w) \/ Ready(w)
    \/ \E e \in EventNames : ClaimKey(w, e)
    \/ ReleaseWorkers(w) \/ StopOther(w)

Next ==
    \/ \E u \in Uuid : Deploy(u) \/ ContainerStops(u) \/ Crash(u)
    \/ \E w \in Worker : SocketCloses(w) \/ ClaimFails(w) \/ WorkerStep(w)
    \/ \E m \in Message, e \in EventNames, r \in Ranges : Deliver(m, e, r)
    \/ \E w \in Worker, m \in Message : CheckFlag(w, m) \/ CheckKey(w, m)

\* Timers and awaited calls end; docker carries out a stop; the gateway
\* accepts a shard that identifies.  Operators and faults owe nothing.
Fairness ==
    /\ \A u \in Uuid : WF_vars(ContainerStops(u))
    /\ \A w \in Worker : WF_vars(WorkerStep(w))
    /\ \A w \in Worker, m \in Message : WF_vars(CheckFlag(w, m) \/ CheckKey(w, m))

Spec == Init /\ [][Next]_vars /\ Fairness

-----------------------------------------------------------------------------
(* Properties.                                                             *)

TypeOK ==
    /\ phase \in [Worker -> Phase]
    /\ claimed \in [Worker -> SUBSET EventNames]
    /\ checkUUID \in [Worker -> BOOLEAN]
    /\ socket \in [Worker -> {"closed", "connecting", "open"}]
    /\ inbox \in [Worker -> Seq(Flag)]
    /\ missed \in [Worker -> BOOLEAN]
    /\ eventKey \in [EventNames -> Uuid \union {NoUuid}]
    /\ doomed \in SUBSET Uuid
    /\ event \in [Message -> [name : EventNames, range : Ranges] \union {NoEvent}]
    /\ progress \in [Message -> [Worker -> Progress]]
    /\ switched \in [Message -> BOOLEAN]
    /\ ownerAt \in [Message -> Uuid \union {NoUuid}]
    /\ newest \in Uuid
    /\ deploys \in 0..MaxDeploys
    /\ faults \in 0..MaxFaults

\* A worker stops checking only when some worker of its container has written
\* every event key: the restart: false of the ready handler comes last.
ClaimBeforeRelease ==
    \A w \in Worker : ~checkUUID[w] => \E v \in WorkersOf(w[1]) : claimed[v] = EventNames

\* Whoever does not check although it was told of every restart owns every
\* key, so skipping the redis read never changes its answer.
UncheckedOwnsAll ==
    \A w \in Worker, e \in EventNames :
        ~checkUUID[w] /\ ~missed[w] /\ ~Untold(w) => eventKey[e] = w[1]

\* The event of one delivery is answered by both containers only if its key
\* changed hands meanwhile or one of them had not been told to check.
OneAnswer ==
    \A m \in Message, v, w \in Worker :
        /\ progress[m][v] \in {"owned", "unchecked"}
        /\ progress[m][w] \in {"owned", "unchecked"}
        /\ ~switched[m]
        => v[1] = w[1]

\* An event that everybody has decided about, and whose key had an owner and has
\* not changed hands, was answered, as long as nothing fails: its owner was online
\* on the range, was not stopped with the event unread, and did not drop it.
OwnedIsAnswered ==
    \A m \in Message :
        /\ faults = 0 /\ event[m] # NoEvent
        /\ ownerAt[m] # NoUuid /\ ~switched[m]
        /\ \A w \in Worker : progress[m][w] \notin {"queued", "reading"}
        => \E w \in Worker : progress[m][w] \in {"owned", "unchecked", "untold"}

\* A key only ever moves to the container started last: no late step of the
\* older one takes it back.
KeysMoveToNewest ==
    [][\A e \in EventNames : eventKey'[e] # eventKey[e] => eventKey'[e] = newest]_vars

\* What a worker has made of an event, decided or not.
VerdictOf(p) ==
    CASE p = "none" -> "none"
      [] p \in {"queued", "reading"} -> "pending"
      [] p \in {"owned", "unchecked"} -> "answered"
      [] p = "skipped" -> "ignored"
      [] p = "untold" -> "untold"
      [] p = "failed" -> "lost"

Verdict == [m \in Message |-> [w \in Worker |-> VerdictOf(progress[m][w])]]

Ownership == INSTANCE EventOwner
                 WITH Containers <- Uuid, Nobody <- NoUuid, owner <- eventKey,
                      verdict <- Verdict

\* A flag that may be stale and a redis read that comes later decide about an
\* event as one look at its owner would: the two awaits of
\* checkZeroDowntimeUUID, the ready handler and the relay implement EventOwner.
KeepsOwner == Ownership!Spec

\* Some worker online on range r would answer an event of name e now.
Served(r, e) ==
    \E w \in Worker : /\ w[2] = r
                      /\ phase[w] \in Online
                      /\ ~checkUUID[w] \/ KeyIsMine(w, e)

\* Zero downtime: no step of a handover leaves unserved an event name on a
\* range that was served, as long as nothing fails.
NoServiceGap ==
    [][faults' = 0 =>
         \A r \in Ranges, e \in EventNames : Served(r, e) => Served(r, e)']_vars

\* Once its shards are accepted, a container takes every key over and the
\* other one stops, as long as nothing fails.
HandoverCompletes ==
    \A u \in Uuid :
        (\E w \in WorkersOf(u) : phase[w] = "session")
        ~> \/ /\ \A e \in EventNames : eventKey[e] = u
              /\ \A w \in WorkersOf(Other(u)) : phase[w] = "off"
           \/ faults > 0

-----------------------------------------------------------------------------
(* What makes the properties inductive.                                    *)

\* Only the container started last is still starting.
OlderIsSettled == \A w \in Worker : w[1] # newest => phase[w] \in Settled

\* A stopped worker keeps nothing, and only a ready one has written keys.
StoppedIsReset ==
    \A w \in Worker :
        /\ phase[w] = "off" =>
             checkUUID[w] /\ inbox[w] = <<>> /\ socket[w] = "closed"
        /\ claimed[w] # {} => phase[w] \in {"claim", "stop", "serve"}

\* The relay carries only what Hello and ReleaseWorkers send.
Released(w, i) == inbox[w][i] = Release(w[1])

FlagsSent ==
    \A w \in Worker : \A i \in DOMAIN inbox[w] :
        inbox[w][i] \in {Restart(w[1])} \union {Release(u) : u \in Uuid}

\* The keys the newest container has written stay its own.
NewestKeepsKeys ==
    \A v \in Worker : v[1] = newest => \A e \in claimed[v] : eventKey[e] = newest

\* No release is in flight, or read, before a worker has written every key.
ReleaseAfterClaim ==
    \A w \in Worker :
        (~checkUUID[w] \/ \E i \in DOMAIN inbox[w] : Released(w, i))
        => \E v \in WorkersOf(w[1]) : AllClaimed(v)

\* w checks, or will once it has read its inbox, or has missed the order to.
WillCheck(w) ==
    \/ missed[w]
    \/ \E i \in DOMAIN inbox[w] :
          /\ inbox[w][i] = Restart(w[1])
          /\ \A j \in DOMAIN inbox[w] : j > i => ~Released(w, j)
    \/ checkUUID[w] /\ \A j \in DOMAIN inbox[w] : ~Released(w, j)

\* The newest container has said hello.
Spoken == \E v \in WorkersOf(newest) : phase[v] \notin {"off", "boot", "wedged"}

OlderWillCheck ==
    \A w \in Worker :
        /\ w[1] # newest
        /\ phase[w] # "off"
        /\ Spoken \/ \E e \in EventNames : eventKey[e] # w[1]
        => WillCheck(w)

\* What an answer says of the owner while the key has not changed hands.
AnswersMatchOwner ==
    \A m \in Message :
        /\ event[m] = NoEvent => \A w \in Worker : progress[m][w] = "none"
        /\ event[m] # NoEvent /\ ~switched[m] =>
             /\ eventKey[event[m].name] = ownerAt[m]
             /\ \A w \in Worker :
                  /\ progress[m][w] \in {"owned", "unchecked"} => ownerAt[m] = w[1]
                  /\ progress[m][w] = "skipped" => ownerAt[m] # w[1]

IInv ==
    /\ TypeOK
    /\ OlderIsSettled
    /\ StoppedIsReset
    /\ FlagsSent
    /\ NewestKeepsKeys
    /\ ReleaseAfterClaim
    /\ OlderWillCheck
    /\ AnswersMatchOwner

-----------------------------------------------------------------------------
(* What bounds the gap of a handover.                                      *)

\* The worker of range r in the newest container has no gateway session yet.
Starting(r) == phase[<<newest, r>>] \in {"boot", "wedged", "gateway"}

\* As long as nothing fails, an event name stays served on a range, unless it
\* already belongs to a new container whose worker of that range is starting.
GapIsStart ==
    [][faults' = 0 =>
         \A r \in Ranges, e \in EventNames :
             Served(r, e) => \/ Served(r, e)'
                             \/ (eventKey[e] = newest /\ Starting(r))']_vars

\* A container starts and stops with all its workers.
RunsWhole ==
    \A v, w \in Worker : v[1] = w[1] /\ phase[v] = "off" => phase[w] = "off"

\* The order to stop the other container comes after the keys.
StopAfterClaim == \A w \in Worker : phase[w] = "stop" => AllClaimed(w)

\* A key that somebody has written is never without an owner again.
ClaimedIsSet == \A w \in Worker : \A e \in claimed[w] : eventKey[e] # NoUuid

\* The owner of a key runs, and has written it since it started.
OwnerLives ==
    \A u \in Uuid, e \in EventNames :
        eventKey[e] = u => \E w \in WorkersOf(u) : e \in claimed[w]

\* Only a container whose successor serves with every key is to be stopped.
DoomedIsReplaced ==
    \A u \in doomed :
        /\ u # newest
        /\ \E w \in WorkersOf(newest) : phase[w] = "serve" /\ AllClaimed(w)

\* The owner of an event has it, or has answered it: with one worker per
\* container.
OwnerHasEvent ==
    faults = 0 =>
        \A m \in Message :
            event[m] # NoEvent /\ ~switched[m] /\ ownerAt[m] # NoUuid =>
                progress[m][<<ownerAt[m], event[m].range>>]
                    \in {"queued", "reading", "owned", "unchecked", "untold"}

GapInv ==
    /\ RunsWhole
    /\ StopAfterClaim
    /\ ClaimedIsSet
    /\ faults = 0 => OwnerLives /\ DoomedIsReplaced

-----------------------------------------------------------------------------
(* How a handover ends.                                                    *)

\* A ready handler that is through, and was not disturbed, leaves the other
\* container stopped or to be stopped, until that one is started again.
HandlerEndsOther ==
    faults = 0 =>
        \A w \in Worker :
            w[1] = newest /\ phase[w] = "serve" =>
                \/ Other(newest) \in doomed
                \/ \A v \in WorkersOf(Other(newest)) : phase[v] = "off"

\* A worker that got beyond its hello has an open socket until something fails.
SocketStays ==
    faults = 0 =>
        \A w \in Worker :
            /\ phase[w] # "off" => socket[w] # "closed"
            /\ phase[w] \notin {"off", "boot", "wedged"} => socket[w] = "open"
=============================================================================
