-------------------------------- MODULE Music --------------------------------
(***************************************************************************)
(* The music player of one guild: play commands that share the guild's     *)
(* entry of the queue map, the voice connection behind it, and the         *)
(* dispatchers that outlive their entry.                                   *)
(*                                                                         *)
(* A play command awaits the track search, every call of Queue.handle and  *)
(* the reply; whatever it does after an await it does to the dispatcher it *)
(* got before.  Tracks are counted: their order is no concern here, so     *)
(* shuffling leaves the state alone, and so do the commands that only send *)
(* to Lavalink (skip asks it to end the track, which may end anyway).      *)
(***************************************************************************)
EXTENDS Naturals, FiniteSets

CONSTANTS
    Requests,        \* play commands; each runs once
    MaxTracks,       \* bound on the tracks one command resolves to
    MaxDispatchers,  \* bound on the dispatchers created
    MaxFaults        \* bound on refused joins, failed replies, player errors

ASSUME BoundsAssumption ==
    MaxTracks \in Nat /\ MaxDispatchers \in Nat /\ MaxFaults \in Nat

Dispatcher == 1..MaxDispatchers
NoDispatcher == 0

VARIABLES
    pc,          \* pc[r]: where the play command r is
    size,        \* size[r]: number of tracks it resolved to
    handled,     \* handled[r]: how many of them Queue.handle has taken
    mine,        \* mine[r]: what the first handle returned, NoDispatcher for null
    link,        \* link[d]: the voice connection of d's player
    registered,  \* the guild's entry in the queue map
    queued,      \* queued[d]: length of d.queue
    playing,     \* playing[d]: Lavalink has a track of d and will report its end
    paused,      \* paused[d]: player.paused
    repeat,      \* repeat[d]: d.repeat is not 'off'
    made,        \* number of dispatchers created
    nodeLost,    \* history: the Lavalink node was lost with its players
    faults       \* number of faults

rvars == <<pc, size, handled, mine>>
dvars == <<link, registered, queued, playing>>
vars == <<rvars, dvars, paused, repeat, made, nodeLost, faults>>

Init ==
    /\ pc = [r \in Requests |-> "idle"]
    /\ size = [r \in Requests |-> 0]
    /\ handled = [r \in Requests |-> 0]
    /\ mine = [r \in Requests |-> NoDispatcher]
    /\ link = [d \in Dispatcher |-> "none"]
    /\ registered = NoDispatcher
    /\ queued = [d \in Dispatcher |-> 0]
    /\ playing = [d \in Dispatcher |-> FALSE]
    /\ paused = [d \in Dispatcher |-> FALSE]
    /\ repeat = [d \in Dispatcher |-> FALSE]
    /\ made = 0
    /\ nodeLost = FALSE
    /\ faults = 0

-----------------------------------------------------------------------------
(* The dispatcher.                                                         *)

Live(d) == link[d] = "live"

\* get exists(): the guild has an entry, whichever dispatcher it is.
Exists == registered # NoDispatcher

\* destroy() empties the queue, drops the connection, and deletes the guild's
\* entry whichever dispatcher it is.
KeepTracks(d) == UNCHANGED queued
EmptyQueue(d) == queued' = [queued EXCEPT ![d] = 0]

DropOnly(d) ==
    /\ EmptyQueue(d)
    /\ link' = [link EXCEPT ![d] = "closed"]
    /\ playing' = [playing EXCEPT ![d] = FALSE]
    /\ UNCHANGED registered

Destroy(d) ==
    /\ EmptyQueue(d)
    /\ link' = [link EXCEPT ![d] = "closed"]
    /\ playing' = [playing EXCEPT ![d] = FALSE]
    /\ registered' = NoDispatcher

\* play() with n tracks in the queue.
PlayUnregistered(d, n) ==
    \/ /\ n = 0
       /\ Destroy(d)
    \/ /\ n > 0
       /\ queued' = [queued EXCEPT ![d] = n - 1]
       /\ playing' = [playing EXCEPT ![d] = Live(d)]
       /\ UNCHANGED <<link, registered>>

Play(d, n) ==
    \/ /\ ~Exists \/ n = 0
       /\ Destroy(d)
    \/ /\ Exists /\ n > 0
       /\ queued' = [queued EXCEPT ![d] = n - 1]
       /\ playing' = [playing EXCEPT ![d] = Live(d)]
       /\ UNCHANGED <<link, registered>>

\* The player's 'end' and 'stuck' events: a repeated track is queued again.  A
\* paused track ends when it is skipped.
TrackEnds(d) ==
    /\ Live(d) /\ playing[d]
    /\ Play(d, queued[d] + (IF repeat[d] THEN 1 ELSE 0))
    /\ UNCHANGED <<rvars, paused, repeat, made, nodeLost, faults>>

\* The player's 'closed' and 'exception' events.
PlayerFails(d) ==
    /\ faults < MaxFaults
    /\ Live(d)
    /\ Destroy(d)
    /\ faults' = faults + 1
    /\ UNCHANGED <<rvars, paused, repeat, made, nodeLost>>

\* manager.players.has(guild): set when a join begins, removed when it fails
\* or the connection is dropped.
AnyLive == \E d \in Dispatcher : Live(d)
HasPlayer == AnyLive \/ \E r \in Requests : pc[r] = "joining"

\* The manager's 'disconnect' event: the entry goes and the player with it,
\* but the dispatcher's queue stays.
NodeLost ==
    /\ faults < MaxFaults
    /\ HasPlayer
    /\ registered' = NoDispatcher
    /\ link' = [d \in Dispatcher |-> IF Live(d) THEN "closed" ELSE link[d]]
    /\ playing' = [d \in Dispatcher |-> FALSE]
    /\ pc' = [r \in Requests |-> IF pc[r] = "joining" THEN "failed" ELSE pc[r]]
    /\ nodeLost' = TRUE
    /\ faults' = faults + 1
    /\ UNCHANGED <<size, handled, mine, queued, paused, repeat, made>>

-----------------------------------------------------------------------------
(* The play command.                                                       *)

\* The search has answered with n tracks.
Resolve(r, n) ==
    /\ pc[r] = "idle"
    /\ pc' = [pc EXCEPT ![r] = "handle"]
    /\ size' = [size EXCEPT ![r] = n]
    /\ UNCHANGED <<handled, mine, dvars, paused, repeat, made, nodeLost, faults>>

\* On to the next track of the list, or to the reply.
Advance(r) ==
    /\ handled' = [handled EXCEPT ![r] = @ + 1]
    /\ pc' = [pc EXCEPT ![r] = IF handled[r] + 1 = size[r] THEN "reply" ELSE "handle"]

\* handle(): the guild has a dispatcher.  (Its current is {} at least, so
\* handle never starts it.)
HandleExisting(r) ==
    /\ pc[r] = "handle"
    /\ Exists
    /\ queued' = [queued EXCEPT ![registered] = @ + 1]
    /\ Advance(r)
    /\ UNCHANGED <<size, mine, link, registered, playing, paused, repeat, made, nodeLost, faults>>

\* handle() answers 'Busy', which the playlist loop ignores.
HandleBusy(r) ==
    /\ pc[r] = "handle"
    /\ ~Exists /\ HasPlayer
    /\ \/ handled[r] = 0 /\ pc' = [pc EXCEPT ![r] = "busy"] /\ UNCHANGED handled
       \/ handled[r] > 0 /\ Advance(r)
    /\ UNCHANGED <<size, mine, dvars, paused, repeat, made, nodeLost, faults>>

\* handle() asks the node to join the voice channel.
HandleJoin(r) ==
    /\ pc[r] = "handle"
    /\ ~Exists /\ ~HasPlayer
    /\ pc' = [pc EXCEPT ![r] = "joining"]
    /\ UNCHANGED <<size, handled, mine, dvars, paused, repeat, made, nodeLost, faults>>

\* The join is done: a new dispatcher gets the track and the guild's entry.
\* The playlist loop drops what handle returns.
Joined(r) ==
    /\ pc[r] = "joining"
    /\ made < MaxDispatchers
    /\ made' = made + 1
    /\ link' = [link EXCEPT ![made + 1] = "live"]
    /\ queued' = [queued EXCEPT ![made + 1] = 1]
    /\ registered' = made + 1
    /\ mine' = [mine EXCEPT ![r] = IF handled[r] = 0 THEN made + 1 ELSE @]
    /\ Advance(r)
    /\ UNCHANGED <<size, playing, paused, repeat, nodeLost, faults>>

\* A refused join or a failed reply rejects the command.
Rejected(r) ==
    /\ faults < MaxFaults
    /\ pc[r] \in {"joining", "reply"}
    /\ pc' = [pc EXCEPT ![r] = "failed"]
    /\ faults' = faults + 1
    /\ UNCHANGED <<size, handled, mine, dvars, paused, repeat, made, nodeLost>>

\* The reply is out: dispatcher?.play().
StartNothing(r) == UNCHANGED dvars

StartMine(r) ==
    \/ mine[r] = NoDispatcher /\ UNCHANGED dvars
    \/ mine[r] # NoDispatcher /\ Play(mine[r], queued[mine[r]])

Replied(r) ==
    /\ pc[r] = "reply"
    /\ pc' = [pc EXCEPT ![r] = "done"]
    /\ StartMine(r)
    /\ UNCHANGED <<size, handled, mine, paused, repeat, made, nodeLost, faults>>

-----------------------------------------------------------------------------
(* The other commands find the dispatcher by the guild's entry.            *)

Stop ==
    /\ Exists
    /\ Destroy(registered)
    /\ UNCHANGED <<rvars, paused, repeat, made, nodeLost, faults>>

\* clearqueue, and remove.
Shorten ==
    /\ Exists
    /\ queued[registered] > 0
    /\ \/ EmptyQueue(registered)
       \/ queued' = [queued EXCEPT ![registered] = @ - 1]
    /\ UNCHANGED <<rvars, link, registered, playing, paused, repeat, made, nodeLost, faults>>

TogglePause ==
    /\ Exists
    /\ paused' = [paused EXCEPT ![registered] = ~@]
    /\ UNCHANGED <<rvars, dvars, repeat, made, nodeLost, faults>>

\* loop: the button is pressed up to 30 s after the dispatcher was looked up;
\* one that lost its connection meanwhile does not read the field again.
SetRepeat(d, on) ==
    /\ Live(d)
    /\ repeat' = [repeat EXCEPT ![d] = on]
    /\ UNCHANGED <<rvars, dvars, paused, made, nodeLost, faults>>

-----------------------------------------------------------------------------
RequestStep(r) ==
    HandleExisting(r) \/ HandleBusy(r) \/ HandleJoin(r) \/ Joined(r) \/ Replied(r)

Next ==
    \/ \E r \in Requests : RequestStep(r) \/ Rejected(r)
    \/ \E r \in Requests, n \in 1..MaxTracks : Resolve(r, n)
    \/ \E d \in Dispatcher : TrackEnds(d) \/ PlayerFails(d)
    \/ NodeLost
    \/ Stop \/ Shorten \/ TogglePause
    \/ \E d \in Dispatcher, on \in BOOLEAN : SetRepeat(d, on)

\* Awaited calls settle, and a track that is not paused ends: play takes
\* seekable tracks only, no streams.
Fairness ==
    /\ \A r \in Requests : WF_vars(RequestStep(r))
    /\ \A d \in Dispatcher : WF_vars(~paused[d] /\ TrackEnds(d))

Spec == Init /\ [][Next]_vars /\ Fairness

-----------------------------------------------------------------------------
(* Properties.                                                             *)

TypeOK ==
    /\ pc \in [Requests -> {"idle", "handle", "joining", "reply", "done", "busy", "failed"}]
    /\ size \in [Requests -> 0..MaxTracks]
    /\ handled \in [Requests -> 0..MaxTracks]
    /\ mine \in [Requests -> Dispatcher \union {NoDispatcher}]
    /\ link \in [Dispatcher -> {"none", "live", "closed"}]
    /\ registered \in Dispatcher \union {NoDispatcher}
    /\ queued \in [Dispatcher -> Nat]
    /\ playing \in [Dispatcher -> BOOLEAN]
    /\ paused \in [Dispatcher -> BOOLEAN]
    /\ repeat \in [Dispatcher -> BOOLEAN]
    /\ made \in 0..MaxDispatchers
    /\ nodeLost \in BOOLEAN
    /\ faults \in 0..MaxFaults

\* A guild has at most one voice connection, joining or joined, however the
\* play commands interleave and however many dispatchers are left over.
OneConnection ==
    /\ \A q, r \in Requests : pc[q] = "joining" /\ pc[r] = "joining" => q = r
    /\ \A c, d \in Dispatcher : Live(c) /\ Live(d) => c = d
    /\ AnyLive => \A r \in Requests : pc[r] # "joining"

\* The entry commands and play requests find is never a dispatcher whose
\* connection is gone, although every old dispatcher may still touch it.
RegisteredIsLive == registered # NoDispatcher => Live(registered)

\* A dispatcher that lost its connection has no track left for the late
\* play() of its command to send, unless the node was lost.
ClosedHoldsNothing ==
    ~nodeLost => \A d \in Dispatcher : ~Live(d) => queued[d] = 0

\* Once a play command is done, the dispatcher it opened the connection for
\* plays or has dropped it, whatever was stopped or taken over meanwhile.
DonePlays ==
    \A r \in Requests :
        pc[r] = "done" /\ mine[r] # NoDispatcher /\ Live(mine[r]) => playing[mine[r]]

\* A dispatcher that plays on without the guild's entry lets the connection go.
OrphanEnds ==
    \A d \in Dispatcher :
        (Live(d) /\ registered # d /\ playing[d] /\ ~paused[d]) ~> ~Live(d)

\* 'Busy' is answered with "Connecting to voice channel...".
BusyMeansConnecting ==
    [][\A r \in Requests : pc'[r] = "busy" /\ pc[r] # "busy" =>
         \E q \in Requests : pc[q] = "joining"]_vars

-----------------------------------------------------------------------------
(* The promise this keeps: at most one holder of the voice connection.     *)

Joining == {r \in Requests : pc[r] = "joining"}
Connected == {d \in Dispatcher : Live(d)}

Holder ==
    IF Joining # {} THEN CHOOSE r \in Joining : TRUE
    ELSE IF Connected # {} THEN CHOOSE d \in Connected : TRUE
    ELSE NoDispatcher

Slot == INSTANCE VoiceSlot
            WITH Dispatchers <- Dispatcher, Free <- NoDispatcher, holder <- Holder,
                 lost <- {d \in Dispatcher : link[d] = "closed"}

\* Every step of the music player is a step of the abstract voice slot.
KeepsSlot == Slot!Spec

-----------------------------------------------------------------------------
(* What makes the properties inductive.                                    *)

\* A command has tracks left as long as it handles them.
TracksLeft ==
    \A r \in Requests :
        /\ pc[r] = "idle" => handled[r] = 0
        /\ pc[r] \in {"handle", "joining"} => handled[r] < size[r]

\* Dispatchers are created in order, and only created ones are referred to.
CreatedInOrder ==
    /\ \A d \in Dispatcher : link[d] = "none" <=> d > made
    /\ \A r \in Requests : mine[r] <= made
    /\ registered <= made

\* Whoever joins found no entry, and nobody makes one meanwhile.
JoinsUnregistered == Exists => Joining = {}

PlayingIsLive == \A d \in Dispatcher : playing[d] => Live(d)

IInv ==
    /\ TypeOK
    /\ TracksLeft
    /\ CreatedInOrder
    /\ JoinsUnregistered
    /\ PlayingIsLive
    /\ OneConnection
    /\ RegisteredIsLive
    /\ ClosedHoldsNothing
    /\ DonePlays
=============================================================================
