------------------------------- MODULE WsRelay -------------------------------
(***************************************************************************)
(* The websocket relay of the jobs service and the workers connected to    *)
(* it: identification, the statistics that the commands about and devstats *)
(* ask for, and the reload command.  Op 2, the flag of the handover, is in *)
(* ZeroDowntime.  Nobody sends op 2001, so 2002 and 5000 never occur.      *)
(*                                                                         *)
(* A request for statistics resets the totals of its worker and asks every *)
(* worker through the relay.  The relay passes every answer to every       *)
(* worker, which adds it to its totals whoever asked.  The field req of a  *)
(* message is history: the code does not send it.                          *)
(***************************************************************************)
EXTENDS Naturals, Sequences, FiniteSets

CONSTANTS
    Worker,      \* the workers of both containers
    Request,     \* calls of about and devstats
    Budget       \* bound on commands, dropped sockets and restarts of the relay

ASSUME BudgetAssumption == Budget \in Nat

VARIABLES
    sock,     \* sock[w]: readyState of the worker's socket
    kind,     \* kind[w]: socket.type at the relay
    up,       \* up[w]: messages from w the relay has not read
    down,     \* down[w]: messages from the relay w has not read
    totals,   \* totals[x][w][r]: how often x added the answer of w to r
    pc,       \* pc[r]: where request r is
    at,       \* at[r]: the worker that runs it
    loop,     \* the loop of op 10010
    ahead,    \* the sockets it has still to visit, in any order
    told,     \* told[w]: how many 10011 w has read
    spent,    \* number of commands and faults
    alone,    \* history: requests that found the relay quiet and stayed undisturbed
    stayed    \* history: sockets open since the loop began

conn == <<sock, kind>>
stats == <<totals, pc, at>>
reload == <<loop, ahead, told>>
vars == <<conn, up, down, stats, reload, spent, alone, stayed>>

ToRelay == [op : {"1003", "10010"}] \union [op : {"3000"}, req : Request]
             \union [op : {"3002"}, from : Worker, req : Request]
ToWorker == [op : {"1001", "1002", "10011"}] \union [op : {"3001"}, req : Request]
             \union [op : {"3003"}, from : Worker, req : Request]

IDENTIFY == [op |-> "1001"]
IDENTIFY_SUPPLY == [op |-> "1003"]
IDENTIFY_REPLY == [op |-> "1002"]
RELOAD == [op |-> "10010"]
RELOAD_ALL == [op |-> "10011"]
Asked(r) == [op |-> "3000", req |-> r]
AskedAll(r) == [op |-> "3001", req |-> r]
Answer(w, r) == [op |-> "3002", from |-> w, req |-> r]
Told(w, r) == [op |-> "3003", from |-> w, req |-> r]

Nothing == [w \in Worker |-> [r \in Request |-> 0]]
Silent == \A w \in Worker : up[w] = <<>> /\ down[w] = <<>>
AllOpen == \A w \in Worker : sock[w] = "open"

Init ==
    /\ sock = [w \in Worker |-> "connecting"]
    /\ kind = [w \in Worker |-> "none"]
    /\ up = [w \in Worker |-> <<>>]
    /\ down = [w \in Worker |-> <<>>]
    /\ totals = [w \in Worker |-> Nothing]
    /\ pc = [r \in Request |-> "idle"]
    /\ at \in [Request -> Worker]
    /\ loop = "idle"
    /\ ahead = {}
    /\ told = [w \in Worker |-> 0]
    /\ spent = 0
    /\ alone = {}
    /\ stayed = {}

-----------------------------------------------------------------------------
(* Sockets.                                                                *)

Spend == spent < Budget /\ spent' = spent + 1

Goes(w, s) == sock' = [sock EXCEPT ![w] = s]

\* Server.clients
Clients == {w \in Worker : sock[w] = "open"}

\* A Set of sockets: those not visited yet, then the new one.
Restarted(w) == Clients \union {w}
Rejoined(w) == ahead \union {w}

\* The relay greets a new socket, which a running loop will reach.
SocketOpens(w) ==
    /\ sock[w] = "connecting"
    /\ Goes(w, "open")
    /\ down' = [down EXCEPT ![w] = <<IDENTIFY>>]
    /\ ahead' = IF loop = "running" THEN Rejoined(w) ELSE ahead
    /\ UNCHANGED <<kind, up, stats, loop, told, spent, alone, stayed>>

StaysClosed(w) == Goes(w, "closed")
Restarts(w) == Goes(w, "connecting")

\* setTimeout(start, 500)
SocketRetries(w) ==
    /\ sock[w] = "closed"
    /\ Restarts(w)
    /\ UNCHANGED <<kind, up, down, stats, reload, spent, alone, stayed>>

ConnectFails(w) ==
    /\ Spend
    /\ sock[w] = "connecting"
    /\ Goes(w, "closed")
    /\ UNCHANGED <<kind, up, down, stats, reload, alone, stayed>>

\* What is under way on the sockets that close is lost.
Drop(gone) ==
    /\ sock' = [w \in Worker |-> IF w \in gone THEN "closed" ELSE sock[w]]
    /\ kind' = [w \in Worker |-> IF w \in gone THEN "none" ELSE kind[w]]
    /\ up' = [w \in Worker |-> IF w \in gone THEN <<>> ELSE up[w]]
    /\ down' = [w \in Worker |-> IF w \in gone THEN <<>> ELSE down[w]]
    /\ alone' = {}
    /\ stayed' = stayed \ gone

SocketCloses(w) ==
    /\ Spend
    /\ sock[w] = "open"
    /\ Drop({w})
    /\ ahead' = ahead \ {w}
    /\ UNCHANGED <<stats, loop, told>>

\* The relay is restarted: its loop is gone with it.
RelayRestarts ==
    /\ Spend
    /\ Drop(Worker)
    /\ ahead' = {}
    /\ loop' = IF loop = "running" THEN "done" ELSE loop
    /\ UNCHANGED <<stats, told>>

-----------------------------------------------------------------------------
(* The commands.                                                           *)

NotCleared(x) == totals
Cleared(x) == [totals EXCEPT ![x] = Nothing]

\* send: a socket that is closed drops the message, one that connects throws.
Send(w, m) == up' = IF sock[w] = "open" THEN [up EXCEPT ![w] = Append(@, m)] ELSE up

\* The first reply of the command has been awaited; nothing is read before it.
Ask(r) ==
    /\ Spend
    /\ pc[r] = "idle"
    /\ totals' = Cleared(at[r])
    /\ Send(at[r], Asked(r))
    /\ pc' = [pc EXCEPT ![r] = IF sock[at[r]] = "connecting" THEN "failed" ELSE "waiting"]
    /\ alone' = IF Silent /\ AllOpen /\ loop # "running" THEN {r} ELSE {}
    /\ UNCHANGED <<conn, down, at, reload, stayed>>

\* The sleep is over: the totals are shown as they are, whatever has come in.
Show(r) ==
    /\ pc[r] = "waiting"
    /\ pc' = [pc EXCEPT ![r] = "shown"]
    /\ UNCHANGED <<conn, up, down, totals, at, reload, spent, alone, stayed>>

\* One developer asks for a reload.
Reload(w) ==
    /\ Spend
    /\ loop = "idle"
    /\ loop' = "asked"
    /\ Send(w, RELOAD)
    /\ UNCHANGED <<conn, down, stats, ahead, told, alone, stayed>>

-----------------------------------------------------------------------------
(* The relay.                                                              *)

\* Server.clients.forEach
Broadcast(m) ==
    down' = [w \in Worker |-> IF sock[w] = "open" THEN Append(down[w], m) ELSE down[w]]

Read(q, w) == [q EXCEPT ![w] = Tail(@)]

\* A worker sends its range of shards; without one it would be a listener.
SocketType == "shard"

GreetsAgain == <<IDENTIFY_REPLY, IDENTIFY>>
IdentifyReply == <<IDENTIFY_REPLY>>

\* 4002 closes the socket, which retries like any other.
Identifies(w) ==
    IF kind[w] # "none"
    THEN /\ Drop({w})
         /\ ahead' = ahead \ {w}
    ELSE /\ kind' = [kind EXCEPT ![w] = SocketType]
         /\ up' = Read(up, w)
         /\ down' = [down EXCEPT ![w] = @ \o IdentifyReply]
         /\ UNCHANGED <<sock, ahead, alone, stayed>>

RelayIdentifies(w) ==
    /\ up[w] # <<>> /\ Head(up[w]).op = "1003"
    /\ Identifies(w)
    /\ UNCHANGED <<stats, loop, told, spent>>

RelayAsksAll(w) ==
    /\ up[w] # <<>> /\ Head(up[w]).op = "3000"
    /\ up' = Read(up, w)
    /\ Broadcast(AskedAll(Head(up[w]).req))
    /\ UNCHANGED <<conn, stats, reload, spent, alone, stayed>>

RelayTellsAll(w) ==
    /\ up[w] # <<>> /\ Head(up[w]).op = "3002"
    /\ up' = Read(up, w)
    /\ Broadcast(Told(Head(up[w]).from, Head(up[w]).req))
    /\ UNCHANGED <<conn, stats, reload, spent, alone, stayed>>

RelayStartsLoop(w) ==
    /\ up[w] # <<>> /\ Head(up[w]).op = "10010"
    /\ up' = Read(up, w)
    /\ loop' = "running"
    /\ ahead' = Clients
    /\ stayed' = Clients
    /\ UNCHANGED <<conn, down, stats, told, spent, alone>>

\* for (const x of Server.clients) { send; await sleep }: how long it sleeps is
\* left open.
RelayVisits(w) ==
    /\ loop = "running" /\ w \in ahead
    /\ down' = [down EXCEPT ![w] = Append(@, RELOAD_ALL)]
    /\ ahead' = ahead \ {w}
    /\ UNCHANGED <<conn, up, stats, loop, told, spent, alone, stayed>>

RelayEndsLoop ==
    /\ loop = "running" /\ ahead = {}
    /\ loop' = "done"
    /\ UNCHANGED <<conn, up, down, stats, ahead, told, spent, alone, stayed>>

-----------------------------------------------------------------------------
(* The workers.                                                            *)

RepliesTwice(w, r) == <<Answer(w, r), Answer(w, r)>>
Replies(w, r) == <<Answer(w, r)>>

Says(w, ms) == up' = [up EXCEPT ![w] = @ \o ms]

WorkerIdentifies(w) ==
    /\ down[w] # <<>> /\ Head(down[w]).op = "1001"
    /\ down' = Read(down, w)
    /\ Says(w, <<IDENTIFY_SUPPLY>>)
    /\ UNCHANGED <<conn, stats, reload, spent, alone, stayed>>

WorkerReplies(w) ==
    /\ down[w] # <<>> /\ Head(down[w]).op = "3001"
    /\ down' = Read(down, w)
    /\ Says(w, Replies(w, Head(down[w]).req))
    /\ UNCHANGED <<conn, stats, reload, spent, alone, stayed>>

Added(w, m) == [totals EXCEPT ![w][m.from][m.req] = @ + 1]

WorkerAdds(w) ==
    /\ down[w] # <<>> /\ Head(down[w]).op = "3003"
    /\ down' = Read(down, w)
    /\ totals' = Added(w, Head(down[w]))
    /\ UNCHANGED <<conn, up, pc, at, reload, spent, alone, stayed>>

\* 1002 is logged.  10011 throws at the second require, before it reloads anything.
WorkerHears(w) ==
    /\ down[w] # <<>> /\ Head(down[w]).op \in {"1002", "10011"}
    /\ down' = Read(down, w)
    /\ told' = [told EXCEPT ![w] = @ + IF Head(down[w]).op = "10011" THEN 1 ELSE 0]
    /\ UNCHANGED <<conn, up, stats, loop, ahead, spent, alone, stayed>>

-----------------------------------------------------------------------------
Sockets(w) == SocketOpens(w) \/ SocketRetries(w)
RelayReads(w) ==
    RelayIdentifies(w) \/ RelayAsksAll(w) \/ RelayTellsAll(w) \/ RelayStartsLoop(w)
WorkerReads(w) ==
    WorkerIdentifies(w) \/ WorkerReplies(w) \/ WorkerAdds(w) \/ WorkerHears(w)
Faults(w) == SocketCloses(w) \/ ConnectFails(w)

Next ==
    \/ \E w \in Worker :
          Sockets(w) \/ RelayReads(w) \/ WorkerReads(w) \/ RelayVisits(w) \/ Faults(w) \/ Reload(w)
    \/ \E r \in Request : Ask(r) \/ Show(r)
    \/ RelayEndsLoop
    \/ RelayRestarts

\* Event loops and timers go on; commands and faults need not come.
Fairness ==
    /\ \A w \in Worker : /\ WF_vars(Sockets(w)) /\ WF_vars(RelayVisits(w))
                         /\ WF_vars(RelayReads(w)) /\ WF_vars(WorkerReads(w))
    /\ \A r \in Request : WF_vars(Show(r))
    /\ WF_vars(RelayEndsLoop)

Spec == Init /\ [][Next]_vars /\ Fairness

-----------------------------------------------------------------------------
(* Properties.                                                             *)

Counts == [Worker -> [Request -> Nat]]

(* Every variable has its type.                                            *)
TypeOK ==
    /\ sock \in [Worker -> {"connecting", "open", "closed"}]
    /\ kind \in [Worker -> {"none", "shard"}]
    /\ up \in [Worker -> Seq(ToRelay)]
    /\ down \in [Worker -> Seq(ToWorker)]
    /\ totals \in [Worker -> Counts]
    /\ pc \in [Request -> {"idle", "waiting", "shown", "failed"}]
    /\ at \in [Request -> Worker]
    /\ loop \in {"idle", "asked", "running", "done"}
    /\ ahead \subseteq Worker
    /\ told \in [Worker -> Nat]
    /\ spent \in Nat
    /\ alone \subseteq Request
    /\ stayed \subseteq Worker

(* The answer of a worker to one request enters the totals of any worker,  *)
(* which are what a command shows, at most once, whatever sockets drop and *)
(* whatever the other requests do.                                         *)
OncePerRequest ==
    \A x, w \in Worker, r \in Request : totals[x][w][r] <= 1

Positions(s, m) == {i \in DOMAIN s : s[i] = m}
Times(s, m) == Cardinality(Positions(s, m))

\* Where the answer of w to r is on its way to the totals of x.
Flow(x, w, r) ==
    Times(up[at[r]], Asked(r)) + Times(down[w], AskedAll(r)) + Times(up[w], Answer(w, r))
      + Times(down[x], Told(w, r)) + totals[x][w][r]

(* A request that found the relay quiet, and that no other request and no  *)
(* fault disturbed, counts its own answers only; the answer of every       *)
(* worker is in exactly one place on its way to the totals or in them, so  *)
(* that the totals are complete once the relay is quiet again.             *)
AloneIsExact ==
    \A r \in alone :
        /\ \A w \in Worker, q \in Request \ {r} : totals[at[r]][w][q] = 0
        /\ \A w \in Worker : Flow(at[r], w, r) = 1

(* A socket that is identified is not identified again: the relay never    *)
(* closes one with 4002.                                                   *)
NotIdentifiedTwice ==
    \A w \in Worker :
        kind[w] = "shard" => Times(down[w], IDENTIFY) + Times(up[w], IDENTIFY_SUPPLY) = 0

(* The loop of a reload visits the clients while sockets open and close:   *)
(* a worker whose socket stays is told exactly once.                       *)
ReloadOnce ==
    \A w \in stayed : told[w] + Times(down[w], RELOAD_ALL) + (IF w \in ahead THEN 1 ELSE 0) = 1

(* Requests are answered by broadcasts that are answered in turn; still    *)
(* the traffic dies out, every worker is connected and no request waits.   *)
TrafficEnds ==
    <>[](Silent /\ AllOpen /\ loop # "running" /\ \A r \in Request : pc[r] # "waiting")
=============================================================================
