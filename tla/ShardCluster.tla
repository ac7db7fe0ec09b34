---------------------------- MODULE ShardCluster ----------------------------
(***************************************************************************)
(* The processes of one bot container: a primary that forks one worker per *)
(* shard range, at once or one per tick of an interval, and listens to     *)
(* what becomes of it; workers that load the bot when the primary's        *)
(* startup message reaches them.                                           *)
(***************************************************************************)
EXTENDS ShardPlan, Sequences, FiniteSets

CONSTANTS
    Totals,      \* the numbers of shards Discord may recommend
    CoreCounts,  \* the numbers of cores the host may have
    MaxWorkers,  \* bound on forks
    MaxFaults    \* bound on deaths of workers and failed requests

ASSUME TotalsAssumption == Totals \subseteq Nat \ {0}
ASSUME CoreCountsAssumption == CoreCounts \subseteq Nat \ {0}
ASSUME BoundsAssumption == MaxWorkers \in Nat /\ MaxFaults \in Nat

Worker == 1..MaxWorkers
NoRange == -1

VARIABLES
    total, cores,      \* what Discord and the host say
    maxConcurrency,    \* USE_MAX_CONCURRENCY
    customLaunch,      \* CUSTOM_CLUSTER_LAUNCH
    primary,           \* what the primary process is at
    next,              \* the loop variable of the launch
    staggered,         \* staggerLaunchQueue
    ticking,           \* staggerInterval is set
    forks,             \* number of workers forked
    state,             \* state[w]
    range,             \* range[w]: the range assigned to w, and its listeners with it
    mail,              \* mail[w]: the startup message is on its way
    news,              \* news[w]: events of w's death the primary has not seen
    code,              \* code[w]: exit code, 0 or 1
    faults             \* number of faults

config == <<total, cores, maxConcurrency, customLaunch>>
launch == <<next, staggered, ticking>>
wvars == <<forks, state, range, mail, news, code>>
vars == <<config, primary, launch, wvars, faults>>

Size == ShardsPerWorker(total, cores, maxConcurrency)
Count == WorkerCount(total, Size)
Running == {"forked", "online", "hosting"}

Init ==
    /\ total \in Totals /\ cores \in CoreCounts
    /\ maxConcurrency \in BOOLEAN /\ customLaunch \in BOOLEAN
    /\ primary = "asking"
    /\ next = 0 /\ staggered = <<>> /\ ticking = FALSE
    /\ forks = 0
    /\ state = [w \in Worker |-> "none"]
    /\ range = [w \in Worker |-> NoRange]
    /\ mail = [w \in Worker |-> FALSE]
    /\ news = [w \in Worker |-> {}]
    /\ code = [w \in Worker |-> 0]
    /\ faults = 0

-----------------------------------------------------------------------------
(* The launch.                                                             *)

\* GET /gateway/bot.
Answered ==
    /\ primary = "asking"
    /\ primary' = "launching"
    /\ UNCHANGED <<config, launch, wvars, faults>>

\* A failed request is logged; the primary stays, with nothing to do.
AskFails ==
    /\ primary = "asking"
    /\ faults < MaxFaults
    /\ primary' = "idle"
    /\ faults' = faults + 1
    /\ UNCHANGED <<config, launch, wvars>>

Fork == /\ forks < MaxWorkers
        /\ forks' = forks + 1
        /\ state' = [state EXCEPT ![forks + 1] = "forked"]

\* One turn of the loop: the first range may be left to somebody else.
LaunchOne ==
    /\ primary = "launching" /\ ~maxConcurrency
    /\ next < Count
    /\ next' = next + 1
    /\ \/ customLaunch /\ next = 0 /\ UNCHANGED <<forks, state, range>>
       \/ ~(customLaunch /\ next = 0) /\ Fork /\ range' = [range EXCEPT ![forks + 1] = next]
    /\ UNCHANGED <<config, primary, staggered, ticking, mail, news, code, faults>>

Ranges(n) == [i \in 1..n |-> i - 1]

\* The loop only queues the ranges, and runs to its end.
StaggerAll ==
    /\ primary = "launching" /\ maxConcurrency
    /\ next < Count
    /\ next' = Count
    /\ staggered' = Ranges(Count)
    /\ ticking' = TRUE
    /\ UNCHANGED <<config, primary, wvars, faults>>

LaunchEnds ==
    /\ primary = "launching"
    /\ next = Count
    /\ primary' = "up"
    /\ UNCHANGED <<config, launch, wvars, faults>>

Cleared == FALSE

\* The interval forks before it looks into the queue.
Tick ==
    /\ ticking /\ primary = "up"
    /\ Fork
    /\ \/ /\ staggered # <<>>
          /\ range' = [range EXCEPT ![forks + 1] = Head(staggered)]
          /\ staggered' = Tail(staggered)
          /\ UNCHANGED ticking
       \/ /\ staggered = <<>>
          /\ ticking' = Cleared
          /\ UNCHANGED <<range, staggered>>
    /\ UNCHANGED <<config, primary, next, mail, news, code, faults>>

-----------------------------------------------------------------------------
(* The workers.                                                            *)

Listened(w) == range[w] # NoRange

\* 'online': the primary answers with the startup message.
Online(w) ==
    /\ primary # "down"
    /\ state[w] = "forked"
    /\ state' = [state EXCEPT ![w] = "online"]
    /\ mail' = [mail EXCEPT ![w] = Listened(w)]
    /\ UNCHANGED <<config, primary, launch, forks, range, news, code, faults>>

\* assignWorkerInfo: the startup message makes the worker load the bot.
Startup(w) ==
    /\ state[w] = "online" /\ mail[w]
    /\ state' = [state EXCEPT ![w] = "hosting"]
    /\ mail' = [mail EXCEPT ![w] = FALSE]
    /\ UNCHANGED <<config, primary, launch, forks, range, news, code, faults>>

\* The process ends, for whatever reason.
Dies(w, c) ==
    /\ faults < MaxFaults
    /\ state[w] \in Running
    /\ state' = [state EXCEPT ![w] = "dead"]
    /\ code' = [code EXCEPT ![w] = c]
    /\ news' = [news EXCEPT ![w] = IF Listened(w) THEN {"disconnect", "exit"} ELSE {}]
    /\ mail' = [mail EXCEPT ![w] = FALSE]
    /\ faults' = faults + 1
    /\ UNCHANGED <<config, primary, launch, forks, range>>

\* A worker that lost its primary ends.
FollowsPrimary(w) ==
    /\ primary = "down"
    /\ state[w] \in Running
    /\ state' = [state EXCEPT ![w] = "dead"]
    /\ mail' = [mail EXCEPT ![w] = FALSE]
    /\ UNCHANGED <<config, primary, launch, forks, range, news, code, faults>>

-----------------------------------------------------------------------------
(* The death of a worker, as the primary sees it: two events in any order. *)

PrimaryEnds ==
    /\ primary' = "down"
    /\ ticking' = FALSE

\* 'disconnect': process.exit(1).
StayUp == UNCHANGED <<primary, ticking>>
OnDisconnect == PrimaryEnds

HearsDisconnect(w) ==
    /\ primary # "down"
    /\ "disconnect" \in news[w]
    /\ news' = [news EXCEPT ![w] = @ \ {"disconnect"}]
    /\ OnDisconnect
    /\ UNCHANGED <<config, next, staggered, forks, state, range, mail, code, faults>>

\* 'exit': code 0 is logged.  Any other code forks a replacement, but before it
\* gets its listeners the primary ends: module.exports is no function, and
\* nobody catches.
HearsExit(w) ==
    /\ primary # "down"
    /\ "exit" \in news[w]
    /\ news' = [news EXCEPT ![w] = @ \ {"exit"}]
    /\ \/ code[w] = 0 /\ UNCHANGED <<primary, ticking, forks, state>>
       \/ code[w] # 0 /\ Fork /\ PrimaryEnds
    /\ UNCHANGED <<config, next, staggered, range, mail, code, faults>>

-----------------------------------------------------------------------------
WorkerStep(w) ==
    \/ Online(w) \/ Startup(w) \/ FollowsPrimary(w)
    \/ HearsDisconnect(w) \/ HearsExit(w)

PrimaryStep == Answered \/ LaunchOne \/ StaggerAll \/ LaunchEnds \/ Tick

Next ==
    \/ PrimaryStep
    \/ AskFails
    \/ \E w \in Worker : WorkerStep(w)
    \/ \E w \in Worker, c \in {0, 1} : Dies(w, c)

\* The request is answered, the loop and the interval go on, processes start,
\* messages arrive and events are delivered.  Nobody has to die.
Fairness ==
    /\ WF_vars(PrimaryStep)
    /\ \A w \in Worker : WF_vars(WorkerStep(w))

Spec == Init /\ [][Next]_vars /\ Fairness

-----------------------------------------------------------------------------
(* Properties.                                                             *)

TypeOK ==
    /\ total \in Totals /\ cores \in CoreCounts
    /\ maxConcurrency \in BOOLEAN /\ customLaunch \in BOOLEAN
    /\ primary \in {"asking", "idle", "launching", "up", "down"}
    /\ next \in 0..Count
    /\ staggered \in Seq(0..(Count - 1))
    /\ ticking \in BOOLEAN
    /\ forks \in 0..MaxWorkers
    /\ state \in [Worker -> Running \union {"none", "dead"}]
    /\ range \in [Worker -> 0..(Count - 1) \union {NoRange}]
    /\ mail \in [Worker -> BOOLEAN]
    /\ news \in [Worker -> SUBSET {"disconnect", "exit"}]
    /\ code \in [Worker -> {0, 1}]
    /\ faults \in 0..MaxFaults

HostedBy(w) == IF Listened(w) THEN Shards(range[w], total, Size) ELSE {}

\* No shard is ever given to two workers, nor one Discord does not have.
ShardsDisjoint ==
    /\ \A w \in Worker : HostedBy(w) \subseteq 0..(total - 1)
    /\ \A v, w \in Worker : v # w => HostedBy(v) \cap HostedBy(w) = {}

\* The shards this container is to host: a custom launch leaves the first
\* range out.
Wanted ==
    IF customLaunch /\ ~maxConcurrency
    THEN {s \in 0..(total - 1) : s >= Size}
    ELSE 0..(total - 1)

\* Once the loop and the queue of the interval are through, every shard has been
\* given to a worker, whatever became of the workers since.
NoneLeftOut ==
    primary = "up" /\ staggered = <<>> =>
        \A s \in Wanted : \E w \in Worker : s \in HostedBy(w)

\* Every shard ends up with a worker that hosts it, unless something fails.
AllHosted ==
    <>(\/ faults > 0
       \/ \A s \in Wanted : \E w \in Worker : state[w] = "hosting" /\ s \in HostedBy(w))

\* A container with a dead worker does not come to rest in part: the primary is
\* down, or is still to see the disconnect, which exit code 0 does not take away.
DeathIsSeen ==
    \A w \in Worker :
        state[w] = "dead" /\ Listened(w) => primary = "down" \/ "disconnect" \in news[w]

\* One worker with shards down, all down: whatever its exit code, and in
\* whatever order the two events come, no container runs on in part.
OneDownAllDown ==
    \A w \in Worker :
        (state[w] = "dead" /\ Listened(w))
        ~> (primary = "down" /\ \A v \in Worker : state[v] \notin Running)

\* "Attempting to respawn a replacement": the range of a worker that died with
\* an exit code is hosted again.
RespawnHosts ==
    \A w \in Worker :
        (state[w] = "dead" /\ Listened(w) /\ code[w] # 0)
        ~> \E v \in Worker : state[v] = "hosting" /\ range[v] = range[w]

-----------------------------------------------------------------------------
(* What makes ShardsDisjoint inductive.                                    *)

\* Workers are forked in order, and each gets a range of its own.
OwnRange ==
    /\ \A w \in Worker : w > forks => range[w] = NoRange
    /\ \A v, w \in Worker : Listened(v) /\ Listened(w) /\ v # w => range[v] # range[w]

\* The loop gives the ranges away from the first to the last.
LoopAhead ==
    ~maxConcurrency => /\ staggered = <<>>
                       /\ \A w \in Worker : range[w] < next

\* So does the interval: the queue holds the last ranges, in order.
Given == Count - Len(staggered)

QueueAhead ==
    maxConcurrency =>
        IF next = 0
        THEN staggered = <<>> /\ \A w \in Worker : ~Listened(w)
        ELSE /\ next = Count
             /\ \A i \in DOMAIN staggered : staggered[i] = Given + i - 1
             /\ \A w \in Worker : range[w] < Given

IInv == TypeOK /\ OwnRange /\ LoopAhead /\ QueueAhead

\* What makes NoneLeftOut inductive: the loop and the interval skip no range.
FirstRange == IF customLaunch /\ ~maxConcurrency THEN 1 ELSE 0

NextRange ==
    IF ~maxConcurrency THEN next
    ELSE IF next = 0 THEN 0
    ELSE Given

NoneSkipped ==
    /\ \A i \in FirstRange..(NextRange - 1) : \E w \in Worker : range[w] = i
    /\ primary = "up" => next = Count

-----------------------------------------------------------------------------
(* How many processes a container forks.                                   *)

\* The replacement of a worker that died with an exit code: the primary forks
\* one, and ends.
Replacements == IF primary = "down" /\ \E w \in Worker : code[w] # 0 THEN 1 ELSE 0

\* A process per range, and no more ranges than the host has cores.  With max
\* concurrency the number of ranges knows no cores, and the interval forks one
\* process that gets no range, and only one.  The last process ever forked may
\* be a replacement.
ForksFit ==
    IF maxConcurrency THEN forks <= Count + 1 + Replacements
    ELSE forks <= Count + Replacements /\ Count <= cores

\* Only a dead process has an exit code.
CodesAreOfDead ==
    \A w \in Worker :
        /\ state[w] # "none" => w <= forks
        /\ code[w] # 0 => state[w] = "dead"

\* What makes it inductive: forks follow the loop, or what the interval has
\* taken from the queue.
ForksFollow ==
    /\ ticking => maxConcurrency /\ next # 0 /\ primary # "down"
    /\ IF ~maxConcurrency THEN forks <= next + Replacements
       ELSE IF next = 0 THEN forks <= Replacements
       ELSE forks <= Replacements + IF ticking THEN Given ELSE Given + 1
=============================================================================
