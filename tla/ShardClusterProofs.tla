------------------------- MODULE ShardClusterProofs -------------------------
(* Proofs about the shard cluster, for any numbers of shards and cores.    *)
EXTENDS ShardCluster, TLAPS

-----------------------------------------------------------------------------
(* Arithmetic of the plan.                                                 *)

LEMMA CeilDivFacts ==
  ASSUME NEW a \in Nat, a > 0, NEW b \in Nat, b > 0
  PROVE  CeilDiv(a, b) \in Nat /\ CeilDiv(a, b) > 0 /\ a <= CeilDiv(a, b) * b
  BY DEF CeilDiv

LEMMA RangesAscend ==
  ASSUME NEW i \in Nat, NEW j \in Nat, i < j, NEW size \in Nat
  PROVE  (i + 1) * size <= j * size
  OBVIOUS

\* Different ranges share no shard, and none exceeds the total.
LEMMA ShardsApart ==
  ASSUME NEW t \in Nat, t > 0, NEW size \in Nat, size > 0,
         NEW i \in Nat, NEW j \in Nat, i # j
  PROVE  /\ Shards(i, t, size) \subseteq 0..(t - 1)
         /\ Shards(i, t, size) \cap Shards(j, t, size) = {}
  <1>1. /\ i * size \in Nat /\ j * size \in Nat
        /\ (i + 1) * size \in Nat /\ (j + 1) * size \in Nat
    OBVIOUS
  <1>2. (i + 1) * size <= j * size \/ (j + 1) * size <= i * size
    BY RangesAscend
  <1>3. Shards(i, t, size) \subseteq 0..(t - 1)
    BY <1>1 DEF Shards, ShardStart, ShardEnd
  <1>4. ASSUME NEW s \in Shards(i, t, size), s \in Shards(j, t, size)
        PROVE  FALSE
    BY <1>1, <1>2, <1>4 DEF Shards, ShardStart, ShardEnd
  <1>5. QED
    BY <1>3, <1>4

LEMMA ConfigFacts ==
  ASSUME total \in Totals, cores \in CoreCounts
  PROVE  /\ total \in Nat /\ total > 0
         /\ Size \in Nat /\ Size > 0
         /\ Count \in Nat /\ Count > 0
  <1>1. total \in Nat /\ total > 0 /\ cores \in Nat /\ cores > 0
    BY TotalsAssumption, CoreCountsAssumption
  <1>2. CeilDiv(total, cores) \in Nat
    BY <1>1, CeilDivFacts
  <1>3. Size \in Nat /\ Size > 0
    BY <1>1, <1>2 DEF Size, ShardsPerWorker
  <1>4. QED
    BY <1>1, <1>3, CeilDivFacts DEF Count, WorkerCount

-----------------------------------------------------------------------------
(* The inductive invariant.                                                *)

LEMMA InitIInv == Init => IInv
  <1> SUFFICES ASSUME Init PROVE IInv
    OBVIOUS
  <1>1. Count \in Nat /\ Count > 0
    BY ConfigFacts DEF Init
  <1>2. 0 \in 0..MaxWorkers /\ 0 \in 0..MaxFaults /\ 0 \in 0..Count
    BY <1>1, BoundsAssumption
  <1>3. TypeOK
    <2>1. <<>> \in Seq(0..(Count - 1)) /\ NoRange \in 0..(Count - 1) \union {NoRange}
      OBVIOUS
    <2>2. /\ forks \in 0..MaxWorkers /\ faults \in 0..MaxFaults /\ next \in 0..Count
          /\ staggered \in Seq(0..(Count - 1))
          /\ total \in Totals /\ cores \in CoreCounts
          /\ maxConcurrency \in BOOLEAN /\ customLaunch \in BOOLEAN /\ ticking \in BOOLEAN
          /\ primary \in {"asking", "idle", "launching", "up", "down"}
      BY <1>2, <2>1 DEF Init
    <2>3. /\ state \in [Worker -> Running \union {"none", "dead"}]
          /\ range \in [Worker -> 0..(Count - 1) \union {NoRange}]
          /\ mail \in [Worker -> BOOLEAN]
          /\ news \in [Worker -> SUBSET {"disconnect", "exit"}]
          /\ code \in [Worker -> {0, 1}]
      BY <2>1 DEF Init
    <2>4. QED
      BY <2>2, <2>3, Zenon DEF TypeOK
  <1>4. OwnRange /\ LoopAhead /\ QueueAhead
    BY DEF Init, OwnRange, LoopAhead, QueueAhead, Listened, NoRange
  <1>5. QED
    BY <1>3, <1>4 DEF IInv

\* Steps that neither fork nor touch the queue.
LEMMA SameLaunch ==
  ASSUME IInv, UNCHANGED <<config, next, staggered, forks, range>>
  PROVE  /\ Count' = Count
         /\ OwnRange' /\ LoopAhead' /\ QueueAhead'
  <1>1. Count' = Count
    BY DEF config, Count, Size
  <1>2. QED
    BY <1>1 DEF config, IInv, OwnRange, LoopAhead, QueueAhead, Listened, Given

\* The worker forked next has no range yet.
LEMMA ForkFacts ==
  ASSUME IInv, Fork
  PROVE  /\ forks + 1 \in Worker /\ range[forks + 1] = NoRange
         /\ forks' \in 0..MaxWorkers
         /\ state' \in [Worker -> Running \union {"none", "dead"}]
  <1>1. forks + 1 \in Worker
    BY BoundsAssumption DEF Fork, Worker, IInv, TypeOK
  <1>2. range[forks + 1] = NoRange
    BY <1>1 DEF IInv, OwnRange, TypeOK
  <1>3. QED
    BY <1>1, <1>2, BoundsAssumption DEF Fork, IInv, TypeOK, Running, Worker

LEMMA LaunchOneStep == IInv /\ LaunchOne => IInv'
  <1> SUFFICES ASSUME IInv, LaunchOne PROVE IInv'
    OBVIOUS
  <1>1. Count' = Count /\ Count \in Nat /\ Count > 0
    BY ConfigFacts DEF LaunchOne, config, Count, Size, IInv, TypeOK
  <1>2. /\ ~maxConcurrency /\ next \in Nat /\ next < Count /\ next' = next + 1
        /\ staggered' = staggered /\ maxConcurrency' = maxConcurrency
    BY <1>1 DEF LaunchOne, config, IInv, TypeOK
  <1>3. \A w \in Worker : range[w] \in Int /\ range[w] < next
    BY <1>1, <1>2 DEF IInv, TypeOK, LoopAhead, NoRange
  <1>4. CASE UNCHANGED <<forks, state, range>>
    <2>1. TypeOK'
      BY <1>1, <1>2, <1>4 DEF LaunchOne, config, IInv, TypeOK
    <2>2. OwnRange'
      BY <1>4 DEF IInv, OwnRange, Listened
    <2>3. LoopAhead' /\ QueueAhead'
      BY <1>2, <1>3, <1>4 DEF IInv, LoopAhead, QueueAhead
    <2>4. QED
      BY <2>1, <2>2, <2>3 DEF IInv
  <1>5. CASE Fork /\ range' = [range EXCEPT ![forks + 1] = next]
    <2>1. PICK n \in Worker : n = forks + 1 /\ range[n] = NoRange
      BY <1>5, ForkFacts
    <2>2. range' = [range EXCEPT ![n] = next] /\ forks' = n
      BY <1>5, <2>1 DEF Fork
    <2>3. next \in 0..(Count - 1) /\ next' \in 0..Count
      BY <1>1, <1>2
    <2>4. TypeOK'
      BY <1>1, <1>2, <1>5, <2>2, <2>3, ForkFacts DEF LaunchOne, config, IInv, TypeOK
    <2>5. OwnRange'
      BY <1>2, <1>3, <2>1, <2>2 DEF IInv, TypeOK, OwnRange, Listened, NoRange, Worker
    <2>6. LoopAhead' /\ QueueAhead'
      BY <1>2, <1>3, <2>2 DEF IInv, TypeOK, LoopAhead, QueueAhead
    <2>7. QED
      BY <2>4, <2>5, <2>6 DEF IInv
  <1>6. QED
    BY <1>4, <1>5 DEF LaunchOne

LEMMA StaggerAllStep == IInv /\ StaggerAll => IInv'
  <1> SUFFICES ASSUME IInv, StaggerAll PROVE IInv'
    OBVIOUS
  <1>1. Count' = Count /\ Count \in Nat /\ Count > 0
    BY ConfigFacts DEF StaggerAll, config, Count, Size, IInv, TypeOK
  <1>2. maxConcurrency /\ maxConcurrency' /\ next' = Count /\ UNCHANGED <<forks, range>>
    BY DEF StaggerAll, config, wvars
  <1>3. /\ staggered' \in Seq(0..(Count - 1)) /\ Len(staggered') = Count
        /\ DOMAIN staggered' = 1..Count
        /\ \A i \in 1..Count : staggered'[i] = i - 1
    BY <1>1 DEF StaggerAll, Ranges
  <1>4. \A w \in Worker : range[w] = NoRange
    BY <1>1 DEF StaggerAll, IInv, QueueAhead, Listened, TypeOK
  <1>5. TypeOK'
    BY <1>1, <1>2, <1>3 DEF StaggerAll, config, wvars, IInv, TypeOK
  <1>6. OwnRange' /\ LoopAhead'
    BY <1>2 DEF IInv, OwnRange, LoopAhead, Listened
  <1>7. QueueAhead'
    <2>1. Given' = 0
      BY <1>1, <1>3 DEF Given
    <2>2. QED
      BY <1>1, <1>2, <1>3, <1>4, <2>1 DEF QueueAhead, NoRange
  <1>8. QED
    BY <1>5, <1>6, <1>7 DEF IInv

LEMMA TickStep == IInv /\ Tick => IInv'
  <1> SUFFICES ASSUME IInv, Tick PROVE IInv'
    OBVIOUS
  <1>1. Count' = Count /\ Count \in Nat /\ Count > 0
    BY ConfigFacts DEF Tick, config, Count, Size, IInv, TypeOK
  <1>2. UNCHANGED <<config, next, maxConcurrency, primary, mail, news, code, faults>>
    BY DEF Tick, config
  <1>3. PICK n \in Worker : n = forks + 1 /\ range[n] = NoRange /\ forks' = n
    BY ForkFacts DEF Tick, Fork
  <1>4. CASE staggered = <<>> /\ ticking' = Cleared /\ UNCHANGED <<range, staggered>>
    <2>1. TypeOK'
      BY <1>1, <1>2, <1>4, ForkFacts DEF Tick, Cleared, config, IInv, TypeOK
    <2>2. OwnRange'
      BY <1>3, <1>4 DEF IInv, TypeOK, OwnRange, Listened, Worker
    <2>3. LoopAhead' /\ QueueAhead'
      BY <1>1, <1>2, <1>4 DEF IInv, LoopAhead, QueueAhead, Listened, Given
    <2>4. QED
      BY <2>1, <2>2, <2>3 DEF IInv
  <1>5. CASE /\ staggered # <<>> /\ staggered' = Tail(staggered) /\ UNCHANGED ticking
             /\ range' = [range EXCEPT ![forks + 1] = Head(staggered)]
    <2>1. /\ maxConcurrency /\ next = Count
          /\ \A i \in DOMAIN staggered : staggered[i] = Given + i - 1
          /\ \A w \in Worker : range[w] < Given
      BY <1>5 DEF IInv, LoopAhead, QueueAhead, TypeOK
    <2>2. /\ staggered \in Seq(0..(Count - 1)) /\ Len(staggered) \in Nat
          /\ DOMAIN staggered = 1..Len(staggered) /\ Len(staggered) > 0
          /\ Head(staggered) = staggered[1] /\ staggered[1] \in 0..(Count - 1)
          /\ staggered' \in Seq(0..(Count - 1)) /\ Len(staggered') = Len(staggered) - 1
          /\ DOMAIN staggered' = 1..(Len(staggered) - 1)
          /\ \A i \in DOMAIN staggered' :
               i + 1 \in DOMAIN staggered /\ staggered'[i] = staggered[i + 1]
      <3> DEFINE S == 0..(Count - 1)
      <3>1. staggered \in Seq(S) /\ staggered # <<>> /\ staggered' = Tail(staggered)
        BY <1>5 DEF IInv, TypeOK
      <3> HIDE DEF S
      <3>2. /\ Len(staggered) \in Nat /\ Len(staggered) > 0
            /\ DOMAIN staggered = 1..Len(staggered)
            /\ Head(staggered) = staggered[1] /\ staggered[1] \in S
        BY <3>1
      <3>3. /\ staggered' \in Seq(S) /\ Len(staggered') = Len(staggered) - 1
            /\ DOMAIN staggered' = 1..(Len(staggered) - 1)
            /\ \A i \in DOMAIN staggered' :
                 i + 1 \in DOMAIN staggered /\ staggered'[i] = staggered[i + 1]
        BY <3>1
      <3>4. QED
        BY <3>1, <3>2, <3>3 DEF S
    <2>3. range' = [range EXCEPT ![n] = Given] /\ Given \in 0..(Count - 1)
      <3>1. 1 \in DOMAIN staggered /\ Given \in Int
        BY <1>1, <2>2 DEF Given
      <3>2. Head(staggered) = Given
        BY <2>1, <2>2, <3>1
      <3>3. QED
        BY <1>3, <1>5, <2>2, <3>2
    <2>4. Given' = Given + 1
      BY <1>1, <2>2 DEF Given
    <2>5. \A w \in Worker : range[w] \in Int
      BY <1>1 DEF IInv, TypeOK, NoRange
    <2>6. TypeOK'
      BY <1>1, <1>2, <1>5, <2>2, <2>3, ForkFacts DEF Tick, config, IInv, TypeOK
    <2>7. OwnRange'
      BY <1>3, <2>1, <2>3, <2>5 DEF IInv, TypeOK, OwnRange, Listened, NoRange, Worker
    <2>8. LoopAhead'
      BY <1>2, <2>1 DEF LoopAhead
    <2>9. QueueAhead'
      <3>1. next' # 0 /\ next' = Count'
        BY <1>1, <1>2, <2>1
      <3>2. \A i \in DOMAIN staggered' : staggered'[i] = Given' + i - 1
        BY <2>1, <2>2, <2>3, <2>4
      <3>3. \A w \in Worker : range'[w] < Given'
        BY <2>1, <2>3, <2>4, <2>5 DEF IInv, TypeOK
      <3>4. QED
        BY <3>1, <3>2, <3>3 DEF QueueAhead
    <2>10. QED
      BY <2>6, <2>7, <2>8, <2>9 DEF IInv
  <1>6. QED
    BY <1>4, <1>5 DEF Tick

\* The replacement gets no range.
LEMMA ReplaceStep ==
  ASSUME IInv, Fork, UNCHANGED <<config, next, staggered, range>>
  PROVE  OwnRange' /\ LoopAhead' /\ QueueAhead'
  <1>1. forks' = forks + 1 /\ forks \in Nat
    BY BoundsAssumption DEF Fork, IInv, TypeOK
  <1>2. Count' = Count
    BY DEF config, Count, Size
  <1>3. OwnRange'
    BY <1>1 DEF IInv, OwnRange, Listened, Worker
  <1>4. LoopAhead' /\ QueueAhead'
    BY <1>2 DEF config, IInv, LoopAhead, QueueAhead, Listened, Given
  <1>5. QED
    BY <1>3, <1>4

LEMMA StepKeepsIInv == IInv /\ [Next]_vars => IInv'
  <1> SUFFICES ASSUME IInv, [Next]_vars
               PROVE  IInv'
    OBVIOUS
  <1> USE BoundsAssumption DEF IInv
  <1>1. ASSUME Answered \/ LaunchEnds
        PROVE  IInv'
    BY <1>1, SameLaunch DEF Answered, LaunchEnds, launch, wvars, config, TypeOK
  <1>2. CASE AskFails
    BY <1>2, SameLaunch DEF AskFails, launch, wvars, config, TypeOK
  <1>3. ASSUME NEW w \in Worker, Online(w)
        PROVE  IInv'
    BY <1>3, SameLaunch DEF Online, launch, config, TypeOK, Running, Listened
  <1>4. ASSUME NEW w \in Worker, Startup(w)
        PROVE  IInv'
    BY <1>4, SameLaunch DEF Startup, launch, config, TypeOK, Running
  <1>5. ASSUME NEW w \in Worker, FollowsPrimary(w)
        PROVE  IInv'
    BY <1>5, SameLaunch DEF FollowsPrimary, launch, config, TypeOK
  <1>6. ASSUME NEW w \in Worker, HearsDisconnect(w)
        PROVE  IInv'
    BY <1>6, SameLaunch DEF HearsDisconnect, OnDisconnect, PrimaryEnds, config, TypeOK
  <1>7. ASSUME NEW w \in Worker, HearsExit(w)
        PROVE  IInv'
    <2>1. CASE UNCHANGED <<primary, ticking, forks, state>>
      BY <1>7, <2>1, SameLaunch DEF HearsExit, config, TypeOK
    <2>2. CASE Fork /\ PrimaryEnds
      <3>1. OwnRange' /\ LoopAhead' /\ QueueAhead'
        BY <1>7, <2>2, ReplaceStep DEF HearsExit
      <3>2. Count' = Count
        BY <1>7 DEF HearsExit, config, Count, Size
      <3>3. TypeOK'
        BY <1>7, <2>2, <3>2, ForkFacts DEF HearsExit, PrimaryEnds, config, TypeOK
      <3>4. QED
        BY <3>1, <3>3
    <2>3. QED
      BY <1>7, <2>1, <2>2 DEF HearsExit
  <1>8. ASSUME NEW w \in Worker, NEW c \in {0, 1}, Dies(w, c)
        PROVE  IInv'
    BY <1>8, SameLaunch DEF Dies, launch, config, TypeOK
  <1>9. CASE UNCHANGED vars
    BY <1>9, SameLaunch DEF vars, launch, wvars, config, TypeOK
  <1>10. QED
    BY <1>1, <1>2, <1>3, <1>4, <1>5, <1>6, <1>7, <1>8, <1>9, LaunchOneStep,
       StaggerAllStep, TickStep DEF Next, PrimaryStep, WorkerStep

\* The inductive invariant holds in every reachable state.
THEOREM Invariance == Spec => []IInv
  BY InitIInv, StepKeepsIInv, PTL DEF Spec

\* Every variable keeps its type.
THEOREM TypeCorrect == Spec => []TypeOK
  <1>1. IInv => TypeOK
    BY DEF IInv
  <1>2. QED
    BY <1>1, Invariance, PTL

\* Whatever the numbers of shards and cores and the launch mode, no shard is
\* given to two workers (primary.ts and the interval of staggerLaunch).
THEOREM NoShardTwice == Spec => []ShardsDisjoint
  <1>1. ASSUME IInv
        PROVE  ShardsDisjoint
    <2>1. total \in Nat /\ total > 0 /\ Size \in Nat /\ Size > 0 /\ Count \in Nat
      BY <1>1, ConfigFacts DEF IInv, TypeOK
    <2>2. \A w \in Worker : Listened(w) => range[w] \in Nat
      BY <1>1, <2>1 DEF IInv, TypeOK, Listened
    <2>3. ASSUME NEW w \in Worker
          PROVE  HostedBy(w) \subseteq 0..(total - 1)
      <3>1. CASE Listened(w)
        <4>1. range[w] \in Nat /\ range[w] + 1 \in Nat /\ range[w] # range[w] + 1
          BY <2>2, <3>1
        <4>2. Shards(range[w], total, Size) \subseteq 0..(total - 1)
          BY <2>1, <4>1, ShardsApart
        <4>3. QED
          BY <3>1, <4>2 DEF HostedBy
      <3>2. CASE ~Listened(w)
        BY <3>2 DEF HostedBy
      <3>3. QED
        BY <3>1, <3>2
    <2>4. ASSUME NEW v \in Worker, NEW w \in Worker, v # w
          PROVE  HostedBy(v) \cap HostedBy(w) = {}
      <3>1. CASE Listened(v) /\ Listened(w)
        <4>1. range[v] # range[w]
          BY <1>1, <2>4, <3>1 DEF IInv, OwnRange
        <4>2. Shards(range[v], total, Size) \cap Shards(range[w], total, Size) = {}
          BY <2>1, <2>2, <3>1, <4>1, ShardsApart
        <4>3. QED
          BY <3>1, <4>2 DEF HostedBy
      <3>2. CASE ~Listened(v) \/ ~Listened(w)
        BY <3>2 DEF HostedBy
      <3>3. QED
        BY <3>1, <3>2
    <2>5. QED
      BY <2>3, <2>4 DEF ShardsDisjoint
  <1>2. QED
    BY <1>1, Invariance, PTL

-----------------------------------------------------------------------------
(* No shard is left out.                                                   *)

\* A shard below the total is in the range that its quotient numbers.
LEMMA ShardInQuotient ==
  ASSUME NEW t \in Nat, t > 0, NEW size \in Nat, size > 0, NEW s \in 0..(t - 1)
  PROVE  /\ s \div size \in 0..(WorkerCount(t, size) - 1)
         /\ s \in Shards(s \div size, t, size)
         /\ s >= size => s \div size >= 1
  <1> DEFINE i == s \div size
             n == WorkerCount(t, size)
  <1>1. /\ i \in Nat /\ i * size \in Nat
        /\ i * size <= s /\ s < i * size + size /\ (i + 1) * size = i * size + size
    OBVIOUS
  <1>2. n \in Nat /\ t <= n * size
    BY CeilDivFacts DEF WorkerCount
  <1>3. s >= size => i >= 1
    BY <1>1
  <1> HIDE DEF i, n
  <1>4. i < n
    <2> SUFFICES ASSUME n <= i PROVE FALSE
      BY <1>1, <1>2
    <2>1. n * size <= i * size
      BY <1>1, <1>2
    <2>2. n * size \in Nat
      BY <1>2
    <2>3. QED
      BY <1>1, <1>2, <2>1, <2>2
  <1>5. s \in Shards(i, t, size)
    BY <1>1 DEF Shards, ShardStart, ShardEnd
  <1>6. i \in 0..(n - 1)
    BY <1>1, <1>2, <1>4
  <1>7. QED
    BY <1>3, <1>5, <1>6 DEF i, n

LEMMA InitNoneSkipped == Init => NoneSkipped
  BY DEF Init, NoneSkipped, FirstRange, NextRange, Given

\* Steps that give no range away.
LEMMA SkipQuiet ==
  ASSUME NoneSkipped, UNCHANGED <<config, next, staggered, range>>,
         primary' = "up" => primary = "up" \/ next = Count
  PROVE  NoneSkipped'
  <1>1. Count' = Count /\ FirstRange' = FirstRange /\ NextRange' = NextRange
    BY DEF config, Count, Size, FirstRange, NextRange, Given
  <1>2. QED
    BY <1>1 DEF NoneSkipped

\* A step that gives the next range to a worker that has none.
LEMMA SkipGive ==
  ASSUME IInv, NoneSkipped, NEW n \in Worker, range[n] = NoRange,
         range' = [range EXCEPT ![n] = NextRange],
         FirstRange' = FirstRange, NextRange' = NextRange + 1,
         NextRange \in Nat, primary' = "up" => next' = Count'
  PROVE  NoneSkipped'
  <1>1. \A w \in Worker : range'[w] = IF w = n THEN NextRange ELSE range[w]
    BY DEF IInv, TypeOK
  <1>2. ASSUME NEW i \in FirstRange..NextRange
        PROVE  \E w \in Worker : range'[w] = i
    <2>1. i \in Nat /\ FirstRange \in Nat
      BY DEF FirstRange
    <2>2. CASE i = NextRange
      BY <1>1, <2>2
    <2>3. CASE i # NextRange
      <3>1. PICK w \in Worker : range[w] = i
        BY <2>1, <2>3 DEF NoneSkipped
      <3>2. w # n
        BY <2>1, <3>1 DEF NoRange
      <3>3. QED
        BY <1>1, <3>1, <3>2
    <2>4. QED
      BY <2>2, <2>3
  <1>3. FirstRange'..(NextRange' - 1) = FirstRange..NextRange
    BY DEF FirstRange
  <1>4. QED
    BY <1>2, <1>3 DEF NoneSkipped

LEMMA SkipLaunchOne == IInv /\ NoneSkipped /\ LaunchOne => NoneSkipped'
  <1> SUFFICES ASSUME IInv, NoneSkipped, LaunchOne PROVE NoneSkipped'
    OBVIOUS
  <1>1. /\ ~maxConcurrency /\ ~maxConcurrency' /\ primary' = "launching"
        /\ next' = next + 1 /\ customLaunch' = customLaunch
    BY DEF LaunchOne, config
  <1>2. next \in Nat
    BY ConfigFacts DEF IInv, TypeOK
  <1>3. FirstRange' = FirstRange /\ NextRange = next /\ NextRange' = next + 1
    BY <1>1 DEF FirstRange, NextRange
  <1>4. CASE customLaunch /\ next = 0 /\ UNCHANGED range
    <2>1. FirstRange'..(NextRange' - 1) = {}
      BY <1>1, <1>3, <1>4 DEF FirstRange
    <2>2. QED
      BY <1>1, <2>1 DEF NoneSkipped
  <1>5. CASE Fork /\ range' = [range EXCEPT ![forks + 1] = next]
    <2>1. forks + 1 \in Worker /\ range[forks + 1] = NoRange
      BY <1>5, ForkFacts
    <2>2. QED
      BY <1>1, <1>2, <1>3, <1>5, <2>1, SkipGive
  <1>6. QED
    BY <1>4, <1>5 DEF LaunchOne

\* The queue is filled while no range is given away.
LEMMA SkipStaggerAll == IInv /\ NoneSkipped /\ StaggerAll => NoneSkipped'
  <1> SUFFICES ASSUME IInv, StaggerAll PROVE NoneSkipped'
    OBVIOUS
  <1>1. Count' = Count /\ Count \in Nat /\ Count > 0
    BY ConfigFacts DEF StaggerAll, config, Count, Size, IInv, TypeOK
  <1>2. Len(staggered') = Count
    BY <1>1 DEF StaggerAll, Ranges
  <1>3. maxConcurrency' /\ next' = Count /\ primary' = "launching"
    BY DEF StaggerAll, config
  <1>4. NextRange' = 0 /\ FirstRange' = 0
    BY <1>1, <1>2, <1>3 DEF NextRange, FirstRange, Given
  <1>5. QED
    BY <1>3, <1>4 DEF NoneSkipped

LEMMA SkipTick == IInv /\ NoneSkipped /\ Tick => NoneSkipped'
  <1> SUFFICES ASSUME IInv, NoneSkipped, Tick PROVE NoneSkipped'
    OBVIOUS
  <1>1. Count' = Count /\ Count \in Nat /\ Count > 0
    BY ConfigFacts DEF Tick, config, Count, Size, IInv, TypeOK
  <1>2. UNCHANGED <<config, next, maxConcurrency, customLaunch, primary>>
    BY DEF Tick, config
  <1>3. FirstRange' = FirstRange
    BY <1>2 DEF FirstRange
  <1>4. CASE UNCHANGED <<range, staggered>>
    BY <1>2, <1>4, SkipQuiet
  <1>5. CASE /\ staggered # <<>> /\ staggered' = Tail(staggered)
             /\ range' = [range EXCEPT ![forks + 1] = Head(staggered)]
    <2>1. /\ maxConcurrency /\ next = Count
          /\ \A i \in DOMAIN staggered : staggered[i] = Given + i - 1
      BY <1>5 DEF IInv, LoopAhead, QueueAhead, TypeOK
    <2>2. /\ Len(staggered) \in Nat /\ Len(staggered) > 0 /\ 1 \in DOMAIN staggered
          /\ Head(staggered) = staggered[1] /\ Len(staggered') = Len(staggered) - 1
          /\ staggered[1] \in 0..(Count - 1)
      <3> DEFINE S == 0..(Count - 1)
      <3>1. staggered \in Seq(S) /\ staggered # <<>> /\ staggered' = Tail(staggered)
        BY <1>5 DEF IInv, TypeOK
      <3> HIDE DEF S
      <3>2. /\ Len(staggered) \in Nat /\ Len(staggered) > 0 /\ 1 \in DOMAIN staggered
            /\ Head(staggered) = staggered[1] /\ Len(staggered') = Len(staggered) - 1
            /\ staggered[1] \in S
        BY <3>1
      <3>3. QED
        BY <3>2 DEF S
    <2>3. Given' = Given + 1 /\ Given \in Int
      BY <1>1, <2>2 DEF Given
    <2>4. Head(staggered) = Given /\ Given \in Nat
      BY <1>1, <2>1, <2>2, <2>3
    <2>5. NextRange = Given /\ NextRange' = Given'
      BY <1>1, <1>2, <2>1 DEF NextRange
    <2>6. forks + 1 \in Worker /\ range[forks + 1] = NoRange
      BY ForkFacts DEF Tick
    <2>7. QED
      BY <1>1, <1>2, <1>3, <1>5, <2>1, <2>3, <2>4, <2>5, <2>6, SkipGive
  <1>6. QED
    BY <1>4, <1>5 DEF Tick

LEMMA StepKeepsNoneSkipped == IInv /\ NoneSkipped /\ [Next]_vars => NoneSkipped'
  <1> SUFFICES ASSUME IInv, NoneSkipped, [Next]_vars
               PROVE  NoneSkipped'
    OBVIOUS
  <1>1. CASE LaunchOne
    BY <1>1, SkipLaunchOne
  <1>2. CASE StaggerAll
    BY <1>2, SkipStaggerAll
  <1>3. CASE Tick
    BY <1>3, SkipTick
  <1>4. CASE Answered \/ LaunchEnds \/ AskFails
    BY <1>4, SkipQuiet DEF Answered, LaunchEnds, AskFails, launch, wvars
  <1>5. ASSUME NEW w \in Worker, WorkerStep(w)
        PROVE  NoneSkipped'
    BY <1>5, SkipQuiet DEF WorkerStep, Online, Startup, FollowsPrimary, HearsDisconnect,
       HearsExit, OnDisconnect, PrimaryEnds, launch
  <1>6. ASSUME NEW w \in Worker, NEW c \in {0, 1}, Dies(w, c)
        PROVE  NoneSkipped'
    BY <1>6, SkipQuiet DEF Dies, launch
  <1>7. CASE UNCHANGED vars
    BY <1>7, SkipQuiet DEF vars, launch, wvars
  <1>8. QED
    BY <1>1, <1>2, <1>3, <1>4, <1>5, <1>6, <1>7 DEF Next, PrimaryStep

\* Whatever the numbers of shards and cores and the launch mode, when the launch
\* is over every shard the container is to host has been given to a worker: the
\* rounding of primary.ts cuts none off, and the interval drops none.
THEOREM NoShardLeftOut == Spec => []NoneLeftOut
  <1>1. ASSUME IInv, NoneSkipped
        PROVE  NoneLeftOut
    <2> SUFFICES ASSUME primary = "up", staggered = <<>>, NEW s \in Wanted
                 PROVE  \E w \in Worker : s \in HostedBy(w)
      BY DEF NoneLeftOut
    <2>1. total \in Nat /\ total > 0 /\ Size \in Nat /\ Size > 0 /\ Count \in Nat /\ Count > 0
      BY <1>1, ConfigFacts DEF IInv, TypeOK
    <2>2. NextRange = Count
      BY <1>1, <2>1 DEF NoneSkipped, NextRange, Given
    <2>3. s \in 0..(total - 1) /\ (FirstRange = 1 => s >= Size)
      BY <2>1 DEF Wanted, FirstRange
    <2> DEFINE i == s \div Size
    <2>4. /\ i \in 0..(Count - 1) /\ s \in Shards(i, total, Size)
          /\ s >= Size => i >= 1
      BY <2>1, <2>3, ShardInQuotient DEF Count
    <2> HIDE DEF i
    <2>5. i \in FirstRange..(NextRange - 1)
      BY <2>1, <2>2, <2>3, <2>4 DEF FirstRange
    <2>6. PICK w \in Worker : range[w] = i
      BY <1>1, <2>5 DEF NoneSkipped
    <2>7. Listened(w)
      BY <2>1, <2>4, <2>6 DEF Listened, NoRange
    <2>8. QED
      BY <2>4, <2>6, <2>7 DEF HostedBy
  <1>2. QED
    BY <1>1, Invariance, InitNoneSkipped, StepKeepsNoneSkipped, PTL DEF Spec

\* No exit code and no order of the two events of a death leaves the primary up
\* with nothing to hear of it: the safety part of OneDownAllDown.
THEOREM DeathReachesPrimary == Spec => []DeathIsSeen
  <1>1. Init => DeathIsSeen
    BY DEF Init, DeathIsSeen
  <1>2. ASSUME IInv, DeathIsSeen, [Next]_vars
        PROVE  DeathIsSeen'
    <2>1. ASSUME Fork, \A w \in Worker : w # forks + 1 => range'[w] = range[w],
                 UNCHANGED <<primary, news>>
          PROVE  DeathIsSeen'
      <3>1. /\ state'[forks + 1] = "forked"
            /\ \A w \in Worker : w # forks + 1 => state'[w] = state[w]
        BY <1>2, <2>1, ForkFacts DEF Fork, IInv, TypeOK
      <3>2. QED
        BY <1>2, <2>1, <3>1 DEF DeathIsSeen, Listened
    <2>2. ASSUME UNCHANGED <<state, range, news>>, primary = "down" => primary' = "down"
          PROVE  DeathIsSeen'
      BY <1>2, <2>2 DEF DeathIsSeen, Listened
    <2>3. CASE LaunchOne
      BY <1>2, <2>1, <2>2, <2>3 DEF LaunchOne, IInv, TypeOK
    <2>4. CASE Tick
      BY <1>2, <2>1, <2>4 DEF Tick, IInv, TypeOK
    <2>5. CASE Answered \/ LaunchEnds \/ AskFails \/ StaggerAll \/ UNCHANGED vars
      BY <2>2, <2>5 DEF Answered, LaunchEnds, AskFails, StaggerAll, vars, wvars
    <2>6. ASSUME NEW w \in Worker, Online(w) \/ Startup(w)
          PROVE  DeathIsSeen'
      BY <1>2, <2>6 DEF Online, Startup, DeathIsSeen, Listened, IInv, TypeOK
    <2>7. ASSUME NEW w \in Worker, FollowsPrimary(w)
          PROVE  DeathIsSeen'
      BY <2>7 DEF FollowsPrimary, DeathIsSeen
    <2>8. ASSUME NEW w \in Worker, HearsDisconnect(w)
          PROVE  DeathIsSeen'
      BY <2>8 DEF HearsDisconnect, OnDisconnect, PrimaryEnds, DeathIsSeen
    <2>9. ASSUME NEW w \in Worker, HearsExit(w)
          PROVE  DeathIsSeen'
      <3>1. CASE UNCHANGED <<primary, ticking, forks, state>>
        BY <1>2, <2>9, <3>1 DEF HearsExit, DeathIsSeen, Listened, IInv, TypeOK
      <3>2. CASE PrimaryEnds
        BY <3>2 DEF PrimaryEnds, DeathIsSeen
      <3>3. QED
        BY <2>9, <3>1, <3>2 DEF HearsExit
    <2>10. ASSUME NEW w \in Worker, NEW c \in {0, 1}, Dies(w, c)
           PROVE  DeathIsSeen'
      BY <1>2, <2>10 DEF Dies, DeathIsSeen, Listened, IInv, TypeOK
    <2>11. QED
      BY <1>2, <2>3, <2>4, <2>5, <2>6, <2>7, <2>8, <2>9, <2>10 DEF Next, PrimaryStep, WorkerStep
  <1>3. QED
    BY <1>1, <1>2, Invariance, PTL DEF Spec

-----------------------------------------------------------------------------
(* The number of forks.                                                    *)

\* The rounding of the plan makes no more ranges than cores.
LEMMA RangesFitCores ==
  ASSUME total \in Totals, cores \in CoreCounts, ~maxConcurrency
  PROVE  Count <= cores
  <1>1. total \in Nat /\ total > 0 /\ cores \in Nat /\ cores > 0
    BY TotalsAssumption, CoreCountsAssumption
  <1>2. CASE cores > total
    <2>1. Size = 1
      BY <1>2 DEF Size, ShardsPerWorker
    <2>2. Count = total
      BY <1>1, <2>1 DEF Count, WorkerCount, CeilDiv
    <2>3. QED
      BY <1>1, <1>2, <2>2
  <1>3. CASE ~(cores > total)
    <2> DEFINE c == CeilDiv(total, cores)
               z == c + 2
               n == CeilDiv(total, z)
    <2>1. c \in Nat /\ total <= c * cores
      BY <1>1, CeilDivFacts
    <2>2. Count = n
      BY <1>3 DEF Count, WorkerCount, Size, ShardsPerWorker
    <2> HIDE DEF c
    <2>3. z \in Nat /\ z > 0 /\ z * cores = c * cores + 2 * cores
      BY <1>1, <2>1
    <2>4. n \in Nat /\ n * z <= total + z - 1
      BY <1>1, <2>3 DEF CeilDiv
    <2>5. total <= z * cores
      <3>1. c * cores \in Nat
        BY <1>1, <2>1
      <3>2. QED
        BY <1>1, <2>1, <2>3, <3>1
    <2> HIDE DEF z, n
    <2>6. n <= cores
      <3> SUFFICES ASSUME cores + 1 <= n PROVE FALSE
        BY <1>1, <2>4
      <3>1. (cores + 1) * z <= n * z
        BY <1>1, <2>3, <2>4
      <3>2. (cores + 1) * z = z * cores + z /\ z * cores \in Nat /\ n * z \in Nat
        BY <1>1, <2>3, <2>4
      <3>3. QED
        BY <1>1, <2>3, <2>4, <2>5, <3>1, <3>2
    <2>7. QED
      BY <2>2, <2>6
  <1>4. QED
    BY <1>2, <1>3

\* Steps that neither fork nor move the launch; the interval may end.
LEMMA ForksQuiet ==
  ASSUME IInv, ForksFollow, UNCHANGED <<config, next, staggered, forks>>,
         ticking' => ticking /\ primary' # "down",
         Replacements' >= Replacements
  PROVE  ForksFollow'
  <1>1. /\ Given' = Given /\ Given \in Int /\ forks \in Nat /\ forks' = forks
        /\ next \in Nat /\ next' = next /\ maxConcurrency' = maxConcurrency
    BY ConfigFacts, BoundsAssumption DEF config, Count, Size, Given, IInv, TypeOK
  <1>2. Replacements \in {0, 1} /\ Replacements' \in {0, 1}
    BY DEF Replacements
  <1>3. ticking' => maxConcurrency' /\ next' # 0 /\ primary' # "down"
    BY <1>1 DEF ForksFollow
  <1>4. IF ~maxConcurrency THEN forks <= next + Replacements
        ELSE IF next = 0 THEN forks <= Replacements
        ELSE forks <= Replacements + IF ticking THEN Given ELSE Given + 1
    BY DEF ForksFollow
  <1> DEFINE r == Replacements
             q == Replacements'
             g == Given
  <1>5. r \in Int /\ q \in Int /\ r <= q /\ g \in Int
    BY <1>1, <1>2
  <1>6. CASE ~maxConcurrency
    <2>1. forks <= next + r
      BY <1>4, <1>6
    <2> HIDE DEF r, q, g
    <2>2. forks <= next + q
      BY <1>1, <1>5, <2>1
    <2>3. QED
      BY <1>1, <1>3, <1>6, <2>2 DEF ForksFollow, q
  <1>7. CASE maxConcurrency /\ next = 0
    <2>1. forks <= r
      BY <1>4, <1>7
    <2> HIDE DEF r, q, g
    <2>2. forks <= q
      BY <1>1, <1>5, <2>1
    <2>3. QED
      BY <1>1, <1>3, <1>7, <2>2 DEF ForksFollow, q
  <1>8. CASE maxConcurrency /\ next # 0
    <2>1. forks <= r + g + 1 /\ (ticking => forks <= r + g)
      BY <1>1, <1>2, <1>4, <1>8
    <2> HIDE DEF r, q, g
    <2>2. forks <= q + (g + 1) /\ (ticking => forks <= q + g)
      BY <1>1, <1>5, <2>1
    <2>3. QED
      BY <1>1, <1>3, <1>8, <2>2 DEF ForksFollow, q, g
  <1>9. QED
    BY <1>6, <1>7, <1>8

\* The primary ends with its replacement, so there is only one.
LEMMA ForksReplace ==
  ASSUME IInv, ForksFollow, NEW w \in Worker, HearsExit(w)
  PROVE  ForksFollow'
  <1>1. /\ primary # "down" /\ UNCHANGED <<config, next, staggered, code>>
        /\ Replacements = 0
    BY DEF HearsExit, Replacements
  <1>2. CASE UNCHANGED <<primary, ticking, forks, state>>
    BY <1>1, <1>2, ForksQuiet DEF Replacements, ForksFollow
  <1>3. CASE code[w] # 0 /\ Fork /\ PrimaryEnds
    <2>1. Replacements' = 1 /\ forks' = forks + 1 /\ ~ticking'
      BY <1>1, <1>3 DEF PrimaryEnds, Fork, Replacements
    <2>2. Given' = Given /\ Given \in Int /\ forks \in Nat /\ next \in Nat
      BY <1>1, ConfigFacts, BoundsAssumption DEF config, Count, Size, Given, IInv, TypeOK
    <2>3. QED
      BY <1>1, <2>1, <2>2 DEF ForksFollow, config
  <1>4. QED
    BY <1>2, <1>3 DEF HearsExit

LEMMA ForksLaunchOne == IInv /\ ForksFollow /\ LaunchOne => ForksFollow'
  <1> SUFFICES ASSUME IInv, ForksFollow, LaunchOne PROVE ForksFollow'
    OBVIOUS
  <1>1. /\ ~maxConcurrency /\ ~maxConcurrency' /\ next' = next + 1 /\ ticking' = ticking
        /\ forks' = forks \/ forks' = forks + 1
        /\ Replacements = 0 /\ Replacements' = 0 /\ primary' # "down"
    BY DEF LaunchOne, config, Fork, Replacements
  <1>2. next \in Nat /\ forks \in Nat
    BY ConfigFacts, BoundsAssumption DEF IInv, TypeOK
  <1>3. QED
    BY <1>1, <1>2 DEF ForksFollow

LEMMA ForksStaggerAll == IInv /\ ForksFollow /\ StaggerAll => ForksFollow'
  <1> SUFFICES ASSUME IInv, ForksFollow, StaggerAll PROVE ForksFollow'
    OBVIOUS
  <1>1. Count' = Count /\ Count \in Nat /\ Count > 0
    BY ConfigFacts DEF StaggerAll, config, Count, Size, IInv, TypeOK
  <1>2. /\ maxConcurrency /\ maxConcurrency' /\ ticking' /\ next' = Count /\ forks' = forks
        /\ Replacements = 0 /\ Replacements' = 0 /\ primary' # "down"
    BY DEF StaggerAll, config, wvars, Replacements
  <1>3. Given' = 0
    BY <1>1 DEF StaggerAll, Ranges, Given
  <1>4. next = 0
    BY <1>1, <1>2 DEF StaggerAll, IInv, QueueAhead
  <1>5. QED
    BY <1>1, <1>2, <1>3, <1>4 DEF ForksFollow

LEMMA ForksTick == IInv /\ ForksFollow /\ Tick => ForksFollow'
  <1> SUFFICES ASSUME IInv, ForksFollow, Tick PROVE ForksFollow'
    OBVIOUS
  <1>1. Count' = Count /\ Count \in Nat /\ Count > 0 /\ forks \in Nat
    BY ConfigFacts, BoundsAssumption DEF Tick, config, Count, Size, IInv, TypeOK
  <1>2. /\ UNCHANGED <<next, maxConcurrency, primary>> /\ ticking /\ primary = "up"
        /\ forks' = forks + 1
        /\ Replacements = 0 /\ Replacements' = 0
    BY DEF Tick, config, Fork, Replacements
  <1>3. Len(staggered) \in Nat
    BY DEF IInv, TypeOK
  <1>4. maxConcurrency /\ next # 0 /\ next' # 0 /\ forks <= Given /\ Given \in Int
    BY <1>1, <1>2, <1>3 DEF ForksFollow, Given
  <1>5. CASE staggered = <<>> /\ ticking' = Cleared /\ UNCHANGED staggered
    <2>1. Given' = Given /\ ~ticking'
      BY <1>1, <1>5 DEF Given, Cleared
    <2>2. QED
      BY <1>1, <1>2, <1>4, <2>1 DEF ForksFollow
  <1>6. CASE staggered # <<>> /\ staggered' = Tail(staggered) /\ UNCHANGED ticking
    <2>1. Len(staggered') = Len(staggered) - 1
      <3> DEFINE S == 0..(Count - 1)
      <3>1. staggered \in Seq(S)
        BY DEF IInv, TypeOK
      <3> HIDE DEF S
      <3>2. QED
        BY <1>6, <3>1
    <2>2. Given' = Given + 1
      BY <1>1, <1>3, <2>1 DEF Given
    <2>3. QED
      BY <1>1, <1>2, <1>4, <1>6, <2>2 DEF ForksFollow
  <1>7. QED
    BY <1>5, <1>6 DEF Tick

\* Workers are forked in order.
LEMMA EndedFork ==
  ASSUME IInv, CodesAreOfDead, Fork, UNCHANGED code
  PROVE  CodesAreOfDead'
  <1>1. /\ forks \in Nat /\ forks + 1 \in Worker /\ forks' = forks + 1
        /\ \A w \in Worker : state'[w] = IF w = forks + 1 THEN "forked" ELSE state[w]
    BY ForkFacts, BoundsAssumption DEF Fork, IInv, TypeOK
  <1>2. QED
    BY <1>1 DEF CodesAreOfDead, Worker

LEMMA StepKeepsCodes == IInv /\ CodesAreOfDead /\ [Next]_vars => CodesAreOfDead'
  <1> SUFFICES ASSUME IInv, CodesAreOfDead, [Next]_vars
               PROVE  CodesAreOfDead'
    OBVIOUS
  <1>1. ASSUME UNCHANGED <<forks, state, code>>
        PROVE  CodesAreOfDead'
    BY <1>1 DEF CodesAreOfDead
  <1>2. CASE LaunchOne \/ Tick
    BY <1>1, <1>2, EndedFork DEF LaunchOne, Tick
  <1>3. CASE Answered \/ LaunchEnds \/ AskFails \/ StaggerAll \/ UNCHANGED vars
    BY <1>1, <1>3 DEF Answered, LaunchEnds, AskFails, StaggerAll, vars, wvars
  <1>4. ASSUME NEW w \in Worker, Online(w) \/ Startup(w) \/ FollowsPrimary(w)
        PROVE  CodesAreOfDead'
    BY <1>4 DEF Online, Startup, FollowsPrimary, Running, CodesAreOfDead, IInv, TypeOK
  <1>5. ASSUME NEW w \in Worker, HearsDisconnect(w) \/ HearsExit(w)
        PROVE  CodesAreOfDead'
    BY <1>1, <1>5, EndedFork DEF HearsDisconnect, HearsExit
  <1>6. ASSUME NEW w \in Worker, NEW c \in {0, 1}, Dies(w, c)
        PROVE  CodesAreOfDead'
    BY <1>6 DEF Dies, Running, CodesAreOfDead, IInv, TypeOK
  <1>7. QED
    BY <1>2, <1>3, <1>4, <1>5, <1>6 DEF Next, PrimaryStep, WorkerStep

LEMMA StepKeepsForks == IInv /\ CodesAreOfDead /\ ForksFollow /\ [Next]_vars => ForksFollow'
  <1> SUFFICES ASSUME IInv, CodesAreOfDead, ForksFollow, [Next]_vars
               PROVE  ForksFollow'
    OBVIOUS
  <1>1. CASE LaunchOne
    BY <1>1, ForksLaunchOne
  <1>2. CASE StaggerAll
    BY <1>2, ForksStaggerAll
  <1>3. CASE Tick
    BY <1>3, ForksTick
  <1>4. CASE Answered \/ LaunchEnds \/ AskFails
    BY <1>4, ForksQuiet DEF Answered, LaunchEnds, AskFails, launch, wvars, Replacements
  <1>5. ASSUME NEW w \in Worker, WorkerStep(w)
        PROVE  ForksFollow'
    <2>1. CASE HearsExit(w)
      BY <2>1, ForksReplace
    <2>2. CASE HearsDisconnect(w)
      <3>1. ~ticking' /\ Replacements' >= Replacements
        BY <2>2 DEF HearsDisconnect, OnDisconnect, PrimaryEnds, Replacements
      <3>2. QED
        BY <2>2, <3>1, ForksQuiet DEF HearsDisconnect
    <2>3. CASE Online(w) \/ Startup(w) \/ FollowsPrimary(w)
      BY <2>3, ForksQuiet DEF Online, Startup, FollowsPrimary, launch, Replacements,
         ForksFollow
    <2>4. QED
      BY <1>5, <2>1, <2>2, <2>3 DEF WorkerStep
  <1>6. ASSUME NEW w \in Worker, NEW c \in {0, 1}, Dies(w, c)
        PROVE  ForksFollow'
    <2>1. Replacements' >= Replacements
      <3>1. \A v \in Worker : code[v] # 0 => code'[v] # 0
        BY <1>6 DEF Dies, CodesAreOfDead, Running, IInv, TypeOK
      <3>2. QED
        BY <1>6, <3>1 DEF Dies, Replacements
    <2>2. QED
      BY <1>6, <2>1, ForksQuiet DEF Dies, launch, ForksFollow
  <1>7. CASE UNCHANGED vars
    BY <1>7, ForksQuiet DEF vars, launch, wvars, Replacements, ForksFollow
  <1>8. QED
    BY <1>1, <1>2, <1>3, <1>4, <1>5, <1>6, <1>7 DEF Next, PrimaryStep

\* Without max concurrency a container forks a process per range, and there are no
\* more ranges than the host has cores; with it, one more at the most (primary.ts
\* divides with Math.ceil twice, and the interval forks before it looks into the
\* queue).  The one process beyond that is the replacement of a worker that died
\* with an exit code, with which the primary ends (workerListener.ts:66).
THEOREM ForksAreBounded == Spec => []ForksFit
  <1>1. Init => ForksFollow /\ CodesAreOfDead
    BY DEF Init, ForksFollow, Replacements, CodesAreOfDead
  <1>2. ASSUME IInv, ForksFollow
        PROVE  ForksFit
    <2>1. /\ Count \in Nat /\ Count > 0 /\ forks \in Nat /\ Len(staggered) \in Nat
          /\ next \in 0..Count /\ total \in Totals /\ cores \in CoreCounts
      BY <1>2, ConfigFacts, BoundsAssumption DEF IInv, TypeOK
    <2>2. CASE ~maxConcurrency
      BY <1>2, <2>1, <2>2, RangesFitCores DEF ForksFollow, ForksFit, Replacements
    <2>3. CASE maxConcurrency
      <3>1. Given \in Int /\ Given <= Count
        BY <2>1 DEF Given
      <3>2. QED
        BY <1>2, <2>1, <2>3, <3>1 DEF ForksFollow, ForksFit, Replacements
    <2>4. QED
      BY <2>2, <2>3
  <1>3. QED
    BY <1>1, <1>2, Invariance, StepKeepsForks, StepKeepsCodes, PTL DEF Spec
=============================================================================
