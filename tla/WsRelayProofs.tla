---------------------------- MODULE WsRelayProofs ----------------------------
(* The relay, for every number of workers, requests, commands and faults.  *)
EXTENDS WsRelay, FiniteSetTheorems, TLAPS

-----------------------------------------------------------------------------
(* How often a message is in a queue.                                      *)

LEMMA PositionsFinite ==
  ASSUME NEW S, NEW s \in Seq(S), NEW m
  PROVE  IsFiniteSet(Positions(s, m)) /\ Times(s, m) \in Nat
  <1>1. IsFiniteSet(1..Len(s))
    BY FS_Interval
  <1>2. Positions(s, m) \subseteq 1..Len(s)
    BY DEF Positions
  <1>3. QED
    BY <1>1, <1>2, FS_Subset, FS_CardinalityType DEF Times

LEMMA TimesEmpty == \A m : Times(<<>>, m) = 0
  <1> SUFFICES ASSUME NEW m PROVE Times(<<>>, m) = 0
    OBVIOUS
  <1>1. Positions(<<>>, m) = {}
    BY DEF Positions
  <1>2. QED
    BY <1>1, FS_EmptySet DEF Times

LEMMA TimesAppend ==
  ASSUME NEW S, NEW s \in Seq(S), NEW e \in S, NEW m
  PROVE  Times(Append(s, e), m) = Times(s, m) + (IF e = m THEN 1 ELSE 0)
  <1>1. /\ DOMAIN Append(s, e) = DOMAIN s \union {Len(s) + 1}
        /\ Append(s, e)[Len(s) + 1] = e
        /\ \A i \in DOMAIN s : Append(s, e)[i] = s[i]
        /\ Len(s) + 1 \notin DOMAIN s
    OBVIOUS
  <1>2. CASE e = m
    <2>1. Positions(Append(s, e), m) = Positions(s, m) \union {Len(s) + 1}
      BY <1>1, <1>2, Zenon DEF Positions
    <2>2. Len(s) + 1 \notin Positions(s, m)
      BY <1>1 DEF Positions
    <2>3. QED
      BY <1>2, <2>1, <2>2, PositionsFinite, FS_AddElement DEF Times
  <1>3. CASE e # m
    <2>1. Positions(Append(s, e), m) = Positions(s, m)
      BY <1>1, <1>3, Zenon DEF Positions
    <2>2. QED
      BY <1>3, <2>1, PositionsFinite DEF Times
  <1>4. QED
    BY <1>2, <1>3

LEMMA TimesTail ==
  ASSUME NEW S, NEW s \in Seq(S), s # <<>>, NEW m
  PROVE  Times(Tail(s), m) = Times(s, m) - (IF Head(s) = m THEN 1 ELSE 0)
  <1> DEFINE Rest == Positions(s, m) \ {1}
             f == [i \in Positions(Tail(s), m) |-> i + 1]
  <1>1. /\ Tail(s) \in Seq(S)
        /\ DOMAIN Tail(s) = 1..(Len(s) - 1) /\ DOMAIN s = 1..Len(s) /\ Len(s) \in Nat \ {0}
        /\ \A i \in 1..(Len(s) - 1) : Tail(s)[i] = s[i + 1]
        /\ Head(s) = s[1]
    OBVIOUS
  <1>2. f \in Bijection(Positions(Tail(s), m), Rest)
    <2>1. \A i \in Positions(Tail(s), m) : i \in Nat /\ i + 1 \in Rest
      BY <1>1 DEF Positions
    <2>2. \A j \in Rest : j - 1 \in Positions(Tail(s), m) /\ j \in Nat
      BY <1>1 DEF Positions
    <2>3. f \in [Positions(Tail(s), m) -> Rest]
      BY <2>1
    <2>4. \A i, j \in Positions(Tail(s), m) : f[i] = f[j] => i = j
      BY <2>1
    <2>5. \A j \in Rest : f[j - 1] = j
      BY <2>2
    <2>6. QED
      BY <2>2, <2>3, <2>4, <2>5 DEF Bijection, Injection, Surjection, IsInjective
  <1>3. Cardinality(Rest) = Times(Tail(s), m)
    <2>1. IsFiniteSet(Positions(Tail(s), m))
      BY <1>1, PositionsFinite
    <2>2. ExistsBijection(Positions(Tail(s), m), Rest)
      BY <1>2, Zenon DEF ExistsBijection
    <2>3. QED
      BY <2>1, <2>2, FS_Bijection, Zenon DEF Times
  <1>4. Cardinality(Rest) = Times(s, m) - (IF 1 \in Positions(s, m) THEN 1 ELSE 0)
    <2>1. IsFiniteSet(Positions(s, m))
      BY PositionsFinite
    <2>2. Cardinality(Rest) = IF 1 \in Positions(s, m) THEN Cardinality(Positions(s, m)) - 1
                                                     ELSE Cardinality(Positions(s, m))
      BY <2>1, FS_RemoveElement
    <2>3. Cardinality(Positions(s, m)) \in Nat
      BY <2>1, FS_CardinalityType
    <2>4. QED
      BY <2>2, <2>3 DEF Times
  <1>5. 1 \in Positions(s, m) <=> Head(s) = m
    BY <1>1 DEF Positions
  <1>6. QED
    BY <1>3, <1>4, <1>5

\* A message that is in no position is there zero times.
LEMMA TimesSome ==
  ASSUME NEW S, NEW s \in Seq(S), s # <<>>
  PROVE  Times(s, Head(s)) >= 1
  <1>1. Times(Tail(s), Head(s)) = Times(s, Head(s)) - 1
    BY TimesTail
  <1>2. Times(Tail(s), Head(s)) \in Nat /\ Times(s, Head(s)) \in Nat
    <2>1. Tail(s) \in Seq(S)
      OBVIOUS
    <2>2. QED
      BY <2>1, PositionsFinite
  <1>3. QED
    BY <1>1, <1>2

-----------------------------------------------------------------------------
(* Messages and queues.                                                    *)

LEMMA Relayed ==
  /\ IDENTIFY_SUPPLY \in ToRelay /\ IDENTIFY_SUPPLY.op = "1003"
  /\ RELOAD \in ToRelay /\ RELOAD.op = "10010"
  /\ \A r \in Request : Asked(r) \in ToRelay /\ Asked(r).op = "3000" /\ Asked(r).req = r
  /\ \A w \in Worker, r \in Request :
        /\ Answer(w, r) \in ToRelay /\ Answer(w, r).op = "3002"
        /\ Answer(w, r).from = w /\ Answer(w, r).req = r
  /\ \A m \in ToRelay :
        \/ m = IDENTIFY_SUPPLY
        \/ m = RELOAD
        \/ m.req \in Request /\ m = Asked(m.req)
        \/ m.req \in Request /\ m.from \in Worker /\ m = Answer(m.from, m.req)
  BY DEF ToRelay, IDENTIFY_SUPPLY, RELOAD, Asked, Answer

LEMMA ForWorkers ==
  /\ IDENTIFY \in ToWorker /\ IDENTIFY.op = "1001"
  /\ IDENTIFY_REPLY \in ToWorker /\ IDENTIFY_REPLY.op = "1002"
  /\ RELOAD_ALL \in ToWorker /\ RELOAD_ALL.op = "10011"
  /\ \A r \in Request : AskedAll(r) \in ToWorker /\ AskedAll(r).op = "3001" /\ AskedAll(r).req = r
  /\ \A w \in Worker, r \in Request :
        /\ Told(w, r) \in ToWorker /\ Told(w, r).op = "3003"
        /\ Told(w, r).from = w /\ Told(w, r).req = r
  /\ \A m \in ToWorker :
        \/ m = IDENTIFY
        \/ m = IDENTIFY_REPLY
        \/ m = RELOAD_ALL
        \/ m.req \in Request /\ m = AskedAll(m.req)
        \/ m.req \in Request /\ m.from \in Worker /\ m = Told(m.from, m.req)
  BY DEF ToWorker, IDENTIFY, IDENTIFY_REPLY, RELOAD_ALL, AskedAll, Told

\* A message is put at the end of one queue.
LEMMA UpPuts ==
  ASSUME TypeOK, NEW w \in Worker, NEW m \in ToRelay, up' = [up EXCEPT ![w] = Append(@, m)]
  PROVE  /\ up' \in [Worker -> Seq(ToRelay)]
         /\ \A v \in Worker : v # w => up'[v] = up[v]
         /\ \A n : Times(up'[w], n) = Times(up[w], n) + (IF m = n THEN 1 ELSE 0)
  <1>1. up \in [Worker -> Seq(ToRelay)] /\ up[w] \in Seq(ToRelay)
    BY DEF TypeOK
  <1>2. up' \in [Worker -> Seq(ToRelay)] /\ up'[w] = Append(up[w], m)
    BY <1>1
  <1>3. \A v \in Worker : v # w => up'[v] = up[v]
    BY <1>1
  <1>4. QED
    BY <1>1, <1>2, <1>3, TimesAppend

LEMMA DownPuts ==
  ASSUME TypeOK, NEW w \in Worker, NEW m \in ToWorker, down' = [down EXCEPT ![w] = Append(@, m)]
  PROVE  /\ down' \in [Worker -> Seq(ToWorker)]
         /\ \A v \in Worker : v # w => down'[v] = down[v]
         /\ \A n : Times(down'[w], n) = Times(down[w], n) + (IF m = n THEN 1 ELSE 0)
  <1>1. down \in [Worker -> Seq(ToWorker)] /\ down[w] \in Seq(ToWorker)
    BY DEF TypeOK
  <1>2. down' \in [Worker -> Seq(ToWorker)] /\ down'[w] = Append(down[w], m)
    BY <1>1
  <1>3. \A v \in Worker : v # w => down'[v] = down[v]
    BY <1>1
  <1>4. QED
    BY <1>1, <1>2, <1>3, TimesAppend

\* The first message of one queue is read.
LEMMA UpTakes ==
  ASSUME TypeOK, NEW w \in Worker, up[w] # <<>>, up' = Read(up, w)
  PROVE  /\ up' \in [Worker -> Seq(ToRelay)]
         /\ Head(up[w]) \in ToRelay
         /\ \A v \in Worker : v # w => up'[v] = up[v]
         /\ \A n : Times(up'[w], n) = Times(up[w], n) - (IF Head(up[w]) = n THEN 1 ELSE 0)
         /\ Times(up[w], Head(up[w])) >= 1
  <1>1. up \in [Worker -> Seq(ToRelay)] /\ up[w] \in Seq(ToRelay)
    BY DEF TypeOK
  <1>2. /\ up' \in [Worker -> Seq(ToRelay)] /\ up'[w] = Tail(up[w])
        /\ Head(up[w]) \in ToRelay
    BY <1>1 DEF Read
  <1>3. \A v \in Worker : v # w => up'[v] = up[v]
    BY <1>1 DEF Read
  <1>4. QED
    BY <1>1, <1>2, <1>3, TimesTail, TimesSome

LEMMA DownTakes ==
  ASSUME TypeOK, NEW w \in Worker, down[w] # <<>>, down' = Read(down, w)
  PROVE  /\ down' \in [Worker -> Seq(ToWorker)]
         /\ Head(down[w]) \in ToWorker
         /\ \A v \in Worker : v # w => down'[v] = down[v]
         /\ \A n : Times(down'[w], n) = Times(down[w], n) - (IF Head(down[w]) = n THEN 1 ELSE 0)
         /\ Times(down[w], Head(down[w])) >= 1
  <1>1. down \in [Worker -> Seq(ToWorker)] /\ down[w] \in Seq(ToWorker)
    BY DEF TypeOK
  <1>2. /\ down' \in [Worker -> Seq(ToWorker)] /\ down'[w] = Tail(down[w])
        /\ Head(down[w]) \in ToWorker
    BY <1>1 DEF Read
  <1>3. \A v \in Worker : v # w => down'[v] = down[v]
    BY <1>1 DEF Read
  <1>4. QED
    BY <1>1, <1>2, <1>3, TimesTail, TimesSome

LEMMA Counted ==
  ASSUME NEW M, NEW q \in [Worker -> Seq(M)]
  PROVE  \A w \in Worker : \A n : Times(q[w], n) \in Nat
  BY PositionsFinite

\* A message is put at the end of the queue of every open socket.
LEMMA PutsAll ==
  ASSUME TypeOK, NEW m \in ToWorker, Broadcast(m)
  PROVE  /\ down' \in [Worker -> Seq(ToWorker)]
         /\ \A w \in Worker : \A n :
               Times(down'[w], n) = Times(down[w], n) + (IF sock[w] = "open" /\ m = n THEN 1 ELSE 0)
  <1>1. \A w \in Worker : /\ down[w] \in Seq(ToWorker)
                          /\ down'[w] = IF sock[w] = "open" THEN Append(down[w], m) ELSE down[w]
    BY DEF TypeOK, Broadcast
  <1>2. down' \in [Worker -> Seq(ToWorker)]
    BY <1>1 DEF Broadcast
  <1>3. ASSUME NEW w \in Worker, NEW n
        PROVE  Times(down'[w], n) = Times(down[w], n) + (IF sock[w] = "open" /\ m = n THEN 1 ELSE 0)
    <2>1. CASE sock[w] = "open"
      BY <1>1, <2>1, TimesAppend
    <2>2. CASE sock[w] # "open"
      BY <1>1, <2>2, PositionsFinite
    <2>3. QED
      BY <2>1, <2>2
  <1>4. QED
    BY <1>2, <1>3

-----------------------------------------------------------------------------
(* Types.                                                                  *)

LEMMA DropTypes ==
  ASSUME TypeOK, NEW gone \in SUBSET Worker, Drop(gone)
  PROVE  /\ sock' \in [Worker -> {"connecting", "open", "closed"}]
         /\ kind' \in [Worker -> {"none", "shard"}]
         /\ up' \in [Worker -> Seq(ToRelay)]
         /\ down' \in [Worker -> Seq(ToWorker)]
         /\ alone' \subseteq Request
         /\ stayed' \subseteq Worker
  BY DEF TypeOK, Drop

LEMMA SendTypes ==
  ASSUME TypeOK, NEW w \in Worker, NEW m \in ToRelay, Send(w, m)
  PROVE  up' \in [Worker -> Seq(ToRelay)]
  BY UpPuts DEF TypeOK, Send

LEMMA SaysPuts ==
  ASSUME TypeOK, NEW w \in Worker, NEW m \in ToRelay, Says(w, <<m>>)
  PROVE  /\ up' \in [Worker -> Seq(ToRelay)]
         /\ \A v \in Worker : v # w => up'[v] = up[v]
         /\ \A n : Times(up'[w], n) = Times(up[w], n) + (IF m = n THEN 1 ELSE 0)
  <1>1. up[w] \in Seq(ToRelay) /\ up \in [Worker -> Seq(ToRelay)]
    BY DEF TypeOK
  <1>2. up[w] \o <<m>> = Append(up[w], m)
    BY <1>1
  <1>3. up' = [up EXCEPT ![w] = Append(@, m)]
    BY <1>2 DEF Says
  <1>4. QED
    BY <1>3, UpPuts

LEMMA Adds ==
  ASSUME TypeOK, NEW w \in Worker, NEW m, m.from \in Worker, m.req \in Request,
         totals' = Added(w, m)
  PROVE  /\ totals' \in [Worker -> Counts]
         /\ \A x, v \in Worker, q \in Request :
               totals'[x][v][q] = totals[x][v][q] + (IF x = w /\ v = m.from /\ q = m.req THEN 1 ELSE 0)
  <1> DEFINE u == m.from
             r == m.req
  <1>0. u \in Worker /\ r \in Request /\ totals' = [totals EXCEPT ![w][u][r] = @ + 1]
    BY DEF Added
  <1> HIDE DEF u, r
  <1>1. /\ totals \in [Worker -> Counts] /\ totals[w] \in Counts
        /\ totals[w][u] \in [Request -> Nat] /\ totals[w][u][r] \in Nat
    <2>1. totals \in [Worker -> Counts]
      BY DEF TypeOK
    <2>2. totals[w] \in Counts
      BY <2>1
    <2>3. totals[w][u] \in [Request -> Nat]
      BY <1>0, <2>2 DEF Counts
    <2>4. QED
      BY <1>0, <2>1, <2>2, <2>3
  <1> DEFINE row == [totals[w][u] EXCEPT ![r] = @ + 1]
             table == [totals[w] EXCEPT ![u] = row]
  <1>2. totals' = [totals EXCEPT ![w] = table]
    BY <1>0
  <1>3. row \in [Request -> Nat] /\ \A q \in Request : row[q] = totals[w][u][q] + (IF q = r THEN 1 ELSE 0)
    BY <1>0, <1>1
  <1>4. table \in Counts /\ \A v \in Worker : table[v] = IF v = u THEN row ELSE totals[w][v]
    BY <1>0, <1>1, <1>3 DEF Counts
  <1> HIDE DEF row, table
  <1>5. totals' \in [Worker -> Counts] /\ \A x \in Worker : totals'[x] = IF x = w THEN table ELSE totals[x]
    BY <1>1, <1>2, <1>4
  <1>6. \A x, v \in Worker, q \in Request : totals[x][v][q] \in Nat
    BY <1>1 DEF Counts
  <1>7. ASSUME NEW x \in Worker, NEW v \in Worker, NEW q \in Request
        PROVE  totals'[x][v][q] = totals[x][v][q] + (IF x = w /\ v = u /\ q = r THEN 1 ELSE 0)
    <2>1. CASE x # w
      BY <1>5, <1>6, <2>1
    <2>2. CASE x = w /\ v # u
      BY <1>4, <1>5, <1>6, <2>2
    <2>3. CASE x = w /\ v = u
      BY <1>3, <1>4, <1>5, <2>3
    <2>4. QED
      BY <2>1, <2>2, <2>3
  <1>8. QED
    BY <1>5, <1>7 DEF u, r

LEMMA SocketTypes ==
  ASSUME TypeOK, NEW w \in Worker, Sockets(w) \/ Faults(w)
  PROVE  TypeOK'
  <1>0. spent' \in Nat
    BY BudgetAssumption DEF TypeOK, Sockets, Faults, SocketOpens, SocketRetries, SocketCloses, ConnectFails, Spend
  <1>1. CASE SocketOpens(w)
    BY <1>0, <1>1, ForWorkers DEF SocketOpens, Goes, Rejoined, stats, TypeOK
  <1>2. CASE SocketRetries(w) \/ ConnectFails(w)
    BY <1>0, <1>2 DEF SocketRetries, ConnectFails, Restarts, Goes, stats, reload, TypeOK
  <1>3. CASE SocketCloses(w)
    BY <1>0, <1>3, DropTypes DEF SocketCloses, stats, TypeOK
  <1>4. QED
    BY <1>1, <1>2, <1>3 DEF Sockets, Faults

LEMMA RestartTypes == TypeOK /\ (RelayRestarts \/ RelayEndsLoop) => TypeOK'
  <1>1. ASSUME TypeOK, RelayRestarts PROVE TypeOK'
    <2>1. spent' \in Nat
      BY <1>1, BudgetAssumption DEF RelayRestarts, Spend, TypeOK
    <2>2. QED
      BY <1>1, <2>1, DropTypes DEF RelayRestarts, stats, TypeOK
  <1>2. ASSUME TypeOK, RelayEndsLoop PROVE TypeOK'
    BY <1>2 DEF RelayEndsLoop, conn, stats, TypeOK
  <1>3. QED
    BY <1>1, <1>2

LEMMA CommandTypes ==
  /\ \A r \in Request : TypeOK /\ (Ask(r) \/ Show(r)) => TypeOK'
  /\ \A w \in Worker : TypeOK /\ Reload(w) => TypeOK'
  <1>1. ASSUME TypeOK, NEW r \in Request, Ask(r) PROVE TypeOK'
    <2>1. up' \in [Worker -> Seq(ToRelay)]
      BY <1>1, SendTypes, Relayed DEF Ask, TypeOK
    <2>2. totals' \in [Worker -> Counts]
      BY <1>1 DEF Ask, Cleared, Nothing, Counts, TypeOK
    <2>3. spent' \in Nat
      BY <1>1, BudgetAssumption DEF Ask, Spend, TypeOK
    <2>4. QED
      BY <1>1, <2>1, <2>2, <2>3 DEF Ask, conn, reload, TypeOK
  <1>2. ASSUME TypeOK, NEW r \in Request, Show(r) PROVE TypeOK'
    BY <1>2 DEF Show, conn, reload, TypeOK
  <1>3. ASSUME TypeOK, NEW w \in Worker, Reload(w) PROVE TypeOK'
    <2>1. up' \in [Worker -> Seq(ToRelay)]
      BY <1>3, SendTypes, Relayed DEF Reload
    <2>2. spent' \in Nat
      BY <1>3, BudgetAssumption DEF Reload, Spend, TypeOK
    <2>3. QED
      BY <1>3, <2>1, <2>2 DEF Reload, conn, stats, TypeOK
  <1>4. QED
    BY <1>1, <1>2, <1>3

LEMMA RelayTypes ==
  ASSUME TypeOK, NEW w \in Worker, RelayReads(w) \/ RelayVisits(w)
  PROVE  TypeOK'
  <1>0. up[w] # <<>> /\ up' = Read(up, w) => Head(up[w]) \in ToRelay /\ up' \in [Worker -> Seq(ToRelay)]
    BY UpTakes
  <1>1. CASE RelayIdentifies(w)
    <2>1. CASE kind[w] # "none"
      BY <1>1, <2>1, DropTypes DEF RelayIdentifies, Identifies, stats, TypeOK
    <2>2. CASE kind[w] = "none"
      <3>1. down' = [down EXCEPT ![w] = Append(@, IDENTIFY_REPLY)]
        BY <1>1, <2>2, ForWorkers DEF RelayIdentifies, Identifies, IdentifyReply, TypeOK
      <3>2. down' \in [Worker -> Seq(ToWorker)]
        BY <3>1, ForWorkers, DownPuts DEF TypeOK
      <3>3. QED
        BY <1>0, <1>1, <2>2, <3>2 DEF RelayIdentifies, Identifies, SocketType, stats, TypeOK
    <2>3. QED
      BY <2>1, <2>2
  <1>2. CASE RelayAsksAll(w)
    <2>1. AskedAll(Head(up[w]).req) \in ToWorker
      BY <1>0, <1>2, Relayed, ForWorkers DEF RelayAsksAll
    <2>2. QED
      BY <1>0, <1>2, <2>1, PutsAll DEF RelayAsksAll, conn, stats, reload, TypeOK
  <1>3. CASE RelayTellsAll(w)
    <2>1. Told(Head(up[w]).from, Head(up[w]).req) \in ToWorker
      BY <1>0, <1>3, Relayed, ForWorkers DEF RelayTellsAll
    <2>2. QED
      BY <1>0, <1>3, <2>1, PutsAll DEF RelayTellsAll, conn, stats, reload, TypeOK
  <1>4. CASE RelayStartsLoop(w)
    BY <1>0, <1>4 DEF RelayStartsLoop, Clients, conn, stats, TypeOK
  <1>5. CASE RelayVisits(w)
    <2>1. down' \in [Worker -> Seq(ToWorker)]
      BY <1>5, ForWorkers, DownPuts DEF RelayVisits, TypeOK
    <2>2. QED
      BY <1>5, <2>1 DEF RelayVisits, conn, stats, TypeOK
  <1>6. QED
    BY <1>1, <1>2, <1>3, <1>4, <1>5 DEF RelayReads

LEMMA WorkerTypes ==
  ASSUME TypeOK, NEW w \in Worker, WorkerReads(w)
  PROVE  TypeOK'
  <1>0. /\ down[w] # <<>> /\ down' = Read(down, w)
    BY DEF WorkerReads, WorkerIdentifies, WorkerReplies, WorkerAdds, WorkerHears
  <1>1. Head(down[w]) \in ToWorker /\ down' \in [Worker -> Seq(ToWorker)]
    BY <1>0, DownTakes
  <1>2. CASE WorkerIdentifies(w)
    <2>1. up' \in [Worker -> Seq(ToRelay)]
      BY <1>2, Relayed, SaysPuts DEF WorkerIdentifies
    <2>2. QED
      BY <1>1, <1>2, <2>1 DEF WorkerIdentifies, conn, stats, reload, TypeOK
  <1>3. CASE WorkerReplies(w)
    <2>1. Answer(w, Head(down[w]).req) \in ToRelay
      BY <1>1, <1>3, Relayed, ForWorkers DEF WorkerReplies
    <2>2. up' \in [Worker -> Seq(ToRelay)]
      BY <1>3, <2>1, SaysPuts DEF WorkerReplies, Replies
    <2>3. QED
      BY <1>1, <1>3, <2>2 DEF WorkerReplies, conn, stats, reload, TypeOK
  <1>4. CASE WorkerAdds(w)
    <2>1. Head(down[w]).from \in Worker /\ Head(down[w]).req \in Request
      BY <1>1, <1>4, ForWorkers DEF WorkerAdds
    <2>2. totals' \in [Worker -> Counts]
      BY <1>4, <2>1, Adds DEF WorkerAdds
    <2>3. QED
      BY <1>1, <1>4, <2>2 DEF WorkerAdds, conn, reload, TypeOK
  <1>5. CASE WorkerHears(w)
    BY <1>1, <1>5 DEF WorkerHears, conn, stats, TypeOK
  <1>6. QED
    BY <1>2, <1>3, <1>4, <1>5 DEF WorkerReads

LEMMA TypeStep == TypeOK /\ [Next]_vars => TypeOK'
  <1>1. TypeOK /\ Next => TypeOK'
    BY SocketTypes, RestartTypes, CommandTypes, RelayTypes, WorkerTypes DEF Next
  <1>2. TypeOK /\ UNCHANGED vars => TypeOK'
    BY DEF vars, conn, stats, reload, TypeOK
  <1>3. QED
    BY <1>1, <1>2

-----------------------------------------------------------------------------
(* The inductive invariant.                                                *)

\* Nothing is under way on a socket that is not open.
ClosedIsEmpty ==
    \A w \in Worker : sock[w] # "open" => up[w] = <<>> /\ down[w] = <<>> /\ kind[w] = "none"

\* A worker sends its own requests and its own answers.
OwnMessages ==
    \A w \in Worker, r \in Request :
        /\ w # at[r] => Times(up[w], Asked(r)) = 0
        /\ \A u \in Worker : u # w => Times(up[w], Answer(u, r)) = 0

\* The answer of a worker is in at most one place on its way to the totals of another.
OneAnswer ==
    \A x, w \in Worker, r \in Request :
        Flow(x, w, r) <= 1 /\ (pc[r] = "idle" => Flow(x, w, r) = 0)

AloneFlows ==
    \A r \in alone :
        /\ AllOpen /\ pc[r] # "idle"
        /\ \A w \in Worker : Flow(at[r], w, r) = 1
        /\ \A w \in Worker, q \in Request : q # r => Flow(at[r], w, q) = 0

OneGreeting ==
    \A w \in Worker :
        Times(down[w], IDENTIFY) + Times(up[w], IDENTIFY_SUPPLY) + (IF kind[w] = "shard" THEN 1 ELSE 0) <= 1

OneReload ==
    /\ stayed \subseteq Clients /\ ahead \subseteq Clients
    /\ loop # "running" => ahead = {}
    /\ loop \in {"idle", "asked"} =>
          stayed = {} /\ \A w \in Worker : told[w] = 0 /\ Times(down[w], RELOAD_ALL) = 0
    /\ \A w \in Worker :
          /\ Times(up[w], RELOAD) <= 1
          /\ loop # "asked" => Times(up[w], RELOAD) = 0
          /\ \A v \in Worker : v # w => Times(up[w], RELOAD) = 0 \/ Times(up[v], RELOAD) = 0

Flows == OwnMessages /\ OneAnswer /\ AloneFlows
Reloads == OneReload /\ ReloadOnce

IInv == TypeOK /\ ClosedIsEmpty /\ Flows /\ OneGreeting /\ Reloads

-----------------------------------------------------------------------------
(* What the steps have in common.                                          *)

LEMMA UpHeads ==
  ASSUME NEW m \in ToRelay
  PROVE  /\ m.op = "1003" => m = IDENTIFY_SUPPLY
         /\ m.op = "10010" => m = RELOAD
         /\ m.op = "3000" => m.req \in Request /\ m = Asked(m.req)
         /\ m.op = "3002" => m.req \in Request /\ m.from \in Worker /\ m = Answer(m.from, m.req)
  BY Relayed

LEMMA DownHeads ==
  ASSUME NEW m \in ToWorker
  PROVE  /\ m.op = "1001" => m = IDENTIFY
         /\ m.op \in {"1002", "10011"} => m \in {IDENTIFY_REPLY, RELOAD_ALL}
         /\ m.op = "10011" <=> m = RELOAD_ALL
         /\ m.op = "3001" => m.req \in Request /\ m = AskedAll(m.req)
         /\ m.op = "3003" => m.req \in Request /\ m.from \in Worker /\ m = Told(m.from, m.req)
  BY ForWorkers

LEMMA Distinct ==
  /\ IDENTIFY_SUPPLY # RELOAD /\ IDENTIFY # IDENTIFY_REPLY /\ IDENTIFY # RELOAD_ALL
  /\ IDENTIFY_REPLY # RELOAD_ALL
  /\ \A r \in Request : /\ Asked(r) \notin {IDENTIFY_SUPPLY, RELOAD}
                        /\ AskedAll(r) \notin {IDENTIFY, IDENTIFY_REPLY, RELOAD_ALL}
  /\ \A w \in Worker, r \in Request : /\ Answer(w, r) \notin {IDENTIFY_SUPPLY, RELOAD}
                                      /\ Told(w, r) \notin {IDENTIFY, IDENTIFY_REPLY, RELOAD_ALL}
  /\ \A w \in Worker, r, q \in Request : Asked(q) # Answer(w, r) /\ AskedAll(q) # Told(w, r)
  /\ \A r, q \in Request : r # q => Asked(q) # Asked(r) /\ AskedAll(q) # AskedAll(r)
  /\ \A w, u \in Worker, r, q \in Request :
        w # u \/ r # q => Answer(w, r) # Answer(u, q) /\ Told(w, r) # Told(u, q)
  BY Relayed, ForWorkers

LEMMA Nats ==
  ASSUME TypeOK
  PROVE  /\ \A w \in Worker : \A n : Times(up[w], n) \in Nat /\ Times(down[w], n) \in Nat
         /\ \A x, w \in Worker, r \in Request : totals[x][w][r] \in Nat
         /\ \A r \in Request : at[r] \in Worker
  <1>1. up \in [Worker -> Seq(ToRelay)] /\ down \in [Worker -> Seq(ToWorker)]
    BY DEF TypeOK
  <1>2. \A w \in Worker : \A n : Times(up[w], n) \in Nat /\ Times(down[w], n) \in Nat
    BY <1>1, PositionsFinite
  <1>3. QED
    BY <1>2 DEF TypeOK, Counts

LEMMA NatsNext ==
  ASSUME TypeOK'
  PROVE  /\ \A w \in Worker : \A n : Times(up'[w], n) \in Nat /\ Times(down'[w], n) \in Nat
         /\ \A x, w \in Worker, r \in Request : totals'[x][w][r] \in Nat
         /\ \A r \in Request : at'[r] \in Worker
  <1>1. up' \in [Worker -> Seq(ToRelay)] /\ down' \in [Worker -> Seq(ToWorker)]
    BY DEF TypeOK
  <1>2. \A w \in Worker : \A n : Times(up'[w], n) \in Nat /\ Times(down'[w], n) \in Nat
    BY <1>1, PositionsFinite
  <1>3. QED
    BY <1>2 DEF TypeOK, Counts

LEMMA FlowNat ==
  ASSUME TypeOK, TypeOK'
  PROVE  \A x, w \in Worker, r \in Request : Flow(x, w, r) \in Nat /\ Flow(x, w, r)' \in Nat
  <1> SUFFICES ASSUME NEW x \in Worker, NEW w \in Worker, NEW r \in Request
               PROVE  Flow(x, w, r) \in Nat /\ Flow(x, w, r)' \in Nat
    OBVIOUS
  <1>1. Flow(x, w, r) \in Nat
    <2>1. /\ Times(up[at[r]], Asked(r)) \in Nat /\ Times(up[w], Answer(w, r)) \in Nat
          /\ Times(down[w], AskedAll(r)) \in Nat /\ Times(down[x], Told(w, r)) \in Nat
          /\ totals[x][w][r] \in Nat
      BY Nats, Zenon
    <2>2. QED
      BY <2>1 DEF Flow
  <1>2. Flow(x, w, r)' \in Nat
    <2>1. /\ Times(up'[at'[r]], Asked(r)) \in Nat /\ Times(up'[w], Answer(w, r)) \in Nat
          /\ Times(down'[w], AskedAll(r)) \in Nat /\ Times(down'[x], Told(w, r)) \in Nat
          /\ totals'[x][w][r] \in Nat
      BY NatsNext, Zenon
    <2>2. QED
      BY <2>1 DEF Flow
  <1>3. QED
    BY <1>1, <1>2

\* Answers move on or are lost, and none is lost while a request is alone.
LEMMA FlowsKept ==
  ASSUME IInv, TypeOK', OwnMessages', at' = at,
         \A r \in Request : pc'[r] = "idle" <=> pc[r] = "idle",
         \A x, w \in Worker, r \in Request : Flow(x, w, r)' <= Flow(x, w, r),
         \/ alone' = {}
         \/ /\ alone' = alone
            /\ AllOpen => /\ AllOpen'
                          /\ \A x, w \in Worker, r \in Request : Flow(x, w, r)' = Flow(x, w, r)
  PROVE  Flows'
  <1>1. TypeOK /\ OneAnswer /\ AloneFlows
    BY DEF IInv, Flows
  <1>2. OneAnswer'
    <2>1. ASSUME NEW x \in Worker, NEW w \in Worker, NEW r \in Request
          PROVE  Flow(x, w, r)' <= 1 /\ (pc'[r] = "idle" => Flow(x, w, r)' = 0)
      BY <1>1, FlowNat DEF OneAnswer
    <2>2. QED
      BY <2>1 DEF OneAnswer
  <1>3. AloneFlows'
    BY <1>1, Nats DEF AloneFlows, TypeOK
  <1>4. QED
    BY <1>2, <1>3 DEF Flows

\* A step that moves no message of a request.
LEMMA FlowsSame ==
  ASSUME IInv, TypeOK', UNCHANGED <<totals, at>>,
         \A r \in Request : pc'[r] = "idle" <=> pc[r] = "idle",
         alone' = alone, AllOpen => AllOpen',
         \A w \in Worker, r \in Request :
            /\ Times(up'[w], Asked(r)) = Times(up[w], Asked(r))
            /\ Times(down'[w], AskedAll(r)) = Times(down[w], AskedAll(r)),
         \A w, u \in Worker, r \in Request :
            /\ Times(up'[w], Answer(u, r)) = Times(up[w], Answer(u, r))
            /\ Times(down'[w], Told(u, r)) = Times(down[w], Told(u, r))
  PROVE  Flows'
  <1>1. TypeOK /\ OwnMessages
    BY DEF IInv, Flows
  <1>2. OwnMessages'
    BY <1>1 DEF OwnMessages
  <1>3. \A x, w \in Worker, r \in Request : Flow(x, w, r)' = Flow(x, w, r)
    BY <1>1, Nats DEF Flow
  <1>4. \A x, w \in Worker, r \in Request : Flow(x, w, r)' <= Flow(x, w, r)
    BY <1>1, <1>3, FlowNat
  <1>5. QED
    BY <1>2, <1>3, <1>4, FlowsKept

-----------------------------------------------------------------------------
(* Sockets.                                                                *)

LEMMA DropStep ==
  ASSUME IInv, TypeOK', NEW gone \in SUBSET Worker, Drop(gone), ahead' = ahead \ gone,
         UNCHANGED <<totals, pc, at, told>>,
         loop' = loop \/ (loop = "running" /\ loop' = "done" /\ ahead' = {})
  PROVE  IInv'
  <1> USE DEF IInv
  <1>1. /\ TypeOK /\ Flows /\ OneGreeting /\ Reloads
        /\ alone' = {} /\ stayed' = stayed \ gone
    BY DEF Drop
  <1>2. \A w \in Worker :
           /\ w \in gone => sock'[w] = "closed" /\ kind'[w] = "none" /\ up'[w] = <<>> /\ down'[w] = <<>>
           /\ w \notin gone => /\ sock'[w] = sock[w] /\ kind'[w] = kind[w]
                               /\ up'[w] = up[w] /\ down'[w] = down[w]
    BY Zenon DEF Drop
  <1>3. \A w \in Worker : \A n : /\ Times(up'[w], n) <= Times(up[w], n)
                                 /\ Times(down'[w], n) <= Times(down[w], n)
    <2>1. ASSUME NEW w \in Worker, NEW n
          PROVE  Times(up'[w], n) <= Times(up[w], n) /\ Times(down'[w], n) <= Times(down[w], n)
      BY <1>1, <1>2, Nats, TimesEmpty
    <2>2. QED
      BY <2>1
  <1>4. ClosedIsEmpty'
    BY <1>2 DEF ClosedIsEmpty
  <1>5. OwnMessages'
    <2>1. OwnMessages
      BY <1>1 DEF Flows
    <2>2. \A w \in Worker : \A n : Times(up'[w], n) \in Nat /\ Times(up[w], n) \in Nat
      BY <1>1, Nats, NatsNext
    <2>3. \A w \in Worker : \A n : Times(up[w], n) = 0 => Times(up'[w], n) = 0
      BY <1>3, <2>2
    <2>4. QED
      BY <1>1, <2>1, <2>3 DEF OwnMessages
  <1>6. Flows'
    <2>1. ASSUME NEW x \in Worker, NEW w \in Worker, NEW r \in Request
          PROVE  Flow(x, w, r)' <= Flow(x, w, r)
      <3>1. at[r] \in Worker
        BY <1>1, Nats
      <3>2. /\ Times(up'[at[r]], Asked(r)) <= Times(up[at[r]], Asked(r))
            /\ Times(up'[w], Answer(w, r)) <= Times(up[w], Answer(w, r))
            /\ Times(down'[w], AskedAll(r)) <= Times(down[w], AskedAll(r))
            /\ Times(down'[x], Told(w, r)) <= Times(down[x], Told(w, r))
        BY <1>3, <3>1
      <3>3. /\ Times(up[at[r]], Asked(r)) \in Nat /\ Times(up[w], Answer(w, r)) \in Nat
            /\ Times(down[w], AskedAll(r)) \in Nat /\ Times(down[x], Told(w, r)) \in Nat
            /\ totals[x][w][r] \in Nat
        BY <1>1, <3>1, Nats
      <3>4. /\ Times(up'[at[r]], Asked(r)) \in Nat /\ Times(up'[w], Answer(w, r)) \in Nat
            /\ Times(down'[w], AskedAll(r)) \in Nat /\ Times(down'[x], Told(w, r)) \in Nat
        BY <3>1, NatsNext
      <3>5. QED
        BY <3>2, <3>3, <3>4 DEF Flow
    <2>2. QED
      BY <1>1, <1>5, <2>1, FlowsKept
  <1>7. OneGreeting'
    <2>1. ASSUME NEW w \in Worker
          PROVE  Times(down'[w], IDENTIFY) + Times(up'[w], IDENTIFY_SUPPLY)
                    + (IF kind'[w] = "shard" THEN 1 ELSE 0) <= 1
      <3>1. /\ Times(down'[w], IDENTIFY) \in Nat /\ Times(up'[w], IDENTIFY_SUPPLY) \in Nat
            /\ Times(down[w], IDENTIFY) \in Nat /\ Times(up[w], IDENTIFY_SUPPLY) \in Nat
        BY <1>1, Nats, NatsNext
      <3>2. /\ Times(down'[w], IDENTIFY) <= Times(down[w], IDENTIFY)
            /\ Times(up'[w], IDENTIFY_SUPPLY) <= Times(up[w], IDENTIFY_SUPPLY)
            /\ kind'[w] = "shard" => kind[w] = "shard"
        BY <1>2, <1>3
      <3>3. QED
        BY <1>1, <3>1, <3>2 DEF OneGreeting
    <2>2. QED
      BY <2>1 DEF OneGreeting
  <1>8. Reloads'
    <2>1. stayed' \subseteq Clients' /\ ahead' \subseteq Clients'
      BY <1>1, <1>2 DEF Reloads, OneReload, Clients
    <2>2. \A w \in Worker :
            /\ Times(up'[w], RELOAD) <= Times(up[w], RELOAD)
            /\ Times(up'[w], RELOAD) \in Nat /\ Times(up[w], RELOAD) \in Nat
            /\ Times(down'[w], RELOAD_ALL) <= Times(down[w], RELOAD_ALL)
            /\ Times(down'[w], RELOAD_ALL) \in Nat /\ Times(down[w], RELOAD_ALL) \in Nat
      BY <1>1, <1>3, Nats, NatsNext
    <2>3. OneReload'
      BY <1>1, <2>1, <2>2 DEF Reloads, OneReload
    <2>4. ReloadOnce'
      BY <1>1, <1>2 DEF Reloads, ReloadOnce, TypeOK
    <2>5. QED
      BY <2>3, <2>4 DEF Reloads
  <1>9. QED
    BY <1>4, <1>6, <1>7, <1>8

(* A queue that holds one greeting.                                        *)
LEMMA TimesGreeting == \A n : Times(<<IDENTIFY>>, n) = IF n = IDENTIFY THEN 1 ELSE 0
  <1> SUFFICES ASSUME NEW n, NEW e
               PROVE  Times(<<e>>, n) = IF n = e THEN 1 ELSE 0
    OBVIOUS
  <1>1. CASE n = e
    <2>1. Positions(<<e>>, n) = {1}
      BY <1>1 DEF Positions
    <2>2. QED
      BY <1>1, <2>1, FS_Singleton DEF Times
  <1>2. CASE n # e
    <2>1. Positions(<<e>>, n) = {}
      BY <1>2 DEF Positions
    <2>2. QED
      BY <1>2, <2>1, FS_EmptySet DEF Times
  <1>3. QED
    BY <1>1, <1>2

LEMMA SocketOpensStep ==
  ASSUME IInv, TypeOK', NEW v \in Worker, SocketOpens(v)
  PROVE  IInv'
  <1> USE DEF IInv
  <1>1. /\ TypeOK /\ ClosedIsEmpty /\ OneGreeting /\ Reloads
        /\ sock[v] = "connecting" /\ sock'[v] = "open" /\ down'[v] = <<IDENTIFY>>
        /\ \A w \in Worker : w # v => sock'[w] = sock[w] /\ down'[w] = down[w]
        /\ UNCHANGED <<kind, up, totals, pc, at, loop, told, alone, stayed>>
        /\ ahead' = IF loop = "running" THEN ahead \union {v} ELSE ahead
    BY DEF SocketOpens, Goes, Rejoined, stats, TypeOK
  <1>2. up[v] = <<>> /\ down[v] = <<>> /\ kind[v] = "none"
    BY <1>1 DEF ClosedIsEmpty
  <1>3. \A n : /\ Times(up[v], n) = 0 /\ Times(down[v], n) = 0
               /\ Times(down'[v], n) = IF n = IDENTIFY THEN 1 ELSE 0
    BY <1>1, <1>2, TimesGreeting, TimesEmpty
  <1>4. ClosedIsEmpty'
    BY <1>1 DEF ClosedIsEmpty
  <1>5. Flows'
    <2>1. \A w \in Worker, r \in Request :
            /\ Times(up'[w], Asked(r)) = Times(up[w], Asked(r))
            /\ Times(down'[w], AskedAll(r)) = Times(down[w], AskedAll(r))
      BY <1>1, <1>3, Distinct
    <2>2. \A w, u \in Worker, r \in Request :
            /\ Times(up'[w], Answer(u, r)) = Times(up[w], Answer(u, r))
            /\ Times(down'[w], Told(u, r)) = Times(down[w], Told(u, r))
      BY <1>1, <1>3, Distinct
    <2>3. AllOpen => AllOpen'
      BY <1>1 DEF AllOpen
    <2>4. QED
      BY <1>1, <2>1, <2>2, <2>3, FlowsSame
  <1>6. OneGreeting'
    BY <1>1, <1>2, <1>3 DEF OneGreeting
  <1>7. Reloads'
    <2>1. \A w \in Worker : Times(down'[w], RELOAD_ALL) = Times(down[w], RELOAD_ALL)
      BY <1>1, <1>3, Distinct
    <2>2. v \notin stayed
      BY <1>1 DEF Reloads, OneReload, Clients
    <2>3. stayed' \subseteq Clients' /\ ahead' \subseteq Clients'
      BY <1>1 DEF Reloads, OneReload, Clients
    <2>4. OneReload'
      BY <1>1, <2>1, <2>3 DEF Reloads, OneReload
    <2>5. ReloadOnce'
      <3>1. \A w \in stayed : w \in Worker /\ (w \in ahead' <=> w \in ahead)
        BY <1>1, <2>2 DEF TypeOK
      <3>2. QED
        BY <1>1, <2>1, <3>1 DEF Reloads, ReloadOnce
    <2>6. QED
      BY <2>4, <2>5 DEF Reloads
  <1>8. QED
    BY <1>4, <1>5, <1>6, <1>7

\* Steps that neither send nor read.
LEMMA QuietStep ==
  ASSUME IInv, TypeOK', UNCHANGED <<kind, up, down, totals, at, ahead, told, alone, stayed>>,
         \A w \in Worker : sock'[w] = "open" <=> sock[w] = "open",
         \A r \in Request : pc'[r] = "idle" <=> pc[r] = "idle",
         loop' = loop \/ (loop = "running" /\ ahead = {} /\ loop' = "done")
  PROVE  IInv'
  <1> USE DEF IInv
  <1>1. TypeOK /\ ClosedIsEmpty /\ OneGreeting /\ Reloads
    OBVIOUS
  <1>2. ClosedIsEmpty'
    BY <1>1 DEF ClosedIsEmpty
  <1>3. Flows'
    <2>1. AllOpen => AllOpen'
      BY DEF AllOpen
    <2>2. QED
      BY <2>1, FlowsSame
  <1>4. OneGreeting'
    BY <1>1 DEF OneGreeting
  <1>5. Reloads'
    <2>1. Clients' = Clients
      BY DEF Clients
    <2>2. QED
      BY <1>1, <2>1 DEF Reloads, OneReload, ReloadOnce
  <1>6. QED
    BY <1>2, <1>3, <1>4, <1>5

LEMMA QuietSteps ==
  ASSUME IInv, TypeOK',
         \/ \E w \in Worker : SocketRetries(w) \/ ConnectFails(w)
         \/ \E r \in Request : Show(r)
         \/ RelayEndsLoop
         \/ UNCHANGED vars
  PROVE  IInv'
  <1>1. TypeOK
    BY DEF IInv
  <1>2. ASSUME NEW w \in Worker, SocketRetries(w) \/ ConnectFails(w) PROVE IInv'
    <2>1. \A v \in Worker : sock'[v] = "open" <=> sock[v] = "open"
      BY <1>1, <1>2 DEF SocketRetries, ConnectFails, Restarts, Goes, TypeOK
    <2>2. UNCHANGED <<kind, up, down, totals, pc, at, loop, ahead, told, alone, stayed>>
      BY <1>2 DEF SocketRetries, ConnectFails, stats, reload
    <2>3. QED
      BY <2>1, <2>2, QuietStep
  <1>3. ASSUME NEW r \in Request, Show(r) PROVE IInv'
    <2>1. \A q \in Request : pc'[q] = "idle" <=> pc[q] = "idle"
      BY <1>1, <1>3 DEF Show, TypeOK
    <2>2. UNCHANGED <<sock, kind, up, down, totals, at, loop, ahead, told, alone, stayed>>
      BY <1>3 DEF Show, conn, reload
    <2>3. QED
      BY <2>1, <2>2, QuietStep
  <1>4. CASE RelayEndsLoop
    BY <1>4, QuietStep DEF RelayEndsLoop, conn, stats
  <1>5. CASE UNCHANGED vars
    BY <1>5, QuietStep DEF vars, conn, stats, reload
  <1>6. QED
    BY <1>2, <1>3, <1>4, <1>5

-----------------------------------------------------------------------------
(* Commands.                                                               *)

\* A message is sent, or dropped by a socket that is not open.
LEMMA Sends ==
  ASSUME TypeOK, NEW v \in Worker, NEW m \in ToRelay, Send(v, m)
  PROVE  /\ \A w \in Worker : w # v => up'[w] = up[w]
         /\ sock[v] # "open" => up'[v] = up[v]
         /\ \A n : Times(up'[v], n) = Times(up[v], n) + (IF sock[v] = "open" /\ m = n THEN 1 ELSE 0)
  <1>1. CASE sock[v] = "open"
    BY <1>1, UpPuts DEF Send
  <1>2. CASE sock[v] # "open"
    BY <1>2, Nats DEF Send
  <1>3. QED
    BY <1>1, <1>2

LEMMA ZeroFlow ==
  ASSUME TypeOK, NEW x \in Worker, NEW w \in Worker, NEW r \in Request, Flow(x, w, r) = 0
  PROVE  /\ Times(up[at[r]], Asked(r)) = 0 /\ Times(down[w], AskedAll(r)) = 0
         /\ Times(up[w], Answer(w, r)) = 0 /\ Times(down[x], Told(w, r)) = 0
         /\ totals[x][w][r] = 0
  <1> DEFINE a == Times(up[at[r]], Asked(r))
             b == Times(down[w], AskedAll(r))
             c == Times(up[w], Answer(w, r))
             d == Times(down[x], Told(w, r))
             e == totals[x][w][r]
  <1>1. a \in Nat /\ b \in Nat /\ c \in Nat /\ d \in Nat /\ e \in Nat
    BY Nats, Zenon
  <1>2. a + b + c + d + e = 0
    BY Zenon DEF Flow
  <1> HIDE DEF a, b, c, d, e
  <1>3. a = 0 /\ b = 0 /\ c = 0 /\ d = 0 /\ e = 0
    BY <1>1, <1>2
  <1>4. QED
    BY <1>3, Zenon DEF a, b, c, d, e

LEMMA AskStep ==
  ASSUME IInv, TypeOK', NEW r \in Request, Ask(r)
  PROVE  IInv'
  <1> USE DEF IInv
  <1> DEFINE v == at[r]
  <1>1. /\ TypeOK /\ ClosedIsEmpty /\ OwnMessages /\ OneAnswer /\ OneGreeting /\ Reloads
        /\ v \in Worker /\ Asked(r) \in ToRelay /\ Send(v, Asked(r)) /\ pc[r] = "idle"
        /\ UNCHANGED <<sock, kind, down, at, loop, ahead, told, stayed>>
    BY Relayed DEF Ask, conn, reload, Flows, TypeOK
  <1>2. /\ \A w \in Worker : w # v => up'[w] = up[w]
        /\ sock[v] # "open" => up'[v] = up[v]
        /\ \A n : Times(up'[v], n) = Times(up[v], n) + (IF sock[v] = "open" /\ Asked(r) = n THEN 1 ELSE 0)
    BY <1>1, Sends
  <1>3. \A w \in Worker : \A n : n # Asked(r) => Times(up'[w], n) = Times(up[w], n)
    BY <1>1, <1>2, Nats
  <1>4. \A x, w \in Worker, q \in Request :
           totals'[x][w][q] = IF x = v THEN 0 ELSE totals[x][w][q]
    BY <1>1 DEF Ask, Cleared, Nothing, TypeOK
  <1>5. \A q \in Request : (pc'[q] = "idle" => pc[q] = "idle") /\ pc'[r] # "idle"
    BY <1>1 DEF Ask, TypeOK
  <1>6. ClosedIsEmpty'
    BY <1>1, <1>2 DEF ClosedIsEmpty
  <1>7. OwnMessages'
    <2>1. ASSUME NEW w \in Worker, NEW q \in Request, w # at'[q]
          PROVE  Times(up'[w], Asked(q)) = 0
      <3>1. Times(up[w], Asked(q)) = 0
        BY <1>1, <2>1 DEF OwnMessages
      <3>2. CASE q = r
        BY <1>1, <1>2, <2>1, <3>1, <3>2
      <3>3. CASE q # r
        BY <1>3, <3>1, <3>3, Distinct
      <3>4. QED
        BY <3>2, <3>3
    <2>2. \A w, u \in Worker, q \in Request : Times(up'[w], Answer(u, q)) = Times(up[w], Answer(u, q))
      BY <1>3, Distinct
    <2>3. QED
      BY <1>1, <2>1, <2>2 DEF OwnMessages
  <1>8. ASSUME NEW x \in Worker, NEW w \in Worker, NEW q \in Request
        PROVE  /\ q # r => Flow(x, w, q)' <= Flow(x, w, q)
               /\ q = r => Flow(x, w, q)' = IF sock[v] = "open" THEN 1 ELSE 0
    <2>1. /\ Times(up[at[q]], Asked(q)) \in Nat /\ Times(up[w], Answer(w, q)) \in Nat
          /\ Times(down[w], AskedAll(q)) \in Nat /\ Times(down[x], Told(w, q)) \in Nat
          /\ totals[x][w][q] \in Nat /\ at[q] \in Worker
      BY <1>1, Nats
    <2>2. Times(up'[w], Answer(w, q)) = Times(up[w], Answer(w, q))
      BY <1>3, Distinct
    <2>3. CASE q # r
      <3>1. Times(up'[at[q]], Asked(q)) = Times(up[at[q]], Asked(q))
        BY <1>3, <2>1, <2>3, Distinct
      <3>2. QED
        BY <1>1, <1>4, <2>1, <2>2, <2>3, <3>1 DEF Flow
    <2>4. CASE q = r
      <3>1. Flow(x, w, q) = 0
        BY <1>1, <2>4 DEF OneAnswer
      <3>2. /\ Times(up[v], Asked(r)) = 0 /\ Times(up[w], Answer(w, q)) = 0
            /\ Times(down[w], AskedAll(q)) = 0 /\ Times(down[x], Told(w, q)) = 0
            /\ totals[x][w][q] = 0
        BY <1>1, <2>4, <3>1, ZeroFlow
      <3>3. Times(up'[v], Asked(r)) = IF sock[v] = "open" THEN 1 ELSE 0
        BY <1>2, <3>2
      <3>4. QED
        BY <1>1, <1>4, <2>2, <2>4, <3>2, <3>3 DEF Flow
    <2>5. QED
      BY <2>3, <2>4
  <1>9. OneAnswer'
    <2>1. ASSUME NEW x \in Worker, NEW w \in Worker, NEW q \in Request
          PROVE  Flow(x, w, q)' <= 1 /\ (pc'[q] = "idle" => Flow(x, w, q)' = 0)
      <3>1. CASE q = r
        BY <1>5, <1>8, <3>1
      <3>2. CASE q # r
        BY <1>1, <1>5, <1>8, <3>2, FlowNat DEF OneAnswer
      <3>3. QED
        BY <3>1, <3>2
    <2>2. QED
      BY <2>1 DEF OneAnswer
  <1>10. AloneFlows'
    <2>1. SUFFICES ASSUME alone' = {r}, Silent, AllOpen PROVE AloneFlows'
      BY DEF AloneFlows, Ask
    <2>2. AllOpen' /\ sock[v] = "open"
      BY <1>1, <2>1 DEF AllOpen
    <2>3. ASSUME NEW w \in Worker, NEW q \in Request, q # r
          PROVE  Flow(v, w, q)' = 0
      <3>1. /\ Times(up[at[q]], Asked(q)) = 0 /\ Times(up[w], Answer(w, q)) = 0
            /\ Times(down[w], AskedAll(q)) = 0 /\ Times(down[v], Told(w, q)) = 0
        BY <1>1, <2>1, Nats, TimesEmpty DEF Silent
      <3>2. Times(up'[at[q]], Asked(q)) = 0 /\ Times(up'[w], Answer(w, q)) = 0
        BY <1>1, <1>3, <2>3, <3>1, Distinct, Nats
      <3>3. QED
        BY <1>1, <1>4, <3>1, <3>2 DEF Flow
    <2>4. \A w \in Worker : Flow(v, w, r)' = 1
      BY <1>1, <1>8, <2>2
    <2>5. QED
      BY <1>1, <1>5, <2>1, <2>2, <2>3, <2>4 DEF AloneFlows
  <1>11. OneGreeting'
    BY <1>1, <1>3, Distinct DEF OneGreeting
  <1>12. Reloads'
    <2>1. \A w \in Worker : Times(up'[w], RELOAD) = Times(up[w], RELOAD)
      BY <1>3, Distinct
    <2>2. Clients' = Clients
      BY <1>1 DEF Clients
    <2>3. QED
      BY <1>1, <2>1, <2>2 DEF Reloads, OneReload, ReloadOnce
  <1>13. QED
    BY <1>6, <1>7, <1>9, <1>10, <1>11, <1>12 DEF Flows

LEMMA ReloadStep ==
  ASSUME IInv, TypeOK', NEW v \in Worker, Reload(v)
  PROVE  IInv'
  <1> USE DEF IInv
  <1>1. /\ TypeOK /\ ClosedIsEmpty /\ OneGreeting /\ Reloads
        /\ RELOAD \in ToRelay /\ Send(v, RELOAD)
        /\ loop = "idle" /\ loop' = "asked"
        /\ UNCHANGED <<sock, kind, down, totals, pc, at, ahead, told, alone, stayed>>
    BY Relayed DEF Reload, conn, stats
  <1>2. /\ \A w \in Worker : w # v => up'[w] = up[w]
        /\ sock[v] # "open" => up'[v] = up[v]
        /\ \A n : Times(up'[v], n) = Times(up[v], n) + (IF sock[v] = "open" /\ RELOAD = n THEN 1 ELSE 0)
    BY <1>1, Sends
  <1>3. \A w \in Worker : \A n : n # RELOAD => Times(up'[w], n) = Times(up[w], n)
    BY <1>1, <1>2, Nats
  <1>4. ClosedIsEmpty'
    BY <1>1, <1>2 DEF ClosedIsEmpty
  <1>5. Flows'
    <2>1. \A w \in Worker, r \in Request : Times(up'[w], Asked(r)) = Times(up[w], Asked(r))
      BY <1>3, Distinct
    <2>2. \A w, u \in Worker, r \in Request : Times(up'[w], Answer(u, r)) = Times(up[w], Answer(u, r))
      BY <1>3, Distinct
    <2>3. AllOpen' = AllOpen
      BY <1>1 DEF AllOpen
    <2>4. QED
      BY <1>1, <2>1, <2>2, <2>3, FlowsSame
  <1>6. OneGreeting'
    BY <1>1, <1>3, Distinct DEF OneGreeting
  <1>7. Reloads'
    <2>1. \A w \in Worker : Times(up[w], RELOAD) = 0
      BY <1>1 DEF Reloads, OneReload
    <2>2. \A w \in Worker : Times(up'[w], RELOAD) <= 1 /\ (w # v => Times(up'[w], RELOAD) = 0)
      BY <1>1, <1>2, <2>1
    <2>3. Clients' = Clients
      BY <1>1 DEF Clients
    <2>4. OneReload'
      BY <1>1, <2>2, <2>3 DEF Reloads, OneReload
    <2>5. ReloadOnce'
      BY <1>1 DEF Reloads, ReloadOnce
    <2>6. QED
      BY <2>4, <2>5 DEF Reloads
  <1>8. QED
    BY <1>4, <1>5, <1>6, <1>7

-----------------------------------------------------------------------------
(* The relay.                                                              *)

LEMMA IdentifiesStep ==
  ASSUME IInv, TypeOK', NEW v \in Worker, RelayIdentifies(v)
  PROVE  IInv'
  <1> USE DEF IInv
  <1>1. /\ TypeOK /\ ClosedIsEmpty /\ OneGreeting /\ Reloads
        /\ up[v] # <<>> /\ Head(up[v]).op = "1003" /\ Identifies(v)
        /\ UNCHANGED <<totals, pc, at, loop, told, spent>>
    BY DEF RelayIdentifies, stats
  <1>2. CASE kind[v] # "none"
    BY <1>1, <1>2, DropStep DEF Identifies
  <1>3. CASE kind[v] = "none"
    <2>1. /\ up' = Read(up, v) /\ kind' = [kind EXCEPT ![v] = "shard"]
          /\ down' = [down EXCEPT ![v] = @ \o <<IDENTIFY_REPLY>>]
          /\ UNCHANGED <<sock, ahead, alone, stayed>>
      BY <1>1, <1>3 DEF Identifies, SocketType, IdentifyReply
    <2>2. /\ Head(up[v]) = IDENTIFY_SUPPLY
          /\ \A w \in Worker : w # v => up'[w] = up[w]
          /\ \A n : Times(up'[v], n) = Times(up[v], n) - (IF IDENTIFY_SUPPLY = n THEN 1 ELSE 0)
          /\ Times(up[v], IDENTIFY_SUPPLY) >= 1
      <3>1. Head(up[v]) = IDENTIFY_SUPPLY
        BY <1>1, <2>1, UpTakes, UpHeads
      <3>2. QED
        BY <1>1, <2>1, <3>1, UpTakes
    <2>3. /\ \A w \in Worker : w # v => down'[w] = down[w]
          /\ \A n : Times(down'[v], n) = Times(down[v], n) + (IF IDENTIFY_REPLY = n THEN 1 ELSE 0)
      <3>1. down[v] \in Seq(ToWorker) /\ IDENTIFY_REPLY \in ToWorker
        BY <1>1, ForWorkers DEF TypeOK
      <3>2. down[v] \o <<IDENTIFY_REPLY>> = Append(down[v], IDENTIFY_REPLY)
        BY <3>1
      <3>3. QED
        BY <1>1, <2>1, <3>1, <3>2, DownPuts
    <2>4. \A w \in Worker : \A n :
             /\ n # IDENTIFY_SUPPLY => Times(up'[w], n) = Times(up[w], n)
             /\ n # IDENTIFY_REPLY => Times(down'[w], n) = Times(down[w], n)
      <3>1. ASSUME NEW w \in Worker, NEW n
            PROVE  /\ n # IDENTIFY_SUPPLY => Times(up'[w], n) = Times(up[w], n)
                   /\ n # IDENTIFY_REPLY => Times(down'[w], n) = Times(down[w], n)
        <4>1. Times(up[w], n) \in Nat /\ Times(down[w], n) \in Nat
          BY <1>1, Nats
        <4>2. QED
          BY <2>2, <2>3, <4>1
      <3>2. QED
        BY <3>1
    <2>5. ClosedIsEmpty'
      BY <1>1, <2>1, <2>2, <2>3 DEF ClosedIsEmpty, TypeOK
    <2>6. Flows'
      <3>1. \A w \in Worker, r \in Request :
              /\ Times(up'[w], Asked(r)) = Times(up[w], Asked(r))
              /\ Times(down'[w], AskedAll(r)) = Times(down[w], AskedAll(r))
        BY <2>4, Distinct
      <3>2. \A w, u \in Worker, r \in Request :
              /\ Times(up'[w], Answer(u, r)) = Times(up[w], Answer(u, r))
              /\ Times(down'[w], Told(u, r)) = Times(down[w], Told(u, r))
        BY <2>4, Distinct
      <3>3. AllOpen' = AllOpen
        BY <2>1 DEF AllOpen
      <3>4. QED
        BY <1>1, <2>1, <3>1, <3>2, <3>3, FlowsSame
    <2>7. OneGreeting'
      <3>1. ASSUME NEW w \in Worker
            PROVE  Times(down'[w], IDENTIFY) + Times(up'[w], IDENTIFY_SUPPLY)
                      + (IF kind'[w] = "shard" THEN 1 ELSE 0) <= 1
        <4>1. Times(down'[w], IDENTIFY) = Times(down[w], IDENTIFY)
          BY <2>4, Distinct
        <4>2. Times(down[w], IDENTIFY) \in Nat /\ Times(up[w], IDENTIFY_SUPPLY) \in Nat
          BY <1>1, Nats
        <4>3. Times(down[w], IDENTIFY) + Times(up[w], IDENTIFY_SUPPLY)
                + (IF kind[w] = "shard" THEN 1 ELSE 0) <= 1
          BY <1>1 DEF OneGreeting
        <4>4. CASE w = v
          BY <1>3, <2>2, <4>1, <4>2, <4>3, <4>4
        <4>5. CASE w # v
          BY <1>1, <2>1, <2>2, <4>1, <4>3, <4>5 DEF TypeOK
        <4>6. QED
          BY <4>4, <4>5
      <3>2. QED
        BY <3>1 DEF OneGreeting
    <2>8. Reloads'
      <3>1. \A w \in Worker : /\ Times(up'[w], RELOAD) = Times(up[w], RELOAD)
                              /\ Times(down'[w], RELOAD_ALL) = Times(down[w], RELOAD_ALL)
        BY <2>4, Distinct
      <3>2. Clients' = Clients
        BY <2>1 DEF Clients
      <3>3. QED
        BY <1>1, <2>1, <3>1, <3>2 DEF Reloads, OneReload, ReloadOnce, TypeOK
    <2>9. QED
      BY <2>5, <2>6, <2>7, <2>8
  <1>4. QED
    BY <1>2, <1>3

\* A message of a request is read and passed on by the relay; the other groups of
\* the invariant do not see it.
LEMMA PassedOn ==
  ASSUME IInv, TypeOK', Flows',
         UNCHANGED <<sock, kind, loop, ahead, told, alone, stayed>>,
         \A w \in Worker : sock[w] # "open" => up'[w] = up[w] /\ down'[w] = down[w],
         \A w \in Worker :
            /\ Times(up'[w], IDENTIFY_SUPPLY) = Times(up[w], IDENTIFY_SUPPLY)
            /\ Times(down'[w], IDENTIFY) = Times(down[w], IDENTIFY)
            /\ Times(up'[w], RELOAD) = Times(up[w], RELOAD)
            /\ Times(down'[w], RELOAD_ALL) = Times(down[w], RELOAD_ALL)
  PROVE  IInv'
  <1> USE DEF IInv
  <1>1. TypeOK /\ ClosedIsEmpty /\ OneGreeting /\ Reloads
    OBVIOUS
  <1>2. ClosedIsEmpty'
    BY <1>1 DEF ClosedIsEmpty
  <1>3. OneGreeting'
    BY <1>1 DEF OneGreeting
  <1>4. Clients' = Clients
    BY DEF Clients
  <1>5. Reloads'
    BY <1>1, <1>4 DEF Reloads, OneReload, ReloadOnce, TypeOK
  <1>6. QED
    BY <1>2, <1>3, <1>5

LEMMA AsksAllStep ==
  ASSUME IInv, TypeOK', NEW v \in Worker, RelayAsksAll(v)
  PROVE  IInv'
  <1> USE DEF IInv
  <1> DEFINE q == Head(up[v]).req
  <1>1. /\ TypeOK /\ ClosedIsEmpty /\ OwnMessages
        /\ up[v] # <<>> /\ Head(up[v]).op = "3000" /\ up' = Read(up, v) /\ Broadcast(AskedAll(q))
        /\ UNCHANGED <<sock, kind, totals, pc, at, loop, ahead, told, alone, stayed>>
    BY DEF RelayAsksAll, conn, stats, reload, Flows
  <1>2. q \in Request /\ Head(up[v]) = Asked(q)
    BY <1>1, UpTakes, UpHeads
  <1>3. /\ \A w \in Worker : w # v => up'[w] = up[w]
        /\ \A n : Times(up'[v], n) = Times(up[v], n) - (IF Asked(q) = n THEN 1 ELSE 0)
        /\ Times(up[v], Asked(q)) >= 1
    <2>1. /\ \A w \in Worker : w # v => up'[w] = up[w]
          /\ \A n : Times(up'[v], n) = Times(up[v], n) - (IF Head(up[v]) = n THEN 1 ELSE 0)
          /\ Times(up[v], Head(up[v])) >= 1
      BY <1>1, UpTakes
    <2>2. QED
      BY <1>2, <2>1
  <1>4. \A w \in Worker : \A n :
           Times(down'[w], n) = Times(down[w], n) + (IF sock[w] = "open" /\ AskedAll(q) = n THEN 1 ELSE 0)
    BY <1>1, <1>2, PutsAll, ForWorkers
  <1> HIDE DEF q
  <1>5. v = at[q]
    BY <1>1, <1>2, <1>3 DEF OwnMessages
  <1>6. \A w \in Worker : \A n :
           /\ n # Asked(q) => Times(up'[w], n) = Times(up[w], n)
           /\ n # AskedAll(q) => Times(down'[w], n) = Times(down[w], n)
    <2>1. ASSUME NEW w \in Worker, NEW n
          PROVE  /\ n # Asked(q) => Times(up'[w], n) = Times(up[w], n)
                 /\ n # AskedAll(q) => Times(down'[w], n) = Times(down[w], n)
      <3>1. Times(up[w], n) \in Nat /\ Times(down[w], n) \in Nat
        BY <1>1, Nats
      <3>2. n # AskedAll(q) => Times(down'[w], n) = Times(down[w], n)
        BY <1>4, <3>1
      <3>3. n # Asked(q) => Times(up'[w], n) = Times(up[w], n)
        BY <1>3, <3>1
      <3>4. QED
        BY <3>2, <3>3
    <2>2. QED
      BY <2>1
  <1>7. OwnMessages'
    <2>1. \A w \in Worker, r \in Request : w # at[r] => Times(up'[w], Asked(r)) = 0
      BY <1>1, <1>3, <1>5 DEF OwnMessages
    <2>2. \A w, u \in Worker, r \in Request : Times(up'[w], Answer(u, r)) = Times(up[w], Answer(u, r))
      BY <1>2, <1>6, Distinct
    <2>3. QED
      BY <1>1, <2>1, <2>2 DEF OwnMessages
  <1>8. ASSUME NEW x \in Worker, NEW w \in Worker, NEW r \in Request
        PROVE  /\ Flow(x, w, r)' <= Flow(x, w, r)
               /\ sock[w] = "open" => Flow(x, w, r)' = Flow(x, w, r)
    <2>1. /\ Times(up[at[r]], Asked(r)) \in Nat /\ Times(up[w], Answer(w, r)) \in Nat
          /\ Times(down[w], AskedAll(r)) \in Nat /\ Times(down[x], Told(w, r)) \in Nat
          /\ totals[x][w][r] \in Nat /\ at[r] \in Worker
      BY <1>1, Nats
    <2>2. /\ Times(up'[w], Answer(w, r)) = Times(up[w], Answer(w, r))
          /\ Times(down'[x], Told(w, r)) = Times(down[x], Told(w, r))
      BY <1>2, <1>6, Distinct
    <2>3. CASE r # q
      <3>1. /\ Times(up'[at[r]], Asked(r)) = Times(up[at[r]], Asked(r))
            /\ Times(down'[w], AskedAll(r)) = Times(down[w], AskedAll(r))
        BY <1>2, <1>6, <2>1, <2>3, Distinct
      <3>2. QED
        BY <1>1, <2>1, <2>2, <3>1 DEF Flow
    <2>4. CASE r = q
      <3>1. /\ Times(up'[at[r]], Asked(r)) = Times(up[at[r]], Asked(r)) - 1
            /\ Times(down'[w], AskedAll(r)) = Times(down[w], AskedAll(r)) + (IF sock[w] = "open" THEN 1 ELSE 0)
        BY <1>3, <1>4, <1>5, <2>4
      <3>2. QED
        BY <1>1, <2>1, <2>2, <3>1 DEF Flow
    <2>5. QED
      BY <2>3, <2>4
  <1>9. Flows'
    <2>1. \A x, w \in Worker, r \in Request : Flow(x, w, r)' <= Flow(x, w, r)
      BY <1>8
    <2>2. AllOpen => AllOpen' /\ \A x, w \in Worker, r \in Request : Flow(x, w, r)' = Flow(x, w, r)
      BY <1>1, <1>8 DEF AllOpen
    <2>3. QED
      BY <1>1, <1>7, <2>1, <2>2, FlowsKept
  <1>10. \A w \in Worker : sock[w] # "open" => up'[w] = up[w] /\ down'[w] = down[w]
    BY <1>1, <1>3 DEF ClosedIsEmpty, Broadcast
  <1>11. QED
    BY <1>1, <1>2, <1>6, <1>9, <1>10, PassedOn, Distinct

LEMMA TellsAllStep ==
  ASSUME IInv, TypeOK', NEW v \in Worker, RelayTellsAll(v)
  PROVE  IInv'
  <1> USE DEF IInv
  <1> DEFINE q == Head(up[v]).req
  <1>1. /\ TypeOK /\ ClosedIsEmpty /\ OwnMessages
        /\ up[v] # <<>> /\ Head(up[v]).op = "3002" /\ up' = Read(up, v)
        /\ Broadcast(Told(Head(up[v]).from, q))
        /\ UNCHANGED <<sock, kind, totals, pc, at, loop, ahead, told, alone, stayed>>
    BY DEF RelayTellsAll, conn, stats, reload, Flows
  <1>2. q \in Request /\ Head(up[v]).from = v /\ Head(up[v]) = Answer(v, q)
    <2>1. /\ q \in Request /\ Head(up[v]).from \in Worker /\ Head(up[v]) = Answer(Head(up[v]).from, q)
          /\ Times(up[v], Head(up[v])) >= 1
      BY <1>1, UpTakes, UpHeads
    <2>2. Head(up[v]).from = v
      BY <1>1, <2>1 DEF OwnMessages
    <2>3. QED
      BY <2>1, <2>2
  <1>3. /\ \A w \in Worker : w # v => up'[w] = up[w]
        /\ \A n : Times(up'[v], n) = Times(up[v], n) - (IF Answer(v, q) = n THEN 1 ELSE 0)
    <2>1. /\ \A w \in Worker : w # v => up'[w] = up[w]
          /\ \A n : Times(up'[v], n) = Times(up[v], n) - (IF Head(up[v]) = n THEN 1 ELSE 0)
      BY <1>1, UpTakes
    <2>2. QED
      BY <1>2, <2>1
  <1>4. \A w \in Worker : \A n :
           Times(down'[w], n) = Times(down[w], n) + (IF sock[w] = "open" /\ Told(v, q) = n THEN 1 ELSE 0)
    <2>1. Told(v, q) \in ToWorker /\ Broadcast(Told(v, q))
      BY <1>1, <1>2, ForWorkers
    <2>2. QED
      BY <1>1, <2>1, PutsAll
  <1>5. \A w \in Worker : sock[w] # "open" => up'[w] = up[w] /\ down'[w] = down[w]
    BY <1>1, <1>3 DEF ClosedIsEmpty, Broadcast
  <1> HIDE DEF q
  <1>6. \A w \in Worker : \A n :
           /\ n # Answer(v, q) => Times(up'[w], n) = Times(up[w], n)
           /\ n # Told(v, q) => Times(down'[w], n) = Times(down[w], n)
    <2>1. ASSUME NEW w \in Worker, NEW n
          PROVE  /\ n # Answer(v, q) => Times(up'[w], n) = Times(up[w], n)
                 /\ n # Told(v, q) => Times(down'[w], n) = Times(down[w], n)
      <3>1. Times(up[w], n) \in Nat /\ Times(down[w], n) \in Nat
        BY <1>1, Nats
      <3>2. n # Told(v, q) => Times(down'[w], n) = Times(down[w], n)
        BY <1>4, <3>1
      <3>3. n # Answer(v, q) => Times(up'[w], n) = Times(up[w], n)
        BY <1>3, <3>1
      <3>4. QED
        BY <3>2, <3>3
    <2>2. QED
      BY <2>1
  <1>7. OwnMessages'
    <2>1. \A w \in Worker, r \in Request : w # at[r] => Times(up'[w], Asked(r)) = 0
      BY <1>1, <1>2, <1>6, Distinct DEF OwnMessages
    <2>2. \A w, u \in Worker, r \in Request : u # w => Times(up'[w], Answer(u, r)) = 0
      <3>1. \A w, u \in Worker, r \in Request : u # w => Times(up[w], Answer(u, r)) = 0
        BY <1>1 DEF OwnMessages
      <3>2. \A u \in Worker, r \in Request : u # v => Answer(u, r) # Answer(v, q)
        BY <1>2, Distinct
      <3>3. QED
        BY <1>3, <1>6, <3>1, <3>2
    <2>3. QED
      BY <1>1, <2>1, <2>2 DEF OwnMessages
  <1>8. ASSUME NEW x \in Worker, NEW w \in Worker, NEW r \in Request
        PROVE  /\ Flow(x, w, r)' <= Flow(x, w, r)
               /\ sock[x] = "open" => Flow(x, w, r)' = Flow(x, w, r)
    <2>1. /\ Times(up[at[r]], Asked(r)) \in Nat /\ Times(up[w], Answer(w, r)) \in Nat
          /\ Times(down[w], AskedAll(r)) \in Nat /\ Times(down[x], Told(w, r)) \in Nat
          /\ totals[x][w][r] \in Nat /\ at[r] \in Worker
      BY <1>1, Nats
    <2>2. /\ Times(up'[at[r]], Asked(r)) = Times(up[at[r]], Asked(r))
          /\ Times(down'[w], AskedAll(r)) = Times(down[w], AskedAll(r))
      BY <1>2, <1>6, <2>1, Distinct
    <2>3. CASE ~(w = v /\ r = q)
      <3>1. /\ Times(up'[w], Answer(w, r)) = Times(up[w], Answer(w, r))
            /\ Times(down'[x], Told(w, r)) = Times(down[x], Told(w, r))
        BY <1>2, <1>6, <2>3, Distinct
      <3>2. QED
        BY <1>1, <2>1, <2>2, <3>1 DEF Flow
    <2>4. CASE w = v /\ r = q
      <3>1. /\ Times(up'[w], Answer(w, r)) = Times(up[w], Answer(w, r)) - 1
            /\ Times(down'[x], Told(w, r)) = Times(down[x], Told(w, r)) + (IF sock[x] = "open" THEN 1 ELSE 0)
        BY <1>3, <1>4, <2>4
      <3> DEFINE a == Times(up[at[r]], Asked(r))
                 b == Times(down[w], AskedAll(r))
                 c == Times(up[w], Answer(w, r))
                 d == Times(down[x], Told(w, r))
                 e == totals[x][w][r]
      <3>2. Flow(x, w, r) = a + b + c + d + e
        BY Zenon DEF Flow
      <3>3. Flow(x, w, r)' = a + b + (c - 1) + (d + (IF sock[x] = "open" THEN 1 ELSE 0)) + e
        BY <1>1, <2>2, <3>1, Zenon DEF Flow
      <3>4. a \in Nat /\ b \in Nat /\ c \in Nat /\ d \in Nat /\ e \in Nat
        BY <2>1
      <3> HIDE DEF a, b, c, d, e
      <3>5. QED
        BY <3>2, <3>3, <3>4
    <2>5. QED
      BY <2>3, <2>4
  <1>9. Flows'
    <2>1. \A x, w \in Worker, r \in Request : Flow(x, w, r)' <= Flow(x, w, r)
      BY <1>8
    <2>2. AllOpen => AllOpen' /\ \A x, w \in Worker, r \in Request : Flow(x, w, r)' = Flow(x, w, r)
      BY <1>1, <1>8 DEF AllOpen
    <2>3. QED
      BY <1>1, <1>7, <2>1, <2>2, FlowsKept
  <1>10. QED
    BY <1>1, <1>2, <1>5, <1>6, <1>9, PassedOn, Distinct

LEMMA LoopSteps ==
  ASSUME IInv, TypeOK', NEW v \in Worker, RelayStartsLoop(v) \/ RelayVisits(v)
  PROVE  IInv'
  <1> USE DEF IInv
  <1>1. TypeOK /\ ClosedIsEmpty /\ OneGreeting /\ Reloads
    OBVIOUS
  <1>2. CASE RelayStartsLoop(v)
    <2>1. /\ up[v] # <<>> /\ Head(up[v]).op = "10010" /\ up' = Read(up, v)
          /\ loop' = "running" /\ ahead' = Clients /\ stayed' = Clients
          /\ UNCHANGED <<sock, kind, down, totals, pc, at, told, alone>>
      BY <1>2 DEF RelayStartsLoop, conn, stats
    <2>2. Head(up[v]) = RELOAD
      BY <1>1, <2>1, UpTakes, UpHeads
    <2>3. /\ \A w \in Worker : w # v => up'[w] = up[w]
          /\ \A n : Times(up'[v], n) = Times(up[v], n) - (IF RELOAD = n THEN 1 ELSE 0)
          /\ Times(up[v], RELOAD) >= 1
      BY <1>1, <2>1, <2>2, UpTakes
    <2>4. \A w \in Worker : \A n : n # RELOAD => Times(up'[w], n) = Times(up[w], n)
      BY <1>1, <2>3, Nats
    <2>5. ClosedIsEmpty'
      BY <1>1, <2>1, <2>3 DEF ClosedIsEmpty
    <2>6. Flows'
      <3>1. \A w \in Worker, r \in Request : Times(up'[w], Asked(r)) = Times(up[w], Asked(r))
        BY <2>4, Distinct
      <3>2. \A w, u \in Worker, r \in Request : Times(up'[w], Answer(u, r)) = Times(up[w], Answer(u, r))
        BY <2>4, Distinct
      <3>3. AllOpen' = AllOpen
        BY <2>1 DEF AllOpen
      <3>4. QED
        BY <2>1, <3>1, <3>2, <3>3, FlowsSame
    <2>7. OneGreeting'
      BY <1>1, <2>1, <2>4, Distinct DEF OneGreeting
    <2>8. Reloads'
      <3>1. loop = "asked" /\ \A w \in Worker : told[w] = 0 /\ Times(down[w], RELOAD_ALL) = 0
        BY <1>1, <2>3 DEF Reloads, OneReload
      <3>2. \A w \in Worker : Times(up'[w], RELOAD) = 0
        <4>1. Times(up[v], RELOAD) = 1
          BY <1>1, <2>3, Nats DEF Reloads, OneReload
        <4>2. \A w \in Worker : w # v => Times(up[w], RELOAD) = 0
          BY <1>1, <4>1 DEF Reloads, OneReload
        <4>3. QED
          BY <2>3, <4>1, <4>2
      <3>3. Clients' = Clients
        BY <2>1 DEF Clients
      <3>4. OneReload'
        BY <2>1, <3>2, <3>3 DEF OneReload
      <3>5. ReloadOnce'
        BY <2>1, <3>1 DEF ReloadOnce, Clients
      <3>6. QED
        BY <3>4, <3>5 DEF Reloads
    <2>9. QED
      BY <2>5, <2>6, <2>7, <2>8
  <1>3. CASE RelayVisits(v)
    <2>1. /\ loop = "running" /\ v \in ahead /\ ahead' = ahead \ {v}
          /\ down' = [down EXCEPT ![v] = Append(@, RELOAD_ALL)]
          /\ UNCHANGED <<sock, kind, up, totals, pc, at, loop, told, alone, stayed>>
      BY <1>3 DEF RelayVisits, conn, stats
    <2>2. /\ \A w \in Worker : w # v => down'[w] = down[w]
          /\ \A n : Times(down'[v], n) = Times(down[v], n) + (IF RELOAD_ALL = n THEN 1 ELSE 0)
      <3>1. RELOAD_ALL \in ToWorker
        BY ForWorkers
      <3>2. QED
        BY <1>1, <2>1, <3>1, DownPuts
    <2>3. \A w \in Worker : \A n : n # RELOAD_ALL => Times(down'[w], n) = Times(down[w], n)
      BY <1>1, <2>2, Nats
    <2>4. ClosedIsEmpty'
      BY <1>1, <2>1, <2>2 DEF ClosedIsEmpty, Reloads, OneReload, Clients
    <2>5. Flows'
      <3>1. \A w \in Worker, r \in Request : Times(down'[w], AskedAll(r)) = Times(down[w], AskedAll(r))
        BY <2>3, Distinct
      <3>2. \A w, u \in Worker, r \in Request : Times(down'[w], Told(u, r)) = Times(down[w], Told(u, r))
        BY <2>3, Distinct
      <3>3. AllOpen' = AllOpen
        BY <2>1 DEF AllOpen
      <3>4. QED
        BY <2>1, <3>1, <3>2, <3>3, FlowsSame
    <2>6. OneGreeting'
      BY <1>1, <2>1, <2>3, Distinct DEF OneGreeting
    <2>7. Reloads'
      <3>1. Clients' = Clients
        BY <2>1 DEF Clients
      <3>2. OneReload'
        BY <1>1, <2>1, <3>1 DEF Reloads, OneReload
      <3>3. ASSUME NEW w \in stayed
            PROVE  told'[w] + Times(down'[w], RELOAD_ALL) + (IF w \in ahead' THEN 1 ELSE 0) = 1
        <4>1. w \in Worker /\ told[w] \in Nat /\ Times(down[w], RELOAD_ALL) \in Nat
          BY <1>1, Nats DEF TypeOK
        <4>2. told[w] + Times(down[w], RELOAD_ALL) + (IF w \in ahead THEN 1 ELSE 0) = 1
          BY <1>1 DEF Reloads, ReloadOnce
        <4>3. CASE w = v
          BY <2>1, <2>2, <4>1, <4>2, <4>3
        <4>4. CASE w # v
          BY <2>1, <2>2, <4>1, <4>2, <4>4
        <4>5. QED
          BY <4>3, <4>4
      <3>4. QED
        BY <2>1, <3>2, <3>3 DEF Reloads, ReloadOnce
    <2>8. QED
      BY <2>4, <2>5, <2>6, <2>7
  <1>4. QED
    BY <1>2, <1>3

-----------------------------------------------------------------------------
(* The workers.                                                            *)

\* The first message of a worker is read.
LEMMA Reads ==
  ASSUME TypeOK, NEW v \in Worker, down[v] # <<>>, down' = Read(down, v)
  PROVE  /\ \A w \in Worker : w # v => down'[w] = down[w]
         /\ \A n : Times(down'[v], n) = Times(down[v], n) - (IF Head(down[v]) = n THEN 1 ELSE 0)
         /\ \A w \in Worker : \A n : n # Head(down[v]) => Times(down'[w], n) = Times(down[w], n)
  <1>1. /\ \A w \in Worker : w # v => down'[w] = down[w]
        /\ \A n : Times(down'[v], n) = Times(down[v], n) - (IF Head(down[v]) = n THEN 1 ELSE 0)
    BY DownTakes
  <1>2. ASSUME NEW w \in Worker, NEW n, n # Head(down[v]) PROVE Times(down'[w], n) = Times(down[w], n)
    <2>1. Times(down[w], n) \in Nat
      BY Nats
    <2>2. CASE w = v
      BY <1>1, <1>2, <2>1, <2>2
    <2>3. CASE w # v
      BY <1>1, <2>3
    <2>4. QED
      BY <2>2, <2>3
  <1>3. QED
    BY <1>1, <1>2

\* A worker replies with one message.
LEMMA SaysOne ==
  ASSUME TypeOK, NEW v \in Worker, NEW m \in ToRelay, Says(v, <<m>>)
  PROVE  /\ \A w \in Worker : w # v => up'[w] = up[w]
         /\ \A n : Times(up'[v], n) = Times(up[v], n) + (IF m = n THEN 1 ELSE 0)
         /\ \A w \in Worker : \A n : n # m => Times(up'[w], n) = Times(up[w], n)
  <1>1. /\ \A w \in Worker : w # v => up'[w] = up[w]
        /\ \A n : Times(up'[v], n) = Times(up[v], n) + (IF m = n THEN 1 ELSE 0)
    BY SaysPuts
  <1>2. ASSUME NEW w \in Worker, NEW n, n # m PROVE Times(up'[w], n) = Times(up[w], n)
    <2>1. Times(up[w], n) \in Nat
      BY Nats
    <2>2. CASE w = v
      BY <1>1, <1>2, <2>1, <2>2
    <2>3. CASE w # v
      BY <1>1, <2>3
    <2>4. QED
      BY <2>2, <2>3
  <1>3. QED
    BY <1>1, <1>2

LEMMA WorkerIdentifiesStep ==
  ASSUME IInv, TypeOK', NEW v \in Worker, WorkerIdentifies(v)
  PROVE  IInv'
  <1> USE DEF IInv
  <1>1. /\ TypeOK /\ ClosedIsEmpty /\ OneGreeting /\ Reloads
        /\ down[v] # <<>> /\ Head(down[v]).op = "1001" /\ down' = Read(down, v)
        /\ Says(v, <<IDENTIFY_SUPPLY>>)
        /\ UNCHANGED <<sock, kind, totals, pc, at, loop, ahead, told, alone, stayed>>
    BY DEF WorkerIdentifies, conn, stats, reload
  <1>2. Head(down[v]) = IDENTIFY
    BY <1>1, DownTakes, DownHeads
  <1>3. /\ \A w \in Worker : w # v => down'[w] = down[w]
        /\ \A n : Times(down'[v], n) = Times(down[v], n) - (IF IDENTIFY = n THEN 1 ELSE 0)
        /\ \A w \in Worker : \A n : n # IDENTIFY => Times(down'[w], n) = Times(down[w], n)
    <2>1. /\ \A w \in Worker : w # v => down'[w] = down[w]
          /\ \A n : Times(down'[v], n) = Times(down[v], n) - (IF Head(down[v]) = n THEN 1 ELSE 0)
          /\ \A w \in Worker : \A n : n # Head(down[v]) => Times(down'[w], n) = Times(down[w], n)
      BY <1>1, Reads
    <2>2. QED
      BY <1>2, <2>1
  <1>4. /\ \A w \in Worker : w # v => up'[w] = up[w]
        /\ \A n : Times(up'[v], n) = Times(up[v], n) + (IF IDENTIFY_SUPPLY = n THEN 1 ELSE 0)
        /\ \A w \in Worker : \A n : n # IDENTIFY_SUPPLY => Times(up'[w], n) = Times(up[w], n)
    <2>1. IDENTIFY_SUPPLY \in ToRelay
      BY Relayed
    <2>2. QED
      BY <1>1, <2>1, SaysOne
  <1>5. ClosedIsEmpty'
    BY <1>1, <1>3, <1>4 DEF ClosedIsEmpty
  <1>6. Flows'
    <2>1. \A w \in Worker, r \in Request :
            /\ Times(up'[w], Asked(r)) = Times(up[w], Asked(r))
            /\ Times(down'[w], AskedAll(r)) = Times(down[w], AskedAll(r))
      BY <1>3, <1>4, Distinct
    <2>2. \A w, u \in Worker, r \in Request :
            /\ Times(up'[w], Answer(u, r)) = Times(up[w], Answer(u, r))
            /\ Times(down'[w], Told(u, r)) = Times(down[w], Told(u, r))
      BY <1>3, <1>4, Distinct
    <2>3. AllOpen' = AllOpen
      BY <1>1 DEF AllOpen
    <2>4. QED
      BY <1>1, <2>1, <2>2, <2>3, FlowsSame
  <1>7. OneGreeting'
    <2>1. ASSUME NEW w \in Worker
          PROVE  Times(down'[w], IDENTIFY) + Times(up'[w], IDENTIFY_SUPPLY)
                    + (IF kind'[w] = "shard" THEN 1 ELSE 0) <= 1
      <3>1. Times(down[w], IDENTIFY) \in Nat /\ Times(up[w], IDENTIFY_SUPPLY) \in Nat
        BY <1>1, Nats
      <3>2. Times(down[w], IDENTIFY) + Times(up[w], IDENTIFY_SUPPLY)
              + (IF kind[w] = "shard" THEN 1 ELSE 0) <= 1
        BY <1>1 DEF OneGreeting
      <3>3. CASE w = v
        BY <1>1, <1>3, <1>4, <3>1, <3>2, <3>3
      <3>4. CASE w # v
        BY <1>1, <1>3, <1>4, <3>2, <3>4
      <3>5. QED
        BY <3>3, <3>4
    <2>2. QED
      BY <2>1 DEF OneGreeting
  <1>8. Reloads'
    <2>1. \A w \in Worker : /\ Times(up'[w], RELOAD) = Times(up[w], RELOAD)
                            /\ Times(down'[w], RELOAD_ALL) = Times(down[w], RELOAD_ALL)
      BY <1>3, <1>4, Distinct
    <2>2. Clients' = Clients
      BY <1>1 DEF Clients
    <2>3. QED
      BY <1>1, <2>1, <2>2 DEF Reloads, OneReload, ReloadOnce, TypeOK
  <1>9. QED
    BY <1>5, <1>6, <1>7, <1>8

LEMMA WorkerRepliesStep ==
  ASSUME IInv, TypeOK', NEW v \in Worker, WorkerReplies(v)
  PROVE  IInv'
  <1> USE DEF IInv
  <1> DEFINE q == Head(down[v]).req
  <1>1. /\ TypeOK /\ ClosedIsEmpty /\ OwnMessages
        /\ down[v] # <<>> /\ Head(down[v]).op = "3001" /\ down' = Read(down, v)
        /\ Says(v, <<Answer(v, q)>>)
        /\ UNCHANGED <<sock, kind, totals, pc, at, loop, ahead, told, alone, stayed>>
    BY DEF WorkerReplies, Replies, conn, stats, reload, Flows
  <1>2. q \in Request /\ Head(down[v]) = AskedAll(q)
    BY <1>1, DownTakes, DownHeads
  <1>3. /\ \A w \in Worker : w # v => down'[w] = down[w]
        /\ \A n : Times(down'[v], n) = Times(down[v], n) - (IF AskedAll(q) = n THEN 1 ELSE 0)
        /\ \A w \in Worker : \A n : n # AskedAll(q) => Times(down'[w], n) = Times(down[w], n)
    <2>1. /\ \A w \in Worker : w # v => down'[w] = down[w]
          /\ \A n : Times(down'[v], n) = Times(down[v], n) - (IF Head(down[v]) = n THEN 1 ELSE 0)
          /\ \A w \in Worker : \A n : n # Head(down[v]) => Times(down'[w], n) = Times(down[w], n)
      BY <1>1, Reads
    <2>2. QED
      BY <1>2, <2>1
  <1>4. /\ \A w \in Worker : w # v => up'[w] = up[w]
        /\ \A n : Times(up'[v], n) = Times(up[v], n) + (IF Answer(v, q) = n THEN 1 ELSE 0)
        /\ \A w \in Worker : \A n : n # Answer(v, q) => Times(up'[w], n) = Times(up[w], n)
    <2>1. Answer(v, q) \in ToRelay
      BY <1>2, Relayed
    <2>2. QED
      BY <1>1, <2>1, SaysOne
  <1> HIDE DEF q
  <1>5. OwnMessages'
    <2>1. \A w \in Worker, r \in Request : Times(up'[w], Asked(r)) = Times(up[w], Asked(r))
      BY <1>2, <1>4, Distinct
    <2>2. \A w, u \in Worker, r \in Request : u # w => Times(up'[w], Answer(u, r)) = 0
      <3>1. \A w, u \in Worker, r \in Request : u # w => Times(up[w], Answer(u, r)) = 0
        BY <1>1 DEF OwnMessages
      <3>2. \A u \in Worker, r \in Request : u # v => Answer(u, r) # Answer(v, q)
        BY <1>2, Distinct
      <3>3. QED
        BY <1>4, <3>1, <3>2
    <2>3. QED
      BY <1>1, <2>1, <2>2 DEF OwnMessages
  <1>6. ASSUME NEW x \in Worker, NEW w \in Worker, NEW r \in Request
        PROVE  Flow(x, w, r)' = Flow(x, w, r)
    <2> DEFINE a == Times(up[at[r]], Asked(r))
               b == Times(down[w], AskedAll(r))
               c == Times(up[w], Answer(w, r))
               d == Times(down[x], Told(w, r))
               e == totals[x][w][r]
    <2>1. Flow(x, w, r) = a + b + c + d + e
      BY Zenon DEF Flow
    <2>2. a \in Nat /\ b \in Nat /\ c \in Nat /\ d \in Nat /\ e \in Nat /\ at[r] \in Worker
      BY <1>1, Nats, Zenon
    <2>3. Times(up'[at[r]], Asked(r)) = a /\ Times(down'[x], Told(w, r)) = d
      BY <1>2, <1>3, <1>4, <2>2, Distinct
    <2>4. CASE ~(w = v /\ r = q)
      <3>1. Times(up'[w], Answer(w, r)) = c
        BY <1>2, <1>4, <2>4, Distinct
      <3>2. Times(down'[w], AskedAll(r)) = b
        <4>1. CASE r = q
          BY <1>3, <2>4, <4>1
        <4>2. CASE r # q
          BY <1>2, <1>3, <4>2, Distinct
        <4>3. QED
          BY <4>1, <4>2
      <3>3. QED
        BY <1>1, <2>1, <2>3, <3>1, <3>2, Zenon DEF Flow
    <2>5. CASE w = v /\ r = q
      <3>1. Times(up'[w], Answer(w, r)) = c + 1
        BY <1>4, <2>5
      <3>2. Times(down'[w], AskedAll(r)) = b - 1
        BY <1>3, <2>5
      <3>3. Flow(x, w, r)' = a + (b - 1) + (c + 1) + d + e
        BY <1>1, <2>3, <3>1, <3>2, Zenon DEF Flow
      <3> HIDE DEF a, b, c, d, e
      <3>4. QED
        BY <2>1, <2>2, <3>3
    <2>6. QED
      BY <2>4, <2>5
  <1>7. Flows'
    <2>1. \A x, w \in Worker, r \in Request : Flow(x, w, r)' <= Flow(x, w, r)
      BY <1>1, <1>6, FlowNat
    <2>2. AllOpen => AllOpen' /\ \A x, w \in Worker, r \in Request : Flow(x, w, r)' = Flow(x, w, r)
      BY <1>1, <1>6 DEF AllOpen
    <2>3. QED
      BY <1>1, <1>5, <2>1, <2>2, FlowsKept
  <1>8. \A w \in Worker : sock[w] # "open" => up'[w] = up[w] /\ down'[w] = down[w]
    BY <1>1, <1>3, <1>4 DEF ClosedIsEmpty
  <1>9. \A w \in Worker :
            /\ Times(up'[w], IDENTIFY_SUPPLY) = Times(up[w], IDENTIFY_SUPPLY)
            /\ Times(down'[w], IDENTIFY) = Times(down[w], IDENTIFY)
            /\ Times(up'[w], RELOAD) = Times(up[w], RELOAD)
            /\ Times(down'[w], RELOAD_ALL) = Times(down[w], RELOAD_ALL)
    BY <1>2, <1>3, <1>4, Distinct
  <1>10. QED
    BY <1>1, <1>7, <1>8, <1>9, PassedOn

LEMMA WorkerAddsStep ==
  ASSUME IInv, TypeOK', NEW v \in Worker, WorkerAdds(v)
  PROVE  IInv'
  <1> USE DEF IInv
  <1> DEFINE q == Head(down[v]).req
             u == Head(down[v]).from
  <1>1. /\ TypeOK /\ ClosedIsEmpty /\ OwnMessages
        /\ down[v] # <<>> /\ Head(down[v]).op = "3003" /\ down' = Read(down, v)
        /\ totals' = Added(v, Head(down[v]))
        /\ UNCHANGED <<sock, kind, up, pc, at, loop, ahead, told, alone, stayed>>
    BY DEF WorkerAdds, conn, reload, Flows
  <1>2. q \in Request /\ u \in Worker /\ Head(down[v]) = Told(u, q)
    BY <1>1, DownTakes, DownHeads
  <1>3. /\ \A w \in Worker : w # v => down'[w] = down[w]
        /\ \A n : Times(down'[v], n) = Times(down[v], n) - (IF Told(u, q) = n THEN 1 ELSE 0)
        /\ \A w \in Worker : \A n : n # Told(u, q) => Times(down'[w], n) = Times(down[w], n)
    <2>1. /\ \A w \in Worker : w # v => down'[w] = down[w]
          /\ \A n : Times(down'[v], n) = Times(down[v], n) - (IF Head(down[v]) = n THEN 1 ELSE 0)
          /\ \A w \in Worker : \A n : n # Head(down[v]) => Times(down'[w], n) = Times(down[w], n)
      BY <1>1, Reads
    <2>2. QED
      BY <1>2, <2>1
  <1>4. \A x, w \in Worker, r \in Request :
           totals'[x][w][r] = totals[x][w][r] + (IF x = v /\ w = u /\ r = q THEN 1 ELSE 0)
    BY <1>1, <1>2, Adds
  <1> HIDE DEF q, u
  <1>5. OwnMessages'
    BY <1>1 DEF OwnMessages
  <1>6. ASSUME NEW x \in Worker, NEW w \in Worker, NEW r \in Request
        PROVE  Flow(x, w, r)' = Flow(x, w, r)
    <2> DEFINE a == Times(up[at[r]], Asked(r))
               b == Times(down[w], AskedAll(r))
               c == Times(up[w], Answer(w, r))
               d == Times(down[x], Told(w, r))
               e == totals[x][w][r]
    <2>1. Flow(x, w, r) = a + b + c + d + e
      BY Zenon DEF Flow
    <2>2. a \in Nat /\ b \in Nat /\ c \in Nat /\ d \in Nat /\ e \in Nat
      BY <1>1, Nats, Zenon
    <2>3. Times(down'[w], AskedAll(r)) = b
      BY <1>2, <1>3, Distinct
    <2>4. CASE ~(x = v /\ w = u /\ r = q)
      <3>1. totals'[x][w][r] = e
        BY <1>4, <2>2, <2>4
      <3>2. Times(down'[x], Told(w, r)) = d
        <4>1. CASE w = u /\ r = q
          BY <1>3, <2>4, <4>1
        <4>2. CASE ~(w = u /\ r = q)
          BY <1>2, <1>3, <4>2, Distinct
        <4>3. QED
          BY <4>1, <4>2
      <3>3. QED
        BY <1>1, <2>1, <2>3, <3>1, <3>2, Zenon DEF Flow
    <2>5. CASE x = v /\ w = u /\ r = q
      <3>1. totals'[x][w][r] = e + 1
        BY <1>4, <2>5
      <3>2. Times(down'[x], Told(w, r)) = d - 1
        BY <1>3, <2>5
      <3>3. Flow(x, w, r)' = a + b + c + (d - 1) + (e + 1)
        BY <1>1, <2>3, <3>1, <3>2, Zenon DEF Flow
      <3> HIDE DEF a, b, c, d, e
      <3>4. QED
        BY <2>1, <2>2, <3>3
    <2>6. QED
      BY <2>4, <2>5
  <1>7. Flows'
    <2>1. \A x, w \in Worker, r \in Request : Flow(x, w, r)' <= Flow(x, w, r)
      BY <1>1, <1>6, FlowNat
    <2>2. AllOpen => AllOpen' /\ \A x, w \in Worker, r \in Request : Flow(x, w, r)' = Flow(x, w, r)
      BY <1>1, <1>6 DEF AllOpen
    <2>3. QED
      BY <1>1, <1>5, <2>1, <2>2, FlowsKept
  <1>8. \A w \in Worker : sock[w] # "open" => up'[w] = up[w] /\ down'[w] = down[w]
    BY <1>1, <1>3 DEF ClosedIsEmpty
  <1>9. \A w \in Worker :
            /\ Times(down'[w], IDENTIFY) = Times(down[w], IDENTIFY)
            /\ Times(down'[w], RELOAD_ALL) = Times(down[w], RELOAD_ALL)
    BY <1>2, <1>3, Distinct
  <1>10. QED
    BY <1>1, <1>7, <1>8, <1>9, PassedOn

LEMMA WorkerHearsStep ==
  ASSUME IInv, TypeOK', NEW v \in Worker, WorkerHears(v)
  PROVE  IInv'
  <1> USE DEF IInv
  <1> DEFINE m == Head(down[v])
  <1>1. /\ TypeOK /\ ClosedIsEmpty /\ OneGreeting /\ Reloads
        /\ down[v] # <<>> /\ m.op \in {"1002", "10011"} /\ down' = Read(down, v)
        /\ told' = [told EXCEPT ![v] = @ + IF m.op = "10011" THEN 1 ELSE 0]
        /\ UNCHANGED <<sock, kind, up, totals, pc, at, loop, ahead, alone, stayed>>
    BY DEF WorkerHears, conn, stats
  <1>2. m \in {IDENTIFY_REPLY, RELOAD_ALL} /\ (m.op = "10011" <=> m = RELOAD_ALL)
    <2>1. m \in ToWorker
      BY <1>1, DownTakes
    <2>2. QED
      BY <1>1, <2>1, DownHeads
  <1>3. /\ \A w \in Worker : w # v => down'[w] = down[w]
        /\ \A n : Times(down'[v], n) = Times(down[v], n) - (IF m = n THEN 1 ELSE 0)
        /\ \A w \in Worker : \A n : n # m => Times(down'[w], n) = Times(down[w], n)
    BY <1>1, Reads
  <1>4. /\ \A w \in Worker : w # v => told'[w] = told[w]
        /\ told'[v] = told[v] + IF m = RELOAD_ALL THEN 1 ELSE 0
    BY <1>1, <1>2 DEF TypeOK
  <1> HIDE DEF m
  <1>5. ClosedIsEmpty'
    BY <1>1, <1>3 DEF ClosedIsEmpty
  <1>6. Flows'
    <2>1. \A w \in Worker, r \in Request : Times(down'[w], AskedAll(r)) = Times(down[w], AskedAll(r))
      BY <1>2, <1>3, Distinct
    <2>2. \A w, u \in Worker, r \in Request : Times(down'[w], Told(u, r)) = Times(down[w], Told(u, r))
      BY <1>2, <1>3, Distinct
    <2>3. AllOpen' = AllOpen
      BY <1>1 DEF AllOpen
    <2>4. QED
      BY <1>1, <2>1, <2>2, <2>3, FlowsSame
  <1>7. OneGreeting'
    <2>1. \A w \in Worker : Times(down'[w], IDENTIFY) = Times(down[w], IDENTIFY)
      BY <1>2, <1>3, Distinct
    <2>2. QED
      BY <1>1, <2>1 DEF OneGreeting
  <1>8. Reloads'
    <2>1. ASSUME NEW w \in Worker
          PROVE  told'[w] + Times(down'[w], RELOAD_ALL) = told[w] + Times(down[w], RELOAD_ALL)
      <3>1. told[w] \in Nat /\ Times(down[w], RELOAD_ALL) \in Nat
        BY <1>1, Nats DEF TypeOK
      <3>2. CASE w = v
        BY <1>3, <1>4, <3>1, <3>2
      <3>3. CASE w # v
        BY <1>3, <1>4, <3>3
      <3>4. QED
        BY <3>2, <3>3
    <2>2. loop \in {"idle", "asked"} =>
             \A w \in Worker : told'[w] = 0 /\ Times(down'[w], RELOAD_ALL) = 0
      <3>1. SUFFICES ASSUME loop \in {"idle", "asked"}, NEW w \in Worker
                     PROVE  told'[w] = 0 /\ Times(down'[w], RELOAD_ALL) = 0
        OBVIOUS
      <3>2. told[w] = 0 /\ Times(down[w], RELOAD_ALL) = 0
        BY <1>1, <3>1 DEF Reloads, OneReload
      <3>3. told'[w] \in Nat /\ Times(down'[w], RELOAD_ALL) \in Nat
        BY NatsNext DEF TypeOK
      <3>4. QED
        BY <2>1, <3>2, <3>3
    <2>3. Clients' = Clients
      BY <1>1 DEF Clients
    <2>4. OneReload'
      BY <1>1, <2>2, <2>3 DEF Reloads, OneReload
    <2>5. ReloadOnce'
      <3>1. stayed \subseteq Worker
        BY <1>1 DEF TypeOK
      <3>2. QED
        BY <1>1, <2>1, <3>1 DEF Reloads, ReloadOnce
    <2>6. QED
      BY <2>4, <2>5 DEF Reloads
  <1>9. QED
    BY <1>5, <1>6, <1>7, <1>8

-----------------------------------------------------------------------------
(* The inductive invariant holds.                                          *)

LEMMA InitInv == Init => IInv
  <1> SUFFICES ASSUME Init PROVE IInv
    OBVIOUS
  <1>1. TypeOK
    BY DEF Init, TypeOK, Nothing, Counts
  <1>2. \A w \in Worker : /\ sock[w] = "connecting" /\ kind[w] = "none" /\ told[w] = 0
                         /\ up[w] = <<>> /\ down[w] = <<>>
    BY DEF Init
  <1>3. \A w \in Worker : \A n : Times(up[w], n) = 0 /\ Times(down[w], n) = 0
    BY <1>2, TimesEmpty
  <1>4. ClosedIsEmpty
    BY <1>2 DEF ClosedIsEmpty
  <1>5. Flows
    <2>1. OwnMessages
      BY <1>3 DEF OwnMessages
    <2>2. ASSUME NEW x \in Worker, NEW w \in Worker, NEW r \in Request
          PROVE  Flow(x, w, r) = 0
      <3>1. totals[x][w][r] = 0
        BY DEF Init, Nothing
      <3>2. at[r] \in Worker
        BY <1>1 DEF TypeOK
      <3>3. /\ Times(up[at[r]], Asked(r)) = 0 /\ Times(up[w], Answer(w, r)) = 0
            /\ Times(down[w], AskedAll(r)) = 0 /\ Times(down[x], Told(w, r)) = 0
        BY <1>3, <3>2
      <3>4. QED
        BY <3>1, <3>3 DEF Flow
    <2>3. OneAnswer
      BY <2>2 DEF OneAnswer
    <2>4. AloneFlows
      BY DEF AloneFlows, Init
    <2>5. QED
      BY <2>1, <2>3, <2>4 DEF Flows
  <1>6. OneGreeting
    BY <1>2, <1>3 DEF OneGreeting
  <1>7. Reloads
    <2>1. ahead = {} /\ stayed = {} /\ loop = "idle"
      BY DEF Init
    <2>2. OneReload
      <3>1. stayed \subseteq Clients /\ ahead \subseteq Clients
        BY <2>1, Zenon
      <3>2. \A w \in Worker : /\ told[w] = 0 /\ Times(down[w], RELOAD_ALL) = 0
                             /\ Times(up[w], RELOAD) = 0
        BY <1>2, <1>3, Zenon
      <3>3. \A w \in Worker : Times(up[w], RELOAD) <= 1
        BY <3>2
      <3>4. QED
        BY <2>1, <3>1, <3>2, <3>3, Zenon DEF OneReload
    <2>3. ReloadOnce
      BY <2>1 DEF ReloadOnce
    <2>4. QED
      BY <2>2, <2>3 DEF Reloads
  <1>8. QED
    BY <1>1, <1>4, <1>5, <1>6, <1>7 DEF IInv

LEMMA ClosesSteps ==
  ASSUME IInv, TypeOK', (\E w \in Worker : SocketCloses(w)) \/ RelayRestarts
  PROVE  IInv'
  <1>1. ASSUME NEW w \in Worker, SocketCloses(w) PROVE IInv'
    BY <1>1, DropStep DEF SocketCloses, stats
  <1>2. CASE RelayRestarts
    <2>1. ahead \subseteq Worker /\ (loop # "running" => ahead = {})
      BY DEF IInv, TypeOK, Reloads, OneReload
    <2>2. ahead' = ahead \ Worker /\ ahead' = {}
      BY <1>2, <2>1 DEF RelayRestarts
    <2>3. QED
      BY <1>2, <2>2, DropStep DEF RelayRestarts, stats
  <1>3. QED
    BY <1>1, <1>2

LEMMA InvStep == IInv /\ [Next]_vars => IInv'
  <1> SUFFICES ASSUME IInv, [Next]_vars PROVE IInv'
    OBVIOUS
  <1>0. TypeOK'
    BY TypeStep DEF IInv
  <1>1. ASSUME NEW w \in Worker, Sockets(w) \/ Faults(w) PROVE IInv'
    BY <1>0, <1>1, SocketOpensStep, QuietSteps, ClosesSteps DEF Sockets, Faults
  <1>2. ASSUME NEW w \in Worker, RelayReads(w) PROVE IInv'
    <2>1. CASE RelayIdentifies(w)
      BY <1>0, <2>1, IdentifiesStep
    <2>2. CASE RelayAsksAll(w)
      BY <1>0, <2>2, AsksAllStep
    <2>3. CASE RelayTellsAll(w)
      BY <1>0, <2>3, TellsAllStep
    <2>4. CASE RelayStartsLoop(w)
      BY <1>0, <2>4, LoopSteps
    <2>5. QED
      BY <1>2, <2>1, <2>2, <2>3, <2>4 DEF RelayReads
  <1>3. ASSUME NEW w \in Worker, WorkerReads(w) PROVE IInv'
    <2>1. CASE WorkerIdentifies(w)
      BY <1>0, <2>1, WorkerIdentifiesStep
    <2>2. CASE WorkerReplies(w)
      BY <1>0, <2>2, WorkerRepliesStep
    <2>3. CASE WorkerAdds(w)
      BY <1>0, <2>3, WorkerAddsStep
    <2>4. CASE WorkerHears(w)
      BY <1>0, <2>4, WorkerHearsStep
    <2>5. QED
      BY <1>3, <2>1, <2>2, <2>3, <2>4 DEF WorkerReads
  <1>4. ASSUME NEW w \in Worker, RelayVisits(w) PROVE IInv'
    BY <1>0, <1>4, LoopSteps
  <1>5. ASSUME NEW w \in Worker, Reload(w) PROVE IInv'
    BY <1>0, <1>5, ReloadStep
  <1>6. ASSUME NEW r \in Request, Ask(r) PROVE IInv'
    BY <1>0, <1>6, AskStep
  <1>7. CASE RelayRestarts
    BY <1>0, <1>7, ClosesSteps
  <1>8. CASE (\E r \in Request : Show(r)) \/ RelayEndsLoop \/ UNCHANGED vars
    BY <1>0, <1>8, QuietSteps
  <1>9. QED
    BY <1>1, <1>2, <1>3, <1>4, <1>5, <1>6, <1>7, <1>8 DEF Next

(* The invariant that the others rest on: what is under way between the    *)
(* workers and the relay is accounted for.                                 *)
THEOREM Invariance == Spec => []IInv
  <1> QED
    BY InitInv, InvStep, PTL DEF Spec

(* Every variable of the relay and the workers keeps its type.             *)
THEOREM TypeCorrect == Spec => []TypeOK
  <1>1. IInv => TypeOK
    BY DEF IInv
  <1> QED
    BY Invariance, <1>1, PTL

(* devstats and about: the answer of a worker to a request is added to the *)
(* totals of a worker at most once, for any number of requests at once.    *)
THEOREM OnceEach == Spec => []OncePerRequest
  <1>1. IInv => OncePerRequest
    <2> SUFFICES ASSUME IInv, NEW x \in Worker, NEW w \in Worker, NEW r \in Request
                 PROVE  totals[x][w][r] <= 1
      BY DEF OncePerRequest
    <2>1. TypeOK /\ Flow(x, w, r) <= 1
      BY DEF IInv, Flows, OneAnswer
    <2> DEFINE a == Times(up[at[r]], Asked(r))
               b == Times(down[w], AskedAll(r))
               c == Times(up[w], Answer(w, r))
               d == Times(down[x], Told(w, r))
               e == totals[x][w][r]
    <2>2. Flow(x, w, r) = a + b + c + d + e
      BY Zenon DEF Flow
    <2>3. a \in Nat /\ b \in Nat /\ c \in Nat /\ d \in Nat /\ e \in Nat
      BY <2>1, Nats
    <2> HIDE DEF a, b, c, d, e
    <2>4. e <= 1
      BY <2>1, <2>2, <2>3
    <2>5. QED
      BY <2>4 DEF e
  <1> QED
    BY Invariance, <1>1, PTL

(* devstats and about: a request that had the relay for itself counts its  *)
(* own answers only, and loses none.                                       *)
THEOREM AloneExact == Spec => []AloneIsExact
  <1>1. IInv => AloneIsExact
    <2> SUFFICES ASSUME IInv, NEW r \in alone
                 PROVE  /\ \A w \in Worker, q \in Request \ {r} : totals[at[r]][w][q] = 0
                        /\ \A w \in Worker : Flow(at[r], w, r) = 1
      BY DEF AloneIsExact
    <2>1. TypeOK /\ at[r] \in Worker
      BY DEF IInv, TypeOK
    <2>2. /\ \A w \in Worker : Flow(at[r], w, r) = 1
          /\ \A w \in Worker, q \in Request : q # r => Flow(at[r], w, q) = 0
      BY DEF IInv, Flows, AloneFlows
    <2>3. ASSUME NEW w \in Worker, NEW q \in Request \ {r} PROVE totals[at[r]][w][q] = 0
      BY <2>1, <2>2, ZeroFlow
    <2>4. QED
      BY <2>2, <2>3
  <1> QED
    BY Invariance, <1>1, PTL

(* Op 1003: the relay never closes a socket because it identifies twice.   *)
THEOREM IdentifiedOnce == Spec => []NotIdentifiedTwice
  <1>1. IInv => NotIdentifiedTwice
    BY Nats DEF IInv, OneGreeting, NotIdentifiedTwice
  <1> QED
    BY Invariance, <1>1, PTL

(* Op 10010: a worker whose socket stays open is told to reload once, while *)
(* other sockets open and close under the loop.                            *)
THEOREM ReloadedOnce == Spec => []ReloadOnce
  <1>1. IInv => ReloadOnce
    BY DEF IInv, Reloads
  <1> QED
    BY Invariance, <1>1, PTL
=============================================================================
