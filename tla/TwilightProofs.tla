---------------------------- MODULE TwilightProofs ----------------------------
(***************************************************************************)
(* Proofs about the proxy, for every number of requests and tokens, every  *)
(* bound of the map and every timeout: its types, one request of a token   *)
(* at Discord, the bound of the map, and what the reaper spares.           *)
(***************************************************************************)
EXTENDS Twilight, FiniteSetTheorems, TLAPS

-----------------------------------------------------------------------------
(* Types.                                                                  *)

\* The default token does not reach the map; a chosen entry is a token; len()
\* counts no more than the shards it has visited.
Sane ==
    \A r \in Requests :
        /\ tok[r] = Default => pc[r] \notin Missing \union {"lookup"}
        /\ pc[r] \in {"fold", "remove"} => old[r] \in Tokens
        /\ count[r] < pos[r]
        /\ pc[r] # "len" => count[r] = 0

\* get_or_insert keeps the types.
LEMMA TypeGet ==
    ASSUME TypeOK, Sane, NEW r \in Requests, GetOrInsert(r)
    PROVE  TypeOK'
<1> USE TwilightAssumption DEF Tokens
<1>1. CASE GetsDefault(r)
  <2>1. pc' \in [Requests -> Labels]
    BY <1>1 DEF GetsDefault, Goto, Labels, TypeOK
  <2>2. got' \in [Requests -> Requests \union {Default, None}]
    BY <1>1 DEF GetsDefault, TypeOK
  <2>3. UNCHANGED <<max, now, lim, used, tok, time, pos, count, first, old, reaper, reapAt, split, crowded, crossed>>
    BY <1>1 DEF GetsDefault, map, scan, reap, history
  <2> QED BY <2>1, <2>2, <2>3 DEF TypeOK
<1>2. CASE Arrives(r)
  <2>1. pc' \in [Requests -> Labels]
    BY <1>2 DEF Arrives, Goto, Labels, TypeOK
  <2>2. time' \in [Requests -> 0..MaxTime]
    BY <1>2 DEF Arrives, TypeOK
  <2>3. UNCHANGED <<max, now, lim, used, tok, got, pos, count, first, old, reaper, reapAt, split, crowded, crossed>>
    BY <1>2 DEF Arrives, map, scan, reap, history
  <2> QED BY <2>1, <2>2, <2>3 DEF TypeOK
<1>3. CASE Hits(r)
  <2>1. pc' \in [Requests -> Labels]
    BY <1>3 DEF Hits, Goto, Labels, TypeOK
  <2>2. used' \in [Tokens -> 0..MaxTime]
    BY <1>3 DEF Hits, Touch, TypeOK, Sane, Missing
  <2>3. got' \in [Requests -> Requests \union {Default, None}]
    BY <1>3 DEF Hits, Clone, TypeOK, Sane, Missing
  <2>4. crossed' \subseteq Tokens
    BY <1>3 DEF Hits, TypeOK, Sane, Missing
  <2>5. UNCHANGED <<max, now, lim, tok, time, pos, count, first, old, reaper, reapAt, split, crowded>>
    BY <1>3 DEF Hits, map, scan, reap, history
  <2> QED BY <2>1, <2>2, <2>3, <2>4, <2>5 DEF TypeOK
<1>4. CASE Misses(r)
  <2>1. pc' \in [Requests -> Labels]
    BY <1>4 DEF Misses, Goto, Labels, Missing, TypeOK
  <2>2. crowded' \in BOOLEAN
    BY <1>4 DEF Misses, TypeOK
  <2>3. split' \subseteq Tokens
    BY <1>4 DEF Misses, TypeOK, Sane, Missing
  <2>4. UNCHANGED <<max, now, lim, used, tok, time, got, pos, count, first, old, reaper, reapAt, crossed>>
    BY <1>4 DEF Misses, map, scan, reap, history
  <2> QED BY <2>1, <2>2, <2>3, <2>4 DEF TypeOK
<1>5. CASE Counts(r)
  <2>1. count' \in [Requests -> 0..Shards]
    BY <1>5 DEF Counts, TypeOK, Sane, Missing
  <2>2. pos' \in [Requests -> 1..(Shards + 1)]
    BY <1>5 DEF Counts, TypeOK
  <2>3. UNCHANGED <<max, now, lim, used, pc, tok, time, got, first, old, reaper, reapAt, split, crowded, crossed>>
    BY <1>5 DEF Counts, map, scan, reap, history
  <2> QED BY <2>1, <2>2, <2>3 DEF TypeOK
<1>6. CASE Compares(r)
  <2>1. pc' \in [Requests -> Labels]
    BY <1>6 DEF Compares, Goto, Labels, Missing, TypeOK
  <2>2. pos' \in [Requests -> 1..(Shards + 1)]
    BY <1>6 DEF Compares, TypeOK
  <2>3. count' \in [Requests -> 0..Shards]
    BY <1>6 DEF Compares, TypeOK
  <2>4. UNCHANGED <<max, now, lim, used, tok, time, got, first, old, reaper, reapAt, split, crowded, crossed>>
    BY <1>6 DEF Compares, map, scan, reap, history
  <2> QED BY <2>1, <2>2, <2>3, <2>4 DEF TypeOK
<1>7. CASE FindsFirst(r)
  <2>1. pc' \in [Requests -> Labels]
    BY <1>7 DEF FindsFirst, Goto, Labels, Missing, TypeOK
  <2>2. pos' \in [Requests -> 1..(Shards + 1)]
    BY <1>7 DEF FindsFirst, TypeOK
  <2>3. first' \in [Requests -> 0..Shards]
    BY <1>7 DEF FindsFirst, TypeOK
  <2>4. old' \in [Requests -> 0..Shards]
    BY <1>7 DEF FindsFirst, TypeOK
  <2>5. UNCHANGED <<max, now, lim, used, tok, time, got, count, reaper, reapAt, split, crowded, crossed>>
    BY <1>7 DEF FindsFirst, map, scan, reap, history
  <2> QED BY <2>1, <2>2, <2>3, <2>4, <2>5 DEF TypeOK
<1>8. CASE Skips(r)
  <2>1. pos' \in [Requests -> 1..(Shards + 1)]
    BY <1>8 DEF Skips, TypeOK
  <2>2. UNCHANGED <<max, now, lim, used, pc, tok, time, got, count, first, old, reaper, reapAt, split, crowded, crossed>>
    BY <1>8 DEF Skips, map, scan, reap, history
  <2> QED BY <2>1, <2>2 DEF TypeOK
<1>9. CASE Panics(r)
  <2>1. pc' \in [Requests -> Labels]
    BY <1>9 DEF Panics, Goto, Labels, TypeOK
  <2>2. pos' \in [Requests -> 1..(Shards + 1)]
    BY <1>9 DEF Panics, TypeOK
  <2>3. UNCHANGED <<max, now, lim, used, tok, time, got, count, first, old, reaper, reapAt, split, crowded, crossed>>
    BY <1>9 DEF Panics, map, scan, reap, history
  <2> QED BY <2>1, <2>2, <2>3 DEF TypeOK
<1>10. CASE Folds(r)
  <2>1. old' \in [Requests -> 0..Shards]
    BY <1>10 DEF Folds, Older, TypeOK, Sane, Missing
  <2>2. pos' \in [Requests -> 1..(Shards + 1)]
    BY <1>10 DEF Folds, TypeOK
  <2>3. UNCHANGED <<max, now, lim, used, pc, tok, time, got, count, first, reaper, reapAt, split, crowded, crossed>>
    BY <1>10 DEF Folds, map, scan, reap, history
  <2> QED BY <2>1, <2>2, <2>3 DEF TypeOK
<1>11. CASE Picks(r)
  <2>1. pc' \in [Requests -> Labels]
    BY <1>11 DEF Picks, Goto, Labels, Missing, TypeOK
  <2>2. first' \in [Requests -> 0..Shards]
    BY <1>11 DEF Picks, TypeOK
  <2>3. pos' \in [Requests -> 1..(Shards + 1)]
    BY <1>11 DEF Picks, TypeOK
  <2>4. UNCHANGED <<max, now, lim, used, tok, time, got, count, old, reaper, reapAt, split, crowded, crossed>>
    BY <1>11 DEF Picks, map, scan, reap, history
  <2> QED BY <2>1, <2>2, <2>3, <2>4 DEF TypeOK
<1>12. CASE Removes(r)
  <2>1. pc' \in [Requests -> Labels]
    BY <1>12 DEF Removes, Goto, Labels, Missing, TypeOK
  <2>2. lim' \in [Tokens -> Requests \union {None}]
    BY <1>12 DEF Removes, Drop, TypeOK, Sane, Missing
  <2>3. used' \in [Tokens -> 0..MaxTime]
    BY <1>12 DEF Removes, Drop, TypeOK, Sane, Missing
  <2>4. split' \subseteq Tokens
    BY <1>12 DEF Removes, TypeOK, Sane, Missing
  <2>5. old' \in [Requests -> 0..Shards]
    BY <1>12 DEF Removes, TypeOK
  <2>6. UNCHANGED <<max, now, tok, time, got, pos, count, first, reaper, reapAt, crowded, crossed>>
    BY <1>12 DEF Removes, map, scan, reap, history
  <2> QED BY <2>1, <2>2, <2>3, <2>4, <2>5, <2>6 DEF TypeOK
<1>13. CASE Inserts(r)
  <2>1. pc' \in [Requests -> Labels]
    BY <1>13 DEF Inserts, Goto, Labels, Missing, TypeOK
  <2>2. lim' \in [Tokens -> Requests \union {None}]
    BY <1>13 DEF Inserts, TypeOK, Sane, Missing
  <2>3. used' \in [Tokens -> 0..MaxTime]
    BY <1>13 DEF Inserts, Touch, TypeOK, Sane, Missing
  <2>4. got' \in [Requests -> Requests \union {Default, None}]
    BY <1>13 DEF Inserts, TypeOK
  <2>5. UNCHANGED <<max, now, tok, time, pos, count, first, old, reaper, reapAt, split, crowded, crossed>>
    BY <1>13 DEF Inserts, map, scan, reap, history
  <2> QED BY <2>1, <2>2, <2>3, <2>4, <2>5 DEF TypeOK
<1>14. CASE InsertsNothing(r)
  <2>1. pc' \in [Requests -> Labels]
    BY <1>14 DEF InsertsNothing, Goto, Labels, Missing, TypeOK
  <2>2. got' \in [Requests -> Requests \union {Default, None}]
    BY <1>14 DEF InsertsNothing, TypeOK
  <2>3. UNCHANGED <<max, now, lim, used, tok, time, pos, count, first, old, reaper, reapAt, split, crowded, crossed>>
    BY <1>14 DEF InsertsNothing, map, scan, reap, history
  <2> QED BY <2>1, <2>2, <2>3 DEF TypeOK
<1> QED BY <1>1, <1>2, <1>3, <1>4, <1>5, <1>6, <1>7, <1>8, <1>9, <1>10, <1>11, <1>12, <1>13, <1>14 DEF GetOrInsert

\* get_or_insert keeps the rest of what the types rest on.
LEMMA SaneGet ==
    ASSUME TypeOK, Sane, NEW r \in Requests, GetOrInsert(r)
    PROVE  Sane'
<1> USE TwilightAssumption DEF Tokens
<1> SUFFICES ASSUME NEW q \in Requests
             PROVE  /\ tok'[q] = Default => pc'[q] \notin Missing \union {"lookup"}
                    /\ pc'[q] \in {"fold", "remove"} => old'[q] \in Tokens
                    /\ count'[q] < pos'[q]
                    /\ pc'[q] # "len" => count'[q] = 0
  BY DEF Sane
<1>0. /\ pc \in [Requests -> Labels] /\ pos \in [Requests -> 1..(Shards + 1)]
      /\ count \in [Requests -> 0..Shards] /\ old \in [Requests -> 0..Shards]
  BY DEF TypeOK
<1>1. CASE GetsDefault(r) BY <1>0, <1>1 DEF GetsDefault, Goto, Sane, Missing, scan
<1>2. CASE Arrives(r) BY <1>0, <1>2 DEF Arrives, Goto, Sane, Missing, scan
<1>3. CASE Hits(r) BY <1>0, <1>3 DEF Hits, Goto, Sane, Missing, scan
<1>4. CASE Misses(r) BY <1>0, <1>4 DEF Misses, Goto, Sane, Missing, scan
<1>5. CASE Counts(r) BY <1>0, <1>5 DEF Counts, Goto, Sane, Missing, scan
<1>6. CASE Compares(r) BY <1>0, <1>6 DEF Compares, Goto, Sane, Missing, scan
<1>7. CASE FindsFirst(r) BY <1>0, <1>7 DEF FindsFirst, Goto, Sane, Missing, scan
<1>8. CASE Skips(r) BY <1>0, <1>8 DEF Skips, Goto, Sane, Missing, scan
<1>9. CASE Panics(r) BY <1>0, <1>9 DEF Panics, Goto, Sane, Missing, scan
<1>10. CASE Folds(r) BY <1>0, <1>10 DEF Folds, Goto, Sane, Missing, scan, Older
<1>11. CASE Picks(r) BY <1>0, <1>11 DEF Picks, Goto, Sane, Missing, scan
<1>12. CASE Removes(r) BY <1>0, <1>12 DEF Removes, Goto, Sane, Missing, scan, Drop
<1>13. CASE Inserts(r) BY <1>0, <1>13 DEF Inserts, Goto, Sane, Missing, scan
<1>14. CASE InsertsNothing(r) BY <1>0, <1>14 DEF InsertsNothing, Goto, Sane, Missing, scan
<1> QED BY <1>1, <1>2, <1>3, <1>4, <1>5, <1>6, <1>7, <1>8, <1>9, <1>10, <1>11, <1>12, <1>13, <1>14 DEF GetOrInsert

\* So do the request to Discord, the reaper and the clock.
LEMMA TypeRest ==
    ASSUME TypeOK, Sane,
           (\E r \in Requests : HandleRequest(r)) \/ Reap \/ Tick
    PROVE  TypeOK' /\ Sane'
<1> USE TwilightAssumption DEF Tokens
<1>1. ASSUME NEW r \in Requests, HandleRequest(r)
      PROVE  TypeOK' /\ Sane'
  <2>1. PICK l \in {"ready", "sent", "answered"} :
           Goto(r, l) /\ pc[r] \in {"ticket", "ready", "sent"} /\ UNCHANGED served
    BY <1>1 DEF HandleRequest, Rejects, GetsTicket, Sends, BadUri, Responds
  <2>2. pc' \in [Requests -> Labels]
    BY <2>1 DEF Goto, Labels, TypeOK
  <2>3. UNCHANGED <<max, now, lim, used, tok, time, got, pos, count, first, old,
                    reaper, reapAt, split, crowded, crossed>>
    BY <2>1 DEF served, map, scan, reap, history
  <2>4. TypeOK'
    BY <2>2, <2>3 DEF TypeOK
  <2>5. Sane'
    BY <2>1, <2>3 DEF Goto, Sane, Missing, TypeOK
  <2> QED BY <2>4, <2>5
<1>2. CASE Reap
  <2>1. UNCHANGED <<max, now, pc, tok, time, got, pos, count, first, old, crowded, crossed>>
    BY <1>2 DEF Reap, ReapStarts, Reaps, Retains, ReapEnds, waiting, scan, history
  <2>2. Sane'
    BY <2>1 DEF Sane
  <2>3. /\ lim' \in [Tokens -> Requests \union {None}]
        /\ used' \in [Tokens -> 0..MaxTime]
        /\ split' \subseteq Tokens
    <3>1. CASE Reaps
      BY <3>1 DEF Reaps, Drop, TypeOK
    <3>2. CASE ~Reaps
      <4>1. UNCHANGED <<lim, used, split>>
        BY <1>2, <3>2 DEF Reap, ReapStarts, Retains, ReapEnds, map, history
      <4> QED BY <4>1 DEF TypeOK
    <3> QED BY <3>1, <3>2
  <2>4. reaper' \in 0..(Shards + 1) /\ reapAt' \in 0..MaxTime
    BY <1>2 DEF Reap, ReapStarts, Reaps, Retains, ReapEnds, TypeOK
  <2> QED BY <2>1, <2>2, <2>3, <2>4 DEF TypeOK
<1>3. CASE Tick
  <2>1. now' \in 0..MaxTime
    BY <1>3 DEF Tick, TypeOK
  <2>2. UNCHANGED <<max, lim, used, pc, tok, time, got, pos, count, first, old,
                    reaper, reapAt, split, crowded, crossed>>
    BY <1>3 DEF Tick, waiting, map, scan, reap, history
  <2> QED BY <2>1, <2>2 DEF TypeOK, Sane
<1> QED BY <1>1, <1>2, <1>3

\* The proxy starts with these types.
LEMMA TypeInit == Init => TypeOK /\ Sane
<1> SUFFICES ASSUME Init PROVE TypeOK /\ Sane
  OBVIOUS
<1> USE TwilightAssumption DEF Tokens, Init
<1>1. 0 \in 0..MaxTime /\ 0 \in 0..Shards /\ 1 \in 1..(Shards + 1) /\ 0 \in 0..(Shards + 1)
  OBVIOUS
<1>2. TypeOK
  BY <1>1 DEF TypeOK, Labels
<1>3. Sane
  BY DEF Sane, Missing
<1> QED BY <1>2, <1>3

\* THEOREM: the variables of the proxy keep their types.
THEOREM TypeCorrect == Spec => [](TypeOK /\ Sane)
<1>1. Init => TypeOK /\ Sane
  BY TypeInit
<1>2. TypeOK /\ Sane /\ [Next]_vars => TypeOK' /\ Sane'
  <2> SUFFICES ASSUME TypeOK, Sane, [Next]_vars PROVE TypeOK' /\ Sane'
    OBVIOUS
  <2>1. CASE UNCHANGED vars
    BY <2>1 DEF vars, map, scan, reap, history, TypeOK, Sane
  <2>2. ASSUME NEW r \in Requests, GetOrInsert(r) PROVE TypeOK' /\ Sane'
    BY <2>2, TypeGet, SaneGet
  <2> QED BY <2>1, <2>2, TypeRest DEF Next, Step
<1> QED BY <1>1, <1>2, PTL DEF Spec

-----------------------------------------------------------------------------
(* One limiter for a token.                                                *)

\* Whoever misses the map does so alone, unless the token is split; whoever has
\* been given a limiter shares it with the map, until the token is split; and a
\* limiter has one ticket out.
Waiting == {"ticket", "ready", "sent", "answered"}

Given ==
    \A r \in Requests :
        /\ pc[r] \in Waiting <=> got[r] # None
        /\ tok[r] = Default => got[r] \in {None, Default}

MissesAlone ==
    \A r \in Requests : pc[r] \in Missing /\ tok[r] \notin split =>
        /\ lim[tok[r]] = None
        /\ \A s \in Requests : s # r /\ tok[s] = tok[r] => pc[s] \notin Missing

LimiterShared ==
    \A r \in Requests :
        got[r] # None /\ tok[r] # Default /\ tok[r] \notin split /\ max # 0
            => lim[tok[r]] = got[r]

OneTicket ==
    \A r, s \in Requests :
        r # s /\ pc[r] \in {"ready", "sent"} /\ pc[s] \in {"ready", "sent"} => got[r] # got[s]

Shared == Given /\ MissesAlone /\ LimiterShared /\ OneTicket

\* get_or_insert keeps this.
LEMMA SharedGet ==
    ASSUME TypeOK, Sane, Shared, NEW r \in Requests, GetOrInsert(r)
    PROVE  Shared'
<1> USE TwilightAssumption
<1>0. /\ pc \in [Requests -> Labels] /\ got \in [Requests -> Requests \union {Default, None}]
      /\ lim \in [Tokens -> Requests \union {None}]
      /\ tok \in [Requests -> Tokens \union {Default}]
  BY DEF TypeOK
<1>1. CASE GetsDefault(r)
  <2>1. Given'
    BY <1>0, <1>1 DEF GetsDefault, Goto, Sane, Shared, Given, Waiting, Missing
  <2>2. MissesAlone'
    BY <1>0, <1>1 DEF GetsDefault, Goto, map, history, Sane, Shared, Given, Waiting, MissesAlone, LimiterShared, Missing
  <2>3. LimiterShared'
    BY <1>0, <1>1 DEF GetsDefault, Goto, map, history, Sane, Shared, Given, Waiting, MissesAlone, LimiterShared, Missing
  <2>4. OneTicket'
    BY <1>0, <1>1 DEF GetsDefault, Goto, Shared, Given, Waiting, OneTicket, Missing
  <2> QED BY <2>1, <2>2, <2>3, <2>4 DEF Shared
<1>2. CASE Arrives(r)
  <2>1. Given'
    BY <1>0, <1>2 DEF Arrives, Goto, Sane, Shared, Given, Waiting, Missing
  <2>2. MissesAlone'
    BY <1>0, <1>2 DEF Arrives, Goto, map, history, Sane, Shared, Given, Waiting, MissesAlone, LimiterShared, Missing
  <2>3. LimiterShared'
    BY <1>0, <1>2 DEF Arrives, Goto, map, history, Sane, Shared, Given, Waiting, MissesAlone, LimiterShared, Missing
  <2>4. OneTicket'
    BY <1>0, <1>2 DEF Arrives, Goto, Shared, Given, Waiting, OneTicket, Missing
  <2> QED BY <2>1, <2>2, <2>3, <2>4 DEF Shared
<1>3. CASE Hits(r)
  <2>1. Given'
    BY <1>0, <1>3 DEF Hits, Goto, Clone, Present, Sane, Shared, Given, Waiting, Missing
  <2>2. MissesAlone'
    BY <1>0, <1>3 DEF Hits, Goto, Clone, Present, map, history, Sane, Shared, Given, Waiting, MissesAlone, LimiterShared, Missing
  <2>3. LimiterShared'
    BY <1>0, <1>3 DEF Hits, Goto, Clone, Present, map, history, Sane, Shared, Given, Waiting, MissesAlone, LimiterShared, Missing
  <2>4. OneTicket'
    BY <1>0, <1>3 DEF Hits, Goto, Clone, Present, Shared, Given, Waiting, OneTicket, Missing
  <2> QED BY <2>1, <2>2, <2>3, <2>4 DEF Shared
<1>4. CASE Misses(r)
  <2>1. Given'
    BY <1>0, <1>4 DEF Misses, Goto, Present, Sane, Shared, Given, Waiting, Missing
  <2>2. MissesAlone'
    BY <1>0, <1>4 DEF Misses, Goto, Present, map, history, Sane, Shared, Given, Waiting, MissesAlone, LimiterShared, Missing
  <2>3. LimiterShared'
    BY <1>0, <1>4 DEF Misses, Goto, Present, map, history, Sane, Shared, Given, Waiting, MissesAlone, LimiterShared, Missing
  <2>4. OneTicket'
    BY <1>0, <1>4 DEF Misses, Goto, Present, Shared, Given, Waiting, OneTicket, Missing
  <2> QED BY <2>1, <2>2, <2>3, <2>4 DEF Shared
<1>5. CASE Counts(r)
  BY <1>5 DEF Counts, map, history, Shared, Given, MissesAlone, LimiterShared, OneTicket
<1>6. CASE Compares(r)
  <2>1. Given'
    BY <1>0, <1>6 DEF Compares, Goto, Sane, Shared, Given, Waiting, Missing
  <2>2. MissesAlone'
    BY <1>0, <1>6 DEF Compares, Goto, map, history, Sane, Shared, Given, Waiting, MissesAlone, LimiterShared, Missing
  <2>3. LimiterShared'
    BY <1>0, <1>6 DEF Compares, Goto, map, history, Sane, Shared, Given, Waiting, MissesAlone, LimiterShared, Missing
  <2>4. OneTicket'
    BY <1>0, <1>6 DEF Compares, Goto, Shared, Given, Waiting, OneTicket, Missing
  <2> QED BY <2>1, <2>2, <2>3, <2>4 DEF Shared
<1>7. CASE FindsFirst(r)
  <2>1. Given'
    BY <1>0, <1>7 DEF FindsFirst, Goto, Sane, Shared, Given, Waiting, Missing
  <2>2. MissesAlone'
    BY <1>0, <1>7 DEF FindsFirst, Goto, map, history, Sane, Shared, Given, Waiting, MissesAlone, LimiterShared, Missing
  <2>3. LimiterShared'
    BY <1>0, <1>7 DEF FindsFirst, Goto, map, history, Sane, Shared, Given, Waiting, MissesAlone, LimiterShared, Missing
  <2>4. OneTicket'
    BY <1>0, <1>7 DEF FindsFirst, Goto, Shared, Given, Waiting, OneTicket, Missing
  <2> QED BY <2>1, <2>2, <2>3, <2>4 DEF Shared
<1>8. CASE Skips(r)
  BY <1>8 DEF Skips, map, history, Shared, Given, MissesAlone, LimiterShared, OneTicket
<1>9. CASE Panics(r)
  <2>1. Given'
    BY <1>0, <1>9 DEF Panics, Goto, Sane, Shared, Given, Waiting, Missing
  <2>2. MissesAlone'
    BY <1>0, <1>9 DEF Panics, Goto, map, history, Sane, Shared, Given, Waiting, MissesAlone, LimiterShared, Missing
  <2>3. LimiterShared'
    BY <1>0, <1>9 DEF Panics, Goto, map, history, Sane, Shared, Given, Waiting, MissesAlone, LimiterShared, Missing
  <2>4. OneTicket'
    BY <1>0, <1>9 DEF Panics, Goto, Shared, Given, Waiting, OneTicket, Missing
  <2> QED BY <2>1, <2>2, <2>3, <2>4 DEF Shared
<1>10. CASE Folds(r)
  BY <1>10 DEF Folds, map, history, Shared, Given, MissesAlone, LimiterShared, OneTicket
<1>11. CASE Picks(r)
  <2>1. Given'
    BY <1>0, <1>11 DEF Picks, Goto, Sane, Shared, Given, Waiting, Missing
  <2>2. MissesAlone'
    BY <1>0, <1>11 DEF Picks, Goto, map, history, Sane, Shared, Given, Waiting, MissesAlone, LimiterShared, Missing
  <2>3. LimiterShared'
    BY <1>0, <1>11 DEF Picks, Goto, map, history, Sane, Shared, Given, Waiting, MissesAlone, LimiterShared, Missing
  <2>4. OneTicket'
    BY <1>0, <1>11 DEF Picks, Goto, Shared, Given, Waiting, OneTicket, Missing
  <2> QED BY <2>1, <2>2, <2>3, <2>4 DEF Shared
<1>12. CASE Removes(r)
  <2>1. Given'
    BY <1>0, <1>12 DEF Removes, Goto, Drop, Sane, Shared, Given, Waiting, Missing
  <2>2. MissesAlone'
    BY <1>0, <1>12 DEF Removes, Goto, Drop, map, history, Sane, Shared, Given, Waiting, MissesAlone, LimiterShared, Missing
  <2>3. LimiterShared'
    BY <1>0, <1>12 DEF Removes, Goto, Drop, map, history, Sane, Shared, Given, Waiting, MissesAlone, LimiterShared, Missing
  <2>4. OneTicket'
    BY <1>0, <1>12 DEF Removes, Goto, Drop, Shared, Given, Waiting, OneTicket, Missing
  <2> QED BY <2>1, <2>2, <2>3, <2>4 DEF Shared
<1>13. CASE Inserts(r)
  <2>1. Given'
    BY <1>0, <1>13 DEF Inserts, Goto, Sane, Shared, Given, Waiting, Missing
  <2>2. MissesAlone'
    BY <1>0, <1>13 DEF Inserts, Goto, map, history, Sane, Shared, Given, Waiting, MissesAlone, LimiterShared, Missing
  <2>3. LimiterShared'
    BY <1>0, <1>13 DEF Inserts, Goto, map, history, Sane, Shared, Given, Waiting, MissesAlone, LimiterShared, Missing
  <2>4. OneTicket'
    BY <1>0, <1>13 DEF Inserts, Goto, Shared, Given, Waiting, OneTicket, Missing
  <2> QED BY <2>1, <2>2, <2>3, <2>4 DEF Shared
<1>14. CASE InsertsNothing(r)
  <2>1. Given'
    BY <1>0, <1>14 DEF InsertsNothing, Goto, Sane, Shared, Given, Waiting, Missing
  <2>2. MissesAlone'
    BY <1>0, <1>14 DEF InsertsNothing, Goto, map, history, Sane, Shared, Given, Waiting, MissesAlone, LimiterShared, Missing
  <2>3. LimiterShared'
    BY <1>0, <1>14 DEF InsertsNothing, Goto, map, history, Sane, Shared, Given, Waiting, MissesAlone, LimiterShared, Missing
  <2>4. OneTicket'
    BY <1>0, <1>14 DEF InsertsNothing, Goto, Shared, Given, Waiting, OneTicket, Missing
  <2> QED BY <2>1, <2>2, <2>3, <2>4 DEF Shared
<1> QED BY <1>1, <1>2, <1>3, <1>4, <1>5, <1>6, <1>7, <1>8, <1>9, <1>10, <1>11, <1>12, <1>13, <1>14 DEF GetOrInsert

\* So do the request to Discord, the reaper and the clock.
LEMMA SharedRest ==
    ASSUME TypeOK, Sane, Shared,
           (\E r \in Requests : HandleRequest(r)) \/ Reap \/ Tick
    PROVE  Shared'
<1> USE TwilightAssumption
<1>0. /\ pc \in [Requests -> Labels] /\ got \in [Requests -> Requests \union {Default, None}]
      /\ lim \in [Tokens -> Requests \union {None}]
      /\ tok \in [Requests -> Tokens \union {Default}]
  BY DEF TypeOK
<1>1. ASSUME NEW r \in Requests, HandleRequest(r)
      PROVE  Shared'
  <2>1. PICK l \in {"ready", "sent", "answered"} :
           /\ Goto(r, l) /\ pc[r] \in {"ticket", "ready", "sent"} /\ UNCHANGED served
           /\ pc[r] = "ticket" /\ l # "answered" => l = "ready" /\ ~Busy(got[r])
    BY <1>1 DEF HandleRequest, Rejects, GetsTicket, Sends, BadUri, Responds
  <2>2. UNCHANGED <<max, lim, tok, got, split>>
    BY <2>1 DEF served, map, history
  <2>3. Given' /\ MissesAlone' /\ LimiterShared'
    BY <1>0, <2>1, <2>2 DEF Goto, Shared, Given, Waiting, MissesAlone, LimiterShared, Missing
  <2>4. OneTicket'
    BY <1>0, <2>1, <2>2 DEF Goto, Busy, Shared, OneTicket
  <2> QED BY <2>3, <2>4 DEF Shared
<1>2. CASE Reap
  <2>1. UNCHANGED <<max, pc, tok, got>>
    BY <1>2 DEF Reap, ReapStarts, Reaps, Retains, ReapEnds, waiting
  <2>2. CASE Reaps
    BY <1>0, <2>1, <2>2 DEF Reaps, Drop, Shared, Given, MissesAlone, LimiterShared, OneTicket
  <2>3. CASE ~Reaps
    <3>1. UNCHANGED <<lim, split>>
      BY <1>2, <2>3 DEF Reap, ReapStarts, Retains, ReapEnds, map, history
    <3> QED BY <2>1, <3>1 DEF Shared, Given, MissesAlone, LimiterShared, OneTicket
  <2> QED BY <2>2, <2>3
<1>3. CASE Tick
  BY <1>3 DEF Tick, waiting, map, history, Shared, Given, MissesAlone, LimiterShared, OneTicket
<1> QED BY <1>1, <1>2, <1>3

\* This holds when the proxy starts.
LEMMA SharedInit == Init => Shared
BY TwilightAssumption DEF Init, Shared, Given, Waiting, MissesAlone, LimiterShared, OneTicket, Missing


\* It holds in every reachable state.
LEMMA SharedAlways == Spec => []Shared
<1>1. Init => Shared
  BY SharedInit
<1>2. TypeOK /\ Sane /\ Shared /\ [Next]_vars => Shared'
  <2> SUFFICES ASSUME TypeOK, Sane, Shared, [Next]_vars PROVE Shared'
    OBVIOUS
  <2>1. CASE UNCHANGED vars
    BY <2>1 DEF vars, map, scan, history, Shared, Given, MissesAlone, LimiterShared, OneTicket
  <2>2. ASSUME NEW r \in Requests, GetOrInsert(r) PROVE Shared'
    BY <2>2, SharedGet
  <2> QED BY <2>1, <2>2, SharedRest DEF Next, Step
<1> QED BY <1>1, <1>2, TypeCorrect, PTL DEF Spec

\* THEOREM: two requests of one token are at Discord at the same time only if
\* the token has lost its entry, was missed by two at once, or there is no map.
THEOREM OneAtDiscord == Spec => []OneInFlight
<1>1. TypeOK /\ Shared => OneInFlight
  BY TwilightAssumption DEF TypeOK, Shared, Given, Waiting, LimiterShared, OneTicket, OneInFlight
<1> QED BY <1>1, TypeCorrect, SharedAlways, PTL

-----------------------------------------------------------------------------
(* What the reaper spares.                                                 *)

\* A limiter belongs to the token of the request that made it, and the entry of
\* a token was used no earlier than any of the requests that got its limiter
\* asked, unless the requests wrote their times in another order.
Owned ==
    /\ \A t \in Tokens : lim[t] # None => tok[lim[t]] = t /\ got[lim[t]] = lim[t]
    /\ \A r \in Requests : got[r] \in Requests => tok[got[r]] = tok[r] /\ got[got[r]] = got[r]

Latest ==
    \A r \in Requests :
        tok[r] # Default /\ got[r] # None /\ got[r] = lim[tok[r]] /\ tok[r] \notin crossed
            => time[r] <= used[tok[r]]

\* get_or_insert keeps this.
LEMMA LatestGet ==
    ASSUME TypeOK, Sane, Given, Owned, Latest, NEW r \in Requests, GetOrInsert(r)
    PROVE  Owned' /\ Latest'
<1> USE TwilightAssumption DEF Tokens
<1>0. /\ got \in [Requests -> Requests \union {Default, None}]
      /\ lim \in [Tokens -> Requests \union {None}]
      /\ tok \in [Requests -> Tokens \union {Default}]
      /\ time \in [Requests -> 0..MaxTime] /\ used \in [Tokens -> 0..MaxTime]
  BY DEF TypeOK
<1>1. CASE UNCHANGED <<lim, used, tok, time, got, crossed>>
  BY <1>1 DEF Owned, Latest
<1>2. CASE GetsDefault(r)
  <2>1. Owned'
    BY <1>0, <1>2 DEF GetsDefault, map, Given, Waiting, Sane, Missing, Owned
  <2>2. Latest'
    BY <1>0, <1>2 DEF GetsDefault, map, history, Given, Waiting, Sane, Missing, Owned, Latest
  <2> QED BY <2>1, <2>2
<1>3. CASE Arrives(r)
  <2>1. Owned'
    BY <1>0, <1>3 DEF Arrives, map, Given, Waiting, Sane, Missing, Owned
  <2>2. Latest'
    BY <1>0, <1>3 DEF Arrives, map, history, Given, Waiting, Sane, Missing, Owned, Latest
  <2> QED BY <2>1, <2>2
<1>4. CASE Hits(r)
  <2>0. /\ got[r] = None /\ tok[r] \in Tokens /\ lim[tok[r]] \in Requests
        /\ got' = [got EXCEPT ![r] = lim[tok[r]]] /\ UNCHANGED <<lim, tok>>
    BY <1>0, <1>4 DEF Hits, Clone, Present, Given, Waiting, Sane
  <2>1. Owned'
    <3>1. \A q \in Requests : got[q] # r
      BY <2>0 DEF Owned
    <3>2. \A t \in Tokens : lim[t] # r
      BY <2>0 DEF Owned
    <3>3. \A t \in Tokens : lim'[t] # None => tok'[lim'[t]] = t /\ got'[lim'[t]] = lim'[t]
      BY <1>0, <2>0, <3>2 DEF Owned
    <3>4. \A q \in Requests : got'[q] \in Requests => tok'[got'[q]] = tok'[q] /\ got'[got'[q]] = got'[q]
      BY <1>0, <2>0, <3>1, <3>2 DEF Owned
    <3> QED BY <3>3, <3>4 DEF Owned
  <2>2. Latest'
    BY <1>0, <1>4 DEF Hits, map, history, Given, Waiting, Sane, Missing, Owned, Latest, Touch, Clone, Present
  <2> QED BY <2>1, <2>2
<1>5. CASE Removes(r)
  <2>1. Owned'
    BY <1>0, <1>5 DEF Removes, map, Given, Waiting, Sane, Missing, Owned, Drop
  <2>2. Latest'
    BY <1>0, <1>5 DEF Removes, map, history, Given, Waiting, Sane, Missing, Owned, Latest, Drop
  <2> QED BY <2>1, <2>2
<1>6. CASE Inserts(r)
  <2>1. Owned'
    BY <1>0, <1>6 DEF Inserts, map, Given, Waiting, Sane, Missing, Owned, Touch
  <2>2. Latest'
    <3>1. /\ got[r] = None /\ tok[r] \in Tokens
          /\ got' = [got EXCEPT ![r] = r] /\ lim' = [lim EXCEPT ![tok[r]] = r]
          /\ used' = [used EXCEPT ![tok[r]] = time[r]] /\ UNCHANGED <<tok, time, crossed>>
      BY <1>0, <1>6 DEF Inserts, Touch, history, Given, Waiting, Sane, Missing
    <3>2. \A q \in Requests : got[q] # r
      BY <3>1 DEF Owned
    <3> QED BY <1>0, <3>1, <3>2 DEF Latest
  <2> QED BY <2>1, <2>2
<1>7. CASE InsertsNothing(r)
  <2>1. Owned'
    BY <1>0, <1>7 DEF InsertsNothing, map, Given, Waiting, Sane, Missing, Owned
  <2>2. Latest'
    BY <1>0, <1>7 DEF InsertsNothing, map, history, Given, Waiting, Sane, Missing, Owned, Latest
  <2> QED BY <2>1, <2>2
<1>8. GetOrInsert(r) => UNCHANGED <<lim, used, tok, time, got, crossed>>
          \/ GetsDefault(r) \/ Arrives(r) \/ Hits(r) \/ Removes(r) \/ Inserts(r) \/ InsertsNothing(r)
  BY DEF GetOrInsert, Misses, Counts, Compares, FindsFirst, Skips, Panics, Folds, Picks, map, history
<1> QED BY <1>1, <1>2, <1>3, <1>4, <1>5, <1>6, <1>7, <1>8

\* So do the request to Discord, the reaper and the clock.
LEMMA LatestRest ==
    ASSUME TypeOK, Sane, Given, Owned, Latest,
           (\E r \in Requests : HandleRequest(r)) \/ Reap \/ Tick
    PROVE  Owned' /\ Latest'
<1> USE TwilightAssumption DEF Tokens
<1>1. CASE UNCHANGED <<lim, used, tok, time, got, crossed>>
  BY <1>1 DEF Owned, Latest
<1>2. CASE Reaps
  <2>1. UNCHANGED <<tok, time, got, crossed>> /\ Drop(reaper) /\ reaper \in 1..Shards
    BY <1>2 DEF Reaps, waiting
  <2>2. /\ got \in [Requests -> Requests \union {Default, None}]
        /\ lim \in [Tokens -> Requests \union {None}]
        /\ tok \in [Requests -> Tokens \union {Default}]
        /\ used \in [Tokens -> 0..MaxTime]
    BY DEF TypeOK
  <2> QED BY <2>1, <2>2 DEF Drop, Owned, Latest
<1>3. (\E r \in Requests : HandleRequest(r)) \/ Reap \/ Tick
          => Reaps \/ UNCHANGED <<lim, used, tok, time, got, crossed>>
  BY DEF HandleRequest, Rejects, GetsTicket, Sends, BadUri, Responds, served,
         Reap, ReapStarts, Retains, ReapEnds, Tick, waiting, map, history
<1> QED BY <1>1, <1>2, <1>3

\* It holds in every reachable state.
LEMMA LatestAlways == Spec => [](Owned /\ Latest)
<1>1. Init => Owned /\ Latest
  BY TwilightAssumption DEF Init, Owned, Latest, Tokens
<1>2. TypeOK /\ Sane /\ Shared /\ Owned /\ Latest /\ [Next]_vars => Owned' /\ Latest'
  <2> SUFFICES ASSUME TypeOK, Sane, Given, Owned, Latest, [Next]_vars PROVE Owned' /\ Latest'
    BY DEF Shared
  <2>1. CASE UNCHANGED vars
    BY <2>1 DEF vars, map, history, Owned, Latest
  <2>2. ASSUME NEW r \in Requests, GetOrInsert(r) PROVE Owned' /\ Latest'
    BY <2>2, LatestGet
  <2> QED BY <2>1, <2>2, LatestRest DEF Next, Step
<1> QED BY <1>1, <1>2, TypeCorrect, SharedAlways, PTL DEF Spec

\* THEOREM: the reaper drops no limiter that a request asked for within the
\* timeout, unless the requests wrote their times in another order.
THEOREM ReaperSpares == Spec => RecentStays
<1>1. TypeOK /\ Shared /\ Owned /\ Latest /\ [Next]_vars =>
        [\A t \in Tokens :
           /\ reaper = t /\ reaper' = t + 1
           /\ Present(t) /\ ~Present(t)'
           => \/ t \in crossed
              \/ \A r \in Requests : got[r] = lim[t] => time[r] + Timeout <= reapAt]_vars
  <2> USE TwilightAssumption DEF Tokens
  <2> SUFFICES ASSUME TypeOK, Shared, Owned, Latest, [Next]_vars, NEW t \in Tokens,
                      reaper = t, reaper' = t + 1, Present(t), ~Present(t)',
                      t \notin crossed, NEW r \in Requests, got[r] = lim[t]
               PROVE  time[r] + Timeout <= reapAt
    OBVIOUS
  <2>1. Reaps
    <3>1. reaper' # reaper /\ lim' # lim
      BY DEF Present
    <3>2. ~\E q \in Requests : Step(q)
      BY <3>1 DEF Step, GetOrInsert, HandleRequest, GetsDefault, Arrives, Hits, Misses, Counts,
         Compares, FindsFirst, Skips, Panics, Folds, Picks, Removes, Inserts, InsertsNothing,
         Rejects, GetsTicket, Sends, BadUri, Responds, served, reap
    <3> QED BY <3>1, <3>2 DEF Next, vars, map, reap, Reap, ReapStarts, Retains, ReapEnds, Tick
  <2>2. used[t] + Timeout <= reapAt
    BY <2>1 DEF Reaps, Expired
  <2>3. tok[r] = t
    BY DEF Owned, Present, TypeOK
  <2>4. time[r] <= used[t]
    BY <2>3 DEF Latest, Present
  <2> QED BY <2>2, <2>4 DEF TypeOK
<1> QED BY <1>1, TypeCorrect, SharedAlways, LatestAlways, PTL DEF Spec, RecentStays

-----------------------------------------------------------------------------
(* The bound of the map.                                                   *)

\* While no two requests miss the map at once, the one that misses has counted
\* at least the entries there are, and has made room before it inserts.
Counted(E, p) == {t \in E : t < p}
Bounds == max # Unbounded /\ max # 0

Lonely == ~crowded => \A r, s \in Requests : pc[r] \in Missing /\ pc[s] \in Missing => r = s

Scanning ==
    \A r \in Requests :
        /\ pc[r] \in {"idle", "lookup"} => pos[r] = 1
        /\ pc[r] \in Missing \ {"insert"} => Bounds
        /\ pc[r] = "fold" => old[r] \in Entries

Roomy ==
    \A r \in Requests :
        /\ pc[r] = "len" => Cardinality(Counted(Entries, pos[r])) <= count[r]
        /\ pc[r] = "remove" => old[r] \in Entries \/ Cardinality(Entries) < max
        /\ pc[r] = "insert" => Cardinality(Entries) < max

Bounded ==
    /\ max = 0 => Entries = {}
    /\ ~crowded /\ Bounds => Cardinality(Entries) <= max /\ Roomy

Sized == Lonely /\ Scanning /\ Bounded

\* How many entries there are, and are counted.
LEMMA EntriesCard ==
    /\ IsFiniteSet(Entries) /\ Cardinality(Entries) \in Nat
    /\ \A p \in Nat : /\ IsFiniteSet(Counted(Entries, p)) /\ Cardinality(Counted(Entries, p)) \in Nat
                       /\ Cardinality(Counted(Entries, p)) <= Cardinality(Entries)
<1>1. IsFiniteSet(Tokens)
  BY FS_Interval, TwilightAssumption DEF Tokens
<1>2. IsFiniteSet(Entries)
  BY <1>1, FS_Subset DEF Entries
<1>3. ASSUME NEW p \in Nat
      PROVE  /\ IsFiniteSet(Counted(Entries, p)) /\ Cardinality(Counted(Entries, p)) \in Nat
             /\ Cardinality(Counted(Entries, p)) <= Cardinality(Entries)
  <2>1. Counted(Entries, p) \subseteq Entries
    BY DEF Counted
  <2> QED BY <1>2, <2>1, FS_Subset, FS_CardinalityType
<1> QED BY <1>2, <1>3, FS_CardinalityType

\* One shard further.
LEMMA CountOne ==
    ASSUME NEW p \in Tokens
    PROVE  /\ ~Present(p) => Counted(Entries, p + 1) = Counted(Entries, p)
           /\ Present(p) => Cardinality(Counted(Entries, p + 1)) = Cardinality(Counted(Entries, p)) + 1
<1>0. p \in Nat /\ Entries \subseteq Nat
  BY TwilightAssumption DEF Tokens, Entries
<1>5. \A t \in Entries : t < p + 1 <=> t < p \/ t = p
  BY <1>0
<1>1. ~Present(p) => Counted(Entries, p + 1) = Counted(Entries, p)
  BY <1>5 DEF Counted, Entries
<1>2. Present(p) => Counted(Entries, p + 1) = Counted(Entries, p) \union {p}
  <2>1. Present(p) => p \in Entries /\ p < p + 1
    BY <1>0 DEF Entries
  <2> QED BY <1>5, <2>1 DEF Counted
<1>3. p \notin Counted(Entries, p)
  BY <1>0 DEF Counted
<1>4. IsFiniteSet(Counted(Entries, p))
  BY <1>0, EntriesCard
<1> QED BY <1>1, <1>2, <1>3, <1>4, FS_AddElement

\* No shard, and all of them.
LEMMA CountAll ==
    Counted(Entries, 1) = {} /\ Counted(Entries, Shards + 1) = Entries
BY TwilightAssumption DEF Counted, Entries, Tokens

\* Dropping an entry.
LEMMA DropCard ==
    ASSUME TypeOK, NEW t \in Tokens, Drop(t)
    PROVE  /\ Entries' = Entries \ {t}
           /\ Cardinality(Entries') <= Cardinality(Entries)
           /\ t \in Entries => Cardinality(Entries') = Cardinality(Entries) - 1
           /\ \A p \in Nat : Cardinality(Counted(Entries', p)) <= Cardinality(Counted(Entries, p))
<1>1. Entries' = Entries \ {t}
  BY TwilightAssumption DEF Drop, Entries, Present, TypeOK
<1>2. Present(t) => t \in Entries
  BY DEF Entries
<1>3. Cardinality(Entries') = IF t \in Entries THEN Cardinality(Entries) - 1 ELSE Cardinality(Entries)
  BY <1>1, EntriesCard, FS_RemoveElement
<1>4. ASSUME NEW p \in Nat PROVE Cardinality(Counted(Entries', p)) <= Cardinality(Counted(Entries, p))
  <2>1. Counted(Entries', p) \subseteq Counted(Entries, p)
    BY <1>1 DEF Counted
  <2> QED BY <2>1, EntriesCard, FS_Subset
<1> QED BY <1>1, <1>2, <1>3, <1>4, EntriesCard

\* Inserting an entry.
LEMMA InsertCard ==
    ASSUME TypeOK, NEW r \in Requests, tok[r] \in Tokens, lim' = [lim EXCEPT ![tok[r]] = r]
    PROVE  Cardinality(Entries') \in Nat /\ Cardinality(Entries') <= Cardinality(Entries) + 1
<1>1. Entries' = Entries \union {tok[r]}
  BY TwilightAssumption DEF Entries, Present, TypeOK
<1>2. Cardinality(Entries') = IF tok[r] \in Entries THEN Cardinality(Entries) ELSE Cardinality(Entries) + 1
  BY <1>1, EntriesCard, FS_AddElement
<1> QED BY <1>2, EntriesCard

\* While the entries stay, only the place of the requests matters.
LEMMA SameEntries ==
    ASSUME UNCHANGED lim
    PROVE  Entries' = Entries
BY DEF Entries, Counted, Present

\* get_or_insert: at most one request is on its way through the map.
LEMMA LonelyGet ==
    ASSUME TypeOK, Lonely, Scanning, NEW r \in Requests, GetOrInsert(r)
    PROVE  Lonely' /\ Scanning'
<1> USE TwilightAssumption
<1>0. /\ pc \in [Requests -> Labels] /\ pos \in [Requests -> 1..(Shards + 1)]
      /\ old \in [Requests -> 0..Shards] /\ lim \in [Tokens -> Requests \union {None}]
  BY DEF TypeOK
<1> USE <1>0 DEF Goto, map, history, scan, Missing, Lonely, Bounds, Scanning, Present, Entries
<1>1. CASE GetsDefault(r)
  <2>1. Lonely'
    BY <1>1 DEF GetsDefault
  <2>2. Scanning'
    BY <1>1 DEF GetsDefault
  <2> QED BY <2>1, <2>2
<1>2. CASE Arrives(r)
  <2>1. Lonely'
    BY <1>2 DEF Arrives
  <2>2. Scanning'
    BY <1>2 DEF Arrives
  <2> QED BY <2>1, <2>2
<1>3. CASE Hits(r)
  <2>1. Lonely'
    BY <1>3 DEF Hits
  <2>2. Scanning'
    BY <1>3 DEF Hits
  <2> QED BY <2>1, <2>2
<1>4. CASE Misses(r)
  <2>1. Lonely'
    BY <1>4 DEF Misses
  <2>2. Scanning'
    BY <1>4 DEF Misses
  <2> QED BY <2>1, <2>2
<1>5. CASE Counts(r)
  <2>1. Lonely'
    BY <1>5 DEF Counts
  <2>2. Scanning'
    BY <1>5 DEF Counts
  <2> QED BY <2>1, <2>2
<1>6. CASE Compares(r)
  <2>1. Lonely'
    BY <1>6 DEF Compares
  <2>2. Scanning'
    BY <1>6 DEF Compares
  <2> QED BY <2>1, <2>2
<1>7. CASE FindsFirst(r)
  <2>1. Lonely'
    BY <1>7 DEF FindsFirst
  <2>2. Scanning'
    BY <1>7 DEF FindsFirst
  <2> QED BY <2>1, <2>2
<1>8. CASE Skips(r)
  <2>1. Lonely'
    BY <1>8 DEF Skips
  <2>2. Scanning'
    BY <1>8 DEF Skips
  <2> QED BY <2>1, <2>2
<1>9. CASE Panics(r)
  <2>1. Lonely'
    BY <1>9 DEF Panics
  <2>2. Scanning'
    BY <1>9 DEF Panics
  <2> QED BY <2>1, <2>2
<1>10. CASE Folds(r)
  <2>1. Lonely'
    BY <1>10 DEF Folds
  <2>2. Scanning'
    BY <1>10 DEF Folds, Older
  <2> QED BY <2>1, <2>2
<1>11. CASE Picks(r)
  <2>1. Lonely'
    BY <1>11 DEF Picks
  <2>2. Scanning'
    BY <1>11 DEF Picks
  <2> QED BY <2>1, <2>2
<1>12. CASE Removes(r)
  <2>1. Lonely'
    BY <1>12 DEF Removes
  <2>2. Scanning'
    BY <1>12 DEF Removes, Drop, Held
  <2> QED BY <2>1, <2>2
<1>13. CASE Inserts(r)
  <2>1. Lonely'
    BY <1>13 DEF Inserts
  <2>2. Scanning'
    BY <1>13 DEF Inserts
  <2> QED BY <2>1, <2>2
<1>14. CASE InsertsNothing(r)
  <2>1. Lonely'
    BY <1>14 DEF InsertsNothing
  <2>2. Scanning'
    BY <1>14 DEF InsertsNothing
  <2> QED BY <2>1, <2>2
<1> QED BY <1>1, <1>2, <1>3, <1>4, <1>5, <1>6, <1>7, <1>8, <1>9, <1>10, <1>11, <1>12, <1>13, <1>14 DEF GetOrInsert

\* get_or_insert: the map keeps its bound.
LEMMA BoundedGet ==
    ASSUME TypeOK, Sane, Lonely, Scanning, Lonely', Bounded,
           NEW r \in Requests, GetOrInsert(r)
    PROVE  Bounded'
<1> USE TwilightAssumption
<1>0. /\ pc \in [Requests -> Labels] /\ pos \in [Requests -> 1..(Shards + 1)]
      /\ count \in [Requests -> 0..Shards] /\ old \in [Requests -> 0..Shards]
      /\ tok \in [Requests -> Tokens \union {Default}]
      /\ max \in Sizes \union {Unbounded} /\ crowded \in BOOLEAN
  BY DEF TypeOK
<1>a. max' = max /\ (~crowded' => ~crowded)
  BY <1>0 DEF GetOrInsert, GetsDefault, Arrives, Hits, Misses, Counts, Compares, FindsFirst, Skips,
     Panics, Folds, Picks, Removes, Inserts, InsertsNothing, history
<1>b. Cardinality(Entries) \in Nat
  BY EntriesCard
<1>1. ASSUME UNCHANGED <<lim, count>>,
             \A q \in Requests \ {r} : pc'[q] = pc[q] /\ pos'[q] = pos[q] /\ old'[q] = old[q],
             ~crowded' /\ Bounds /\ pc'[r] = "len" => Cardinality(Counted(Entries, pos'[r])) <= count[r],
             ~crowded' /\ Bounds /\ pc'[r] = "remove" => old'[r] \in Entries \/ Cardinality(Entries) < max,
             ~crowded' /\ Bounds /\ pc'[r] = "insert" => Cardinality(Entries) < max
      PROVE  Bounded'
  <2>1. Entries' = Entries
    BY <1>1, SameEntries
  <2>2. ASSUME ~crowded', Bounds', NEW q \in Requests
        PROVE  /\ pc'[q] = "len" => Cardinality(Counted(Entries', pos'[q])) <= count'[q]
               /\ pc'[q] = "remove" => old'[q] \in Entries' \/ Cardinality(Entries') < max'
               /\ pc'[q] = "insert" => Cardinality(Entries') < max'
    <3>1. Bounds /\ ~crowded /\ Roomy
      BY <1>a, <2>2 DEF Bounds, Bounded
    <3>2. CASE q = r
      BY <1>1, <1>a, <2>1, <2>2, <3>1, <3>2
    <3>3. CASE q # r
      BY <1>1, <1>a, <2>1, <2>2, <3>1, <3>3 DEF Roomy
    <3> QED BY <3>2, <3>3
  <2>3. (max' = 0 => Entries' = {}) /\ (~crowded' /\ Bounds' => Cardinality(Entries') <= max')
    BY <1>a, <2>1 DEF Bounded, Bounds
  <2>4. ~crowded' /\ Bounds' => Roomy'
    BY <2>2 DEF Roomy
  <2> QED BY <2>3, <2>4 DEF Bounded
<1>2. CASE GetsDefault(r) \/ Arrives(r) \/ Hits(r) \/ FindsFirst(r) \/ Skips(r) \/ Panics(r)
           \/ Folds(r) \/ InsertsNothing(r)
  <2>1. /\ UNCHANGED <<lim, count>> /\ pc'[r] \notin {"len", "remove", "insert"}
        /\ \A q \in Requests \ {r} : pc'[q] = pc[q] /\ pos'[q] = pos[q] /\ old'[q] = old[q]
    BY <1>0, <1>2 DEF GetsDefault, Arrives, Hits, FindsFirst, Skips, Panics, Folds, InsertsNothing,
       Goto, map, scan
  <2> QED BY <1>1, <2>1
<1>3. CASE Misses(r)
  <2>1. /\ UNCHANGED <<lim, count, pos, old>> /\ pc'[r] \in {"len", "insert"}
        /\ \A q \in Requests \ {r} : pc'[q] = pc[q]
        /\ Bounds => pc'[r] = "len"
        /\ pos[r] = 1 /\ count[r] = 0
    BY <1>0, <1>3 DEF Misses, Goto, map, scan, Bounds, Scanning, Sane
  <2>2. Cardinality(Counted(Entries, 1)) = 0
    BY CountAll, FS_EmptySet
  <2> QED BY <1>1, <2>1, <2>2
<1>4. CASE Counts(r)
  <2>1. /\ UNCHANGED <<lim, pc, old>> /\ pos[r] \in Tokens /\ pc[r] = "len"
        /\ pos' = [pos EXCEPT ![r] = @ + 1]
        /\ count' = [count EXCEPT ![r] = @ + IF Present(pos[r]) THEN 1 ELSE 0]
    BY <1>4 DEF Counts, map
  <2>2. Entries' = Entries
    BY <2>1, SameEntries
  <2>3. Cardinality(Counted(Entries, pos[r])) \in Nat /\ Cardinality(Counted(Entries, pos[r] + 1)) \in Nat
    BY <1>0, EntriesCard
  <2>4. ASSUME ~crowded', Bounds', NEW q \in Requests, pc'[q] = "len"
        PROVE  Cardinality(Counted(Entries', pos'[q])) <= count'[q]
    <3>1. Roomy
      BY <1>a, <2>4 DEF Bounds, Bounded
    <3>2. CASE q = r
      <4>1. Cardinality(Counted(Entries, pos[r])) <= count[r]
        BY <2>1, <3>1 DEF Roomy
      <4>2. pos'[r] = pos[r] + 1 /\ count'[r] = count[r] + IF Present(pos[r]) THEN 1 ELSE 0
        BY <1>0, <2>1
      <4>3. Cardinality(Counted(Entries, pos[r] + 1)) <= count'[r]
        BY <1>0, <2>1, <2>3, <4>1, <4>2, CountOne
      <4> QED BY <2>2, <3>2, <4>2, <4>3
    <3>3. CASE q # r
      BY <1>0, <2>1, <2>2, <2>4, <3>1, <3>3 DEF Roomy
    <3> QED BY <3>2, <3>3
  <2>5. /\ max' = 0 => Entries' = {}
        /\ ~crowded' /\ Bounds' => Cardinality(Entries') <= max'
    BY <1>a, <2>2 DEF Bounded, Bounds
  <2>6. ASSUME ~crowded', Bounds', NEW q \in Requests
        PROVE  /\ pc'[q] = "remove" => old'[q] \in Entries' \/ Cardinality(Entries') < max'
               /\ pc'[q] = "insert" => Cardinality(Entries') < max'
    <3>1. Roomy
      BY <1>a, <2>6 DEF Bounds, Bounded
    <3> QED BY <1>a, <2>1, <2>2, <3>1 DEF Roomy
  <2> QED BY <2>4, <2>5, <2>6 DEF Bounded, Roomy
<1>5. CASE Compares(r)
  <2>1. /\ UNCHANGED <<lim, old, max>> /\ pc[r] = "len" /\ pos[r] = Shards + 1
        /\ pc' = [pc EXCEPT ![r] = IF Full(r) THEN "next" ELSE "insert"]
        /\ pos' = [pos EXCEPT ![r] = 1] /\ count' = [count EXCEPT ![r] = 0]
    BY <1>0, <1>5 DEF Compares, Goto, map, Tokens
  <2>2. Entries' = Entries
    BY <2>1, SameEntries
  <2>3. /\ max' = 0 => Entries' = {}
        /\ ~crowded' /\ Bounds' => Cardinality(Entries') <= max'
    BY <1>a, <2>2 DEF Bounded, Bounds
  <2>4. ASSUME ~crowded', Bounds', NEW q \in Requests
        PROVE  /\ pc'[q] = "len" => Cardinality(Counted(Entries', pos'[q])) <= count'[q]
               /\ pc'[q] = "remove" => old'[q] \in Entries' \/ Cardinality(Entries') < max'
               /\ pc'[q] = "insert" => Cardinality(Entries') < max'
    <3>1. Roomy /\ Bounds
      BY <1>a, <2>4 DEF Bounds, Bounded
    <3>2. CASE q = r
      <4>1. Cardinality(Entries) <= count[r]
        BY <2>1, <3>1, CountAll DEF Roomy
      <4>2. max \in Nat
        BY <1>0, <3>1 DEF Bounds
      <4>3. ~Full(r) => Cardinality(Entries) < max
        BY <1>0, <1>b, <4>1, <4>2 DEF Full
      <4> QED BY <1>0, <2>1, <2>2, <3>2, <4>3
    <3>3. CASE q # r
      BY <1>0, <2>1, <2>2, <2>4, <3>1, <3>3 DEF Roomy
    <3> QED BY <3>2, <3>3
  <2> QED BY <2>3, <2>4 DEF Bounded, Roomy
<1>6. CASE Picks(r)
  <2>1. /\ UNCHANGED <<lim, count, old>> /\ pc'[r] = "remove" /\ old[r] \in Entries
        /\ \A q \in Requests \ {r} : pc'[q] = pc[q] /\ pos'[q] = pos[q]
    BY <1>0, <1>6 DEF Picks, Goto, map, Scanning
  <2> QED BY <1>1, <2>1
<1>7. CASE Removes(r)
  <2>1. /\ pc[r] = "remove" /\ old[r] \in Tokens /\ Drop(old[r])
        /\ pc' = [pc EXCEPT ![r] = "insert"] /\ crowded' = crowded
    BY <1>7 DEF Removes, Goto, Sane
  <2>2. /\ Entries' = Entries \ {old[r]} /\ Cardinality(Entries') <= Cardinality(Entries)
        /\ old[r] \in Entries => Cardinality(Entries') = Cardinality(Entries) - 1
    BY <2>1, DropCard
  <2>3. Cardinality(Entries') \in Nat
    <3>1. IsFiniteSet(Entries')
      BY <2>2, EntriesCard, FS_Subset
    <3> QED BY <3>1, FS_CardinalityType
  <2>4. max' = 0 => Entries' = {}
    BY <1>a, <2>2 DEF Bounded
  <2>5. ASSUME ~crowded', Bounds'
        PROVE  Cardinality(Entries') <= max' /\ Roomy'
    <3>1. Roomy /\ Bounds /\ Cardinality(Entries) <= max /\ max \in Nat
      BY <1>0, <1>a, <2>5 DEF Bounds, Bounded
    <3>2. Cardinality(Entries') < max
      BY <1>b, <2>1, <2>2, <2>3, <3>1 DEF Roomy
    <3>3. \A q \in Requests : pc'[q] \in Missing => q = r
      BY <1>0, <2>1, <2>5 DEF Lonely, Missing
    <3>4. pc'[r] = "insert"
      BY <1>0, <2>1
    <3>5. Roomy'
      BY <1>a, <3>2, <3>3, <3>4 DEF Roomy, Missing
    <3> QED BY <1>a, <2>3, <3>1, <3>2, <3>5
  <2> QED BY <2>4, <2>5 DEF Bounded
<1>8. CASE Inserts(r)
  <2>1. /\ pc[r] = "insert" /\ max # 0 /\ lim' = [lim EXCEPT ![tok[r]] = r]
        /\ pc' = [pc EXCEPT ![r] = "ticket"] /\ tok[r] \in Tokens /\ crowded' = crowded
    BY <1>0, <1>8 DEF Inserts, Goto, Sane, Missing, history
  <2>2. Cardinality(Entries') \in Nat /\ Cardinality(Entries') <= Cardinality(Entries) + 1
    BY <2>1, InsertCard
  <2>3. ASSUME ~crowded', Bounds'
        PROVE  Cardinality(Entries') <= max' /\ Roomy'
    <3>1. Roomy /\ Bounds /\ Cardinality(Entries) <= max /\ max \in Nat
      BY <1>0, <1>a, <2>3 DEF Bounds, Bounded
    <3>2. Cardinality(Entries) < max
      BY <2>1, <3>1 DEF Roomy
    <3>3. \A q \in Requests : pc'[q] \notin Missing
      BY <1>0, <2>1, <2>3 DEF Lonely, Missing
    <3>4. Roomy'
      BY <3>3 DEF Roomy, Missing
    <3> QED BY <1>a, <1>b, <2>2, <3>1, <3>2, <3>4
  <2> QED BY <1>a, <2>1, <2>3 DEF Bounded
<1> QED BY <1>2, <1>3, <1>4, <1>5, <1>6, <1>7, <1>8 DEF GetOrInsert

\* So do the request to Discord, the reaper and the clock.
LEMMA SizedRest ==
    ASSUME TypeOK, Sane, Sized,
           (\E r \in Requests : HandleRequest(r)) \/ Reap \/ Tick
    PROVE  Sized'
<1> USE TwilightAssumption
<1>0. /\ pc \in [Requests -> Labels] /\ pos \in [Requests -> 1..(Shards + 1)]
      /\ old \in [Requests -> 0..Shards] /\ max \in Sizes \union {Unbounded}
      /\ count \in [Requests -> 0..Shards]
  BY DEF TypeOK
<1>1. UNCHANGED <<max, pos, old, count, crowded>>
  BY DEF HandleRequest, Rejects, GetsTicket, Sends, BadUri, Responds, served,
     Reap, ReapStarts, Reaps, Retains, ReapEnds, Tick, waiting, scan, history
<1>2. \A q \in Requests :
        \/ pc'[q] = pc[q]
        \/ pc[q] \in {"ticket", "ready", "sent"} /\ pc'[q] \in {"ready", "sent", "answered"}
  <2>1. ASSUME NEW r \in Requests, HandleRequest(r), NEW q \in Requests
        PROVE  \/ pc'[q] = pc[q]
               \/ pc[q] \in {"ticket", "ready", "sent"} /\ pc'[q] \in {"ready", "sent", "answered"}
    BY <1>0, <2>1 DEF HandleRequest, Rejects, GetsTicket, Sends, BadUri, Responds, Goto
  <2>2. Reap \/ Tick => UNCHANGED pc
    BY DEF Reap, ReapStarts, Reaps, Retains, ReapEnds, Tick, waiting
  <2> QED BY <2>1, <2>2
<1>3. Lonely'
  BY <1>1, <1>2 DEF Sized, Lonely, Missing
<1>4. CASE UNCHANGED lim
  <2>1. Entries' = Entries
    BY <1>4, SameEntries
  <2>2. Scanning'
    BY <1>1, <1>2, <2>1 DEF Sized, Scanning, Bounds, Missing
  <2>3. Bounded'
    BY <1>1, <1>2, <2>1 DEF Sized, Bounded, Roomy, Bounds
  <2> QED BY <1>3, <2>2, <2>3 DEF Sized
<1>5. CASE Reaps
  <2>1. reaper \in Tokens /\ ~Held(reaper) /\ Drop(reaper) /\ UNCHANGED pc
    BY <1>5 DEF Reaps, waiting
  <2>2. /\ Entries' = Entries \ {reaper} /\ Cardinality(Entries') <= Cardinality(Entries)
        /\ reaper \in Entries => Cardinality(Entries') = Cardinality(Entries) - 1
        /\ \A p \in Nat : Cardinality(Counted(Entries', p)) <= Cardinality(Counted(Entries, p))
    BY <2>1, DropCard
  <2>3. IsFiniteSet(Entries') /\ Cardinality(Entries') \in Nat
    BY <2>2, EntriesCard, FS_Subset, FS_CardinalityType
  <2>4. \A p \in Nat : Cardinality(Counted(Entries', p)) \in Nat /\ Cardinality(Counted(Entries, p)) \in Nat
    <3>1. ASSUME NEW p \in Nat PROVE Cardinality(Counted(Entries', p)) \in Nat
      <4>1. Counted(Entries', p) \subseteq Entries'
        BY DEF Counted
      <4> QED BY <2>3, <4>1, FS_Subset, FS_CardinalityType
    <3> QED BY <3>1, EntriesCard
  <2>5. Scanning'
    <3>1. \A q \in Requests : pc[q] = "fold" => old[q] # reaper
      BY <2>1 DEF Held
    <3> QED BY <1>1, <2>1, <2>2, <3>1 DEF Sized, Scanning, Bounds
  <2>6. ASSUME ~crowded', Bounds'
        PROVE  Cardinality(Entries') <= max' /\ Roomy'
    <3>1. Roomy /\ Bounds /\ Cardinality(Entries) <= max /\ max \in Nat
      BY <1>0, <1>1, <2>6 DEF Sized, Bounds, Bounded
    <3>2. Cardinality(Entries) \in Nat
      BY EntriesCard
    <3>3. ASSUME NEW q \in Requests, pc'[q] = "len"
          PROVE  Cardinality(Counted(Entries', pos'[q])) <= count'[q]
      <4>1. pos'[q] = pos[q] /\ count'[q] = count[q] /\ pos[q] \in Nat /\ count[q] \in Nat
        BY <1>0, <1>1
      <4>2. Cardinality(Counted(Entries, pos[q])) <= count[q]
        BY <2>1, <3>1, <3>3 DEF Roomy
      <4>3. Cardinality(Counted(Entries', pos[q])) <= count[q]
        <5>1. Cardinality(Counted(Entries', pos[q])) <= Cardinality(Counted(Entries, pos[q]))
          BY <2>2, <4>1
        <5>2. Cardinality(Counted(Entries', pos[q])) \in Nat /\ Cardinality(Counted(Entries, pos[q])) \in Nat
          BY <2>4, <4>1
        <5> QED BY <4>1, <4>2, <5>1, <5>2
      <4> QED BY <4>1, <4>3, Zenon
    <3>4. ASSUME NEW q \in Requests, pc'[q] = "remove"
          PROVE  old'[q] \in Entries' \/ Cardinality(Entries') < max'
      <4>1. CASE old[q] = reaper
        <5>1. reaper \in Entries \/ Cardinality(Entries) < max
          BY <2>1, <3>1, <3>4, <4>1 DEF Roomy
        <5> QED BY <1>1, <2>2, <2>3, <3>1, <3>2, <5>1
      <4>2. CASE old[q] # reaper
        <5>1. old[q] \in Entries => old'[q] \in Entries'
          BY <1>1, <2>2, <4>2
        <5>2. old[q] \in Entries \/ Cardinality(Entries) < max
          BY <2>1, <3>1, <3>4 DEF Roomy
        <5> QED BY <1>1, <2>2, <2>3, <3>1, <3>2, <5>1, <5>2
      <4> QED BY <4>1, <4>2
    <3>5. ASSUME NEW q \in Requests, pc'[q] = "insert"
          PROVE  Cardinality(Entries') < max'
      <4>1. Cardinality(Entries) < max
        BY <2>1, <3>1, <3>5 DEF Roomy
      <4> QED BY <1>1, <2>2, <2>3, <3>1, <3>2, <4>1
    <3>6. Cardinality(Entries') <= max'
      BY <1>1, <2>2, <2>3, <3>1, <3>2
    <3> QED BY <3>3, <3>4, <3>5, <3>6 DEF Roomy
  <2>7. max' = 0 => Entries' = {}
    BY <1>1, <2>2 DEF Sized, Bounded
  <2> QED BY <1>3, <2>5, <2>6, <2>7 DEF Sized, Bounded
<1>6. Reaps \/ UNCHANGED lim
  BY DEF HandleRequest, Rejects, GetsTicket, Sends, BadUri, Responds, served,
     Reap, ReapStarts, Retains, ReapEnds, Tick, map
<1> QED BY <1>4, <1>5, <1>6

\* It holds in every reachable state.
LEMMA SizedAlways == Spec => []Sized
<1>1. Init => Sized
  <2> SUFFICES ASSUME Init PROVE Sized
    OBVIOUS
  <2>1. Entries = {}
    BY DEF Init, Entries, Present
  <2>2. Cardinality(Entries) = 0
    BY <2>1, FS_EmptySet
  <2>3. max \in Nat \union {Unbounded}
    BY TwilightAssumption DEF Init
  <2>4. Bounded
    BY <2>1, <2>2, <2>3 DEF Init, Bounded, Bounds, Roomy
  <2> QED BY <2>4 DEF Init, Sized, Lonely, Scanning, Missing
<1>2. TypeOK /\ Sane /\ Sized /\ [Next]_vars => Sized'
  <2> SUFFICES ASSUME TypeOK, Sane, Sized, [Next]_vars PROVE Sized'
    OBVIOUS
  <2>1. CASE UNCHANGED vars
    <3>1. UNCHANGED <<lim, max, pc, pos, old, count, crowded>>
      BY <2>1 DEF vars, map, scan, history
    <3>2. Entries' = Entries
      BY <3>1, SameEntries
    <3> QED BY <3>1, <3>2 DEF Sized, Lonely, Scanning, Bounded, Roomy, Bounds
  <2>2. ASSUME NEW r \in Requests, GetOrInsert(r) PROVE Sized'
    <3>1. Lonely' /\ Scanning'
      BY <2>2, LonelyGet DEF Sized
    <3> QED BY <2>2, <3>1, BoundedGet DEF Sized
  <2> QED BY <2>1, <2>2, SizedRest DEF Next, Step
<1> QED BY <1>1, <1>2, TypeCorrect, PTL DEF Spec

\* THEOREM: the map holds no more entries than CLIENT_CACHE_MAX_SIZE says, as
\* long as no two requests have missed it at once.
THEOREM MapBounded == Spec => []SizeBound
<1>1. TypeOK /\ Sized => SizeBound
  <2> SUFFICES ASSUME TypeOK, Sized, max # Unbounded, ~crowded PROVE Cardinality(Entries) <= max
    BY DEF SizeBound
  <2>1. CASE max = 0
    BY <2>1, FS_EmptySet DEF Sized, Bounded
  <2>2. CASE max # 0
    BY <2>2 DEF Sized, Bounded, Bounds
  <2> QED BY <2>1, <2>2
<1> QED BY <1>1, TypeCorrect, SizedAlways, PTL

-----------------------------------------------------------------------------
(* What lru() finds.                                                       *)

\* What len() has counted, iter() has still to visit, unless an entry was
\* removed; what lru() has given out is in the map.
Found ==
    \A r \in Requests :
        /\ pc[r] = "len" /\ count[r] > 0 => split # {} \/ Entries # {}
        /\ pc[r] = "next" => split # {} \/ \E t \in Entries : t >= pos[r]
        /\ pc[r] = "panicked" => split # {}

\* Steps that remove no entry, and move no request that looks for one.
LEMMA FoundStays ==
    ASSUME Found, LruKeeps, Entries \subseteq Entries', split \subseteq split',
           UNCHANGED <<pos, count, first, old>>,
           \A q \in Requests : pc'[q] = pc[q] \/ pc'[q] \notin {"len", "next", "fold", "panicked"}
    PROVE  Found' /\ LruKeeps'
BY DEF Found, LruKeeps

\* get_or_insert keeps this.
LEMMA FoundGet ==
    ASSUME TypeOK, Sane, Scanning, Found, LruKeeps, NEW r \in Requests, GetOrInsert(r)
    PROVE  Found' /\ LruKeeps'
<1> USE TwilightAssumption DEF Tokens
<1>0. /\ pc \in [Requests -> Labels] /\ pos \in [Requests -> 1..(Shards + 1)]
      /\ count \in [Requests -> 0..Shards] /\ lim \in [Tokens -> Requests \union {None}]
      /\ first \in [Requests -> 0..Shards] /\ old \in [Requests -> 0..Shards]
  BY DEF TypeOK
<1>1. CASE GetsDefault(r) \/ Arrives(r) \/ Hits(r) \/ InsertsNothing(r)
  <2>1. UNCHANGED <<lim, split, pos, count, first, old>>
    BY <1>1 DEF GetsDefault, Arrives, Hits, InsertsNothing, map, scan, history
  <2>2. PICK l \in {"ticket", "lookup"} : pc' = [pc EXCEPT ![r] = l]
    BY <1>1 DEF GetsDefault, Arrives, Hits, InsertsNothing, Goto
  <2>3. \A q \in Requests : pc'[q] = pc[q] \/ pc'[q] \notin {"len", "next", "fold", "panicked"}
    BY <1>0, <2>2
  <2> QED BY <2>1, <2>3, SameEntries, FoundStays
<1>2. CASE Inserts(r)
  <2>1. UNCHANGED <<split, pos, count, first, old>>
    BY <1>2 DEF Inserts, scan, history
  <2>2. Entries \subseteq Entries'
    BY <1>0, <1>2 DEF Inserts, Entries, Present
  <2>3. \A q \in Requests : pc'[q] = pc[q] \/ pc'[q] = "ticket"
    BY <1>0, <1>2 DEF Inserts, Goto
  <2> QED BY <2>1, <2>2, <2>3, FoundStays
<1>3. CASE Misses(r)
  <2>1. UNCHANGED <<lim, pos, count, first, old>> /\ split \subseteq split'
    BY <1>3 DEF Misses, map, scan
  <2>2. Entries' = Entries /\ count[r] = 0
    BY <1>3, <2>1, SameEntries DEF Misses, Sane
  <2>3. \A q \in Requests : pc'[q] = pc[q] \/ (q = r /\ pc'[q] \in {"len", "insert"})
    BY <1>0, <1>3 DEF Misses, Goto
  <2>4. LruKeeps'
    BY <2>1, <2>2, <2>3 DEF LruKeeps
  <2>5. split # {} => split' # {}
    BY <2>1
  <2>6. ~(count'[r] > 0)
    BY <2>1, <2>2
  <2>7. Found'
    <3>1. UNCHANGED <<pos, count>>
      BY <2>1
    <3> QED BY <2>2, <2>3, <2>5, <2>6, <3>1 DEF Found
  <2> QED BY <2>4, <2>7
<1>4. CASE Counts(r)
  <2>1. UNCHANGED <<lim, split, pc, first, old>> /\ pc[r] = "len" /\ pos[r] \in Tokens
    BY <1>4 DEF Counts, map, history
  <2>2. Entries' = Entries
    BY <2>1, SameEntries
  <2>3. /\ \A q \in Requests : q # r => pos'[q] = pos[q] /\ count'[q] = count[q]
        /\ count'[r] > 0 => count[r] > 0 \/ Present(pos[r])
    BY <1>0, <1>4 DEF Counts
  <2> QED BY <1>0, <2>1, <2>2, <2>3 DEF Found, LruKeeps, Entries
<1>5. CASE Compares(r)
  <2>1. UNCHANGED <<lim, split, first, old>> /\ pc[r] = "len"
    BY <1>5 DEF Compares, map, history
  <2>2. Entries' = Entries
    BY <2>1, SameEntries
  <2>3. /\ \A q \in Requests : q # r => pos'[q] = pos[q] /\ count'[q] = count[q] /\ pc'[q] = pc[q]
        /\ pos'[r] = 1 /\ count'[r] = 0 /\ pc'[r] = IF Full(r) THEN "next" ELSE "insert"
    BY <1>0, <1>5 DEF Compares, Goto
  <2>4. Full(r) => count[r] > 0
    <3>1. max \in Nat /\ max # 0
      BY <2>1 DEF Scanning, Missing, Bounds, TypeOK
    <3> QED BY <1>0, <3>1 DEF Full
  <2>5. \A t \in Entries : t >= 1
    BY DEF Entries
  <2> QED BY <1>0, <2>1, <2>2, <2>3, <2>4, <2>5 DEF Found, LruKeeps
<1>6. CASE FindsFirst(r)
  <2>1. UNCHANGED <<lim, split, count>> /\ pos[r] \in Entries
    BY <1>6 DEF FindsFirst, map, history, Entries
  <2>2. Entries' = Entries
    BY <2>1, SameEntries
  <2>3. /\ \A q \in Requests : q # r => /\ pos'[q] = pos[q] /\ pc'[q] = pc[q]
                                        /\ first'[q] = first[q] /\ old'[q] = old[q]
        /\ first'[r] = pos[r] /\ old'[r] = pos[r] /\ pc'[r] = "fold"
    BY <1>0, <1>6 DEF FindsFirst, Goto
  <2>4. LruKeeps'
    BY <2>1, <2>2, <2>3 DEF LruKeeps
  <2>5. Found'
    BY <2>1, <2>2, <2>3 DEF Found
  <2> QED BY <2>4, <2>5
<1>7. CASE Skips(r)
  <2>1. /\ UNCHANGED <<lim, split, count, pc, first, old>>
        /\ pc[r] = "next" /\ pos[r] \notin Entries
    BY <1>7 DEF Skips, map, history, Entries
  <2>2. Entries' = Entries
    BY <2>1, SameEntries
  <2>3. /\ \A q \in Requests : q # r => pos'[q] = pos[q]
        /\ pos'[r] = pos[r] + 1
    BY <1>0, <1>7 DEF Skips
  <2>4. \A t \in Entries : t \in Nat /\ (t >= pos[r] => t >= pos[r] + 1)
    BY <1>0, <2>1 DEF Entries
  <2>5. LruKeeps'
    BY <2>1, <2>2 DEF LruKeeps
  <2>6. Found'
    BY <1>0, <2>1, <2>2, <2>3, <2>4 DEF Found
  <2> QED BY <2>5, <2>6
<1>8. CASE Panics(r)
  <2>1. /\ UNCHANGED <<lim, split, count, first, old>>
        /\ pc[r] = "next" /\ pos[r] \notin Tokens
    BY <1>8 DEF Panics, map, history
  <2>2. Entries' = Entries
    BY <2>1, SameEntries
  <2>3. \A q \in Requests : IF q = r THEN pc'[q] = "panicked"
                            ELSE pos'[q] = pos[q] /\ pc'[q] = pc[q]
    BY <1>0, <1>8 DEF Panics, Goto
  <2>4. split # {}
    <3>1. pos[r] = Shards + 1 /\ \A t \in Entries : t \in 1..Shards
      BY <1>0, <2>1 DEF Entries
    <3> QED BY <2>1, <3>1 DEF Found
  <2>5. LruKeeps'
    BY <2>1, <2>2, <2>3 DEF LruKeeps
  <2>6. Found'
    BY <2>1, <2>4 DEF Found
  <2> QED BY <2>5, <2>6
<1>9. CASE Folds(r)
  <2>1. UNCHANGED <<lim, split, count, pc, first>> /\ pc[r] = "fold" /\ pos[r] \in Tokens
    BY <1>9 DEF Folds, map, history
  <2>2. Entries' = Entries
    BY <2>1, SameEntries
  <2>3. \A q \in Requests : q # r => pos'[q] = pos[q] /\ old'[q] = old[q]
    BY <1>0, <1>9 DEF Folds
  <2>4. old'[r] = old[r] \/ old'[r] \in Entries
    BY <1>0, <1>9 DEF Folds, Older, Entries
  <2>5. LruKeeps'
    BY <2>1, <2>2, <2>3, <2>4 DEF LruKeeps
  <2>6. Found'
    BY <2>1, <2>2, <2>3 DEF Found
  <2> QED BY <2>5, <2>6
<1>10. CASE Picks(r)
  <2>1. UNCHANGED <<lim, split, count, old>> /\ pc[r] = "fold"
    BY <1>10 DEF Picks, map, history
  <2>2. Entries' = Entries
    BY <2>1, SameEntries
  <2>3. \A q \in Requests : IF q = r THEN pc'[q] = "remove"
                            ELSE pos'[q] = pos[q] /\ pc'[q] = pc[q] /\ first'[q] = first[q]
    BY <1>0, <1>10 DEF Picks, Goto
  <2> QED BY <2>1, <2>2, <2>3 DEF Found, LruKeeps
<1>11. CASE Removes(r)
  <2>1. /\ split' # {} /\ ~Held(old[r]) /\ UNCHANGED first
        /\ lim' = [lim EXCEPT ![old[r]] = None]
    BY <1>11 DEF Removes, Drop
  <2>2. \A t \in Entries : t # old[r] => t \in Entries'
    BY <1>0, <2>1 DEF Entries, Present
  <2>3. \A q \in Requests : IF q = r THEN pc'[q] = "insert"
                            ELSE pc'[q] = pc[q] /\ old'[q] = old[q]
    BY <1>0, <1>11 DEF Removes, Goto
  <2>4. LruKeeps'
    BY <2>1, <2>2, <2>3 DEF LruKeeps, Held
  <2>5. Found'
    BY <2>1 DEF Found
  <2> QED BY <2>4, <2>5
<1> QED BY <1>1, <1>2, <1>3, <1>4, <1>5, <1>6, <1>7, <1>8, <1>9, <1>10, <1>11 DEF GetOrInsert

\* So do the request to Discord, the reaper and the clock.
LEMMA FoundRest ==
    ASSUME TypeOK, Found, LruKeeps,
           (\E r \in Requests : HandleRequest(r)) \/ Reap \/ Tick
    PROVE  Found' /\ LruKeeps'
<1> USE TwilightAssumption DEF Tokens
<1>1. ASSUME NEW r \in Requests, HandleRequest(r)
      PROVE  Found' /\ LruKeeps'
  <2>1. PICK l \in {"ready", "sent", "answered"} : Goto(r, l) /\ UNCHANGED served
    BY <1>1 DEF HandleRequest, Rejects, GetsTicket, Sends, BadUri, Responds
  <2>2. UNCHANGED <<lim, split, pos, count, first, old>>
    BY <2>1 DEF served, map, scan, history
  <2>3. \A q \in Requests : pc'[q] = pc[q] \/ pc'[q] \notin {"len", "next", "fold", "panicked"}
    BY <2>1 DEF Goto, TypeOK
  <2> QED BY <2>2, <2>3, SameEntries, FoundStays
<1>2. CASE Reaps
  <2>1. /\ split' # {} /\ ~Held(reaper) /\ UNCHANGED <<pc, first, old>>
        /\ lim' = [lim EXCEPT ![reaper] = None] /\ lim \in [Tokens -> Requests \union {None}]
    BY <1>2 DEF Reaps, Drop, waiting, scan, TypeOK
  <2>2. \A t \in Entries : t # reaper => t \in Entries'
    BY <2>1 DEF Entries, Present
  <2>3. LruKeeps'
    BY <2>1, <2>2 DEF LruKeeps, Held
  <2>4. Found'
    BY <2>1 DEF Found
  <2> QED BY <2>3, <2>4
<1>3. CASE (Reap /\ ~Reaps) \/ Tick
  <2>1. UNCHANGED <<lim, split, pc, pos, count, first, old>>
    BY <1>3 DEF Reap, ReapStarts, Retains, ReapEnds, Tick, waiting, map, scan, history
  <2> QED BY <2>1, SameEntries, FoundStays
<1> QED BY <1>1, <1>2, <1>3

\* It holds in every reachable state.
LEMMA FoundAlways == Spec => [](Found /\ LruKeeps)
<1>1. Init => Found /\ LruKeeps
  BY DEF Init, Found, LruKeeps
<1>2. TypeOK /\ Sane /\ Sized /\ Found /\ LruKeeps /\ [Next]_vars => Found' /\ LruKeeps'
  <2> SUFFICES ASSUME TypeOK, Sane, Scanning, Found, LruKeeps, [Next]_vars
               PROVE  Found' /\ LruKeeps'
    BY DEF Sized
  <2>1. CASE UNCHANGED vars
    <3>1. UNCHANGED <<lim, split, pc, pos, count, first, old>>
      BY <2>1 DEF vars, map, scan, history
    <3> QED BY <3>1, SameEntries, FoundStays
  <2>2. ASSUME NEW r \in Requests, GetOrInsert(r) PROVE Found' /\ LruKeeps'
    BY <2>2, FoundGet
  <2> QED BY <2>1, <2>2, FoundRest DEF Next, Step
<1> QED BY <1>1, <1>2, TypeCorrect, SizedAlways, PTL DEF Spec

\* THEOREM: while lru() looks for an older entry, nobody removes what it has
\* found (ratelimiter_map.rs: its items hold their shards until it returns).
THEOREM LruHolds == Spec => []LruKeeps
BY FoundAlways, PTL

\* THEOREM: what expect() relies on fails only after an entry was removed, or
\* two requests missed one token at once, whatever len() counted meanwhile.
THEOREM PanicsAfterRemoval == Spec => []PanicNeedsRemoval
<1>1. Found => PanicNeedsRemoval
  BY DEF Found, PanicNeedsRemoval
<1> QED BY <1>1, FoundAlways, PTL

===============================================================================
