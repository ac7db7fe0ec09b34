----------------------------- MODULE MusicProofs -----------------------------
(* Proofs about the music player, for any number of commands, tracks,      *)
(* dispatchers and faults.                                                 *)
EXTENDS Music, TLAPS

LEMMA Numbers ==
  /\ NoDispatcher \notin Dispatcher
  /\ \A d \in Dispatcher : d \in Nat /\ 0 < d /\ d <= MaxDispatchers
  BY BoundsAssumption DEF Dispatcher, NoDispatcher

-----------------------------------------------------------------------------
(* Type correctness, with the count of the tracks left.                    *)

TInv == TypeOK /\ TracksLeft /\ CreatedInOrder

LEMMA TInit == Init => TInv
  <1> SUFFICES ASSUME Init PROVE TInv
    OBVIOUS
  <1>1. TypeOK
    <2>1. 0 \in 0..MaxTracks /\ 0 \in 0..MaxDispatchers /\ 0 \in 0..MaxFaults
      BY BoundsAssumption
    <2>2. QED
      BY <2>1 DEF Init, TypeOK
  <1>2. TracksLeft
    BY DEF Init, TracksLeft
  <1>3. CreatedInOrder
    BY Numbers DEF Init, CreatedInOrder, NoDispatcher
  <1>4. QED
    BY <1>1, <1>2, <1>3 DEF TInv

\* destroy() of a dispatcher that was created.
LEMMA DestroyTypes ==
  ASSUME TInv, NEW d \in Dispatcher, link[d] # "none", Destroy(d)
  PROVE  /\ link' \in [Dispatcher -> {"none", "live", "closed"}]
         /\ registered' \in Dispatcher \union {NoDispatcher}
         /\ queued' \in [Dispatcher -> Nat]
         /\ playing' \in [Dispatcher -> BOOLEAN]
         /\ \A c \in Dispatcher : link'[c] = "none" <=> link[c] = "none"
         /\ registered' <= made
  BY DEF TInv, TypeOK, Destroy, EmptyQueue, NoDispatcher

LEMMA PlayTypes ==
  ASSUME TInv, NEW d \in Dispatcher, link[d] # "none", NEW n \in Nat, Play(d, n)
  PROVE  /\ link' \in [Dispatcher -> {"none", "live", "closed"}]
         /\ registered' \in Dispatcher \union {NoDispatcher}
         /\ queued' \in [Dispatcher -> Nat]
         /\ playing' \in [Dispatcher -> BOOLEAN]
         /\ \A c \in Dispatcher : link'[c] = "none" <=> link[c] = "none"
         /\ registered' <= made
  <1>1. CASE Destroy(d)
    BY <1>1, DestroyTypes
  <1>2. CASE /\ n > 0 /\ queued' = [queued EXCEPT ![d] = n - 1]
             /\ playing' = [playing EXCEPT ![d] = Live(d)]
             /\ UNCHANGED <<link, registered>>
    <2>1. n - 1 \in Nat /\ Live(d) \in BOOLEAN
      BY <1>2 DEF Live
    <2>2. QED
      BY <1>2, <2>1 DEF TInv, TypeOK, CreatedInOrder
  <1>3. QED
    BY <1>1, <1>2 DEF Play

\* The steps of a command keep what it counts.
LEMMA AdvanceTypes ==
  ASSUME TInv, NEW r \in Requests, pc[r] \in {"handle", "joining"}, Advance(r)
  PROVE  /\ pc' \in [Requests -> {"idle", "handle", "joining", "reply", "done", "busy", "failed"}]
         /\ handled' \in [Requests -> 0..MaxTracks]
         /\ size' = size => TracksLeft'
  <1>1. handled[r] \in Nat /\ size[r] \in 0..MaxTracks /\ handled[r] < size[r]
    BY BoundsAssumption DEF TInv, TypeOK, TracksLeft
  <1>2. handled[r] + 1 \in 0..MaxTracks
    BY <1>1, BoundsAssumption
  <1>3. handled' \in [Requests -> 0..MaxTracks]
    BY <1>2 DEF TInv, TypeOK, Advance
  <1>4. pc' \in [Requests -> {"idle", "handle", "joining", "reply", "done", "busy", "failed"}]
    BY DEF TInv, TypeOK, Advance
  <1>5. ASSUME size' = size
        PROVE  TracksLeft'
    BY <1>1, <1>5 DEF TInv, TypeOK, TracksLeft, Advance
  <1>6. QED
    BY <1>3, <1>4, <1>5

LEMMA TNext == TInv /\ [Next]_vars => TInv'
  <1> SUFFICES ASSUME TInv, [Next]_vars
               PROVE  TInv'
    OBVIOUS
  <1> USE BoundsAssumption
  <1>1. ASSUME NEW d \in Dispatcher, TrackEnds(d)
        PROVE  TInv'
    <2>1. link[d] # "none" /\ queued[d] + (IF repeat[d] THEN 1 ELSE 0) \in Nat
      BY <1>1 DEF TrackEnds, Live, TInv, TypeOK
    <2>2. QED
      BY <1>1, <2>1, PlayTypes DEF TrackEnds, rvars, TInv, TypeOK, TracksLeft, CreatedInOrder
  <1>2. ASSUME NEW d \in Dispatcher, PlayerFails(d)
        PROVE  TInv'
    <2>1. link[d] # "none" /\ faults' \in 0..MaxFaults
      BY <1>2 DEF PlayerFails, Live, TInv, TypeOK
    <2>2. QED
      BY <1>2, <2>1, DestroyTypes DEF PlayerFails, rvars, TInv, TypeOK, TracksLeft, CreatedInOrder
  <1>3. CASE NodeLost
    BY <1>3 DEF NodeLost, Live, NoDispatcher, TInv, TypeOK, TracksLeft, CreatedInOrder
  <1>4. ASSUME NEW r \in Requests, NEW n \in 1..MaxTracks, Resolve(r, n)
        PROVE  TInv'
    <2>1. handled[r] = 0
      BY <1>4 DEF Resolve, TInv, TracksLeft
    <2>2. QED
      BY <1>4, <2>1 DEF Resolve, dvars, TInv, TypeOK, TracksLeft, CreatedInOrder
  <1>5. ASSUME NEW r \in Requests, HandleExisting(r)
        PROVE  TInv'
    <2>1. registered \in Dispatcher /\ pc[r] = "handle"
      BY <1>5 DEF HandleExisting, Exists, TInv, TypeOK
    <2>2. queued' \in [Dispatcher -> Nat]
      BY <1>5, <2>1 DEF HandleExisting, TInv, TypeOK
    <2>3. QED
      BY <1>5, <2>1, <2>2, AdvanceTypes DEF HandleExisting, TInv, TypeOK, CreatedInOrder
  <1>6. ASSUME NEW r \in Requests, HandleBusy(r)
        PROVE  TInv'
    <2>1. CASE Advance(r)
      BY <1>6, <2>1, AdvanceTypes DEF HandleBusy, dvars, TInv, TypeOK, CreatedInOrder
    <2>2. CASE pc' = [pc EXCEPT ![r] = "busy"] /\ UNCHANGED handled
      BY <1>6, <2>2 DEF HandleBusy, dvars, TInv, TypeOK, TracksLeft, CreatedInOrder
    <2>3. QED
      BY <1>6, <2>1, <2>2 DEF HandleBusy
  <1>7. ASSUME NEW r \in Requests, HandleJoin(r)
        PROVE  TInv'
    BY <1>7 DEF HandleJoin, dvars, TInv, TypeOK, TracksLeft, CreatedInOrder
  <1>8. ASSUME NEW r \in Requests, Joined(r)
        PROVE  TInv'
    <2>1. made + 1 \in Dispatcher /\ made' = made + 1 /\ made' \in 0..MaxDispatchers
      BY <1>8 DEF Joined, TInv, TypeOK, Dispatcher
    <2>2. /\ link' \in [Dispatcher -> {"none", "live", "closed"}]
          /\ queued' \in [Dispatcher -> Nat]
          /\ registered' \in Dispatcher
          /\ mine' \in [Requests -> Dispatcher \union {NoDispatcher}]
      BY <1>8, <2>1 DEF Joined, TInv, TypeOK
    <2>3. CreatedInOrder'
      <3>1. \A d \in Dispatcher : link'[d] = "none" <=> d > made + 1
        BY <1>8, <2>1, Numbers DEF Joined, TInv, TypeOK, CreatedInOrder
      <3>2. \A q \in Requests : mine'[q] \in {mine[q], made + 1} /\ mine[q] <= made
        BY <1>8 DEF Joined, TInv, TypeOK, CreatedInOrder
      <3>3. \A q \in Requests : mine[q] \in Nat
        BY Numbers DEF TInv, TypeOK, NoDispatcher
      <3>4. made \in Nat
        BY DEF TInv, TypeOK
      <3>5. \A q \in Requests : mine'[q] <= made + 1
        BY <3>2, <3>3, <3>4
      <3>6. registered' <= made + 1
        BY <1>8, <3>4 DEF Joined
      <3>7. QED
        BY <2>1, <3>1, <3>5, <3>6 DEF CreatedInOrder
    <2>4. QED
      BY <1>8, <2>1, <2>2, <2>3, AdvanceTypes DEF Joined, TInv, TypeOK
  <1>9. ASSUME NEW r \in Requests, Rejected(r)
        PROVE  TInv'
    BY <1>9 DEF Rejected, dvars, TInv, TypeOK, TracksLeft, CreatedInOrder
  <1>10. ASSUME NEW r \in Requests, Replied(r)
         PROVE  TInv'
    <2>1. /\ link' \in [Dispatcher -> {"none", "live", "closed"}]
          /\ registered' \in Dispatcher \union {NoDispatcher}
          /\ queued' \in [Dispatcher -> Nat]
          /\ playing' \in [Dispatcher -> BOOLEAN]
          /\ \A c \in Dispatcher : link'[c] = "none" <=> link[c] = "none"
          /\ registered' <= made
      <3>1. CASE UNCHANGED dvars
        BY <3>1 DEF dvars, TInv, TypeOK, CreatedInOrder
      <3>2. CASE mine[r] # NoDispatcher /\ Play(mine[r], queued[mine[r]])
        <4>1. mine[r] \in Dispatcher /\ mine[r] <= made /\ queued[mine[r]] \in Nat
          BY <3>2 DEF TInv, TypeOK, CreatedInOrder
        <4>2. link[mine[r]] # "none"
          <5>1. mine[r] \in Nat /\ made \in Nat
            BY <4>1, Numbers DEF TInv, TypeOK
          <5>2. ~(mine[r] > made)
            BY <4>1, <5>1
          <5>3. QED
            BY <4>1, <5>2, Zenon DEF TInv, CreatedInOrder
        <4>3. QED
          BY <3>2, <4>1, <4>2, PlayTypes
      <3>3. QED
        BY <1>10, <3>1, <3>2 DEF Replied, StartMine
    <2>2. QED
      BY <1>10, <2>1 DEF Replied, TInv, TypeOK, TracksLeft, CreatedInOrder
  <1>11. CASE Stop
    <2>1. registered \in Dispatcher /\ registered <= made
      BY <1>11 DEF Stop, Exists, TInv, TypeOK, CreatedInOrder
    <2>2. link[registered] # "none"
      BY <2>1, Numbers DEF TInv, TypeOK, CreatedInOrder
    <2>3. registered' = NoDispatcher /\ NoDispatcher <= made
      BY <1>11 DEF Stop, Destroy, NoDispatcher, TInv, TypeOK
    <2>4. QED
      BY <1>11, <2>1, <2>2, <2>3, DestroyTypes
         DEF Stop, rvars, TInv, TypeOK, TracksLeft, CreatedInOrder
  <1>12. CASE Shorten
    <2>1. registered \in Dispatcher
      BY <1>12 DEF Shorten, Exists, TInv, TypeOK
    <2>2. queued' \in [Dispatcher -> Nat]
      BY <1>12, <2>1 DEF Shorten, EmptyQueue, TInv, TypeOK
    <2>3. QED
      BY <1>12, <2>2 DEF Shorten, rvars, TInv, TypeOK, TracksLeft, CreatedInOrder
  <1>13. CASE TogglePause
    BY <1>13 DEF TogglePause, rvars, dvars, TInv, TypeOK, TracksLeft, CreatedInOrder
  <1>14. ASSUME NEW d \in Dispatcher, NEW on \in BOOLEAN, SetRepeat(d, on)
         PROVE  TInv'
    BY <1>14 DEF SetRepeat, rvars, dvars, TInv, TypeOK, TracksLeft, CreatedInOrder
  <1>15. CASE UNCHANGED vars
    BY <1>15 DEF vars, rvars, dvars, TInv, TypeOK, TracksLeft, CreatedInOrder
  <1>16. QED
    BY <1>1, <1>2, <1>3, <1>4, <1>5, <1>6, <1>7, <1>8, <1>9, <1>10, <1>11, <1>12,
       <1>13, <1>14, <1>15 DEF Next, RequestStep

\* Every variable keeps its type.
THEOREM TypeCorrect == Spec => []TypeOK
  <1>1. TInv => TypeOK
    BY DEF TInv
  <1>2. QED
    BY <1>1, TInit, TNext, PTL DEF Spec

-----------------------------------------------------------------------------
(* One connection, and who holds it.                                       *)

PInv ==
    /\ JoinsUnregistered
    /\ PlayingIsLive
    /\ OneConnection
    /\ RegisteredIsLive
    /\ ClosedHoldsNothing
    /\ DonePlays

LEMMA PInit == Init => PInv
  BY DEF Init, PInv, JoinsUnregistered, Joining, Exists, PlayingIsLive, OneConnection,
         AnyLive, Live, RegisteredIsLive, ClosedHoldsNothing, DonePlays

\* Commands that neither begin to join nor, with a connection of their own,
\* finish.  A step of a command finishes for none but d.
Keeps(d) ==
    /\ mine' = mine /\ nodeLost' = nodeLost
    /\ \A r \in Requests :
         /\ pc'[r] = "joining" => pc[r] = "joining"
         /\ pc'[r] = "done" => pc[r] = "done" \/ mine[r] \in {d, NoDispatcher}

\* destroy() takes away a connection and the entry, so it adds no holder.
LEMMA DestroyKeeps ==
  ASSUME TInv, PInv, NEW d \in Dispatcher, Destroy(d), Keeps(d)
  PROVE  PInv'
  <1>1. /\ link'[d] = "closed" /\ queued'[d] = 0 /\ ~playing'[d]
        /\ \A c \in Dispatcher : c # d =>
             link'[c] = link[c] /\ queued'[c] = queued[c] /\ playing'[c] = playing[c]
        /\ registered' = NoDispatcher
    BY DEF Destroy, EmptyQueue, TInv, TypeOK
  <1>2. \A c \in Dispatcher : Live(c)' => c # d /\ Live(c)
    BY <1>1 DEF Live
  <1>3. JoinsUnregistered' /\ RegisteredIsLive'
    BY <1>1 DEF JoinsUnregistered, Exists, RegisteredIsLive
  <1>4. PlayingIsLive'
    BY <1>1 DEF PInv, PlayingIsLive, Live
  <1>5. OneConnection'
    BY <1>2 DEF PInv, OneConnection, AnyLive, Keeps
  <1>6. ClosedHoldsNothing'
    BY <1>1 DEF PInv, ClosedHoldsNothing, Live, Keeps
  <1>7. DonePlays'
    BY <1>1, <1>2 DEF PInv, DonePlays, Keeps, TInv, TypeOK
  <1>8. QED
    BY <1>3, <1>4, <1>5, <1>6, <1>7 DEF PInv

\* play() starts a track or destroys; a closed dispatcher has none to start.
LEMMA PlayKeeps ==
  ASSUME TInv, PInv, NEW d \in Dispatcher, NEW n \in Nat, Play(d, n), Keeps(d),
         ~nodeLost /\ ~Live(d) => n = 0
  PROVE  PInv'
  <1>1. CASE Destroy(d)
    BY <1>1, DestroyKeeps
  <1>2. CASE /\ n > 0 /\ queued' = [queued EXCEPT ![d] = n - 1]
             /\ playing' = [playing EXCEPT ![d] = Live(d)]
             /\ UNCHANGED <<link, registered>>
    <2>1. /\ queued'[d] = n - 1 /\ playing'[d] = Live(d)
          /\ \A c \in Dispatcher : c # d =>
               queued'[c] = queued[c] /\ playing'[c] = playing[c]
      BY <1>2 DEF TInv, TypeOK
    <2>2. \A c \in Dispatcher : Live(c)' = Live(c)
      BY <1>2 DEF Live
    <2>3. JoinsUnregistered'
      BY <1>2 DEF PInv, JoinsUnregistered, Joining, Exists, Keeps
    <2>4. RegisteredIsLive'
      BY <1>2 DEF PInv, RegisteredIsLive, Live
    <2>5. PlayingIsLive'
      BY <2>1, <2>2 DEF PInv, PlayingIsLive
    <2>6. OneConnection'
      BY <2>2 DEF PInv, OneConnection, AnyLive, Keeps
    <2>7. ClosedHoldsNothing'
      <3>1. ~nodeLost => Live(d)
        BY <1>2
      <3>2. QED
        BY <2>1, <2>2, <3>1 DEF PInv, ClosedHoldsNothing, Keeps
    <2>8. DonePlays'
      BY <2>1, <2>2 DEF PInv, DonePlays, Keeps, TInv, TypeOK
    <2>9. QED
      BY <2>3, <2>4, <2>5, <2>6, <2>7, <2>8 DEF PInv
  <1>3. QED
    BY <1>1, <1>2 DEF Play

\* Steps of a command that leave the dispatchers alone and do not finish it.
LEMMA WaitKeeps ==
  ASSUME TInv, PInv, UNCHANGED <<dvars, nodeLost, mine>>,
         \A r \in Requests :
            /\ pc'[r] = "joining" => pc[r] = "joining"
            /\ pc'[r] = "done" => pc[r] = "done" \/ mine[r] = NoDispatcher
  PROVE  PInv'
  BY DEF PInv, JoinsUnregistered, Joining, Exists, PlayingIsLive, OneConnection,
         AnyLive, Live, RegisteredIsLive, ClosedHoldsNothing, DonePlays, dvars

LEMMA PNext == TInv /\ PInv /\ [Next]_vars => PInv'
  <1> SUFFICES ASSUME TInv, PInv, [Next]_vars
               PROVE  PInv'
    OBVIOUS
  <1>1. ASSUME NEW d \in Dispatcher, TrackEnds(d)
        PROVE  PInv'
    <2>1. queued[d] + (IF repeat[d] THEN 1 ELSE 0) \in Nat /\ Live(d)
      BY <1>1 DEF TrackEnds, TInv, TypeOK
    <2>2. Keeps(d)
      BY <1>1 DEF TrackEnds, rvars, Keeps
    <2>3. QED
      BY <1>1, <2>1, <2>2, PlayKeeps DEF TrackEnds
  <1>2. ASSUME NEW d \in Dispatcher, PlayerFails(d)
        PROVE  PInv'
    BY <1>2, DestroyKeeps DEF PlayerFails, rvars, Keeps
  <1>3. CASE NodeLost
    <2>1. /\ registered' = NoDispatcher /\ nodeLost'
          /\ \A d \in Dispatcher : ~Live(d)' /\ ~playing'[d]
          /\ \A r \in Requests : pc'[r] # "joining"
      BY <1>3 DEF NodeLost, Live, TInv, TypeOK
    <2>2. JoinsUnregistered' /\ RegisteredIsLive'
      BY <2>1 DEF JoinsUnregistered, Exists, RegisteredIsLive
    <2>3. PlayingIsLive' /\ ClosedHoldsNothing'
      BY <2>1 DEF PlayingIsLive, ClosedHoldsNothing
    <2>4. OneConnection'
      BY <2>1 DEF OneConnection, AnyLive
    <2>5. DonePlays'
      <3>1. mine' = mine /\ \A r \in Requests : mine[r] # NoDispatcher => mine[r] \in Dispatcher
        BY <1>3 DEF NodeLost, TInv, TypeOK
      <3>2. QED
        BY <2>1, <3>1 DEF DonePlays
    <2>6. QED
      BY <2>2, <2>3, <2>4, <2>5 DEF PInv
  <1>4. ASSUME NEW r \in Requests, NEW n \in 1..MaxTracks, Resolve(r, n)
        PROVE  PInv'
    BY <1>4, WaitKeeps DEF Resolve, TInv, TypeOK
  <1>5. ASSUME NEW r \in Requests, HandleExisting(r)
        PROVE  PInv'
    <2>1. registered \in Dispatcher /\ Live(registered)
      BY <1>5 DEF HandleExisting, Exists, TInv, TypeOK, PInv, RegisteredIsLive
    <2>2. \A d \in Dispatcher : ~Live(d) => queued'[d] = queued[d]
      BY <1>5, <2>1 DEF HandleExisting, TInv, TypeOK
    <2>3. ClosedHoldsNothing'
      BY <1>5, <2>2 DEF HandleExisting, PInv, ClosedHoldsNothing, Live
    <2>4. \A q \in Requests : pc'[q] \in {"joining", "done"} => pc[q] = pc'[q]
      BY <1>5 DEF HandleExisting, Advance, TInv, TypeOK
    <2>5. UNCHANGED <<link, registered, playing, mine>>
      BY <1>5 DEF HandleExisting
    <2>6. QED
      BY <2>3, <2>4, <2>5 DEF PInv, JoinsUnregistered, Joining, Exists,
         PlayingIsLive, OneConnection, AnyLive, Live, RegisteredIsLive, DonePlays
  <1>6. ASSUME NEW r \in Requests, HandleBusy(r)
        PROVE  PInv'
    BY <1>6, WaitKeeps DEF HandleBusy, Advance, TInv, TypeOK
  <1>7. ASSUME NEW r \in Requests, HandleJoin(r)
        PROVE  PInv'
    <2>1. ~Exists /\ ~AnyLive /\ \A q \in Requests : pc[q] # "joining"
      BY <1>7 DEF HandleJoin, HasPlayer
    <2>2. /\ UNCHANGED <<link, registered, queued, playing, mine, nodeLost>>
          /\ \A q \in Requests : q # r => pc'[q] = pc[q]
          /\ pc'[r] = "joining"
      BY <1>7 DEF HandleJoin, dvars, TInv, TypeOK
    <2>3. QED
      BY <2>1, <2>2 DEF PInv, JoinsUnregistered, Exists, PlayingIsLive, OneConnection,
         AnyLive, Live, RegisteredIsLive, ClosedHoldsNothing, DonePlays
  <1>8. ASSUME NEW r \in Requests, Joined(r)
        PROVE  PInv'
    <2>1. PICK n \in Dispatcher : n = made + 1
      BY <1>8, BoundsAssumption DEF Joined, TInv, TypeOK, Dispatcher
    <2>2. /\ registered' = n /\ link'[n] = "live"
          /\ \A d \in Dispatcher : d # n => link'[d] = link[d] /\ queued'[d] = queued[d]
          /\ UNCHANGED <<playing, nodeLost>>
      BY <1>8, <2>1 DEF Joined, TInv, TypeOK
    <2>3. ~AnyLive /\ \A q \in Requests : pc[q] = "joining" => q = r
      BY <1>8 DEF Joined, PInv, OneConnection
    <2>4. /\ pc'[r] \in {"handle", "reply"}
          /\ \A q \in Requests : q # r => pc'[q] = pc[q] /\ mine'[q] = mine[q]
      BY <1>8 DEF Joined, Advance, TInv, TypeOK
    <2>5. JoinsUnregistered'
      BY <2>3, <2>4 DEF JoinsUnregistered, Joining
    <2>6. PlayingIsLive'
      BY <2>2, <2>3 DEF PInv, PlayingIsLive, AnyLive, Live
    <2>7. OneConnection'
      <3>1. \A d \in Dispatcher : Live(d)' => d = n
        BY <2>2, <2>3 DEF AnyLive, Live
      <3>2. QED
        BY <2>3, <2>4, <3>1 DEF OneConnection, AnyLive
    <2>8. RegisteredIsLive' /\ ClosedHoldsNothing'
      BY <2>1, <2>2 DEF PInv, RegisteredIsLive, ClosedHoldsNothing, Live
    <2>9. DonePlays'
      <3>1. \A q \in Requests : pc'[q] = "done" =>
              mine'[q] = mine[q] /\ mine[q] <= made /\ mine[q] \in Dispatcher \union {NoDispatcher}
        BY <2>4 DEF TInv, TypeOK, CreatedInOrder
      <3>2. \A d \in Dispatcher : d <= made => d # n
        BY <2>1, Numbers DEF TInv, TypeOK
      <3>3. QED
        BY <2>2, <2>3, <3>1, <3>2 DEF DonePlays, AnyLive, Live
    <2>10. QED
      BY <2>5, <2>6, <2>7, <2>8, <2>9 DEF PInv
  <1>9. ASSUME NEW r \in Requests, Rejected(r)
        PROVE  PInv'
    BY <1>9, WaitKeeps DEF Rejected, TInv, TypeOK
  <1>10. ASSUME NEW r \in Requests, Replied(r)
         PROVE  PInv'
    <2>1. CASE mine[r] = NoDispatcher /\ UNCHANGED dvars
      BY <1>10, <2>1, WaitKeeps DEF Replied, TInv, TypeOK
    <2>2. CASE mine[r] # NoDispatcher /\ Play(mine[r], queued[mine[r]])
      <3>1. mine[r] \in Dispatcher /\ queued[mine[r]] \in Nat
        BY <2>2 DEF TInv, TypeOK
      <3>2. ~nodeLost /\ ~Live(mine[r]) => queued[mine[r]] = 0
        BY <3>1 DEF PInv, ClosedHoldsNothing
      <3>3. Keeps(mine[r])
        BY <1>10 DEF Replied, Keeps, TInv, TypeOK
      <3>4. QED
        BY <2>2, <3>1, <3>2, <3>3, PlayKeeps
    <2>3. QED
      BY <1>10, <2>1, <2>2 DEF Replied, StartMine
  <1>11. CASE Stop
    <2>1. registered \in Dispatcher
      BY <1>11 DEF Stop, Exists, TInv, TypeOK
    <2>2. QED
      BY <1>11, <2>1, DestroyKeeps DEF Stop, rvars, Keeps
  <1>12. CASE Shorten
    <2>1. registered \in Dispatcher /\ Live(registered)
      BY <1>12 DEF Shorten, Exists, TInv, TypeOK, PInv, RegisteredIsLive
    <2>2. \A d \in Dispatcher : ~Live(d) => queued'[d] = queued[d]
      BY <1>12, <2>1 DEF Shorten, EmptyQueue, TInv, TypeOK
    <2>3. UNCHANGED <<pc, mine, link, registered, playing, nodeLost>>
      BY <1>12 DEF Shorten, rvars
    <2>4. QED
      BY <2>2, <2>3 DEF PInv, JoinsUnregistered, Joining, Exists, PlayingIsLive,
         OneConnection, AnyLive, Live, RegisteredIsLive, ClosedHoldsNothing, DonePlays
  <1>13. CASE TogglePause
    BY <1>13, WaitKeeps DEF TogglePause, rvars
  <1>14. ASSUME NEW d \in Dispatcher, NEW on \in BOOLEAN, SetRepeat(d, on)
         PROVE  PInv'
    BY <1>14, WaitKeeps DEF SetRepeat, rvars
  <1>15. CASE UNCHANGED vars
    BY <1>15, WaitKeeps DEF vars, rvars
  <1>16. QED
    BY <1>1, <1>2, <1>3, <1>4, <1>5, <1>6, <1>7, <1>8, <1>9, <1>10, <1>11, <1>12,
       <1>13, <1>14, <1>15 DEF Next, RequestStep

\* The inductive invariant holds in every reachable state.
THEOREM Invariance == Spec => []IInv
  <1>1. Init => TInv /\ PInv
    BY TInit, PInit
  <1>2. TInv /\ PInv /\ [Next]_vars => (TInv /\ PInv)'
    BY TNext, PNext
  <1>3. TInv /\ PInv => IInv
    BY DEF TInv, PInv, IInv
  <1>4. QED
    BY <1>1, <1>2, <1>3, PTL DEF Spec

\* The guild has one voice connection at most (Queue.handle checks the map and
\* manager.players before it asks for one).
THEOREM OneHolder == Spec => []OneConnection
  <1>1. IInv => OneConnection
    BY DEF IInv
  <1>2. QED
    BY <1>1, Invariance, PTL

\* Commands never find a dispatcher whose connection is gone.
THEOREM EntryIsLive == Spec => []RegisteredIsLive
  <1>1. IInv => RegisteredIsLive
    BY DEF IInv
  <1>2. QED
    BY <1>1, Invariance, PTL

\* A late play() on a dispatcher that lost its connection finds no track.
THEOREM ClosedIsEmpty == Spec => []ClosedHoldsNothing
  <1>1. IInv => ClosedHoldsNothing
    BY DEF IInv
  <1>2. QED
    BY <1>1, Invariance, PTL

\* A finished play command leaves its connection playing or dropped.
THEOREM FinishedPlays == Spec => []DonePlays
  <1>1. IInv => DonePlays
    BY DEF IInv
  <1>2. QED
    BY <1>1, Invariance, PTL

-----------------------------------------------------------------------------
(* The music player implements the voice slot.                             *)

HolderIs ==
    /\ \A r \in Requests : pc[r] = "joining" => Holder = r
    /\ \A d \in Dispatcher : Live(d) => Holder = d
    /\ ~AnyLive /\ Joining = {} => Holder = NoDispatcher

LEMMA HolderIsNow == OneConnection => HolderIs
  <1> SUFFICES ASSUME OneConnection PROVE HolderIs
    OBVIOUS
  <1>1. ASSUME NEW r \in Requests, pc[r] = "joining"
        PROVE  Holder = r
    <2>1. Joining = {r}
      BY <1>1 DEF OneConnection, Joining
    <2>2. QED
      BY <1>1, <2>1 DEF Holder
  <1>2. ASSUME NEW d \in Dispatcher, Live(d)
        PROVE  Holder = d
    <2>1. Connected = {d}
      BY <1>2 DEF OneConnection, Connected
    <2>2. Joining = {}
      BY <1>2 DEF OneConnection, AnyLive, Joining
    <2>3. QED
      BY <1>2, <2>1, <2>2 DEF Holder
  <1>3. ~AnyLive /\ Joining = {} => Holder = NoDispatcher
    BY DEF Holder, Connected, AnyLive
  <1>4. QED
    BY <1>1, <1>2, <1>3 DEF HolderIs

LEMMA HolderIsNext == OneConnection' => HolderIs'
  BY HolderIsNow, PTL

LEMMA SlotInit == Init => Slot!Init
  <1> SUFFICES ASSUME Init PROVE Slot!Init
    OBVIOUS
  <1>1. Joining = {} /\ Connected = {}
    BY DEF Init, Joining, Connected, Live
  <1>2. {d \in Dispatcher : link[d] = "closed"} = {}
    BY DEF Init
  <1>3. QED
    BY <1>1, <1>2 DEF Slot!Init, Holder

\* No one joins, leaves or loses the connection.
LEMMA SameSlot ==
  ASSUME UNCHANGED link, \A r \in Requests : pc'[r] = "joining" <=> pc[r] = "joining"
  PROVE  UNCHANGED Slot!vars
  <1>1. Joining' = Joining /\ Connected' = Connected
    BY DEF Joining, Connected, Live
  <1>2. Holder' = Holder
    BY <1>1 DEF Holder
  <1>3. QED
    BY <1>2 DEF Slot!vars

\* destroy(): the connection is dropped, if there is one still.
LEMMA DestroySlot ==
  ASSUME TInv, PInv, PInv', NEW d \in Dispatcher, link[d] # "none", Destroy(d),
         \A r \in Requests : pc'[r] = "joining" <=> pc[r] = "joining"
  PROVE  [Slot!Next]_(Slot!vars)
  <1>1. link'[d] = "closed" /\ \A c \in Dispatcher : c # d => link'[c] = link[c]
    BY DEF Destroy, TInv, TypeOK
  <1>2. CASE Live(d)
    <2>1. Holder = d /\ Joining = {}
      BY <1>2, HolderIsNow DEF PInv, HolderIs, OneConnection, AnyLive, Joining
    <2>2. ~AnyLive' /\ Joining' = {}
      BY <1>1, <1>2, <2>1 DEF PInv, OneConnection, AnyLive, Joining, Live
    <2>3. Holder' = NoDispatcher
      BY <2>2, HolderIsNext DEF PInv, HolderIs
    <2>4. {c \in Dispatcher : link[c] = "closed"}' = {c \in Dispatcher : link[c] = "closed"} \union {d}
      BY <1>1
    <2>5. Slot!Drop
      BY <2>1, <2>3, <2>4 DEF Slot!Drop
    <2>6. QED
      BY <2>5 DEF Slot!Next
  <1>3. CASE ~Live(d)
    <2>1. link' = link
      BY <1>3 DEF Destroy, Live, TInv, TypeOK
    <2>2. QED
      BY <2>1, SameSlot
  <1>4. QED
    BY <1>2, <1>3

LEMMA PlaySlot ==
  ASSUME TInv, PInv, PInv', NEW d \in Dispatcher, link[d] # "none", NEW n \in Nat, Play(d, n),
         \A r \in Requests : pc'[r] = "joining" <=> pc[r] = "joining"
  PROVE  [Slot!Next]_(Slot!vars)
  BY DestroySlot, SameSlot DEF Play

LEMMA SlotNext ==
  TInv /\ PInv /\ TInv' /\ PInv' /\ [Next]_vars => [Slot!Next]_(Slot!vars)
  <1> SUFFICES ASSUME TInv, PInv, TInv', PInv', [Next]_vars
               PROVE  [Slot!Next]_(Slot!vars)
    OBVIOUS
  <1>1. ASSUME NEW d \in Dispatcher, TrackEnds(d)
        PROVE  [Slot!Next]_(Slot!vars)
    <2>1. queued[d] + (IF repeat[d] THEN 1 ELSE 0) \in Nat /\ link[d] # "none"
      BY <1>1 DEF TrackEnds, Live, TInv, TypeOK
    <2>2. QED
      BY <1>1, <2>1, PlaySlot DEF TrackEnds, rvars
  <1>2. ASSUME NEW d \in Dispatcher, PlayerFails(d)
        PROVE  [Slot!Next]_(Slot!vars)
    BY <1>2, DestroySlot DEF PlayerFails, rvars, Live
  <1>3. CASE NodeLost
    <2>1. ~AnyLive' /\ Joining' = {}
      BY <1>3 DEF NodeLost, AnyLive, Live, Joining, TInv, TypeOK
    <2>2. Holder' = NoDispatcher
      BY <2>1, HolderIsNext DEF PInv, HolderIs
    <2>3. CASE AnyLive
      <3>1. PICK d \in Dispatcher : Live(d)
        BY <2>3 DEF AnyLive
      <3>2. Holder = d
        BY <3>1, HolderIsNow DEF PInv, HolderIs
      <3>3. {c \in Dispatcher : link[c] = "closed"}' = {c \in Dispatcher : link[c] = "closed"} \union {d}
        BY <1>3, <3>1 DEF NodeLost, PInv, OneConnection, Live, TInv, TypeOK
      <3>4. Slot!Drop
        BY <2>2, <3>2, <3>3 DEF Slot!Drop
      <3>5. QED
        BY <3>4 DEF Slot!Next
    <2>4. CASE ~AnyLive
      <3>1. PICK r \in Requests : pc[r] = "joining"
        BY <1>3, <2>4 DEF NodeLost, HasPlayer
      <3>2. Holder = r
        BY <3>1, HolderIsNow DEF PInv, HolderIs
      <3>3. {c \in Dispatcher : link[c] = "closed"}' = {c \in Dispatcher : link[c] = "closed"}
        BY <1>3, <2>4 DEF NodeLost, AnyLive, TInv, TypeOK
      <3>4. Slot!Refuse
        BY <2>2, <3>2, <3>3 DEF Slot!Refuse
      <3>5. QED
        BY <3>4 DEF Slot!Next
    <2>5. QED
      BY <2>3, <2>4
  <1>4. ASSUME NEW r \in Requests, NEW n \in 1..MaxTracks, Resolve(r, n)
        PROVE  [Slot!Next]_(Slot!vars)
    BY <1>4, SameSlot DEF Resolve, dvars, TInv, TypeOK
  <1>5. ASSUME NEW r \in Requests, HandleExisting(r) \/ HandleBusy(r)
        PROVE  [Slot!Next]_(Slot!vars)
    BY <1>5, SameSlot DEF HandleExisting, HandleBusy, Advance, dvars, TInv, TypeOK
  <1>6. ASSUME NEW r \in Requests, HandleJoin(r)
        PROVE  [Slot!Next]_(Slot!vars)
    <2>1. ~AnyLive /\ Joining = {} /\ pc'[r] = "joining" /\ UNCHANGED link
      BY <1>6 DEF HandleJoin, HasPlayer, Joining, dvars, TInv, TypeOK
    <2>2. Holder = NoDispatcher /\ Holder' = r
      BY <2>1, HolderIsNow, HolderIsNext DEF PInv, HolderIs
    <2>3. Slot!Ask(r)
      BY <2>1, <2>2 DEF Slot!Ask
    <2>4. QED
      BY <2>3 DEF Slot!Next
  <1>7. ASSUME NEW r \in Requests, Joined(r)
        PROVE  [Slot!Next]_(Slot!vars)
    <2>1. PICK n \in Dispatcher : n = made + 1
      BY <1>7, BoundsAssumption DEF Joined, TInv, TypeOK, Dispatcher
    <2>2. link' = [link EXCEPT ![n] = "live"] /\ link[n] = "none"
      BY <1>7, <2>1, Numbers DEF Joined, TInv, TypeOK, CreatedInOrder
    <2>3. Holder = r
      BY <1>7, HolderIsNow DEF Joined, PInv, HolderIs
    <2>4. Holder' = n
      BY <2>2, HolderIsNext DEF PInv, HolderIs, Live, TInv, TypeOK
    <2>5. {c \in Dispatcher : link[c] = "closed"}' = {c \in Dispatcher : link[c] = "closed"}
      BY <2>2 DEF TInv, TypeOK
    <2>6. Slot!Connect(n)
      BY <2>2, <2>3, <2>4, <2>5 DEF Slot!Connect
    <2>7. QED
      BY <2>6 DEF Slot!Next
  <1>8. ASSUME NEW r \in Requests, Rejected(r)
        PROVE  [Slot!Next]_(Slot!vars)
    <2>1. UNCHANGED link /\ pc'[r] = "failed" /\ \A q \in Requests : q # r => pc'[q] = pc[q]
      BY <1>8 DEF Rejected, dvars, TInv, TypeOK
    <2>2. CASE pc[r] = "joining"
      <3>1. Holder = r
        BY <2>2, HolderIsNow DEF PInv, HolderIs
      <3>2. ~AnyLive' /\ Joining' = {}
        BY <2>1, <2>2 DEF PInv, OneConnection, AnyLive, Live, Joining
      <3>3. Holder' = NoDispatcher
        BY <3>2, HolderIsNext DEF PInv, HolderIs
      <3>4. Slot!Refuse
        BY <2>1, <3>1, <3>3 DEF Slot!Refuse
      <3>5. QED
        BY <3>4 DEF Slot!Next
    <2>3. CASE pc[r] # "joining"
      BY <2>1, <2>3, SameSlot
    <2>4. QED
      BY <2>2, <2>3
  <1>9. ASSUME NEW r \in Requests, Replied(r)
        PROVE  [Slot!Next]_(Slot!vars)
    <2>1. \A q \in Requests : pc'[q] = "joining" <=> pc[q] = "joining"
      BY <1>9 DEF Replied, TInv, TypeOK
    <2>2. CASE UNCHANGED dvars
      BY <2>1, <2>2, SameSlot DEF dvars
    <2>3. CASE mine[r] # NoDispatcher /\ Play(mine[r], queued[mine[r]])
      <3>1. mine[r] \in Dispatcher /\ mine[r] <= made /\ queued[mine[r]] \in Nat
        BY <2>3 DEF TInv, TypeOK, CreatedInOrder
      <3>2. ~(mine[r] > made)
        BY <3>1, Numbers DEF TInv, TypeOK
      <3>3. link[mine[r]] # "none"
        BY <3>1, <3>2, Zenon DEF TInv, CreatedInOrder
      <3>4. QED
        BY <2>1, <2>3, <3>1, <3>3, PlaySlot
    <2>4. QED
      BY <1>9, <2>2, <2>3 DEF Replied, StartMine
  <1>10. CASE Stop
    <2>1. registered \in Dispatcher /\ link[registered] # "none"
      BY <1>10 DEF Stop, Exists, PInv, RegisteredIsLive, Live, TInv, TypeOK
    <2>2. QED
      BY <1>10, <2>1, DestroySlot DEF Stop, rvars
  <1>11. CASE Shorten \/ TogglePause
    <2>1. UNCHANGED <<link, pc>>
      BY <1>11 DEF Shorten, TogglePause, rvars, dvars
    <2>2. QED
      BY <2>1, SameSlot
  <1>12. ASSUME NEW d \in Dispatcher, NEW on \in BOOLEAN, SetRepeat(d, on)
         PROVE  [Slot!Next]_(Slot!vars)
    BY <1>12, SameSlot DEF SetRepeat, rvars, dvars
  <1>13. CASE UNCHANGED vars
    BY <1>13, SameSlot DEF vars, rvars, dvars
  <1>14. QED
    BY <1>1, <1>2, <1>3, <1>4, <1>5, <1>6, <1>7, <1>8, <1>9, <1>10, <1>11, <1>12,
       <1>13 DEF Next, RequestStep

\* However commands, ended tracks and lost players interleave, the guild's
\* connection changes hands only the way VoiceSlot allows.
THEOREM ImplementsSlot == Spec => KeepsSlot
  <1>1. TInv /\ PInv /\ [Next]_vars => (TInv /\ PInv)'
    BY TNext, PNext
  <1>2. TInv /\ PInv /\ (TInv /\ PInv)' /\ [Next]_vars => [Slot!Next]_(Slot!vars)
    BY SlotNext
  <1>3. QED
    BY <1>1, <1>2, TInit, PInit, SlotInit, PTL DEF Spec, KeepsSlot, Slot!Spec
=============================================================================
