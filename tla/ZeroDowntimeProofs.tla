------------------------- MODULE ZeroDowntimeProofs -------------------------
(* Proofs about the handover, for any set of ranges, event names and       *)
(* gateway events and any bounds.                                          *)
EXTENDS ZeroDowntime, TLAPS

-----------------------------------------------------------------------------
(* Type correctness.                                                       *)

LEMMA OtherIsUuid == \A u \in Uuid : Other(u) \in Uuid /\ Other(u) # u
  BY DEF Uuid, Other

\* Whatever is sent is a flag.
LEMMA FlagTypes == \A u \in Uuid : Restart(u) \in Flag /\ Release(u) \in Flag
  BY DEF Uuid, Flag, Restart, Release

LEMMA SendType ==
  ASSUME TypeOK, NEW w \in Worker, NEW f \in Flag, Send(w, f)
  PROVE  /\ inbox' \in [Worker -> Seq(Flag)]
         /\ missed' \in [Worker -> BOOLEAN]
  <1>1. \A x \in Worker : Append(inbox[x], f) \in Seq(Flag) /\ inbox[x] \in Seq(Flag)
    BY DEF TypeOK
  <1>2. inbox' \in [Worker -> Seq(Flag)]
    BY <1>1 DEF TypeOK, Send
  <1>3. f.restart \in BOOLEAN
    BY DEF Flag
  <1>4. QED
    BY <1>2, <1>3 DEF TypeOK, Send

LEMMA DiesType ==
  ASSUME TypeOK, NEW u \in Uuid, Dies(u), doomed' \in SUBSET Uuid, faults' \in 0..MaxFaults
  PROVE  TypeOK'
  <1>1. phase' \in [Worker -> Phase] /\ claimed' \in [Worker -> SUBSET EventNames]
    BY DEF TypeOK, Dies, Phase
  <1>2. inbox' \in [Worker -> Seq(Flag)]
    <2>1. <<>> \in Seq(Flag)
      OBVIOUS
    <2>2. QED
      BY <2>1 DEF TypeOK, Dies
  <1>3. checkUUID' \in [Worker -> BOOLEAN] /\ missed' \in [Worker -> BOOLEAN]
    BY DEF TypeOK, Dies
  <1>4. socket' \in [Worker -> {"closed", "connecting", "open"}]
    BY DEF TypeOK, Dies
  <1>5. progress' \in [Message -> [Worker -> Progress]]
    BY DEF TypeOK, Dies, Progress
  <1>6. QED
    BY <1>1, <1>2, <1>3, <1>4, <1>5 DEF TypeOK, Dies

LEMMA TypeInit == Init => TypeOK
  BY BoundsAssumption DEF Init, TypeOK, Phase, Progress, Uuid, NoUuid

LEMMA TypeNext == TypeOK /\ [Next]_vars => TypeOK'
  <1> SUFFICES ASSUME TypeOK, [Next]_vars
               PROVE  TypeOK'
    OBVIOUS
  <1> USE BoundsAssumption
  <1>1. ASSUME NEW u \in Uuid, Deploy(u)
        PROVE  TypeOK'
    <2>1. faults' \in 0..MaxFaults
      BY <1>1 DEF TypeOK, Deploy
    <2>2. QED
      BY <1>1, <2>1 DEF TypeOK, Deploy, Phase, mvars
  <1>2. ASSUME NEW u \in Uuid, ContainerStops(u)
        PROVE  TypeOK'
    <2>1. doomed' \in SUBSET Uuid /\ faults' \in 0..MaxFaults
      BY <1>2 DEF TypeOK, ContainerStops
    <2>2. QED
      BY <1>2, <2>1, DiesType DEF ContainerStops
  <1>3. ASSUME NEW u \in Uuid, Crash(u)
        PROVE  TypeOK'
    <2>1. doomed' \in SUBSET Uuid /\ faults' \in 0..MaxFaults
      BY <1>3 DEF TypeOK, Crash
    <2>2. QED
      BY <1>3, <2>1, DiesType DEF Crash
  <1>4. ASSUME NEW w \in Worker, SocketOpens(w)
        PROVE  TypeOK'
    BY <1>4 DEF TypeOK, SocketOpens, mvars, bounds
  <1>5. ASSUME NEW w \in Worker, SocketCloses(w)
        PROVE  TypeOK'
    BY <1>5 DEF TypeOK, SocketCloses, mvars
  <1>6. ASSUME NEW w \in Worker, SocketRetries(w)
        PROVE  TypeOK'
    BY <1>6 DEF TypeOK, SocketRetries, mvars, bounds
  <1>7. ASSUME NEW w \in Worker, ReceiveFlag(w)
        PROVE  TypeOK'
    <2>1. inbox[w] \in Seq(Flag) /\ inbox[w] # <<>>
      BY <1>7 DEF TypeOK, ReceiveFlag
    <2>2. Head(inbox[w]) \in Flag /\ Tail(inbox[w]) \in Seq(Flag)
      BY <2>1
    <2>3. Head(inbox[w]).restart \in BOOLEAN
      BY <2>2 DEF Flag
    <2>4. checkUUID' \in [Worker -> BOOLEAN]
      BY <1>7, <2>3 DEF TypeOK, ReceiveFlag
    <2>5. inbox' \in [Worker -> Seq(Flag)]
      BY <1>7, <2>2 DEF TypeOK, ReceiveFlag
    <2>6. QED
      BY <1>7, <2>4, <2>5 DEF TypeOK, ReceiveFlag, mvars, bounds
  <1>8. ASSUME NEW w \in Worker, Hello(w)
        PROVE  TypeOK'
    <2>1. inbox' \in [Worker -> Seq(Flag)] /\ missed' \in [Worker -> BOOLEAN]
      BY <1>8, SendType, FlagTypes DEF TypeOK, Hello, Worker
    <2>2. phase' \in [Worker -> Phase]
      BY <1>8 DEF TypeOK, Hello, Phase
    <2>3. QED
      BY <1>8, <2>1, <2>2 DEF TypeOK, Hello, mvars, bounds
  <1>9. ASSUME NEW w \in Worker, Identify(w)
        PROVE  TypeOK'
    BY <1>9 DEF TypeOK, Identify, mvars, bounds, Phase
  <1>10. ASSUME NEW w \in Worker, Ready(w)
         PROVE  TypeOK'
    BY <1>10 DEF TypeOK, Ready, mvars, bounds, Phase
  <1>11. ASSUME NEW w \in Worker, NEW e \in EventNames, ClaimKey(w, e)
         PROVE  TypeOK'
    BY <1>11 DEF TypeOK, ClaimKey, bounds, Worker
  <1>12. ASSUME NEW w \in Worker, ReleaseWorkers(w)
         PROVE  TypeOK'
    <2>1. inbox' \in [Worker -> Seq(Flag)] /\ missed' \in [Worker -> BOOLEAN]
      BY <1>12, SendType, FlagTypes DEF TypeOK, ReleaseWorkers, Worker
    <2>2. phase' \in [Worker -> Phase]
      BY <1>12 DEF TypeOK, ReleaseWorkers, Phase
    <2>3. QED
      BY <1>12, <2>1, <2>2 DEF TypeOK, ReleaseWorkers, mvars, bounds
  <1>13. ASSUME NEW w \in Worker, StopOther(w)
         PROVE  TypeOK'
    <2>1. StopTarget(w) \in Uuid
      BY OtherIsUuid DEF StopTarget, Worker
    <2>2. doomed' \in SUBSET Uuid /\ faults' \in 0..MaxFaults
      BY <1>13, <2>1 DEF TypeOK, StopOther
    <2>3. phase' \in [Worker -> Phase]
      BY <1>13 DEF TypeOK, StopOther, Phase
    <2>4. QED
      BY <1>13, <2>2, <2>3 DEF TypeOK, StopOther, mvars
  <1>14. ASSUME NEW m \in Message, NEW e \in EventNames, NEW r \in Ranges, Deliver(m, e, r)
         PROVE  TypeOK'
    BY <1>14 DEF TypeOK, Deliver, wvars, bounds, Progress
  <1>15. ASSUME NEW w \in Worker, NEW m \in Message, CheckFlag(w, m)
         PROVE  TypeOK'
    BY <1>15 DEF TypeOK, CheckFlag, wvars, bounds, Progress
  <1>16. ASSUME NEW w \in Worker, NEW m \in Message, CheckKey(w, m)
         PROVE  TypeOK'
    <2>1. PICK p \in Progress : progress' = [progress EXCEPT ![m][w] = p]
      BY <1>16 DEF CheckKey, Progress
    <2>2. progress' \in [Message -> [Worker -> Progress]]
      BY <2>1 DEF TypeOK
    <2>3. faults' \in 0..MaxFaults
      BY <1>16 DEF TypeOK, CheckKey
    <2>4. QED
      BY <1>16, <2>2, <2>3 DEF TypeOK, CheckKey, wvars
  <1>17. ASSUME NEW w \in Worker, ClaimFails(w)
         PROVE  TypeOK'
    <2>1. phase' \in [Worker -> Phase] /\ faults' \in 0..MaxFaults
      BY <1>17 DEF TypeOK, ClaimFails, Phase
    <2>2. QED
      BY <1>17, <2>1 DEF TypeOK, ClaimFails, mvars
  <1>18. CASE UNCHANGED vars
    BY <1>18 DEF TypeOK, vars, wvars, mvars, bounds
  <1>19. QED
    BY <1>1, <1>2, <1>3, <1>4, <1>5, <1>6, <1>7, <1>8, <1>9, <1>10, <1>11, <1>12,
       <1>13, <1>14, <1>15, <1>16, <1>17, <1>18 DEF Next, WorkerStep

\* Every variable keeps its type.
THEOREM TypeCorrect == Spec => []TypeOK
  BY TypeInit, TypeNext, PTL DEF Spec

-----------------------------------------------------------------------------
(* Sequences of flags.                                                     *)

LEMMA AppendFacts ==
  ASSUME NEW s \in Seq(Flag), NEW f \in Flag
  PROVE  /\ Len(s) \in Nat
         /\ DOMAIN s = 1..Len(s)
         /\ DOMAIN Append(s, f) = 1..(Len(s) + 1)
         /\ Append(s, f)[Len(s) + 1] = f
         /\ \A i \in DOMAIN s : Append(s, f)[i] = s[i]
  OBVIOUS

LEMMA TailFacts ==
  ASSUME NEW s \in Seq(Flag), s # <<>>
  PROVE  /\ Len(s) \in Nat
         /\ DOMAIN s = 1..Len(s)
         /\ 1 \in DOMAIN s
         /\ Head(s) = s[1]
         /\ DOMAIN Tail(s) = 1..(Len(s) - 1)
         /\ \A i \in DOMAIN Tail(s) : i + 1 \in DOMAIN s /\ Tail(s)[i] = s[i + 1]
  OBVIOUS

-----------------------------------------------------------------------------
(* The handover part of the inductive invariant.                           *)

HInv ==
    /\ OlderIsSettled
    /\ StoppedIsReset
    /\ FlagsSent
    /\ NewestKeepsKeys
    /\ ReleaseAfterClaim
    /\ OlderWillCheck

LEMMA InitHInv == Init => HInv
  BY DEF Init, HInv, OlderIsSettled, StoppedIsReset, FlagsSent, NewestKeepsKeys,
         ReleaseAfterClaim, OlderWillCheck, Settled, AllClaimed

\* The flags differ: an order to check is no release.
LEMMA RestartIsNoRelease == \A u, v \in Uuid : Restart(u) # Release(v)
  BY DEF Restart, Release

LEMMA WorkerHasUuid == \A w \in Worker : w[1] \in Uuid /\ w \in WorkersOf(w[1])
  BY DEF Worker, WorkersOf

LEMMA WorkersOfUuid == \A u \in Uuid : \A w \in WorkersOf(u) : w \in Worker /\ w[1] = u
  BY DEF Worker, WorkersOf

LEMMA OnlyOther == \A u, v \in Uuid : v # u => v = Other(u)
  BY DEF Uuid, Other

\* Steps that leave the handover alone.
LEMMA QuietStep ==
  ASSUME HInv, UNCHANGED <<phase, claimed, checkUUID, inbox, missed, eventKey, newest>>,
         \A w \in Worker : phase[w] = "off" => socket'[w] = socket[w]
  PROVE  HInv'
  BY DEF HInv, OlderIsSettled, StoppedIsReset, FlagsSent, NewestKeepsKeys,
         ReleaseAfterClaim, OlderWillCheck, WillCheck, Spoken, Released, AllClaimed

\* The container that was the newest checks wherever a key is not its own, so
\* it becomes an older one that does.
LEMMA DeployStep ==
  ASSUME TypeOK, HInv, NEW u \in Uuid, Deploy(u)
  PROVE  HInv'
  <1>1. \A w \in Worker : w[1] = u => phase[w] = "off" /\ phase'[w] = "boot"
    BY WorkerHasUuid DEF Deploy
  <1>2. \A w \in Worker : w[1] # u =>
          phase[w] \in Settled /\ phase'[w] = phase[w] /\ socket'[w] = socket[w]
    BY WorkerHasUuid, OnlyOther DEF Deploy
  <1>3. newest' = u /\ UNCHANGED <<claimed, checkUUID, inbox, missed, eventKey>>
    BY DEF Deploy
  <1>4. OlderIsSettled'
    BY <1>2, <1>3 DEF OlderIsSettled
  <1>5. StoppedIsReset'
    BY <1>1, <1>2, <1>3 DEF StoppedIsReset, HInv
  <1>6. FlagsSent'
    BY <1>3 DEF FlagsSent, HInv
  <1>7. NewestKeepsKeys'
    BY <1>1, <1>3 DEF NewestKeepsKeys, StoppedIsReset, HInv
  <1>8. ReleaseAfterClaim'
    BY <1>3 DEF ReleaseAfterClaim, HInv, Released, AllClaimed
  <1>9. ~Spoken'
    BY <1>1, <1>3, WorkersOfUuid DEF Spoken
  <1>10. OlderWillCheck'
    <2> SUFFICES ASSUME NEW w \in Worker, w[1] # u, phase[w] # "off",
                        NEW e \in EventNames, eventKey[e] # w[1]
                 PROVE  WillCheck(w)'
      BY <1>2, <1>3, <1>9 DEF OlderWillCheck
    <2>1. WillCheck(w)
      <3>1. CASE w[1] # newest
        BY <3>1 DEF HInv, OlderWillCheck
      <3>2. CASE w[1] = newest
        <4>1. ~ \E v \in WorkersOf(w[1]) : AllClaimed(v)
          BY <3>2, WorkersOfUuid, WorkerHasUuid DEF HInv, NewestKeepsKeys, AllClaimed
        <4>2. checkUUID[w] /\ \A j \in DOMAIN inbox[w] : ~Released(w, j)
          BY <4>1 DEF HInv, ReleaseAfterClaim
        <4>3. QED
          BY <4>2 DEF WillCheck
      <3>3. QED
        BY <3>1, <3>2
    <2>2. QED
      BY <2>1, <1>3 DEF WillCheck, Released
  <1>11. QED
    BY <1>4, <1>5, <1>6, <1>7, <1>8, <1>10 DEF HInv

LEMMA DiesStep ==
  ASSUME TypeOK, HInv, NEW u \in Uuid, Dies(u)
  PROVE  HInv'
  <1>1. \A w \in Worker : w[1] = u =>
          /\ phase'[w] = "off" /\ claimed'[w] = {} /\ checkUUID'[w]
          /\ inbox'[w] = <<>> /\ socket'[w] = "closed"
    BY DEF Dies
  <1>2. \A w \in Worker : w[1] # u =>
          /\ phase'[w] = phase[w] /\ claimed'[w] = claimed[w] /\ checkUUID'[w] = checkUUID[w]
          /\ inbox'[w] = inbox[w] /\ missed'[w] = missed[w] /\ socket'[w] = socket[w]
    BY DEF Dies
  <1>3. UNCHANGED <<newest, eventKey>>
    BY DEF Dies
  <1>4. OlderIsSettled'
    BY <1>1, <1>2, <1>3 DEF OlderIsSettled, HInv, Settled
  <1>5. StoppedIsReset'
    BY <1>1, <1>2 DEF StoppedIsReset, HInv
  <1>6. FlagsSent'
    BY <1>1, <1>2 DEF FlagsSent, HInv
  <1>7. NewestKeepsKeys'
    BY <1>1, <1>2, <1>3 DEF NewestKeepsKeys, HInv
  <1>8. ReleaseAfterClaim'
    <2> SUFFICES ASSUME NEW w \in Worker,
                        ~checkUUID'[w] \/ \E i \in DOMAIN inbox'[w] : Released(w, i)'
                 PROVE  \E v \in WorkersOf(w[1]) : AllClaimed(v)'
      BY DEF ReleaseAfterClaim
    <2>1. w[1] # u
      BY <1>1
    <2>2. PICK v \in WorkersOf(w[1]) : AllClaimed(v)
      BY <2>1, <1>2 DEF ReleaseAfterClaim, HInv, Released
    <2>3. AllClaimed(v)'
      BY <2>1, <2>2, <1>2, WorkersOfUuid, WorkerHasUuid DEF AllClaimed
    <2>4. QED
      BY <2>3
  <1>9. OlderWillCheck'
    <2> SUFFICES ASSUME NEW w \in Worker, w[1] # newest, phase'[w] # "off",
                        Spoken' \/ \E e \in EventNames : eventKey[e] # w[1]
                 PROVE  WillCheck(w)'
      BY <1>3 DEF OlderWillCheck
    <2>1. w[1] # u /\ phase[w] # "off"
      BY <1>1, <1>2
    <2>2. Spoken' => Spoken
      BY <1>1, <1>2, <1>3, WorkersOfUuid DEF Spoken, TypeOK
    <2>3. WillCheck(w)
      BY <2>1, <2>2 DEF HInv, OlderWillCheck
    <2>4. QED
      BY <2>1, <2>3, <1>2 DEF WillCheck, Released
  <1>10. QED
    BY <1>4, <1>5, <1>6, <1>7, <1>8, <1>9 DEF HInv

\* A dropped socket loses the order to check, and is marked for it.
LEMMA SocketClosesStep ==
  ASSUME TypeOK, HInv, NEW x \in Worker, SocketCloses(x)
  PROVE  HInv'
  <1>1. \A w \in Worker :
          \/ inbox'[w] = inbox[w] /\ missed'[w] = missed[w]
          \/ inbox'[w] = <<>> /\ missed'[w]
          \/ inbox'[w] = <<>> /\ inbox[w] = <<>> /\ missed'[w] = missed[w]
    BY DEF SocketCloses, TypeOK
  <1>2. UNCHANGED <<phase, claimed, checkUUID, eventKey, newest>>
    BY DEF SocketCloses
  <1>3. OlderIsSettled' /\ NewestKeepsKeys'
    BY <1>2 DEF HInv, OlderIsSettled, NewestKeepsKeys
  <1>4. \A w \in Worker : socket[w] = "closed" => socket'[w] = "closed"
    BY DEF SocketCloses, TypeOK
  <1>8. StoppedIsReset' /\ FlagsSent'
    BY <1>1, <1>2, <1>4 DEF HInv, StoppedIsReset, FlagsSent
  <1>5. ReleaseAfterClaim'
    BY <1>1, <1>2 DEF HInv, ReleaseAfterClaim, Released, AllClaimed
  <1>6. OlderWillCheck'
    <2> SUFFICES ASSUME NEW w \in Worker, WillCheck(w)
                 PROVE  WillCheck(w)'
      BY <1>2 DEF HInv, OlderWillCheck, Spoken
    <2>1. CASE inbox'[w] = inbox[w] /\ missed'[w] = missed[w]
      BY <2>1, <1>2 DEF WillCheck, Released
    <2>2. CASE missed'[w]
      BY <2>2 DEF WillCheck
    <2>3. QED
      BY <1>1, <2>1, <2>2
  <1>7. QED
    BY <1>3, <1>5, <1>6, <1>8 DEF HInv

\* Reading the head of the inbox moves an order to check from the inbox to the
\* flag; a release read was one in flight.
LEMMA ReceiveFlagStep ==
  ASSUME TypeOK, HInv, NEW x \in Worker, ReceiveFlag(x)
  PROVE  HInv'
  <1> DEFINE f == Head(inbox[x])
  <1>1. UNCHANGED <<phase, claimed, missed, eventKey, newest, socket>>
    BY DEF ReceiveFlag
  <1>2. inbox[x] \in Seq(Flag) /\ inbox[x] # <<>>
    BY DEF ReceiveFlag, TypeOK
  <1>3. /\ DOMAIN inbox[x] = 1..Len(inbox[x]) /\ Len(inbox[x]) \in Nat
        /\ 1 \in DOMAIN inbox[x] /\ f = inbox[x][1]
        /\ DOMAIN Tail(inbox[x]) = 1..(Len(inbox[x]) - 1)
        /\ \A i \in DOMAIN Tail(inbox[x]) :
             i + 1 \in DOMAIN inbox[x] /\ Tail(inbox[x])[i] = inbox[x][i + 1]
    BY <1>2, TailFacts
  <1>4. inbox'[x] = Tail(inbox[x])
        /\ checkUUID'[x] = (IF AddressedTo(f, x) THEN f.restart ELSE checkUUID[x])
    BY DEF ReceiveFlag, TypeOK
  <1>5. \A w \in Worker : w # x => inbox'[w] = inbox[w] /\ checkUUID'[w] = checkUUID[w]
    BY DEF ReceiveFlag, TypeOK
  <1>6. f \in {Restart(x[1])} \union {Release(u) : u \in Uuid}
    BY <1>3 DEF HInv, FlagsSent
  <1>7. \/ f = Restart(x[1]) /\ AddressedTo(f, x) /\ f.restart
        \/ f = Release(x[1]) /\ AddressedTo(f, x) /\ ~f.restart
        \/ f # Release(x[1]) /\ f # Restart(x[1]) /\ ~AddressedTo(f, x)
    <2>1. CASE f = Restart(x[1])
      <3>1. Restart(x[1]).uuid = "all" /\ Restart(x[1]).restart
        BY DEF Restart
      <3>2. QED
        BY <2>1, <3>1, Zenon DEF AddressedTo
    <2>2. ASSUME NEW u \in Uuid, f = Release(u)
          PROVE  <1>7!:
      <3>1. f.uuid = u /\ ~f.restart
        BY <2>2 DEF Release
      <3>2. u # "all" /\ x[1] \in Uuid
        BY WorkerHasUuid DEF Uuid
      <3>3. u = x[1] <=> AddressedTo(f, x)
        BY <3>1, <3>2 DEF AddressedTo
      <3>4. f # Restart(x[1])
        BY <2>2, <3>2, RestartIsNoRelease
      <3>5. u # x[1] => f # Release(x[1])
        BY <3>1 DEF Release
      <3>6. QED
        BY <2>2, <3>1, <3>3, <3>4, <3>5
    <2>3. QED
      BY <1>6, <2>1, <2>2
  <1>8. OlderIsSettled' /\ NewestKeepsKeys'
    BY <1>1 DEF HInv, OlderIsSettled, NewestKeepsKeys
  <1>9. StoppedIsReset'
    BY <1>1, <1>2, <1>5 DEF HInv, StoppedIsReset
  <1>10. FlagsSent'
    <2> SUFFICES ASSUME NEW w \in Worker, NEW i \in DOMAIN inbox'[w]
                 PROVE  inbox'[w][i] \in {Restart(w[1])} \union {Release(u) : u \in Uuid}
      BY DEF FlagsSent
    <2>1. CASE w = x
      BY <2>1, <1>3, <1>4 DEF HInv, FlagsSent
    <2>2. CASE w # x
      BY <2>2, <1>5 DEF HInv, FlagsSent
    <2>3. QED
      BY <2>1, <2>2
  <1>11. ReleaseAfterClaim'
    <2> SUFFICES ASSUME NEW w \in Worker,
                        ~checkUUID'[w] \/ \E i \in DOMAIN inbox'[w] : Released(w, i)'
                 PROVE  \E v \in WorkersOf(w[1]) : AllClaimed(v)
      BY <1>1 DEF ReleaseAfterClaim, AllClaimed
    <2>1. ~checkUUID[w] \/ \E i \in DOMAIN inbox[w] : Released(w, i)
      <3>1. CASE w # x
        BY <3>1, <1>5 DEF Released
      <3>2. CASE w = x /\ ~checkUUID'[w]
        BY <3>2, <1>3, <1>4, <1>7 DEF Released
      <3>3. CASE w = x /\ \E i \in DOMAIN inbox'[w] : Released(w, i)'
        BY <3>3, <1>3, <1>4 DEF Released
      <3>4. QED
        BY <3>1, <3>2, <3>3
    <2>2. QED
      BY <2>1 DEF HInv, ReleaseAfterClaim
  <1>12. OlderWillCheck'
    <2> SUFFICES ASSUME NEW w \in Worker, WillCheck(w)
                 PROVE  WillCheck(w)'
      BY <1>1 DEF HInv, OlderWillCheck, Spoken
    <2>1. CASE w # x \/ missed[w]
      BY <2>1, <1>1, <1>5 DEF WillCheck, Released
    <2>2. CASE w = x /\ checkUUID[w] /\ \A j \in DOMAIN inbox[w] : ~Released(w, j)
      <3>1. f # Release(x[1])
        BY <2>2, <1>3 DEF Released
      <3>2. checkUUID'[x]
        BY <3>1, <2>2, <1>4, <1>7
      <3>3. \A j \in DOMAIN inbox'[x] : ~Released(x, j)'
        BY <2>2, <1>3, <1>4 DEF Released
      <3>4. QED
        BY <2>2, <3>2, <3>3 DEF WillCheck
    <2>3. ASSUME w = x, NEW i \in DOMAIN inbox[x], inbox[x][i] = Restart(x[1]),
                 \A j \in DOMAIN inbox[x] : j > i => ~Released(x, j)
          PROVE  WillCheck(x)'
      <3>1. CASE i = 1
        <4>1. checkUUID'[x]
          BY <2>3, <3>1, <1>3, <1>4, <1>7, WorkerHasUuid, RestartIsNoRelease
        <4>2. \A j \in DOMAIN inbox'[x] : ~Released(x, j)'
          BY <2>3, <3>1, <1>3, <1>4 DEF Released
        <4>3. QED
          BY <4>1, <4>2 DEF WillCheck
      <3>2. CASE i # 1
        <4>1. i - 1 \in DOMAIN inbox'[x] /\ inbox'[x][i - 1] = Restart(x[1])
          BY <2>3, <3>2, <1>3, <1>4
        <4>2. \A j \in DOMAIN inbox'[x] : j > i - 1 => ~Released(x, j)'
          BY <2>3, <1>3, <1>4 DEF Released
        <4>3. QED
          BY <4>1, <4>2 DEF WillCheck
      <3>3. QED
        BY <3>1, <3>2
    <2>4. QED
      BY <2>1, <2>2, <2>3 DEF WillCheck
  <1>13. QED
    BY <1>8, <1>9, <1>10, <1>11, <1>12 DEF HInv

\* What sending does to one inbox.
LEMMA SendFacts ==
  ASSUME TypeOK, NEW x \in Worker, NEW f \in Flag, Send(x, f), NEW w \in Worker
  PROVE  /\ \/ inbox'[w] = inbox[w]
            \/ inbox'[w] = Append(inbox[w], f) /\ socket[w] = "open"
         /\ missed[w] => missed'[w]
         /\ f.restart /\ phase[w] # "off" => missed'[w] \/ inbox'[w] = Append(inbox[w], f)
         /\ inbox[w] \in Seq(Flag)
  BY DEF TypeOK, Send, Reached, Flag

LEMMA SendKeepsWillCheck ==
  ASSUME TypeOK, NEW x \in Worker, NEW f \in Flag, Send(x, f), UNCHANGED checkUUID,
         NEW w \in Worker, WillCheck(w), f # Release(w[1])
  PROVE  WillCheck(w)'
  <1>1. missed[w] => missed'[w]
    BY SendFacts
  <1>2. CASE inbox'[w] = inbox[w]
    BY <1>1, <1>2 DEF WillCheck, Released
  <1>3. CASE inbox'[w] = Append(inbox[w], f)
    <2> DEFINE n == Len(inbox[w])
    <2>1. /\ n \in Nat /\ DOMAIN inbox[w] = 1..n
          /\ DOMAIN inbox'[w] = 1..(n + 1)
          /\ inbox'[w][n + 1] = f
          /\ \A i \in DOMAIN inbox[w] : inbox'[w][i] = inbox[w][i]
      BY <1>3, SendFacts, AppendFacts
    <2>2. \A j \in DOMAIN inbox'[w] : j \in DOMAIN inbox[w] \/ j = n + 1
      BY <2>1
    <2>3. \A j \in DOMAIN inbox'[w] : Released(w, j)' => j \in DOMAIN inbox[w] /\ Released(w, j)
      BY <2>1, <2>2 DEF Released
    <2>4. DOMAIN inbox[w] \subseteq DOMAIN inbox'[w]
      BY <2>1
    <2>5. QED
      BY <1>1, <2>1, <2>3, <2>4 DEF WillCheck
  <1>4. QED
    BY <1>2, <1>3, SendFacts

\* Who is still starting belongs to the newest container.
LEMMA StarterIsNewest ==
  ASSUME HInv, NEW x \in Worker, phase[x] \notin Settled
  PROVE  x[1] = newest
  BY DEF HInv, OlderIsSettled

\* A step of a starting worker that moves nothing but its phase.
LEMMA PhaseStep ==
  ASSUME TypeOK, HInv, NEW x \in Worker, NEW p \in Phase \ {"off"},
         phase[x] \notin Settled, phase' = [phase EXCEPT ![x] = p],
         claimed[x] # {} => p \in {"claim", "stop", "serve"},
         Spoken' => Spoken,
         UNCHANGED <<claimed, checkUUID, inbox, missed, eventKey, newest, socket>>
  PROVE  HInv'
  <1>1. x[1] = newest
    BY StarterIsNewest
  <1>2. phase'[x] = p /\ \A w \in Worker : w # x => phase'[w] = phase[w]
    BY DEF TypeOK
  <1>3. OlderIsSettled'
    BY <1>1, <1>2 DEF HInv, OlderIsSettled
  <1>4. StoppedIsReset'
    BY <1>2 DEF HInv, StoppedIsReset
  <1>5. FlagsSent' /\ NewestKeepsKeys' /\ ReleaseAfterClaim'
    BY DEF HInv, FlagsSent, NewestKeepsKeys, ReleaseAfterClaim, Released, AllClaimed
  <1>6. OlderWillCheck'
    BY <1>1, <1>2 DEF HInv, OlderWillCheck, WillCheck, Released
  <1>7. QED
    BY <1>3, <1>4, <1>5, <1>6 DEF HInv

\* A step of a starting worker that sends: an order to check reaches every
\* older worker or is missed, and a release is sent when all is claimed.
LEMMA SendStep ==
  ASSUME TypeOK, HInv, NEW x \in Worker, NEW p \in Phase \ {"off"},
         phase[x] \notin Settled, phase' = [phase EXCEPT ![x] = p],
         claimed[x] # {} => p \in {"claim", "stop", "serve"},
         NEW f \in Flag, Send(x, f),
         f = Restart(x[1]) \/ (f = Release(x[1]) /\ AllClaimed(x) /\ Spoken),
         UNCHANGED <<claimed, checkUUID, eventKey, newest, socket>>
  PROVE  HInv'
  <1>1. x[1] = newest
    BY StarterIsNewest
  <1>2. phase'[x] = p /\ \A w \in Worker : w # x => phase'[w] = phase[w]
    BY DEF TypeOK
  <1>3. \A w \in Worker :
          /\ \/ inbox'[w] = inbox[w]
             \/ inbox'[w] = Append(inbox[w], f) /\ socket[w] = "open"
          /\ inbox[w] \in Seq(Flag)
    BY SendFacts
  <1>4. OlderIsSettled' /\ NewestKeepsKeys'
    BY <1>1, <1>2 DEF HInv, OlderIsSettled, NewestKeepsKeys
  <1>5. StoppedIsReset'
    BY <1>2, <1>3 DEF HInv, StoppedIsReset
  <1>6. ASSUME NEW w \in Worker, NEW i \in DOMAIN inbox'[w]
        PROVE  inbox'[w][i] = f \/ (i \in DOMAIN inbox[w] /\ inbox'[w][i] = inbox[w][i])
    <2>1. CASE inbox'[w] = inbox[w]
      BY <1>6, <2>1
    <2>2. CASE inbox'[w] = Append(inbox[w], f)
      BY <1>3, <1>6, <2>2, AppendFacts
    <2>3. QED
      BY <1>3, <2>1, <2>2
  <1>7. FlagsSent'
    <2>1. \A w \in Worker : f \in {Restart(w[1])} \union {Release(u) : u \in Uuid}
      BY WorkerHasUuid DEF Restart
    <2>2. QED
      BY <1>6, <2>1 DEF HInv, FlagsSent
  <1>8. ReleaseAfterClaim'
    <2> SUFFICES ASSUME NEW w \in Worker,
                        ~checkUUID[w] \/ \E i \in DOMAIN inbox'[w] : Released(w, i)'
                 PROVE  \E v \in WorkersOf(w[1]) : AllClaimed(v)
      BY DEF ReleaseAfterClaim, AllClaimed
    <2>1. CASE ~checkUUID[w] \/ \E i \in DOMAIN inbox[w] : Released(w, i)
      BY <2>1 DEF HInv, ReleaseAfterClaim
    <2>2. CASE f = Release(w[1])
      <3>1. f # Restart(x[1])
        BY <2>2, WorkerHasUuid, RestartIsNoRelease
      <3>2. x[1] = w[1]
        BY <2>2, <3>1 DEF Release
      <3>3. QED
        BY <3>1, <3>2, WorkerHasUuid
    <2>3. QED
      BY <2>1, <2>2, <1>6 DEF Released
  <1>9. OlderWillCheck'
    <2> SUFFICES ASSUME NEW w \in Worker, w[1] # newest, phase[w] # "off"
                 PROVE  WillCheck(w)' \/ ~(Spoken' \/ \E e \in EventNames : eventKey[e] # w[1])
      BY <1>1, <1>2 DEF OlderWillCheck
    <2>1. CASE f = Restart(x[1])
      <3>1. f.restart /\ f = Restart(w[1])
        BY <2>1 DEF Restart
      <3>2. missed'[w] \/ inbox'[w] = Append(inbox[w], f)
        BY <3>1, SendFacts
      <3>3. ASSUME inbox'[w] = Append(inbox[w], f)
            PROVE  WillCheck(w)'
        <4> DEFINE n == Len(inbox[w])
        <4>1. n + 1 \in DOMAIN inbox'[w] /\ inbox'[w][n + 1] = f
          BY <1>3, <3>3, AppendFacts
        <4>2. \A j \in DOMAIN inbox'[w] : ~(j > n + 1)
          BY <1>3, <3>3, AppendFacts
        <4>3. QED
          BY <3>1, <4>1, <4>2 DEF WillCheck
      <3>4. QED
        BY <3>2, <3>3 DEF WillCheck
    <2>2. CASE f = Release(x[1]) /\ Spoken
      <3>1. WillCheck(w)
        BY <2>2 DEF HInv, OlderWillCheck
      <3>2. f # Release(w[1])
        BY <1>1, <2>2 DEF Release
      <3>3. QED
        BY <3>1, <3>2, SendKeepsWillCheck
    <2>3. QED
      BY <2>1, <2>2
  <1>10. QED
    BY <1>4, <1>5, <1>7, <1>8, <1>9 DEF HInv

LEMMA HelloStep ==
  ASSUME TypeOK, HInv, NEW x \in Worker, Hello(x)
  PROVE  HInv'
  <1>1. phase[x] = "boot" /\ claimed[x] = {} /\ phase[x] \notin Settled
    BY DEF Hello, HInv, StoppedIsReset, Settled
  <1>2. UNCHANGED <<claimed, checkUUID, socket, eventKey, newest>>
    BY DEF Hello
  <1>3. CASE phase' = [phase EXCEPT ![x] = "wedged"] /\ UNCHANGED <<inbox, missed>>
    <2>1. Spoken' => Spoken
      BY <1>2, <1>3, WorkersOfUuid DEF Spoken, TypeOK
    <2>2. "wedged" \in Phase \ {"off"}
      BY DEF Phase
    <2>3. QED
      BY <1>1, <1>2, <1>3, <2>1, <2>2, PhaseStep
  <1>4. CASE phase' = [phase EXCEPT ![x] = "gateway"] /\ Send(x, Restart(x[1]))
    <2>1. "gateway" \in Phase \ {"off"}
      BY DEF Phase
    <2>2. Restart(x[1]) \in Flag
      BY WorkerHasUuid, FlagTypes
    <2>3. QED
      BY <1>1, <1>2, <1>4, <2>1, <2>2, SendStep
  <1>5. QED
    BY <1>3, <1>4 DEF Hello

LEMMA IdentifyStep ==
  ASSUME TypeOK, HInv, NEW x \in Worker, Identify(x)
  PROVE  HInv'
  <1>1. phase[x] = "gateway" /\ claimed[x] = {} /\ phase[x] \notin Settled
    BY DEF Identify, HInv, StoppedIsReset, Settled
  <1>2. Spoken
    BY <1>1, StarterIsNewest, WorkerHasUuid DEF Spoken
  <1>3. "session" \in Phase \ {"off"}
    BY DEF Phase
  <1>4. QED
    BY <1>1, <1>2, <1>3, PhaseStep DEF Identify

LEMMA ReadyStep ==
  ASSUME TypeOK, HInv, NEW x \in Worker, Ready(x)
  PROVE  HInv'
  <1>1. phase[x] = "session" /\ claimed[x] = {} /\ phase[x] \notin Settled
    BY DEF Ready, FirstReady, HInv, StoppedIsReset, Settled
  <1>2. Spoken
    BY <1>1, StarterIsNewest, WorkerHasUuid DEF Spoken
  <1>3. "claim" \in Phase \ {"off"}
    BY DEF Phase
  <1>4. claimed' = claimed
    BY <1>1 DEF Ready, TypeOK
  <1>5. QED
    BY <1>1, <1>2, <1>3, <1>4, PhaseStep DEF Ready

\* Keys only gather at the newest container, which has already said hello.
LEMMA ClaimKeyStep ==
  ASSUME TypeOK, HInv, NEW x \in Worker, NEW e \in EventNames, ClaimKey(x, e)
  PROVE  HInv'
  <1>1. phase[x] = "claim" /\ x[1] = newest
    BY StarterIsNewest DEF ClaimKey, Settled
  <1>2. Spoken
    BY <1>1, WorkerHasUuid DEF Spoken
  <1>3. UNCHANGED <<phase, checkUUID, inbox, missed, newest, socket>>
    BY DEF ClaimKey
  <1>4. /\ claimed'[x] = claimed[x] \union {e}
        /\ \A w \in Worker : w # x => claimed'[w] = claimed[w]
    BY DEF ClaimKey, TypeOK
  <1>5. /\ eventKey'[e] = newest
        /\ \A d \in EventNames : d # e => eventKey'[d] = eventKey[d]
    BY <1>1 DEF ClaimKey, TypeOK
  <1>6. OlderIsSettled' /\ FlagsSent'
    BY <1>3 DEF HInv, OlderIsSettled, FlagsSent
  <1>7. StoppedIsReset'
    BY <1>1, <1>3, <1>4 DEF HInv, StoppedIsReset
  <1>8. NewestKeepsKeys'
    BY <1>3, <1>4, <1>5 DEF HInv, NewestKeepsKeys, TypeOK
  <1>9. ReleaseAfterClaim'
    <2>1. \A v \in Worker : AllClaimed(v) => AllClaimed(v)'
      BY <1>4 DEF AllClaimed
    <2>2. QED
      BY <1>3, <2>1, WorkersOfUuid, WorkerHasUuid DEF HInv, ReleaseAfterClaim, Released
  <1>10. OlderWillCheck'
    BY <1>2, <1>3 DEF HInv, OlderWillCheck, WillCheck, Released
  <1>11. QED
    BY <1>6, <1>7, <1>8, <1>9, <1>10 DEF HInv

LEMMA ReleaseWorkersStep ==
  ASSUME TypeOK, HInv, NEW x \in Worker, ReleaseWorkers(x)
  PROVE  HInv'
  <1>1. phase[x] = "claim" /\ AllClaimed(x) /\ phase[x] \notin Settled
    BY DEF ReleaseWorkers, Settled
  <1>2. Spoken
    BY <1>1, StarterIsNewest, WorkerHasUuid DEF Spoken
  <1>3. UNCHANGED <<claimed, checkUUID, socket, eventKey, newest>>
    BY DEF ReleaseWorkers
  <1>4. "serve" \in Phase \ {"off"} /\ "stop" \in Phase \ {"off"}
    BY DEF Phase
  <1>5. CASE phase' = [phase EXCEPT ![x] = "serve"] /\ UNCHANGED <<inbox, missed>>
    BY <1>1, <1>2, <1>3, <1>4, <1>5, PhaseStep
  <1>6. CASE phase' = [phase EXCEPT ![x] = "stop"] /\ Send(x, Release(x[1]))
    <2>1. Release(x[1]) \in Flag
      BY WorkerHasUuid, FlagTypes
    <2>2. QED
      BY <1>1, <1>2, <1>3, <1>4, <1>6, <2>1, SendStep
  <1>7. QED
    BY <1>5, <1>6 DEF ReleaseWorkers

LEMMA StopOtherStep ==
  ASSUME TypeOK, HInv, NEW x \in Worker, StopOther(x)
  PROVE  HInv'
  <1>1. phase[x] = "stop" /\ phase[x] \notin Settled
    BY DEF StopOther, Settled
  <1>2. Spoken
    BY <1>1, StarterIsNewest, WorkerHasUuid DEF Spoken
  <1>3. "serve" \in Phase \ {"off"}
    BY DEF Phase
  <1>4. QED
    BY <1>1, <1>2, <1>3, PhaseStep DEF StopOther

LEMMA ClaimFailsStep ==
  ASSUME TypeOK, HInv, NEW x \in Worker, ClaimFails(x)
  PROVE  HInv'
  <1>1. phase[x] = "claim" /\ phase[x] \notin Settled
    BY DEF ClaimFails, Settled
  <1>2. Spoken
    BY <1>1, StarterIsNewest, WorkerHasUuid DEF Spoken
  <1>3. "serve" \in Phase \ {"off"}
    BY DEF Phase
  <1>4. QED
    BY <1>1, <1>2, <1>3, PhaseStep DEF ClaimFails

LEMMA HInvNext == TypeOK /\ HInv /\ [Next]_vars => HInv'
  <1> SUFFICES ASSUME TypeOK, HInv, [Next]_vars
               PROVE  HInv'
    OBVIOUS
  <1>1. ASSUME NEW u \in Uuid, Deploy(u) \/ ContainerStops(u) \/ Crash(u)
        PROVE  HInv'
    BY <1>1, DeployStep, DiesStep DEF ContainerStops, Crash
  <1>2. ASSUME NEW w \in Worker, SocketOpens(w) \/ SocketRetries(w)
        PROVE  HInv'
    <2>1. UNCHANGED <<phase, claimed, checkUUID, inbox, missed, eventKey, newest>>
      BY <1>2 DEF SocketOpens, SocketRetries
    <2>2. \A v \in Worker : phase[v] = "off" => socket'[v] = socket[v]
      BY <1>2 DEF SocketOpens, SocketRetries, HInv, StoppedIsReset, TypeOK
    <2>3. QED
      BY <2>1, <2>2, QuietStep
  <1>3. ASSUME NEW w \in Worker, SocketCloses(w) \/ ReceiveFlag(w)
        PROVE  HInv'
    BY <1>3, SocketClosesStep, ReceiveFlagStep
  <1>4. ASSUME NEW w \in Worker,
               \/ Hello(w) \/ Identify(w) \/ Ready(w) \/ ClaimFails(w)
               \/ ReleaseWorkers(w) \/ StopOther(w)
        PROVE  HInv'
    BY <1>4, HelloStep, IdentifyStep, ReadyStep, ClaimFailsStep, ReleaseWorkersStep,
       StopOtherStep
  <1>5. ASSUME NEW w \in Worker, NEW e \in EventNames, ClaimKey(w, e)
        PROVE  HInv'
    BY <1>5, ClaimKeyStep
  <1>6. ASSUME NEW m \in Message, NEW e \in EventNames, NEW r \in Ranges, Deliver(m, e, r)
        PROVE  HInv'
    BY <1>6, QuietStep DEF Deliver, wvars
  <1>7. ASSUME NEW w \in Worker, NEW m \in Message, CheckFlag(w, m) \/ CheckKey(w, m)
        PROVE  HInv'
    BY <1>7, QuietStep DEF CheckFlag, CheckKey, wvars
  <1>8. CASE UNCHANGED vars
    BY <1>8, QuietStep DEF vars, wvars
  <1>9. QED
    BY <1>1, <1>2, <1>3, <1>4, <1>5, <1>6, <1>7, <1>8 DEF Next, WorkerStep

-----------------------------------------------------------------------------
(* What the invariant says of who owns the keys, and of the answers.       *)

LEMMA HInvClaims == HInv => ClaimBeforeRelease
  BY DEF HInv, ReleaseAfterClaim, ClaimBeforeRelease, AllClaimed

\* In the newest container some worker has written every key and they are
\* still there; in an older one a worker that is to check would be told.
LEMMA HInvOwns == HInv => UncheckedOwnsAll
  <1> SUFFICES ASSUME HInv, NEW w \in Worker, NEW e \in EventNames,
                      ~checkUUID[w], ~missed[w], ~Untold(w)
               PROVE  eventKey[e] = w[1]
    BY DEF UncheckedOwnsAll
  <1>1. CASE w[1] = newest
    <2>1. PICK v \in WorkersOf(w[1]) : AllClaimed(v)
      BY DEF HInv, ReleaseAfterClaim
    <2>2. QED
      BY <1>1, <2>1, WorkersOfUuid, WorkerHasUuid DEF HInv, NewestKeepsKeys, AllClaimed
  <1>2. CASE w[1] # newest
    <2>1. phase[w] # "off"
      BY DEF HInv, StoppedIsReset
    <2>2. ~WillCheck(w)
      <3>1. Restart(w[1]).restart /\ AddressedTo(Restart(w[1]), w)
        BY DEF Restart, AddressedTo
      <3>2. QED
        BY <3>1, Zenon DEF WillCheck, Untold
    <2>3. QED
      BY <1>2, <2>1, <2>2 DEF HInv, OlderWillCheck
  <1>3. QED
    BY <1>1, <1>2

LEMMA DiesAnswers ==
  ASSUME TypeOK, AnswersMatchOwner, NEW u \in Uuid, Dies(u)
  PROVE  AnswersMatchOwner'
  <1>1. UNCHANGED <<eventKey, event, switched, ownerAt>>
    BY DEF Dies
  <1>2. \A m \in Message, w \in Worker :
          progress'[m][w] = progress[m][w] \/ progress'[m][w] = "none"
    BY DEF Dies
  <1>3. QED
    BY <1>1, <1>2 DEF AnswersMatchOwner

LEMMA AnswersNext ==
  TypeOK /\ HInv /\ AnswersMatchOwner /\ [Next]_vars => AnswersMatchOwner'
  <1> SUFFICES ASSUME TypeOK, HInv, AnswersMatchOwner, [Next]_vars
               PROVE  AnswersMatchOwner'
    OBVIOUS
  <1>1. ASSUME UNCHANGED <<eventKey, event, progress, switched, ownerAt>>
        PROVE  AnswersMatchOwner'
    BY <1>1 DEF AnswersMatchOwner
  <1>2. ASSUME NEW u \in Uuid, Deploy(u) \/ ContainerStops(u) \/ Crash(u)
        PROVE  AnswersMatchOwner'
    BY <1>1, <1>2, DiesAnswers DEF Deploy, ContainerStops, Crash, mvars
  <1>3. ASSUME NEW w \in Worker, SocketOpens(w) \/ SocketRetries(w) \/ SocketCloses(w)
                                 \/ ReceiveFlag(w) \/ Hello(w) \/ Identify(w) \/ Ready(w)
        PROVE  AnswersMatchOwner'
    BY <1>1, <1>3 DEF SocketOpens, SocketRetries, SocketCloses, ReceiveFlag, Hello,
                      Identify, Ready, mvars
  <1>4. ASSUME NEW w \in Worker, ClaimFails(w) \/ ReleaseWorkers(w) \/ StopOther(w)
        PROVE  AnswersMatchOwner'
    BY <1>1, <1>4 DEF ClaimFails, ReleaseWorkers, StopOther, mvars
  <1>5. ASSUME NEW w \in Worker, NEW e \in EventNames, ClaimKey(w, e)
        PROVE  AnswersMatchOwner'
    <2>1. UNCHANGED <<event, progress, ownerAt>>
      BY <1>5 DEF ClaimKey
    <2>2. ASSUME NEW m \in Message, event[m] # NoEvent, ~switched'[m]
          PROVE  ~switched[m] /\ eventKey'[event[m].name] = eventKey[event[m].name]
      BY <1>5, <2>2 DEF ClaimKey, TypeOK
    <2>3. QED
      BY <2>1, <2>2 DEF AnswersMatchOwner
  <1>6. ASSUME NEW m \in Message, NEW e \in EventNames, NEW r \in Ranges, Deliver(m, e, r)
        PROVE  AnswersMatchOwner'
    <2>1. UNCHANGED <<eventKey, switched>>
      BY <1>6 DEF Deliver
    <2>2. \A l \in Message : l # m =>
            event'[l] = event[l] /\ progress'[l] = progress[l] /\ ownerAt'[l] = ownerAt[l]
      BY <1>6 DEF Deliver, TypeOK
    <2>3. /\ event'[m] = [name |-> e, range |-> r]
          /\ ownerAt'[m] = eventKey[e]
          /\ \A w \in Worker : progress'[m][w] \in {"queued", "none"}
      BY <1>6 DEF Deliver, TypeOK
    <2>4. event'[m] # NoEvent
      BY <2>3, NoEventAssumption
    <2>5. QED
      BY <2>1, <2>2, <2>3, <2>4 DEF AnswersMatchOwner
  <1>7. ASSUME NEW w \in Worker, NEW m \in Message, CheckFlag(w, m) \/ CheckKey(w, m)
        PROVE  AnswersMatchOwner'
    <2>1. UNCHANGED <<eventKey, event, switched, ownerAt>>
      BY <1>7 DEF CheckFlag, CheckKey
    <2>2. \A l \in Message, v \in Worker :
            l # m \/ v # w => progress'[l][v] = progress[l][v]
      BY <1>7 DEF CheckFlag, CheckKey, TypeOK
    <2>3. event[m] # NoEvent
      BY <1>7 DEF AnswersMatchOwner, CheckFlag, CheckKey
    <2>4. event[m].name \in EventNames
      BY <2>3 DEF TypeOK
    <2>5. /\ progress'[m][w] \in {"owned", "unchecked"} => eventKey[event[m].name] = w[1]
          /\ progress'[m][w] = "skipped" => eventKey[event[m].name] # w[1]
      <3>1. CASE CheckFlag(w, m)
        <4>1. /\ progress'[m][w] \in {"reading", "untold", "unchecked"}
              /\ progress'[m][w] = "unchecked" => ~checkUUID[w] /\ ~missed[w] /\ ~Untold(w)
          BY <3>1 DEF CheckFlag, TypeOK
        <4>2. QED
          BY <2>4, <4>1, HInvOwns DEF UncheckedOwnsAll
      <3>2. CASE CheckKey(w, m)
        BY <3>2 DEF CheckKey, TypeOK, KeyIsMine
      <3>3. QED
        BY <1>7, <3>1, <3>2
    <2>6. QED
      BY <2>1, <2>2, <2>3, <2>5 DEF AnswersMatchOwner
  <1>8. CASE UNCHANGED vars
    BY <1>1, <1>8 DEF vars, mvars
  <1>9. QED
    BY <1>2, <1>3, <1>4, <1>5, <1>6, <1>7, <1>8 DEF Next, WorkerStep

LEMMA InitIInv == Init => IInv
  <1> SUFFICES ASSUME Init PROVE IInv
    OBVIOUS
  <1>1. AnswersMatchOwner
    BY DEF Init, AnswersMatchOwner
  <1>2. QED
    BY <1>1, TypeInit, InitHInv DEF IInv, HInv

\* The inductive invariant holds in every reachable state.
THEOREM Invariance == Spec => []IInv
  <1>1. IInv /\ [Next]_vars => IInv'
    BY TypeNext, HInvNext, AnswersNext DEF IInv, HInv
  <1>2. QED
    BY <1>1, InitIInv, PTL DEF Spec

\* No worker stops checking before a worker of its container has written every
\* event key (ready.ts: the restart: false is sent after the two loops).
THEOREM ClaimsFirst == Spec => []ClaimBeforeRelease
  <1>1. IInv => ClaimBeforeRelease
    BY HInvClaims DEF IInv, HInv
  <1>2. QED
    BY <1>1, Invariance, PTL

\* A worker that does not check, and was told of every restart, owns every key
\* (eventMiddleware.ts: the early return agrees with the redis read it saves).
THEOREM UncheckedOwns == Spec => []UncheckedOwnsAll
  <1>1. IInv => UncheckedOwnsAll
    BY HInvOwns DEF IInv, HInv
  <1>2. QED
    BY <1>1, Invariance, PTL

\* Workers of both containers answer one event only across a change of its key.
THEOREM AnsweredOnce == Spec => []OneAnswer
  <1>1. IInv => OneAnswer
    BY DEF IInv, AnswersMatchOwner, OneAnswer
  <1>2. QED
    BY <1>1, Invariance, PTL

\* Whatever the order of the starts, no key goes back to an older container.
THEOREM KeysOnlyAdvance == Spec => KeysMoveToNewest
  <1> DEFINE A == \A e \in EventNames : eventKey'[e] # eventKey[e] => eventKey'[e] = newest
  <1>1. ASSUME IInv, [Next]_vars
        PROVE  A
    <2>1. CASE \E w \in Worker, e \in EventNames : ClaimKey(w, e)
      <3>1. PICK w \in Worker, e \in EventNames : ClaimKey(w, e)
        BY <2>1
      <3>2. phase[w] = "claim" /\ w[1] = newest
        BY <1>1, <3>1, StarterIsNewest DEF ClaimKey, Settled, IInv, HInv
      <3>3. QED
        BY <1>1, <3>1, <3>2 DEF ClaimKey, IInv, TypeOK
    <2>2. CASE ~ \E w \in Worker, e \in EventNames : ClaimKey(w, e)
      <3>1. UNCHANGED eventKey
        BY <1>1, <2>2 DEF Next, WorkerStep, vars, wvars, Deploy, ContainerStops, Crash,
           Dies, SocketCloses, SocketOpens, SocketRetries, ReceiveFlag, Hello, Identify,
           Ready, ClaimFails, ReleaseWorkers, StopOther, Deliver, CheckFlag, CheckKey
      <3>2. QED
        BY <3>1
    <2>3. QED
      BY <2>1, <2>2
  <1>2. IInv /\ [Next]_vars => [A]_vars
    BY <1>1
  <1>3. QED
    BY <1>2, Invariance, PTL DEF Spec, KeysMoveToNewest

-----------------------------------------------------------------------------
(* The gap of a handover.                                                  *)

\* Faults are only ever added.
LEMMA FaultsGrow ==
  ASSUME TypeOK, [Next]_vars, faults' = 0
  PROVE  faults = 0 /\ UNCHANGED faults
  <1>1. faults \in Nat
    BY BoundsAssumption DEF TypeOK
  <1>2. faults' = faults \/ faults' = faults + 1
    BY DEF Next, WorkerStep, vars, bounds, Deploy, ContainerStops, Crash, SocketCloses,
       SocketOpens, SocketRetries, ReceiveFlag, Hello, Identify, Ready, ClaimKey,
       ClaimFails, ReleaseWorkers, StopOther, Deliver, CheckFlag, CheckKey
  <1>3. QED
    BY <1>1, <1>2

LEMMA InitGapInv == Init => GapInv
  BY WorkerHasUuid DEF Init, GapInv, RunsWhole, StopAfterClaim, ClaimedIsSet, OwnerLives,
     DoomedIsReplaced, Uuid, NoUuid

\* Steps that move no phase and no key.
LEMMA GapQuiet ==
  ASSUME GapInv, UNCHANGED <<phase, claimed, eventKey, doomed, newest>>,
         faults' = 0 => faults = 0
  PROVE  GapInv'
  BY DEF GapInv, RunsWhole, StopAfterClaim, ClaimedIsSet, OwnerLives, DoomedIsReplaced,
     AllClaimed

\* While nothing fails, neither a container that is to be stopped nor its
\* successor, which runs, is started.
LEMMA GapDeploy ==
  ASSUME TypeOK, GapInv, NEW u \in Uuid, Deploy(u)
  PROVE  GapInv'
  <1>1. /\ UNCHANGED <<claimed, eventKey, doomed>> /\ newest' = u
        /\ faults' = 0 => faults = 0 /\ u \notin doomed
    BY DEF Deploy
  <1>2. \A w \in Worker : phase'[w] = IF w[1] = u THEN "boot" ELSE phase[w]
    BY DEF Deploy
  <1>3. StopAfterClaim' /\ ClaimedIsSet' /\ (OwnerLives => OwnerLives')
    BY <1>1, <1>2 DEF GapInv, StopAfterClaim, ClaimedIsSet, OwnerLives, AllClaimed
  <1>4. RunsWhole'
    BY <1>2 DEF GapInv, RunsWhole
  <1>5. faults' = 0 /\ DoomedIsReplaced => doomed = {}
    <2> SUFFICES ASSUME faults' = 0, DoomedIsReplaced, NEW v \in doomed
                 PROVE  FALSE
      OBVIOUS
    <2>1. v # newest /\ v # u /\ newest \in Uuid /\ v \in Uuid
      BY <1>1 DEF DoomedIsReplaced, TypeOK
    <2>2. newest = u
      BY <2>1 DEF Uuid
    <2>3. PICK w \in WorkersOf(newest) : phase[w] = "serve"
      BY DEF DoomedIsReplaced
    <2>4. phase[w] = "off"
      BY <2>2, <2>3 DEF Deploy
    <2>5. QED
      BY <2>3, <2>4
  <1>6. QED
    BY <1>1, <1>3, <1>4, <1>5 DEF GapInv, DoomedIsReplaced

\* A container that stops owns no key, as its successor has them all.
LEMMA GapDies ==
  ASSUME TypeOK, HInv, GapInv, NEW u \in Uuid, Dies(u), doomed' \subseteq doomed,
         faults' = 0 => faults = 0 /\ u \in doomed
  PROVE  GapInv'
  <1>1. /\ UNCHANGED <<eventKey, newest>>
        /\ \A w \in Worker : w[1] = u => phase'[w] = "off" /\ claimed'[w] = {}
        /\ \A w \in Worker : w[1] # u => phase'[w] = phase[w] /\ claimed'[w] = claimed[w]
    BY DEF Dies, TypeOK
  <1>2. StopAfterClaim' /\ ClaimedIsSet'
    BY <1>1 DEF GapInv, StopAfterClaim, ClaimedIsSet, AllClaimed
  <1>3. RunsWhole'
    BY <1>1 DEF GapInv, RunsWhole
  <1>4. ASSUME faults' = 0
        PROVE  OwnerLives' /\ DoomedIsReplaced'
    <2>1. OwnerLives /\ DoomedIsReplaced /\ u \in doomed /\ u # newest /\ newest \in Uuid
      BY <1>4 DEF GapInv, DoomedIsReplaced, TypeOK
    <2>2. PICK x \in WorkersOf(newest) : phase[x] = "serve" /\ AllClaimed(x)
      BY <2>1 DEF DoomedIsReplaced
    <2>3. x \in Worker /\ x[1] = newest
      BY <2>1, <2>2, WorkersOfUuid
    <2>4. \A e \in EventNames : eventKey[e] = newest
      BY <2>2, <2>3 DEF HInv, NewestKeepsKeys, AllClaimed
    <2>5. phase'[x] = "serve" /\ claimed'[x] = EventNames
      BY <1>1, <2>1, <2>2, <2>3 DEF AllClaimed
    <2>6. OwnerLives'
      BY <1>1, <2>2, <2>4, <2>5 DEF OwnerLives, WorkersOf
    <2>7. DoomedIsReplaced'
      BY <1>1, <2>1, <2>2, <2>5 DEF DoomedIsReplaced, AllClaimed, WorkersOf
    <2>8. QED
      BY <2>6, <2>7
  <1>5. QED
    BY <1>2, <1>3, <1>4 DEF GapInv

\* A step of a starting worker that writes no key and stops nobody.
LEMMA GapPhase ==
  ASSUME TypeOK, HInv, GapInv, NEW x \in Worker, NEW p \in Phase \ {"off"},
         phase[x] \notin Settled, phase' = [phase EXCEPT ![x] = p],
         p = "stop" => AllClaimed(x),
         UNCHANGED <<claimed, eventKey, doomed, newest>>, faults' = 0 => faults = 0
  PROVE  GapInv'
  <1>1. \A w \in Worker : phase'[w] = IF w = x THEN p ELSE phase[w]
    BY DEF TypeOK
  <1>2. RunsWhole'
    BY <1>1 DEF GapInv, RunsWhole, Settled
  <1>3. newest \in Uuid
    BY DEF TypeOK
  <1>4. DoomedIsReplaced => DoomedIsReplaced'
    BY <1>1, <1>3, WorkersOfUuid DEF DoomedIsReplaced, AllClaimed, WorkersOf, Settled
  <1>5. QED
    BY <1>1, <1>2, <1>4 DEF GapInv, StopAfterClaim, ClaimedIsSet, OwnerLives, AllClaimed,
       WorkersOf

\* The writer of a key becomes its owner.
LEMMA GapClaim ==
  ASSUME TypeOK, HInv, GapInv, NEW x \in Worker, NEW e \in EventNames, ClaimKey(x, e)
  PROVE  GapInv'
  <1>1. /\ phase[x] = "claim" /\ x \in WorkersOf(x[1]) /\ x[1] \in Uuid
        /\ UNCHANGED <<phase, doomed, newest, faults>>
    BY WorkerHasUuid DEF ClaimKey, bounds
  <1>2. /\ \A w \in Worker :
             claimed'[w] = IF w = x THEN claimed[w] \union {e} ELSE claimed[w]
        /\ \A n \in EventNames : eventKey'[n] = IF n = e THEN x[1] ELSE eventKey[n]
        /\ \A w \in Worker : claimed[w] \subseteq EventNames
    BY DEF ClaimKey, TypeOK
  <1>3. x[1] # NoUuid
    BY <1>1 DEF Uuid, NoUuid
  <1>4. StopAfterClaim' /\ RunsWhole'
    BY <1>1, <1>2 DEF GapInv, StopAfterClaim, RunsWhole, AllClaimed
  <1>5. ClaimedIsSet'
    <2> SUFFICES ASSUME NEW w \in Worker, NEW n \in claimed'[w]
                 PROVE  eventKey'[n] # NoUuid
      BY DEF ClaimedIsSet
    <2>1. n \in EventNames /\ (n # e => n \in claimed[w])
      BY <1>2
    <2>2. CASE n = e
      BY <1>2, <1>3, <2>2
    <2>3. CASE n # e
      BY <1>2, <2>1, <2>3 DEF GapInv, ClaimedIsSet
    <2>4. QED
      BY <2>2, <2>3
  <1>6. ASSUME OwnerLives, NEW u \in Uuid, NEW n \in EventNames, eventKey'[n] = u
        PROVE  \E w \in WorkersOf(u) : n \in claimed'[w]
    <2>1. CASE n = e
      <3>1. u = x[1] /\ e \in claimed'[x]
        BY <1>2, <1>6, <2>1
      <3>2. QED
        BY <1>1, <2>1, <3>1
    <2>2. CASE n # e
      <3>1. eventKey[n] = u
        BY <1>2, <1>6, <2>2
      <3>2. PICK w \in WorkersOf(u) : n \in claimed[w]
        BY <1>6, <3>1 DEF OwnerLives
      <3>3. QED
        BY <1>2, <3>2, WorkersOfUuid
    <2>3. QED
      BY <2>1, <2>2
  <1>7. OwnerLives => OwnerLives'
    BY <1>6 DEF OwnerLives, WorkersOf
  <1>8. DoomedIsReplaced => DoomedIsReplaced'
    <2> SUFFICES ASSUME DoomedIsReplaced, NEW u \in doomed
                 PROVE  u # newest /\ \E w \in WorkersOf(newest) :
                                          phase[w] = "serve" /\ claimed'[w] = EventNames
      BY <1>1 DEF DoomedIsReplaced, AllClaimed, WorkersOf
    <2>1. PICK w \in WorkersOf(newest) : phase[w] = "serve" /\ AllClaimed(w)
      BY DEF DoomedIsReplaced
    <2>2. w \in Worker /\ w # x
      BY <1>1, <2>1, WorkersOfUuid DEF TypeOK
    <2>3. QED
      BY <1>2, <2>1, <2>2 DEF DoomedIsReplaced, AllClaimed
  <1>9. QED
    BY <1>1, <1>4, <1>5, <1>7, <1>8 DEF GapInv

\* Whoever orders the stop has every key.
LEMMA GapStopOther ==
  ASSUME TypeOK, HInv, GapInv, NEW x \in Worker, StopOther(x), faults' = 0 => faults = 0
  PROVE  GapInv'
  <1>1. /\ phase[x] = "stop" /\ x[1] = newest /\ AllClaimed(x)
        /\ x[1] \in Uuid /\ x \in WorkersOf(newest)
        /\ UNCHANGED <<claimed, eventKey, newest>>
    BY StarterIsNewest, WorkerHasUuid DEF StopOther, Settled, GapInv, StopAfterClaim
  <1>2. \A w \in Worker : phase'[w] = IF w = x THEN "serve" ELSE phase[w]
    BY DEF StopOther, TypeOK
  <1>3. StopAfterClaim' /\ ClaimedIsSet' /\ (OwnerLives => OwnerLives')
    BY <1>1, <1>2 DEF GapInv, StopAfterClaim, ClaimedIsSet, OwnerLives, AllClaimed, WorkersOf
  <1>4. RunsWhole'
    BY <1>1, <1>2 DEF GapInv, RunsWhole
  <1>5. Other(newest) # newest
    BY <1>1, OtherIsUuid
  <1>6. doomed' \subseteq doomed \union {Other(newest)}
    BY <1>1 DEF StopOther, StopTarget
  <1>7. phase'[x] = "serve" /\ claimed'[x] = EventNames
    BY <1>1, <1>2 DEF AllClaimed
  <1>8. DoomedIsReplaced => DoomedIsReplaced'
    BY <1>1, <1>5, <1>6, <1>7 DEF DoomedIsReplaced, AllClaimed, WorkersOf
  <1>9. QED
    BY <1>3, <1>4, <1>8 DEF GapInv

LEMMA GapNext ==
  ASSUME TypeOK, HInv, GapInv, [Next]_vars
  PROVE  GapInv'
  <1>0. faults' = 0 => faults = 0 /\ UNCHANGED faults
    BY FaultsGrow
  <1>1. ASSUME NEW u \in Uuid, Deploy(u)
        PROVE  GapInv'
    BY <1>1, GapDeploy
  <1>2. ASSUME NEW u \in Uuid, ContainerStops(u)
        PROVE  GapInv'
    BY <1>0, <1>2, GapDies DEF ContainerStops
  <1>3. ASSUME NEW u \in Uuid, Crash(u)
        PROVE  GapInv'
    <2>1. faults' # 0
      BY <1>3, BoundsAssumption DEF Crash, TypeOK
    <2>2. QED
      BY <1>3, <2>1, GapDies DEF Crash
  <1>4. ASSUME NEW x \in Worker,
               \/ SocketCloses(x) \/ SocketOpens(x) \/ SocketRetries(x) \/ ReceiveFlag(x)
        PROVE  GapInv'
    BY <1>0, <1>4, GapQuiet DEF SocketCloses, SocketOpens, SocketRetries, ReceiveFlag
  <1>5. ASSUME NEW x \in Worker, Hello(x)
        PROVE  GapInv'
    <2>1. /\ phase[x] \notin Settled
          /\ phase' = [phase EXCEPT ![x] = "wedged"] \/ phase' = [phase EXCEPT ![x] = "gateway"]
          /\ UNCHANGED <<claimed, eventKey, doomed, newest, faults>>
      BY <1>5 DEF Hello, Settled, bounds
    <2>2. QED
      BY <2>1, GapPhase DEF Phase
  <1>6. ASSUME NEW x \in Worker, Identify(x)
        PROVE  GapInv'
    BY <1>6, GapPhase DEF Identify, Settled, bounds, Phase
  <1>7. ASSUME NEW x \in Worker, Ready(x)
        PROVE  GapInv'
    <2>1. claimed[x] = {}
      BY <1>7 DEF Ready, FirstReady, HInv, StoppedIsReset
    <2>2. /\ UNCHANGED <<claimed, eventKey, doomed, newest, faults>>
          /\ phase[x] \notin Settled /\ phase' = [phase EXCEPT ![x] = "claim"]
      BY <1>7, <2>1 DEF Ready, FirstReady, TypeOK, Settled, bounds
    <2>3. QED
      BY <2>2, GapPhase DEF Phase
  <1>8. ASSUME NEW x \in Worker, NEW e \in EventNames, ClaimKey(x, e)
        PROVE  GapInv'
    BY <1>8, GapClaim
  <1>9. ASSUME NEW x \in Worker, ReleaseWorkers(x)
        PROVE  GapInv'
    <2>1. /\ phase[x] \notin Settled /\ AllClaimed(x)
          /\ phase' = [phase EXCEPT ![x] = "serve"] \/ phase' = [phase EXCEPT ![x] = "stop"]
          /\ UNCHANGED <<claimed, eventKey, doomed, newest, faults>>
      BY <1>9 DEF ReleaseWorkers, Settled, bounds
    <2>2. QED
      BY <2>1, GapPhase DEF Phase
  <1>10. ASSUME NEW x \in Worker, StopOther(x)
         PROVE  GapInv'
    BY <1>0, <1>10, GapStopOther
  <1>11. ASSUME NEW m \in Message, NEW e \in EventNames, NEW r \in Ranges, Deliver(m, e, r)
         PROVE  GapInv'
    BY <1>11, GapQuiet DEF Deliver, wvars, bounds
  <1>12. ASSUME NEW w \in Worker, NEW m \in Message, CheckFlag(w, m) \/ CheckKey(w, m)
         PROVE  GapInv'
    BY <1>0, <1>12, GapQuiet DEF CheckFlag, CheckKey, wvars
  <1>13. ASSUME NEW x \in Worker, ClaimFails(x)
         PROVE  GapInv'
    BY <1>0, <1>13, GapPhase DEF ClaimFails, Settled, Phase
  <1>14. CASE UNCHANGED vars
    BY <1>14, GapQuiet DEF vars, wvars, bounds
  <1>15. QED
    BY <1>1, <1>2, <1>3, <1>4, <1>5, <1>6, <1>7, <1>8, <1>9, <1>10, <1>11, <1>12, <1>13,
       <1>14 DEF Next, WorkerStep

\* Whoever serves an event name runs in a container that has written its key.
LEMMA ServedIsSet ==
  ASSUME TypeOK, HInv, GapInv, NEW r \in Ranges, NEW e \in EventNames, Served(r, e)
  PROVE  eventKey[e] # NoUuid
  <1>1. PICK w \in Worker : ~checkUUID[w] \/ KeyIsMine(w, e)
    BY DEF Served
  <1>2. CASE KeyIsMine(w, e)
    BY <1>2, WorkerHasUuid DEF KeyIsMine, Uuid, NoUuid
  <1>3. CASE ~checkUUID[w]
    <2>1. PICK v \in WorkersOf(w[1]) : AllClaimed(v)
      BY <1>3 DEF HInv, ReleaseAfterClaim
    <2>2. v \in Worker
      BY <2>1, WorkersOfUuid, WorkerHasUuid
    <2>3. QED
      BY <2>1, <2>2 DEF AllClaimed, GapInv, ClaimedIsSet
  <1>4. QED
    BY <1>1, <1>2, <1>3

\* A worker of the newest container that does not check owns every key.
LEMMA NewestUncheckedOwns ==
  ASSUME HInv, NEW w \in Worker, w[1] = newest, ~checkUUID[w], NEW e \in EventNames
  PROVE  eventKey[e] = w[1]
  <1>1. PICK v \in WorkersOf(w[1]) : AllClaimed(v)
    BY DEF HInv, ReleaseAfterClaim
  <1>2. v \in Worker /\ v[1] = newest
    BY <1>1, WorkersOfUuid, WorkerHasUuid
  <1>3. QED
    BY <1>1, <1>2 DEF AllClaimed, HInv, NewestKeepsKeys

\* A server of an event name whose key an older container has is of that
\* container.
LEMMA OlderServerOwns ==
  ASSUME TypeOK, HInv, NEW e \in EventNames, eventKey[e] \in Uuid, eventKey[e] # newest,
         NEW x \in Worker, ~checkUUID[x] \/ KeyIsMine(x, e)
  PROVE  x[1] = eventKey[e]
  <1>1. CASE KeyIsMine(x, e)
    BY <1>1 DEF KeyIsMine
  <1>2. CASE ~checkUUID[x]
    <2>1. x[1] # newest
      BY <1>2, NewestUncheckedOwns
    <2>2. x[1] \in Uuid /\ newest \in Uuid
      BY WorkerHasUuid DEF TypeOK
    <2>3. QED
      BY <2>1, <2>2 DEF Uuid
  <1>3. QED
    BY <1>1, <1>2

\* The owner of a key runs on every range.
LEMMA OwnerRuns ==
  ASSUME HInv, GapInv, OwnerLives, NEW e \in EventNames, eventKey[e] \in Uuid,
         NEW w \in Worker, w[1] = eventKey[e]
  PROVE  phase[w] # "off"
  <1>1. PICK v \in WorkersOf(w[1]) : e \in claimed[v]
    BY DEF OwnerLives
  <1>2. v \in Worker /\ v[1] = w[1]
    BY <1>1, WorkersOfUuid, WorkerHasUuid
  <1>3. phase[v] # "off"
    BY <1>1, <1>2 DEF HInv, StoppedIsReset
  <1>4. QED
    BY <1>2, <1>3 DEF GapInv, RunsWhole

\* A worker with a session keeps it until it stops.
LEMMA OnlineStays ==
  ASSUME TypeOK, [Next]_vars, NEW w \in Worker, phase[w] \in Online
  PROVE  phase'[w] \in Online \union {"off"}
  <1>1. ASSUME NEW u \in Uuid, Deploy(u) \/ ContainerStops(u) \/ Crash(u)
        PROVE  phase'[w] \in Online \union {"off"}
    BY <1>1, WorkerHasUuid DEF Deploy, ContainerStops, Crash, Dies, WorkersOf, Worker, Online
  <1>2. ASSUME NEW x \in Worker, \/ Hello(x) \/ Identify(x) \/ Ready(x)
                                  \/ ClaimFails(x) \/ ReleaseWorkers(x) \/ StopOther(x)
        PROVE  phase'[w] \in Online \union {"off"}
    BY <1>2 DEF Hello, Identify, Ready, FirstReady, ClaimFails, ReleaseWorkers, StopOther,
       TypeOK, Online
  <1>3. CASE UNCHANGED phase
    BY <1>3
  <1>4. QED
    BY <1>1, <1>2, <1>3 DEF Next, WorkerStep, vars, wvars, SocketCloses, SocketOpens,
       SocketRetries, ReceiveFlag, ClaimKey, Deliver, CheckFlag, CheckKey

\* The keys only move to the newest container, which only a start replaces.
LEMMA KeyOrStart ==
  ASSUME TypeOK, HInv, [Next]_vars, NEW e \in EventNames
  PROVE  /\ eventKey'[e] = eventKey[e] \/ (eventKey'[e] = newest /\ newest' = newest)
         /\ newest' = newest \/ \E u \in Uuid : Deploy(u) /\ newest' = u
  <1>1. CASE \E w \in Worker, n \in EventNames : ClaimKey(w, n)
    <2>1. PICK w \in Worker, n \in EventNames : ClaimKey(w, n)
      BY <1>1
    <2>2. w[1] = newest
      BY <2>1, StarterIsNewest DEF ClaimKey, Settled
    <2>3. QED
      BY <2>1, <2>2 DEF ClaimKey, TypeOK
  <1>2. CASE ~ \E w \in Worker, n \in EventNames : ClaimKey(w, n)
    <2>1. UNCHANGED eventKey
      BY <1>2 DEF Next, WorkerStep, vars, wvars, Deploy, ContainerStops, Crash,
         Dies, SocketCloses, SocketOpens, SocketRetries, ReceiveFlag, Hello, Identify,
         Ready, ClaimFails, ReleaseWorkers, StopOther, Deliver, CheckFlag, CheckKey
    <2>2. newest' = newest \/ \E u \in Uuid : Deploy(u) /\ newest' = u
      BY <1>2 DEF Next, WorkerStep, vars, wvars, Deploy, ContainerStops, Crash,
         Dies, SocketCloses, SocketOpens, SocketRetries, ReceiveFlag, Hello, Identify,
         Ready, ClaimFails, ReleaseWorkers, StopOther, Deliver, CheckFlag, CheckKey
    <2>3. QED
      BY <2>1, <2>2
  <1>3. QED
    BY <1>1, <1>2

\* What was served is served by the owner of its key after the step, unless that
\* is a new container whose worker of the range is still starting.
LEMMA GapStep ==
  ASSUME IInv, IInv', GapInv, GapInv', [Next]_vars, faults' = 0,
         NEW r \in Ranges, NEW e \in EventNames, Served(r, e)
  PROVE  /\ <<eventKey'[e], r>> \in Worker
         /\ \/ phase'[<<eventKey'[e], r>>] \in Online
            \/ eventKey'[e] = newest' /\ Starting(r)'
  <1> DEFINE k == eventKey'[e]
             w == <<k, r>>
  <1>1. TypeOK /\ HInv /\ TypeOK' /\ HInv'
    BY DEF IInv, HInv
  <1>2. faults = 0
    BY <1>1, FaultsGrow
  <1>3. OwnerLives /\ OwnerLives'
    BY <1>2 DEF GapInv
  <1>4. eventKey[e] # NoUuid /\ eventKey[e] \in Uuid
    BY <1>1, ServedIsSet DEF TypeOK
  <1>5. k \in Uuid
    BY <1>1, <1>4, KeyOrStart DEF TypeOK
  <1>6. w \in Worker /\ w[1] = k /\ w[2] = r
    BY <1>5 DEF Worker
  <1>7. phase'[w] # "off"
    <2>1. PICK v \in WorkersOf(k) : e \in claimed'[v]
      BY <1>3, <1>5 DEF OwnerLives
    <2>2. v \in Worker /\ v[1] = w[1]
      BY <1>5, <1>6, <2>1, WorkersOfUuid
    <2>3. phase'[v] # "off"
      BY <1>1, <2>1, <2>2 DEF HInv, StoppedIsReset
    <2>4. QED
      BY <1>6, <2>2, <2>3 DEF GapInv, RunsWhole
  <1>8. phase'[w] \in Phase
    BY <1>1, <1>6 DEF TypeOK
  <1>9. CASE k = newest'
    BY <1>6, <1>7, <1>8, <1>9 DEF Starting, Online, Phase
  <1>10. CASE k # newest'
    <2>1. eventKey[e] = k
      BY <1>1, <1>10, KeyOrStart
    <2>2. PICK x \in Worker : x[2] = r /\ phase[x] \in Online /\ (~checkUUID[x] \/ KeyIsMine(x, e))
      BY DEF Served
    <2>3. x[1] = k
      <3>1. CASE k # newest
        BY <1>1, <1>4, <2>1, <2>2, <3>1, OlderServerOwns
      <3>2. CASE k = newest
        <4>1. PICK u \in Uuid : Deploy(u) /\ newest' = u
          BY <1>1, <1>10, <3>2, KeyOrStart
        <4>2. x[1] # u
          BY <2>2, <4>1, WorkerHasUuid DEF Deploy, Online
        <4>3. x[1] \in Uuid
          BY WorkerHasUuid
        <4>4. QED
          BY <1>5, <1>10, <4>1, <4>2, <4>3 DEF Uuid
      <3>3. QED
        BY <3>1, <3>2
    <2>4. x = w
      BY <2>2, <2>3 DEF Worker
    <2>5. QED
      BY <1>1, <1>6, <1>7, <2>2, <2>4, OnlineStays
  <1>11. QED
    BY <1>6, <1>9, <1>10

LEMMA GapInvariance == Spec => [](IInv /\ GapInv)
  <1>1. IInv /\ GapInv /\ [Next]_vars => GapInv'
    BY GapNext DEF IInv, HInv
  <1>2. QED
    BY <1>1, InitGapInv, Invariance, PTL DEF Spec

\* However many workers a container has: while nothing fails, an event name stays
\* served on a range until it belongs to a new container, and then lacks a server
\* only as long as the new worker of that range is not connected.
THEOREM GapOnlyWhileStarting == Spec => GapIsStart
  <1> DEFINE A == faults' = 0 =>
                    \A r \in Ranges, e \in EventNames :
                        Served(r, e) => \/ Served(r, e)'
                                        \/ (eventKey[e] = newest /\ Starting(r))'
  <1>1. ASSUME IInv, IInv', GapInv, GapInv', [Next]_vars
        PROVE  A
    <2> SUFFICES ASSUME faults' = 0, NEW r \in Ranges, NEW e \in EventNames, Served(r, e)
                 PROVE  Served(r, e)' \/ (eventKey[e] = newest /\ Starting(r))'
      OBVIOUS
    <2>1. /\ <<eventKey'[e], r>> \in Worker
          /\ \/ phase'[<<eventKey'[e], r>>] \in Online
             \/ eventKey'[e] = newest' /\ Starting(r)'
      BY <1>1, GapStep
    <2>2. QED
      BY <2>1 DEF Served, KeyIsMine
  <1>2. IInv /\ GapInv /\ (IInv /\ GapInv)' /\ [Next]_vars => [A]_vars
    BY <1>1
  <1>3. QED
    BY <1>2, GapInvariance, PTL DEF Spec, GapIsStart

\* With one worker per container no step of a handover leaves an event name
\* unserved, as long as nothing fails: the owner of a key is that worker.
THEOREM NoGap ==
  ASSUME NEW q, Ranges = {q}
  PROVE  Spec => NoServiceGap
  <1> DEFINE A == faults' = 0 =>
                    \A r \in Ranges, e \in EventNames : Served(r, e) => Served(r, e)'
  <1>1. ASSUME IInv, IInv', GapInv, GapInv', [Next]_vars
        PROVE  A
    <2> SUFFICES ASSUME faults' = 0, NEW r \in Ranges, NEW e \in EventNames, Served(r, e)
                 PROVE  Served(r, e)'
      OBVIOUS
    <2> DEFINE w == <<eventKey'[e], r>>
    <2>1. w \in Worker /\ (phase'[w] \in Online \/ (eventKey'[e] = newest' /\ Starting(r)'))
      BY <1>1, GapStep
    <2>2. w[1] = eventKey'[e] /\ w[2] = r /\ eventKey'[e] \in Uuid
      BY <2>1, WorkerHasUuid
    <2>3. OwnerLives' /\ HInv'
      BY <1>1 DEF GapInv, IInv, HInv
    <2>4. PICK v \in WorkersOf(eventKey'[e]) : e \in claimed'[v]
      BY <2>2, <2>3 DEF OwnerLives
    <2>5. v = w /\ v \in Worker
      BY <2>1, <2>2, <2>4 DEF WorkersOf, Worker
    <2>6. phase'[w] \in Online
      BY <2>3, <2>4, <2>5 DEF HInv, StoppedIsReset, Online
    <2>7. QED
      BY <2>1, <2>2, <2>6 DEF Served, KeyIsMine
  <1>2. IInv /\ GapInv /\ (IInv /\ GapInv)' /\ [Next]_vars => [A]_vars
    BY <1>1
  <1>3. QED
    BY <1>2, GapInvariance, PTL DEF Spec, NoServiceGap

-----------------------------------------------------------------------------
(* The owner of an event answers it.                                       *)

\* With one worker per container, the owner of a key is online on the range.
LEMMA OwnerReceives ==
  ASSUME NEW q, Ranges = {q}, TypeOK, HInv, OwnerLives,
         NEW e \in EventNames, eventKey[e] # NoUuid
  PROVE  <<eventKey[e], q>> \in Receivers(q)
  <1>1. eventKey[e] \in Uuid
    BY DEF TypeOK
  <1>2. PICK w \in WorkersOf(eventKey[e]) : e \in claimed[w]
    BY <1>1 DEF OwnerLives
  <1>3. w = <<eventKey[e], q>> /\ w \in Worker /\ w[2] = q
    BY <1>1, <1>2 DEF WorkersOf, Worker
  <1>4. phase[w] \in Online
    BY <1>2, <1>3 DEF HInv, StoppedIsReset, Online
  <1>5. QED
    BY <1>3, <1>4 DEF Receivers

\* While nothing fails only a container that owns no key stops, and its owner
\* does not take an event for another container's.
LEMMA OwnerHasEventNext ==
  ASSUME NEW q, Ranges = {q}, IInv, IInv', GapInv, OwnerHasEvent, [Next]_vars
  PROVE  OwnerHasEvent'
  <1> DEFINE Kept == {"queued", "reading", "owned", "unchecked", "untold"}
             Has(m) == event[m] # NoEvent /\ ~switched[m] /\ ownerAt[m] # NoUuid =>
                         progress[m][<<ownerAt[m], event[m].range>>] \in Kept
  <1> SUFFICES ASSUME faults' = 0, NEW m \in Message,
                      event'[m] # NoEvent, ~switched'[m], ownerAt'[m] # NoUuid
               PROVE  progress'[m][<<ownerAt'[m], event'[m].range>>] \in Kept
    BY DEF OwnerHasEvent
  <1>1. TypeOK /\ HInv /\ TypeOK'
    BY DEF IInv, HInv
  <1>2. faults = 0 /\ Has(m) /\ OwnerLives /\ DoomedIsReplaced
    <2>1. faults = 0
      BY <1>1, FaultsGrow
    <2>2. QED
      BY <2>1 DEF OwnerHasEvent, GapInv
  <1>3. faults' = faults
    BY <1>1, FaultsGrow
  <1>4. <<ownerAt'[m], event'[m].range>> \in Worker
    BY <1>1 DEF TypeOK, Worker
  <1>5. CASE UNCHANGED <<event, switched, ownerAt, progress>>
    BY <1>2, <1>5
  <1>6. ASSUME NEW u \in Uuid, ContainerStops(u)
        PROVE  progress'[m][<<ownerAt'[m], event'[m].range>>] \in Kept
    <2>1. /\ u \in doomed /\ UNCHANGED <<event, switched, ownerAt>>
          /\ \A w \in Worker : w[1] # u => progress'[m][w] = progress[m][w]
      BY <1>6 DEF ContainerStops, Dies
    <2>2. u # newest /\ newest \in Uuid
      BY <1>1, <1>2, <2>1 DEF DoomedIsReplaced, TypeOK
    <2>3. PICK x \in WorkersOf(newest) : AllClaimed(x)
      BY <1>2, <2>1 DEF DoomedIsReplaced
    <2>4. x \in Worker /\ x[1] = newest
      BY <2>2, <2>3, WorkersOfUuid
    <2>5. event[m].name \in EventNames /\ eventKey[event[m].name] = ownerAt[m]
      BY <1>1, <2>1 DEF IInv, AnswersMatchOwner, TypeOK
    <2>6. ownerAt[m] = newest
      BY <1>1, <2>3, <2>4, <2>5 DEF HInv, NewestKeepsKeys, AllClaimed
    <2>7. QED
      BY <1>2, <1>4, <2>1, <2>2, <2>6
  <1>7. ASSUME NEW u \in Uuid, Crash(u)
        PROVE  FALSE
    BY <1>1, <1>3, <1>7, BoundsAssumption DEF Crash, TypeOK
  <1>8. ASSUME NEW w \in Worker, NEW e \in EventNames, ClaimKey(w, e)
        PROVE  progress'[m][<<ownerAt'[m], event'[m].range>>] \in Kept
    <2>1. ~switched[m] /\ UNCHANGED <<event, ownerAt, progress>>
      BY <1>8 DEF ClaimKey
    <2>2. QED
      BY <1>2, <2>1
  <1>9. ASSUME NEW l \in Message, NEW e \in EventNames, NEW r \in Ranges, Deliver(l, e, r)
        PROVE  progress'[m][<<ownerAt'[m], event'[m].range>>] \in Kept
    <2>1. CASE l = m
      <3>1. /\ event'[m] = [name |-> e, range |-> r] /\ ownerAt'[m] = eventKey[e]
            /\ \A w \in Worker : w \in Receivers(r) => progress'[m][w] = "queued"
        BY <1>1, <1>9, <2>1 DEF Deliver, TypeOK
      <3>2. r = q
        OBVIOUS
      <3>3. QED
        BY <1>1, <1>2, <1>4, <3>1, <3>2, OwnerReceives
    <2>2. CASE l # m
      <3>1. /\ event'[m] = event[m] /\ ownerAt'[m] = ownerAt[m]
            /\ progress'[m] = progress[m] /\ switched' = switched
        BY <1>1, <1>9, <2>2 DEF Deliver, TypeOK
      <3>2. QED
        BY <1>2, <3>1
    <2>3. QED
      BY <2>1, <2>2
  <1>10. ASSUME NEW w \in Worker, NEW l \in Message, CheckFlag(w, l) \/ CheckKey(w, l)
         PROVE  progress'[m][<<ownerAt'[m], event'[m].range>>] \in Kept
    <2> DEFINE o == <<ownerAt[m], event[m].range>>
    <2>1. UNCHANGED <<event, switched, ownerAt>>
      BY <1>10 DEF CheckFlag, CheckKey
    <2>2. o \in Worker /\ o[1] = ownerAt[m]
      BY <1>4, <2>1
    <2>3. CASE l = m /\ w = o
      <3>1. progress'[m][w] \in {"reading", "owned", "skipped", "unchecked", "untold"}
        BY <1>1, <1>3, <1>10, <2>3, BoundsAssumption DEF CheckFlag, CheckKey, TypeOK
      <3>2. progress'[m][w] # "skipped"
        BY <2>1, <2>2, <2>3 DEF IInv, AnswersMatchOwner
      <3>3. QED
        BY <2>1, <2>3, <3>1, <3>2
    <2>4. CASE ~(l = m /\ w = o)
      <3>1. progress'[m][o] = progress[m][o]
        BY <1>1, <1>10, <2>2, <2>4 DEF CheckFlag, CheckKey, TypeOK
      <3>2. QED
        BY <1>2, <2>1, <3>1
    <2>5. QED
      BY <2>3, <2>4
  <1>11. ASSUME \/ \E u \in Uuid : Deploy(u)
                \/ \E w \in Worker :
                      \/ SocketOpens(w) \/ SocketRetries(w) \/ SocketCloses(w) \/ ReceiveFlag(w)
                      \/ Hello(w) \/ Identify(w) \/ Ready(w) \/ ClaimFails(w)
                      \/ ReleaseWorkers(w) \/ StopOther(w)
                \/ UNCHANGED vars
         PROVE  UNCHANGED <<event, switched, ownerAt, progress>>
    BY <1>11 DEF Deploy, SocketOpens, SocketRetries, SocketCloses, ReceiveFlag, Hello,
       Identify, Ready, ClaimFails, ReleaseWorkers, StopOther, mvars, vars
  <1>12. QED
    BY <1>5, <1>6, <1>7, <1>8, <1>9, <1>10, <1>11 DEF Next, WorkerStep

\* With one worker per container, an event whose name has an owner, and keeps it,
\* is answered once everybody has decided about it, as long as nothing fails: the
\* handover stops a container only when no undecided event is its own (ready.ts
\* writes every key before it has the other container stopped).
THEOREM OwnedEventsAnswered ==
  ASSUME NEW q, Ranges = {q}
  PROVE  Spec => []OwnedIsAnswered
  <1>1. Init => OwnerHasEvent
    BY DEF Init, OwnerHasEvent
  <1>2. IInv /\ IInv' /\ GapInv /\ OwnerHasEvent /\ [Next]_vars => OwnerHasEvent'
    BY OwnerHasEventNext
  <1>3. IInv /\ OwnerHasEvent => OwnedIsAnswered
    <2> SUFFICES ASSUME IInv, OwnerHasEvent, NEW m \in Message, faults = 0,
                        event[m] # NoEvent, ownerAt[m] # NoUuid, ~switched[m],
                        \A w \in Worker : progress[m][w] \notin {"queued", "reading"}
                 PROVE  \E w \in Worker : progress[m][w] \in {"owned", "unchecked", "untold"}
      BY DEF OwnedIsAnswered
    <2>1. <<ownerAt[m], event[m].range>> \in Worker
      BY DEF IInv, TypeOK, Worker
    <2>2. QED
      BY <2>1 DEF OwnerHasEvent
  <1>4. QED
    BY <1>1, <1>2, <1>3, GapInvariance, PTL DEF Spec

-----------------------------------------------------------------------------
(* How a handover ends.                                                    *)

\* Steps that only move a starting worker from phase to phase.
LEMMA EndPhase ==
  ASSUME TypeOK, HInv, SocketStays, HandlerEndsOther, NEW x \in Worker,
         NEW p \in Phase \ {"off", "serve"}, phase[x] \notin Settled,
         phase' = [phase EXCEPT ![x] = p],
         UNCHANGED <<socket, doomed, newest, faults>>,
         p # "wedged" => phase[x] # "boot" \/ socket[x] # "connecting"
  PROVE  SocketStays' /\ HandlerEndsOther'
  <1>1. x[1] = newest /\ newest \in Uuid
    BY StarterIsNewest DEF TypeOK
  <1>2. phase'[x] = p /\ \A w \in Worker : w # x => phase'[w] = phase[w]
    BY DEF TypeOK
  <1>3. socket[x] \in {"closed", "connecting", "open"}
    BY DEF TypeOK
  <1>4. SocketStays'
    BY <1>2, <1>3 DEF SocketStays, Settled
  <1>5. \A v \in WorkersOf(Other(newest)) : v \in Worker /\ v # x
    BY <1>1, OtherIsUuid, WorkersOfUuid
  <1>6. HandlerEndsOther'
    BY <1>2, <1>5 DEF HandlerEndsOther
  <1>7. QED
    BY <1>4, <1>6

\* A container that starts has no worker that serves yet.
LEMMA EndDeploy ==
  ASSUME TypeOK, SocketStays, NEW u \in Uuid, Deploy(u)
  PROVE  SocketStays' /\ HandlerEndsOther'
  <1>1. /\ newest' = u /\ (faults' = 0 => faults = 0)
        /\ \A w \in Worker : phase'[w] = IF w[1] = u THEN "boot" ELSE phase[w]
        /\ \A w \in Worker : socket'[w] = IF w[1] = u THEN "connecting" ELSE socket[w]
    BY DEF Deploy
  <1>2. SocketStays'
    BY <1>1 DEF SocketStays
  <1>3. HandlerEndsOther'
    BY <1>1 DEF HandlerEndsOther
  <1>4. QED
    BY <1>2, <1>3

\* While nothing fails the container that stops is the other one.
LEMMA EndStops ==
  ASSUME TypeOK, GapInv, SocketStays, HandlerEndsOther, NEW u \in Uuid, ContainerStops(u)
  PROVE  SocketStays' /\ HandlerEndsOther'
  <1>1. /\ u \in doomed /\ UNCHANGED <<newest, faults>>
        /\ \A w \in Worker : phase'[w] = IF w[1] = u THEN "off" ELSE phase[w]
        /\ \A w \in Worker : socket'[w] = IF w[1] = u THEN "closed" ELSE socket[w]
    BY DEF ContainerStops, Dies
  <1>2. SocketStays'
    BY <1>1 DEF SocketStays
  <1>3. ASSUME faults = 0
        PROVE  \A v \in WorkersOf(Other(newest)) : phase'[v] = "off"
    <2>1. u # newest /\ newest \in Uuid
      BY <1>1, <1>3 DEF GapInv, DoomedIsReplaced, TypeOK
    <2>2. u = Other(newest)
      BY <2>1, OnlyOther
    <2>3. QED
      BY <1>1, <2>2, WorkersOfUuid
  <1>4. HandlerEndsOther'
    BY <1>1, <1>3 DEF HandlerEndsOther
  <1>5. QED
    BY <1>2, <1>4

\* The socket is open, so a handler that is through has asked for the stop.
LEMMA EndRelease ==
  ASSUME TypeOK, HInv, SocketStays, HandlerEndsOther, NEW x \in Worker, ReleaseWorkers(x)
  PROVE  SocketStays' /\ HandlerEndsOther'
  <1>1. phase[x] = "claim" /\ UNCHANGED <<socket, doomed, newest, faults>>
    BY DEF ReleaseWorkers, bounds
  <1>2. CASE faults = 0
    <2>1. socket[x] = "open"
      BY <1>1, <1>2 DEF SocketStays
    <2>2. phase' = [phase EXCEPT ![x] = "stop"]
      BY <2>1 DEF ReleaseWorkers
    <2>3. QED
      BY <1>1, <2>2, EndPhase DEF Settled, Phase
  <1>3. CASE faults # 0
    BY <1>1, <1>3 DEF SocketStays, HandlerEndsOther
  <1>4. QED
    BY <1>2, <1>3

LEMMA EndStopOther ==
  ASSUME TypeOK, HInv, SocketStays, HandlerEndsOther, NEW x \in Worker, StopOther(x),
         faults' = 0 => UNCHANGED faults
  PROVE  SocketStays' /\ HandlerEndsOther'
  <1>1. /\ phase[x] = "stop" /\ UNCHANGED <<socket, newest>>
        /\ x[1] = newest /\ newest \in Uuid
    BY StarterIsNewest DEF StopOther, Settled, TypeOK
  <1>2. \A w \in Worker : phase'[w] = IF w = x THEN "serve" ELSE phase[w]
    BY DEF StopOther, TypeOK
  <1>3. SocketStays'
    BY <1>1, <1>2 DEF SocketStays
  <1>4. ASSUME faults' = 0
        PROVE  \/ Other(newest) \in doomed'
               \/ \A v \in WorkersOf(Other(newest)) : phase'[v] = "off"
    <2>1. doomed' = doomed \union {Other(newest)}
      BY <1>1, <1>4, BoundsAssumption DEF StopOther, StopTarget, TypeOK
    <2>2. QED
      BY <2>1
  <1>5. HandlerEndsOther'
    BY <1>1, <1>4 DEF HandlerEndsOther
  <1>6. QED
    BY <1>3, <1>5

LEMMA EndNext ==
  ASSUME TypeOK, HInv, GapInv, SocketStays, HandlerEndsOther, [Next]_vars
  PROVE  SocketStays' /\ HandlerEndsOther'
  <1>0. faults' = 0 => faults = 0 /\ UNCHANGED faults
    BY FaultsGrow
  <1>1. ASSUME NEW u \in Uuid, Deploy(u)
        PROVE  SocketStays' /\ HandlerEndsOther'
    BY <1>1, EndDeploy
  <1>2. ASSUME NEW u \in Uuid, ContainerStops(u)
        PROVE  SocketStays' /\ HandlerEndsOther'
    BY <1>2, EndStops
  <1>3. ASSUME faults' # 0
        PROVE  SocketStays' /\ HandlerEndsOther'
    BY <1>3 DEF SocketStays, HandlerEndsOther
  <1>4. ASSUME NEW u \in Uuid, Crash(u)
        PROVE  faults' # 0
    BY <1>4, BoundsAssumption DEF Crash, TypeOK
  <1>5. ASSUME NEW x \in Worker, SocketCloses(x)
        PROVE  faults' # 0
    BY <1>5, BoundsAssumption DEF SocketCloses, TypeOK
  <1>6. ASSUME NEW x \in Worker, SocketOpens(x) \/ SocketRetries(x)
        PROVE  SocketStays' /\ HandlerEndsOther'
    <2>1. \A w \in Worker :
            socket'[w] = socket[w] \/ (socket[w] = "connecting" /\ socket'[w] = "open")
                                   \/ (phase[w] # "off" /\ socket[w] = "closed")
      BY <1>6 DEF SocketOpens, SocketRetries, TypeOK
    <2>2. UNCHANGED <<phase, doomed, newest, faults>>
      BY <1>6 DEF SocketOpens, SocketRetries, bounds
    <2>3. QED
      BY <2>1, <2>2 DEF SocketStays, HandlerEndsOther
  <1>7. ASSUME NEW x \in Worker, Hello(x)
        PROVE  SocketStays' /\ HandlerEndsOther'
    <2>1. phase[x] \notin Settled /\ UNCHANGED <<socket, doomed, newest, faults>>
      BY <1>7 DEF Hello, Settled, bounds
    <2>2. CASE phase' = [phase EXCEPT ![x] = "wedged"]
      BY <2>1, <2>2, EndPhase DEF Phase
    <2>3. CASE phase' = [phase EXCEPT ![x] = "gateway"] /\ socket[x] # "connecting"
      BY <2>1, <2>3, EndPhase DEF Phase
    <2>4. QED
      BY <1>7, <2>2, <2>3 DEF Hello
  <1>8. ASSUME NEW x \in Worker, Identify(x)
        PROVE  SocketStays' /\ HandlerEndsOther'
    BY <1>8, EndPhase DEF Identify, Settled, bounds, Phase
  <1>9. ASSUME NEW x \in Worker, Ready(x)
        PROVE  SocketStays' /\ HandlerEndsOther'
    BY <1>9, EndPhase DEF Ready, FirstReady, Settled, bounds, Phase
  <1>10. ASSUME NEW x \in Worker, ReleaseWorkers(x)
         PROVE  SocketStays' /\ HandlerEndsOther'
    BY <1>10, EndRelease
  <1>11. ASSUME NEW x \in Worker, StopOther(x)
         PROVE  SocketStays' /\ HandlerEndsOther'
    BY <1>0, <1>11, EndStopOther
  <1>12. ASSUME UNCHANGED <<phase, socket, doomed, newest>>
         PROVE  SocketStays' /\ HandlerEndsOther'
    BY <1>0, <1>12 DEF SocketStays, HandlerEndsOther
  <1>13. ASSUME NEW x \in Worker, ReceiveFlag(x) \/ \E e \in EventNames : ClaimKey(x, e)
         PROVE  SocketStays' /\ HandlerEndsOther'
    BY <1>12, <1>13 DEF ReceiveFlag, ClaimKey, bounds
  <1>14. ASSUME NEW m \in Message,
                \/ \E e \in EventNames, r \in Ranges : Deliver(m, e, r)
                \/ \E w \in Worker : CheckFlag(w, m) \/ CheckKey(w, m)
         PROVE  SocketStays' /\ HandlerEndsOther'
    BY <1>12, <1>14 DEF Deliver, CheckFlag, CheckKey, wvars, bounds
  <1>15. CASE UNCHANGED vars
    BY <1>12, <1>15 DEF vars, wvars, bounds
  <1>16. ASSUME NEW x \in Worker, ClaimFails(x)
         PROVE  faults' # 0
    BY <1>16, BoundsAssumption DEF ClaimFails, TypeOK
  <1>17. QED
    BY <1>1, <1>2, <1>3, <1>4, <1>5, <1>6, <1>7, <1>8, <1>9, <1>10, <1>11, <1>13, <1>14,
       <1>15, <1>16 DEF Next, WorkerStep

\* A ready handler that ran to its end without a fault leaves the container it
\* replaces stopped, or with the controller's stop on its way, whatever the
\* deployments since (ready.ts: the request to the controller comes last).
THEOREM HandlerStopsOther == Spec => []HandlerEndsOther
  <1>1. Init => SocketStays /\ HandlerEndsOther
    BY DEF Init, SocketStays, HandlerEndsOther
  <1>2. IInv /\ GapInv /\ SocketStays /\ HandlerEndsOther /\ [Next]_vars
        => (SocketStays /\ HandlerEndsOther)'
    BY EndNext DEF IInv, HInv
  <1>3. QED
    BY <1>1, <1>2, GapInvariance, PTL DEF Spec

-----------------------------------------------------------------------------
(* The handover implements EventOwner.                                     *)

LEMMA VerdictStays == UNCHANGED progress => UNCHANGED Verdict
  BY DEF Verdict

\* A step in which one worker gets on with one event.
LEMMA VerdictMoves ==
  ASSUME TypeOK, NEW m \in Message, NEW w \in Worker, NEW p,
         progress' = [progress EXCEPT ![m][w] = p]
  PROVE  /\ Verdict[m][w] = VerdictOf(progress[m][w])
         /\ Verdict' = [Verdict EXCEPT ![m][w] = VerdictOf(p)]
  <1>1. progress \in [Message -> [Worker -> Progress]]
    BY DEF TypeOK
  <1>2. progress'[m][w] = p
    BY <1>1
  <1>3. \A n \in Message, v \in Worker :
          n # m \/ v # w => progress'[n][v] = progress[n][v]
    BY <1>1
  <1>4. Verdict' = [n \in Message |-> [v \in Worker |->
                      IF n = m /\ v = w THEN VerdictOf(p) ELSE VerdictOf(progress[n][v])]]
    BY <1>2, <1>3 DEF Verdict
  <1>5. QED
    BY <1>4 DEF Verdict

LEMMA OwnershipInit == Init => Ownership!Init
  BY DEF Init, Ownership!Init, Uuid, Verdict, VerdictOf

\* A key is written by a worker of the container started last.
LEMMA ClaimIsTake ==
  ASSUME TypeOK, HInv, NEW w \in Worker, NEW e \in EventNames, ClaimKey(w, e)
  PROVE  Ownership!Take(e)
  <1>1. w[1] = newest
    BY StarterIsNewest DEF ClaimKey, Settled
  <1>2. QED
    BY <1>1, VerdictStays DEF ClaimKey, Ownership!Take

\* The gateway delivers to the workers that are online on the range.
LEMMA DeliverArrives ==
  ASSUME TypeOK, AnswersMatchOwner, NEW m \in Message, NEW e \in EventNames, NEW r \in Ranges,
         Deliver(m, e, r)
  PROVE  \E to \in SUBSET Worker, v \in Worker :
            Ownership!Arrive(m, [name |-> e, range |-> v[2]], to)
  <1> DEFINE to == Receivers(r)
  <1>1. PICK v \in Worker : v[2] = r
    BY DEF Deliver, Receivers
  <1>2. progress \in [Message -> [Worker -> Progress]] /\ event[m] = NoEvent
    BY DEF TypeOK, Deliver
  <1>3. /\ progress'[m] = [w \in Worker |-> IF w \in to THEN "queued" ELSE "none"]
        /\ \A n \in Message : n # m => progress'[n] = progress[n]
    BY <1>2 DEF Deliver
  <1>4. VerdictOf("queued") = "pending" /\ VerdictOf("none") = "none"
    BY DEF VerdictOf
  <1>5. Verdict' = [n \in Message |->
                      IF n = m THEN [w \in Worker |-> IF w \in to THEN "pending" ELSE "none"]
                      ELSE Verdict[n]]
    <2>1. \A n \in Message, w \in Worker : n # m => VerdictOf(progress'[n][w]) = VerdictOf(progress[n][w])
      BY <1>3
    <2>2. \A w \in Worker :
            VerdictOf(progress'[m][w]) = IF w \in to THEN "pending" ELSE "none"
      BY <1>3, <1>4
    <2>3. QED
      BY <2>1, <2>2 DEF Verdict
  <1>6. Verdict' = [Verdict EXCEPT ![m] =
                      [w \in Worker |-> IF w \in to THEN "pending" ELSE "none"]]
    BY <1>5 DEF Verdict
  <1>7. to \subseteq Worker /\ \A w \in to : w[2] = v[2]
    BY <1>1 DEF Receivers
  <1>8. QED
    BY <1>1, <1>2, <1>6, <1>7 DEF Deliver, Ownership!Arrive

\* A worker that does not check answers what it owns, or has not been told.
LEMMA FlagDecides ==
  ASSUME TypeOK, HInv, NEW w \in Worker, NEW m \in Message, CheckFlag(w, m),
         event[m] # NoEvent
  PROVE  \/ UNCHANGED Ownership!vars
         \/ Ownership!Answer(m, w)
         \/ Ownership!AnswerUntold(m, w)
  <1>1. /\ progress[m][w] = "queued" /\ VerdictOf("queued") = "pending"
        /\ UNCHANGED <<eventKey, newest, event>>
    BY DEF CheckFlag, VerdictOf
  <1>2. event[m].name \in EventNames
    BY DEF TypeOK
  <1>3. CASE checkUUID[w]
    <2>1. progress' = [progress EXCEPT ![m][w] = "reading"]
      BY <1>3 DEF CheckFlag
    <2>2. VerdictOf("reading") = VerdictOf("queued")
      BY DEF VerdictOf
    <2>3. \A n \in Message, v \in Worker :
            VerdictOf(progress'[n][v]) = VerdictOf(progress[n][v])
      BY <1>1, <2>1, <2>2 DEF TypeOK
    <2>4. UNCHANGED Verdict
      BY <2>3 DEF Verdict
    <2>5. QED
      BY <1>1, <2>4 DEF Ownership!vars
  <1>4. CASE ~checkUUID[w] /\ (missed[w] \/ Untold(w))
    <2>1. progress' = [progress EXCEPT ![m][w] = "untold"]
      BY <1>4 DEF CheckFlag
    <2>2. Verdict[m][w] = "pending" /\ Verdict' = [Verdict EXCEPT ![m][w] = "untold"]
      BY <1>1, <2>1, VerdictMoves DEF VerdictOf
    <2>3. w[1] = newest => eventKey[event[m].name] = w[1]
      BY <1>2, <1>4, NewestUncheckedOwns
    <2>4. QED
      BY <1>1, <2>2, <2>3 DEF Ownership!AnswerUntold, Ownership!Decide, Ownership!Owns
  <1>5. CASE ~checkUUID[w] /\ ~(missed[w] \/ Untold(w))
    <2>1. progress' = [progress EXCEPT ![m][w] = "unchecked"]
      BY <1>5 DEF CheckFlag
    <2>2. Verdict[m][w] = "pending" /\ Verdict' = [Verdict EXCEPT ![m][w] = "answered"]
      BY <1>1, <2>1, VerdictMoves DEF VerdictOf
    <2>3. eventKey[event[m].name] = w[1]
      BY <1>2, <1>5, HInvOwns DEF UncheckedOwnsAll
    <2>4. QED
      BY <1>1, <2>2, <2>3 DEF Ownership!Answer, Ownership!Decide, Ownership!Owns
  <1>6. QED
    BY <1>3, <1>4, <1>5

LEMMA KeyDecides ==
  ASSUME TypeOK, NEW w \in Worker, NEW m \in Message, CheckKey(w, m)
  PROVE  Ownership!Answer(m, w) \/ Ownership!Ignore(m, w) \/ Ownership!Lose(m, w)
  <1>1. /\ progress[m][w] = "reading" /\ VerdictOf("reading") = "pending"
        /\ UNCHANGED <<eventKey, newest, event>>
    BY DEF CheckKey, VerdictOf
  <1>2. CASE progress' = [progress EXCEPT ![m][w] = "owned"] /\ KeyIsMine(w, event[m].name)
    <2>1. progress' = [progress EXCEPT ![m][w] = "owned"]
      BY <1>2
    <2>2. Verdict[m][w] = "pending" /\ Verdict' = [Verdict EXCEPT ![m][w] = "answered"]
      BY <1>1, <2>1, VerdictMoves DEF VerdictOf
    <2>3. QED
      BY <1>1, <1>2, <2>2 DEF KeyIsMine, Ownership!Answer, Ownership!Decide, Ownership!Owns
  <1>3. CASE progress' = [progress EXCEPT ![m][w] = "skipped"] /\ ~KeyIsMine(w, event[m].name)
    <2>1. progress' = [progress EXCEPT ![m][w] = "skipped"]
      BY <1>3
    <2>2. Verdict[m][w] = "pending" /\ Verdict' = [Verdict EXCEPT ![m][w] = "ignored"]
      BY <1>1, <2>1, VerdictMoves DEF VerdictOf
    <2>3. QED
      BY <1>1, <1>3, <2>2 DEF KeyIsMine, Ownership!Ignore, Ownership!Decide, Ownership!Owns
  <1>4. CASE progress' = [progress EXCEPT ![m][w] = "failed"]
    <2>1. Verdict[m][w] = "pending" /\ Verdict' = [Verdict EXCEPT ![m][w] = "lost"]
      BY <1>1, <1>4, VerdictMoves DEF VerdictOf
    <2>2. QED
      BY <1>1, <2>1 DEF Ownership!Lose, Ownership!Decide
  <1>5. QED
    BY <1>2, <1>3, <1>4 DEF CheckKey

LEMMA DiesIsStop ==
  ASSUME TypeOK, NEW u \in Uuid, Dies(u)
  PROVE  Ownership!Stop(u)
  <1>1. UNCHANGED <<eventKey, newest, event>>
    BY DEF Dies
  <1>2. \A m \in Message, w \in Worker :
          VerdictOf(progress'[m][w]) =
            IF w[1] = u /\ VerdictOf(progress[m][w]) = "pending" THEN "none"
            ELSE VerdictOf(progress[m][w])
    <2> TAKE m \in Message, w \in Worker
    <2>1. progress[m][w] \in Progress
      BY DEF TypeOK
    <2>2. progress'[m][w] = IF w[1] = u /\ progress[m][w] \in {"queued", "reading"}
                            THEN "none" ELSE progress[m][w]
      BY DEF Dies
    <2>3. progress[m][w] \in {"queued", "reading"} <=> VerdictOf(progress[m][w]) = "pending"
      BY <2>1 DEF Progress, VerdictOf
    <2>4. VerdictOf("none") = "none"
      BY DEF VerdictOf
    <2>5. QED
      BY <2>2, <2>3, <2>4
  <1>3. QED
    BY <1>1, <1>2 DEF Verdict, Ownership!Stop

LEMMA OwnershipNext ==
  ASSUME TypeOK, HInv, AnswersMatchOwner, [Next]_vars
  PROVE  [Ownership!Next]_(Ownership!vars)
  <1>1. ASSUME NEW u \in Uuid, Deploy(u)
        PROVE  Ownership!Start(u)
    BY <1>1, VerdictStays DEF Deploy, mvars, Ownership!Start
  <1>2. ASSUME NEW u \in Uuid, ContainerStops(u) \/ Crash(u)
        PROVE  Ownership!Stop(u)
    BY <1>2, DiesIsStop DEF ContainerStops, Crash
  <1>3. ASSUME NEW w \in Worker, NEW e \in EventNames, ClaimKey(w, e)
        PROVE  Ownership!Take(e)
    BY <1>3, ClaimIsTake
  <1>4. ASSUME NEW m \in Message, NEW e \in EventNames, NEW r \in Ranges, Deliver(m, e, r)
        PROVE  Ownership!Next
    BY <1>4, DeliverArrives DEF Ownership!Next
  <1>5. ASSUME NEW w \in Worker, NEW m \in Message, CheckFlag(w, m)
        PROVE  [Ownership!Next]_(Ownership!vars)
    <2>1. event[m] # NoEvent
      BY <1>5 DEF CheckFlag, AnswersMatchOwner
    <2>2. QED
      BY <1>5, <2>1, FlagDecides DEF Ownership!Next
  <1>6. ASSUME NEW w \in Worker, NEW m \in Message, CheckKey(w, m)
        PROVE  Ownership!Next
    BY <1>6, KeyDecides DEF Ownership!Next
  <1>7. ASSUME UNCHANGED <<eventKey, newest, event, progress>>
        PROVE  UNCHANGED Ownership!vars
    BY <1>7, VerdictStays DEF Ownership!vars
  <1>8. ASSUME NEW w \in Worker,
               \/ SocketCloses(w) \/ SocketOpens(w) \/ SocketRetries(w) \/ ReceiveFlag(w)
               \/ Hello(w) \/ Identify(w) \/ Ready(w) \/ ClaimFails(w)
               \/ ReleaseWorkers(w) \/ StopOther(w)
        PROVE  UNCHANGED <<eventKey, newest, event, progress>>
    BY <1>8 DEF SocketCloses, SocketOpens, SocketRetries, ReceiveFlag, Hello, Identify,
       Ready, ClaimFails, ReleaseWorkers, StopOther, mvars
  <1>9. CASE UNCHANGED vars
    BY <1>7, <1>9 DEF vars, mvars
  <1>10. QED
    BY <1>1, <1>2, <1>3, <1>4, <1>5, <1>6, <1>7, <1>8, <1>9
       DEF Next, WorkerStep, Ownership!Next

\* The flag, the redis read after it and the messages of the relay decide about
\* every event as one look at the owner of its name would, except where a
\* worker has not been told of a restart; and only the container started last
\* becomes an owner.
THEOREM ImplementsOwner == Spec => KeepsOwner
  <1>1. IInv /\ [Next]_vars => [Ownership!Next]_(Ownership!vars)
    BY OwnershipNext DEF IInv, HInv
  <1>2. QED
    BY <1>1, OwnershipInit, Invariance, PTL DEF Spec, KeepsOwner, Ownership!Spec
=============================================================================
