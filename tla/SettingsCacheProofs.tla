------------------------- MODULE SettingsCacheProofs -------------------------
(* The settings cache, for every number of requests, changes and faults.   *)
EXTENDS SettingsCache, TLAPS

-----------------------------------------------------------------------------
(* Types: the log only grows, so what points into it keeps doing so.       *)

LEMMA InitIInv == Init => IInv
  <1> SUFFICES ASSUME Init PROVE IInv
    OBVIOUS
  <1> USE BoundsAssumption DEF Init, Nothing
  <1>1. TypeOK
    BY DEF TypeOK, Kind, Place
  <1>2. AnsweredOnce /\ RowExists /\ ChangesMade /\ FloorHolds
    BY DEF AnsweredOnce, RowExists, ChangesMade, FloorHolds
  <1>3. QED
    BY <1>1, <1>2 DEF IInv

LEMMA Places ==
  ASSUME TypeOK, NEW r \in Requests, NEW l \in Place, Goto(r, l)
  PROVE  /\ pc' \in [Requests -> Place]
         /\ pc'[r] = l
         /\ \A q \in Requests : q # r => pc'[q] = pc[q]
  BY DEF TypeOK, Goto

LEMMA AnswerPlaces ==
  ASSUME NEW r \in Requests
  PROVE  AfterAnswer(r) \in {"update", "menu", "done"}
  BY DEF AfterAnswer

LEMMA InsertTypes ==
  ASSUME TypeOK, NEW r \in Requests, InsertRow(r)
  PROVE  /\ log' \in Seq(Row) /\ faults' \in 0..MaxFaults
         /\ Len(log') >= Len(log)
         /\ log # <<>> => log' = log
         /\ log' = log \/ (log = <<>> /\ log' = <<DefaultRow>>)
  <1>1. DefaultRow \in Row
    BY DEF DefaultRow, Row
  <1>2. CASE log = <<>> /\ log' = <<DefaultRow>> /\ UNCHANGED faults
    BY <1>1, <1>2 DEF TypeOK
  <1>3. CASE log # <<>> /\ UNCHANGED <<log, faults>>
    BY <1>3 DEF TypeOK
  <1>4. CASE faults < MaxFaults /\ faults' = faults + 1 /\ UNCHANGED log
    BY <1>4, BoundsAssumption DEF TypeOK
  <1>5. QED
    BY <1>2, <1>3, <1>4 DEF InsertRow

LEMMA ChangeTypes ==
  ASSUME TypeOK, NEW r \in Requests, log # <<>>, log' = Append(log, RowWithChange(r))
  PROVE  /\ RowWithChange(r) \in Row
         /\ log' \in Seq(Row) /\ Len(log') = Len(log) + 1
  <1>1. log[Len(log)] \in Row
    BY DEF TypeOK
  <1>2. ColumnOf(r) \in Column
    BY DEF ColumnOf, Column
  <1>3. RowWithChange(r) \in Row
    BY <1>1, <1>2 DEF RowWithChange, Row
  <1>4. QED
    BY <1>3 DEF TypeOK

\* What a request has changed stays in the log, as long as it is the same kind
\* of request.
LEMMA ChangesStay ==
  ASSUME ChangesMade, NEW r \in Requests, changed'[r], ~blind'[r], changed[r], ~blind[r],
         kind'[r] = kind[r], \A v \in 1..Len(log) : v \in 1..Len(log') /\ log'[v] = log[v]
  PROVE  Made(r)'
  BY DEF ChangesMade, Made, ColumnOf

\* A step that changes no row.
LEMMA SameChanges ==
  ASSUME ChangesMade, UNCHANGED <<log, changed>>,
         \A q \in Requests : changed[q] => kind'[q] = kind[q] /\ blind'[q] = blind[q]
  PROVE  ChangesMade'
  BY DEF ChangesMade, Made, ColumnOf

-----------------------------------------------------------------------------
(* The inductive invariant, one step per action.                           *)

LEMMA StepKeepsIInv == IInv /\ [Next]_vars => IInv'
  <1> SUFFICES ASSUME IInv, [Next]_vars PROVE IInv'
    OBVIOUS
  <1> USE DEF IInv
  <1>1. ASSUME NEW r \in Requests, NEW k \in Kind, Start(r, k)
        PROVE  IInv'
    <2> USE <1>1 DEF Start
    <2>1. FirstCall(k) \in {"update", "get"} /\ (FirstCall(k) = "update" => k = "press")
      BY DEF FirstCall
    <2>2. /\ pc' \in [Requests -> Place] /\ pc'[r] = FirstCall(k)
          /\ \A q \in Requests : q # r => pc'[q] = pc[q]
      BY <2>1, Places DEF Place
    <2>3. /\ blind' \in [Requests -> BOOLEAN]
          /\ \A q \in Requests : q # r => blind'[q] = blind[q]
          /\ k = "press" => \E q \in Requests : pc[q] = "menu" /\ blind'[r] = blind[q]
      BY DEF TypeOK
    <2>4. TypeOK'
      BY <2>2, <2>3 DEF TypeOK
    <2>5. AnsweredOnce'
      BY <2>1, <2>2 DEF AnsweredOnce
    <2>6. RowExists'
      BY <2>1, <2>2, <2>3 DEF RowExists
    <2>7. ChangesMade'
      <3>1. ~changed[r] /\ \A q \in Requests : q # r => kind'[q] = kind[q]
        BY DEF AnsweredOnce, TypeOK
      <3>2. QED
        BY <2>3, <3>1, SameChanges
    <2>8. FloorHolds'
      BY <2>1, <2>2 DEF FloorHolds
    <2>9. QED
      BY <2>4, <2>5, <2>6, <2>7, <2>8
  <1>2. ASSUME NEW r \in Requests, Get(r)
        PROVE  IInv'
    <2> USE <1>2 DEF Get
    <2>1. PICK l \in {"update", "menu", "done", "select"} :
             /\ Goto(r, l)
             /\ l # "select" => cache # Nothing
             /\ l = "select" => UNCHANGED used
      BY AnswerPlaces
    <2>2. /\ pc' \in [Requests -> Place] /\ pc'[r] = l
          /\ \A q \in Requests : q # r => pc'[q] = pc[q]
      BY <2>1, Places DEF Place
    <2>3. TypeOK'
      BY <2>2 DEF TypeOK
    <2>4. AnsweredOnce'
      BY <2>1, <2>2 DEF AnsweredOnce, TypeOK
    <2>5. cache # Nothing => log # <<>>
      BY DEF TypeOK, Nothing
    <2>6. RowExists'
      BY <2>1, <2>2, <2>5 DEF RowExists
    <2>7. ChangesMade' /\ FloorHolds'
      BY <2>1, <2>2, SameChanges DEF FloorHolds
    <2>8. QED
      BY <2>3, <2>4, <2>6, <2>7
  <1>3. ASSUME NEW r \in Requests, Select(r)
        PROVE  IInv'
    <2> USE <1>3 DEF Select
    <2>1. ASSUME NEW l \in {"insert", "blank"}, Goto(r, l), UNCHANGED got
          PROVE  IInv'
      <3>1. /\ pc' \in [Requests -> Place] /\ pc'[r] = l
            /\ \A q \in Requests : q # r => pc'[q] = pc[q]
        BY <2>1, Places DEF Place
      <3>2. TypeOK'
        BY <2>1, <3>1 DEF TypeOK
      <3>3. AnsweredOnce' /\ RowExists' /\ ChangesMade' /\ FloorHolds'
        BY <2>1, <3>1, SameChanges DEF AnsweredOnce, RowExists, FloorHolds
      <3>4. QED
        BY <3>2, <3>3
    <2>2. CASE log # <<>> /\ Goto(r, "set") /\ got' = [got EXCEPT ![r] = CurrentRow(r)]
      <3>1. /\ pc' \in [Requests -> Place] /\ pc'[r] = "set"
            /\ \A q \in Requests : q # r => pc'[q] = pc[q]
        BY <2>2, Places DEF Place
      <3>2. CurrentRow(r) \in 1..Len(log) /\ CurrentRow(r) >= floor
        BY <2>2 DEF CurrentRow, TypeOK
      <3>3. TypeOK'
        <4>1. got' \in [Requests -> 0..Len(log)]
          BY <2>2, <3>2 DEF TypeOK
        <4>2. QED
          BY <2>2, <3>1, <4>1 DEF TypeOK
      <3>4. AnsweredOnce'
        <4>1. got'[r] # Nothing /\ \A q \in Requests : q # r => got'[q] = got[q]
          BY <2>2, <3>2 DEF TypeOK, Nothing
        <4>2. QED
          BY <2>2, <3>1, <4>1 DEF AnsweredOnce
      <3>5. RowExists'
        BY <3>1 DEF RowExists
      <3>6. ChangesMade' /\ FloorHolds'
        BY <2>2, <3>1, <3>2, SameChanges DEF FloorHolds, TypeOK
      <3>7. QED
        BY <3>3, <3>4, <3>5, <3>6
    <2>3. QED
      BY <2>1, <2>2
  <1>4. ASSUME NEW r \in Requests, Insert(r)
        PROVE  IInv'
    <2> USE <1>4 DEF Insert
    <2>1. /\ pc' \in [Requests -> Place] /\ pc'[r] = "select"
          /\ \A q \in Requests : q # r => pc'[q] = pc[q]
      BY Places DEF Place
    <2>2. /\ log' \in Seq(Row) /\ faults' \in 0..MaxFaults
          /\ Len(log') >= Len(log)
          /\ log # <<>> => log' = log
          /\ log' = log \/ log = <<>>
      BY InsertTypes
    <2>3. TypeOK'
      BY <2>1, <2>2 DEF TypeOK
    <2>4. AnsweredOnce'
      BY <2>1 DEF AnsweredOnce
    <2>5. RowExists'
      BY <2>1, <2>2 DEF RowExists
    <2>6. ChangesMade'
      <3>1. \A v \in 1..Len(log) : v \in 1..Len(log') /\ log'[v] = log[v]
        BY <2>2
      <3>2. QED
        BY <3>1, ChangesStay DEF ChangesMade
    <2>7. FloorHolds'
      BY <2>1 DEF FloorHolds
    <2>8. QED
      BY <2>3, <2>4, <2>5, <2>6, <2>7
  <1>5. ASSUME NEW r \in Requests, Store(r)
        PROVE  IInv'
    <2> USE <1>5 DEF Store
    <2>1. PICK l \in {"update", "menu", "done"} : Goto(r, l)
      BY AnswerPlaces
    <2>2. /\ pc' \in [Requests -> Place] /\ pc'[r] = l
          /\ \A q \in Requests : q # r => pc'[q] = pc[q]
      BY <2>1, Places DEF Place
    <2>3. got[r] \in 1..Len(log) /\ got[r] >= floor
      BY DEF TypeOK, AnsweredOnce, FloorHolds, Nothing
    <2>4. floor' = floor \/ (floor' = got[r] /\ Quiet(Requests \ {r}, got[r]))
      OBVIOUS
    <2>5. TypeOK'
      BY <2>2, <2>3, <2>4 DEF TypeOK
    <2>6. AnsweredOnce'
      <3>1. \A q \in Requests : q # r => used'[q] = used[q]
        BY DEF TypeOK
      <3>2. QED
        BY <2>2, <3>1 DEF AnsweredOnce
    <2>7. RowExists'
      BY <2>2, <2>3 DEF RowExists, TypeOK
    <2>8. FloorHolds'
      <3>1. cache' >= floor'
        BY <2>3, <2>4 DEF TypeOK
      <3>2. ASSUME NEW q \in Requests, pc'[q] = "set"
            PROVE  got[q] >= floor'
        <4>1. q # r /\ pc[q] = "set" /\ got[q] >= floor
          BY <2>2, <3>2 DEF FloorHolds
        <4>2. QED
          BY <2>4, <4>1 DEF Quiet
      <3>3. QED
        BY <3>1, <3>2 DEF FloorHolds
    <2>9. ChangesMade'
      BY SameChanges
    <2>10. QED
      BY <2>5, <2>6, <2>7, <2>8, <2>9
  <1>6. ASSUME NEW r \in Requests, Update(r)
        PROVE  IInv'
    <2> USE <1>6 DEF Update
    <2>1. /\ pc' \in [Requests -> Place] /\ pc'[r] = "select"
          /\ \A q \in Requests : q # r => pc'[q] = pc[q]
      BY Places DEF Place
    <2>2. log' \in Seq(Row) /\ Len(log') >= Len(log) /\ (log # <<>> => log' # <<>>)
      <3>1. CASE log # <<>> /\ log' = Append(log, RowWithChange(r))
        <4>1. log' \in Seq(Row) /\ Len(log') = Len(log) + 1 /\ Len(log) \in Nat
          BY <3>1, ChangeTypes DEF TypeOK
        <4>2. log' # <<>>
          BY <4>1
        <4>3. QED
          BY <4>1, <4>2
      <3>2. CASE UNCHANGED log
        BY <3>2 DEF TypeOK
      <3>3. QED
        BY <3>1, <3>2
    <2>3. TypeOK'
      <3>1. changed' \in [Requests -> BOOLEAN]
        BY DEF TypeOK
      <3>2. /\ cache' \in 0..Len(log') /\ floor' \in 0..Len(log')
            /\ got' \in [Requests -> 0..Len(log')]
            /\ used' \in [Requests -> 0..Len(log')]
        BY <2>2 DEF TypeOK
      <3>3. QED
        BY <2>1, <2>2, <3>1, <3>2 DEF TypeOK
    <2>4. AnsweredOnce'
      <3>1. changed'[r] /\ \A q \in Requests : q # r => changed'[q] = changed[q]
        BY DEF TypeOK
      <3>2. QED
        BY <2>1, <3>1 DEF AnsweredOnce
    <2>5. RowExists'
      BY <2>1, <2>2 DEF RowExists
    <2>6. ChangesMade'
      <3> SUFFICES ASSUME NEW q \in Requests, changed'[q], ~blind[q]
                   PROVE  Made(q)'
        BY DEF ChangesMade
      <3>1. CASE q # r
        <4>1. changed[q] /\ \A v \in 1..Len(log) : v \in 1..Len(log') /\ log'[v] = log[v]
          BY <3>1 DEF TypeOK
        <4>2. QED
          BY <4>1, ChangesStay
      <3>2. CASE q = r
        <4>1. log # <<>>
          BY <3>2 DEF RowExists
        <4>2. log' = Append(log, RowWithChange(r)) /\ Len(log) \in Nat \ {0}
          BY <4>1 DEF TypeOK
        <4>3. /\ Len(log') = Len(log) + 1 /\ log'[Len(log)+1] = RowWithChange(r)
              /\ log[Len(log)] \in Row
          BY <4>1, <4>2, ChangeTypes DEF TypeOK
        <4>4. RowWithChange(r)[ColumnOf(r)] = r
          BY <4>3 DEF RowWithChange, Row, Column, ColumnOf
        <4>5. QED
          BY <3>2, <4>2, <4>3, <4>4 DEF Made, ColumnOf
      <3>3. QED
        BY <3>1, <3>2
    <2>7. FloorHolds'
      BY <2>1 DEF FloorHolds
    <2>8. QED
      BY <2>3, <2>4, <2>5, <2>6, <2>7
  <1>7. ASSUME NEW r \in Requests, Fail(r)
        PROVE  IInv'
    <2> USE <1>7 DEF Fail
    <2>1. /\ pc' \in [Requests -> Place] /\ pc'[r] = "failed"
          /\ \A q \in Requests : q # r => pc'[q] = pc[q]
      BY Places DEF Place
    <2>2. TypeOK'
      BY <2>1, BoundsAssumption DEF TypeOK
    <2>3. AnsweredOnce' /\ RowExists' /\ ChangesMade' /\ FloorHolds'
      BY <2>1, SameChanges DEF AnsweredOnce, RowExists, FloorHolds
    <2>4. QED
      BY <2>2, <2>3
  <1>8. CASE Expire
    <2> USE <1>8 DEF Expire, rvars
    <2>1. floor' \in 0..Len(log)
      BY DEF TypeOK
    <2>2. TypeOK'
      BY <2>1 DEF TypeOK, Nothing
    <2>3. AnsweredOnce' /\ RowExists' /\ ChangesMade'
      BY SameChanges DEF AnsweredOnce, RowExists
    <2>4. ASSUME NEW r \in Requests, pc[r] = "set"
          PROVE  got[r] >= floor'
      BY <2>4 DEF FloorHolds, Quiet
    <2>5. FloorHolds'
      BY <2>4 DEF FloorHolds
    <2>6. QED
      BY <2>2, <2>3, <2>5
  <1>9. ASSUME NEW r \in Requests, Blank(r)
        PROVE  IInv'
    <2> USE <1>9 DEF Blank
    <2>1. PICK l \in {"update", "menu", "done"} :
             /\ Goto(r, l)
             /\ l # "done" => blind'[r]
      BY AnswerPlaces DEF TypeOK
    <2>2. /\ pc' \in [Requests -> Place] /\ pc'[r] = l
          /\ \A q \in Requests : q # r => pc'[q] = pc[q]
      BY <2>1, Places DEF Place
    <2>3. /\ blind' \in [Requests -> BOOLEAN]
          /\ \A q \in Requests : q # r \/ changed[q] => blind'[q] = blind[q]
      BY DEF TypeOK
    <2>4. TypeOK'
      BY <2>2, <2>3 DEF TypeOK, Nothing
    <2>5. AnsweredOnce'
      BY <2>2 DEF AnsweredOnce
    <2>6. RowExists'
      BY <2>1, <2>2, <2>3 DEF RowExists
    <2>7. ChangesMade' /\ FloorHolds'
      BY <2>2, <2>3, SameChanges DEF FloorHolds
    <2>8. QED
      BY <2>4, <2>5, <2>6, <2>7
  <1>10. CASE JoinsOrLeaves
    <2> USE <1>10 DEF JoinsOrLeaves, rvars
    <2>1. TypeOK'
      BY DEF TypeOK
    <2>2. AnsweredOnce' /\ RowExists' /\ ChangesMade' /\ FloorHolds'
      BY SameChanges DEF AnsweredOnce, RowExists, FloorHolds
    <2>3. QED
      BY <2>1, <2>2
  <1>11. CASE UNCHANGED vars
    <2>1. TypeOK' /\ AnsweredOnce' /\ RowExists' /\ ChangesMade' /\ FloorHolds'
      BY <1>11, SameChanges DEF vars, rvars, TypeOK, AnsweredOnce, RowExists, FloorHolds
    <2>2. QED
      BY <2>1
  <1>12. QED
    BY <1>1, <1>2, <1>3, <1>4, <1>5, <1>6, <1>7, <1>8, <1>9, <1>10, <1>11
       DEF Next, RequestStep

\* The inductive invariant holds in every reachable state.
THEOREM Invariance == Spec => []IInv
  BY InitIInv, StepKeepsIInv, PTL DEF Spec

\* Every variable keeps its type.
THEOREM TypeCorrect == Spec => []TypeOK
  <1>1. IInv => TypeOK
    BY DEF IInv
  <1>2. QED
    BY <1>1, Invariance, PTL

\* After a quiet confirmation or expiry no older row is stored in redis
\* (prefix.ts, language.ts and redisCache of both handlers).
THEOREM FloorKept == Spec => []FloorHolds
  <1>1. IInv => FloorHolds
    BY DEF IInv
  <1>2. QED
    BY <1>1, Invariance, PTL

\* A change that is confirmed was made, unless the settings it started from were
\* the defaults of a guild without a row (update.ts, read.ts:27).
THEOREM ConfirmedMade == Spec => []ConfirmedIsMade
  <1>1. IInv => ConfirmedIsMade
    BY DEF IInv, ChangesMade, ConfirmedIsMade
  <1>2. QED
    BY <1>1, Invariance, PTL

-----------------------------------------------------------------------------
(* The settings are a register.                                            *)

LEMMA InitRegister == Init => Register!Init
  BY DEF Init, Register!Init, Nothing

LEMMA SameRegister ==
  ASSUME UNCHANGED <<log, used, floor>>
  PROVE  [Register!Next]_(Register!vars)
  BY DEF Register!vars

\* What a request is answered with is a state of the row at or above the floor.
LEMMA AnswerRegister ==
  ASSUME TypeOK, NEW r \in Requests, NEW v \in 1..Len(log), v >= floor,
         used[r] = Nothing, used' = [used EXCEPT ![r] = v], UNCHANGED <<log, floor>>
  PROVE  Register!Next
  <1>1. Register!Answer(r)
    BY DEF Register!Answer, Nothing
  <1>2. QED
    BY <1>1 DEF Register!Next

LEMMA RaiseRegister ==
  ASSUME floor' \in floor..Len(log), UNCHANGED <<log, used>>
  PROVE  Register!Next
  BY DEF Register!Next, Register!Raise

LEMMA StepRegister == IInv /\ [Next]_vars => [Register!Next]_(Register!vars)
  <1> SUFFICES ASSUME IInv, [Next]_vars PROVE [Register!Next]_(Register!vars)
    OBVIOUS
  <1> USE DEF IInv
  <1>1. ASSUME NEW r \in Requests, NEW k \in Kind, Start(r, k)
        PROVE  [Register!Next]_(Register!vars)
    BY <1>1, SameRegister DEF Start
  <1>2. ASSUME NEW r \in Requests, Get(r)
        PROVE  [Register!Next]_(Register!vars)
    <2>1. CASE cache # Nothing /\ used' = [used EXCEPT ![r] = cache]
      <3>1. cache \in 1..Len(log) /\ cache >= floor /\ used[r] = Nothing
        BY <1>2, <2>1 DEF Get, TypeOK, FloorHolds, AnsweredOnce, Nothing
      <3>2. QED
        BY <1>2, <2>1, <3>1, AnswerRegister DEF Get
    <2>2. CASE UNCHANGED used
      BY <1>2, <2>2, SameRegister DEF Get
    <2>3. QED
      BY <1>2, <2>1, <2>2 DEF Get
  <1>3. ASSUME NEW r \in Requests, Select(r)
        PROVE  [Register!Next]_(Register!vars)
    BY <1>3, SameRegister DEF Select
  <1>4. ASSUME NEW r \in Requests, Insert(r)
        PROVE  [Register!Next]_(Register!vars)
    <2>1. CASE UNCHANGED log
      BY <1>4, <2>1, SameRegister DEF Insert
    <2>2. CASE log = <<>> /\ log' = <<DefaultRow>>
      <3>1. Register!Create
        BY <1>4, <2>2 DEF Insert, Register!Create, DefaultRow
      <3>2. QED
        BY <3>1 DEF Register!Next
    <2>3. QED
      BY <1>4, <2>1, <2>2, InsertTypes DEF Insert
  <1>5. ASSUME NEW r \in Requests, Store(r)
        PROVE  [Register!Next]_(Register!vars)
    <2>1. got[r] \in 1..Len(log) /\ got[r] >= floor
      BY <1>5 DEF Store, TypeOK, AnsweredOnce, FloorHolds, Nothing
    <2>2. CASE ~changed[r]
      <3>1. used[r] = Nothing
        BY <1>5, <2>2 DEF Store, AnsweredOnce
      <3>2. QED
        BY <1>5, <2>1, <2>2, <3>1, AnswerRegister DEF Store
    <2>3. CASE changed[r]
      <3>1. floor' \in floor..Len(log)
        BY <1>5, <2>1, <2>3 DEF Store, TypeOK
      <3>2. QED
        BY <1>5, <2>3, <3>1, RaiseRegister DEF Store
    <2>4. QED
      BY <2>2, <2>3
  <1>6. ASSUME NEW r \in Requests, Update(r)
        PROVE  [Register!Next]_(Register!vars)
    <2>1. CASE UNCHANGED log
      BY <1>6, <2>1, SameRegister DEF Update
    <2>2. CASE log # <<>> /\ log' = Append(log, RowWithChange(r))
      <3>1. Register!Change(r, ColumnOf(r)) /\ ColumnOf(r) \in Column
        BY <1>6, <2>2 DEF Update, Register!Change, RowWithChange, ColumnOf, Column
      <3>2. QED
        BY <3>1 DEF Register!Next
    <2>3. QED
      BY <1>6, <2>1, <2>2 DEF Update
  <1>7. ASSUME NEW r \in Requests, Fail(r)
        PROVE  [Register!Next]_(Register!vars)
    BY <1>7, SameRegister DEF Fail
  <1>8. CASE Expire
    <2>1. floor' \in floor..Len(log)
      BY <1>8 DEF Expire, TypeOK
    <2>2. QED
      BY <1>8, <2>1, RaiseRegister DEF Expire, rvars
  <1>9. CASE UNCHANGED vars
    BY <1>9, SameRegister DEF vars, rvars
  <1>10. ASSUME NEW r \in Requests, Blank(r)
         PROVE  [Register!Next]_(Register!vars)
    BY <1>10, SameRegister DEF Blank
  <1>11. CASE JoinsOrLeaves
    BY <1>11, SameRegister DEF JoinsOrLeaves, rvars
  <1>12. QED
    BY <1>1, <1>2, <1>3, <1>4, <1>5, <1>6, <1>7, <1>8, <1>9, <1>10, <1>11
       DEF Next, RequestStep

\* However reads, changes, expiries and failures interleave, the settings of a
\* guild are a register of single-column changes with a rising floor.
THEOREM ImplementsRegister == Spec => KeepsRegister
  BY Invariance, InitRegister, StepRegister, PTL DEF Spec, KeepsRegister, Register!Spec
=============================================================================
