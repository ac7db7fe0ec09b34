---------------------------- MODULE SettingsCache ----------------------------
(***************************************************************************)
(* The settings of one guild: its row in postgres, the copy of it in redis *)
(* that expires after 60 seconds, and the requests of all workers that use *)
(* or change them.  Every message and slash command reads the copy, or the *)
(* row and stores the copy; a change updates the row, reads it again and   *)
(* stores the copy.  Nothing makes these steps of two requests exclude     *)
(* each other.  Without a row a request inserts it, if the guild is among  *)
(* bot.guilds, and otherwise goes on with the default values.              *)
(***************************************************************************)
EXTENDS Naturals, Sequences

CONSTANTS
    Requests,     \* messages, slash commands, and presses of a language button
    Default,      \* the value of a column nobody has changed
    MaxVersions,  \* bound on the states of the row
    MaxFaults     \* bound on failed calls of redis and postgres

ASSUME DefaultAssumption == Default \notin Requests
ASSUME BoundsAssumption == MaxVersions \in Nat /\ MaxFaults \in Nat

Column == {"language", "prefix"}
Row == [Column -> Requests \union {Default}]
DefaultRow == [c \in Column |-> Default]

\* "read" is every message or slash command that changes nothing; "language"
\* posts the buttons, "press" presses one.
Kind == {"read", "prefix", "language", "press"}
Nothing == 0

VARIABLES
    log,      \* history: every state of the row; <<>> is no row
    cache,    \* redis key setting-<guild>: a state of the row, or Nothing
    kind,     \* kind[r]: what the request is
    pc,       \* pc[r]: the awaited call it is at
    got,      \* got[r]: the state it selected last
    used,     \* used[r]: the state it was answered with
    changed,  \* changed[r]: its own UPDATE is done
    blind,    \* history: it, or the request whose button it presses, was answered without a row
    known,    \* the guild is among bot.guilds
    floor,    \* history: the state of the row at the last quiet moment
    faults    \* number of faults

rvars == <<kind, pc, got, used, changed, blind>>
vars == <<log, cache, rvars, known, floor, faults>>

Init ==
    /\ log = <<>>
    /\ cache = Nothing
    /\ kind = [r \in Requests |-> "read"]
    /\ pc = [r \in Requests |-> "idle"]
    /\ got = [r \in Requests |-> Nothing]
    /\ used = [r \in Requests |-> Nothing]
    /\ changed = [r \in Requests |-> FALSE]
    /\ blind = [r \in Requests |-> FALSE]
    /\ known \in BOOLEAN
    /\ floor = 0
    /\ faults = 0

-----------------------------------------------------------------------------
Goto(r, l) == pc' = [pc EXCEPT ![r] = l]

\* Messages get their settings first.  A button can be pressed while the
\* message that posted it collects.  A slash command comes from any guild, a
\* message whose permissions are looked up from a known one.
StraightToUpdate(k) == IF k \in {"press", "prefix"} THEN "update" ELSE "get"
FirstCall(k) == IF k = "press" THEN "update" ELSE "get"

Start(r, k) ==
    /\ pc[r] = "idle"
    /\ \/ k = "read" /\ UNCHANGED blind
       \/ k \in {"prefix", "language"} /\ known /\ UNCHANGED blind
       \/ /\ k = "press"
          /\ \E q \in Requests : pc[q] = "menu" /\ blind' = [blind EXCEPT ![r] = blind[q]]
    /\ kind' = [kind EXCEPT ![r] = k]
    /\ Goto(r, FirstCall(k))
    /\ UNCHANGED <<log, cache, got, used, changed, known, floor, faults>>

\* The settings are there: what the request does with them.
AfterAnswer(r) ==
    CASE kind[r] = "prefix"   -> "update"
      [] kind[r] = "language" -> "menu"
      [] OTHER                -> "done"

\* redisCache: the copy, if there is one.
Get(r) ==
    /\ pc[r] = "get"
    /\ \/ /\ cache # Nothing
          /\ used' = [used EXCEPT ![r] = cache]
          /\ Goto(r, AfterAnswer(r))
       \/ /\ cache = Nothing
          /\ Goto(r, "select")
          /\ UNCHANGED used
    /\ UNCHANGED <<log, cache, kind, got, changed, blind, known, floor, faults>>

\* getSetting: the row; or createSetting and then the row; or undefined.
SettingsUsed(r) == IF used[r] = Nothing THEN Len(log) ELSE used[r]
CurrentRow(r) == Len(log)

Select(r) ==
    /\ pc[r] = "select"
    /\ \/ log # <<>> /\ Goto(r, "set") /\ got' = [got EXCEPT ![r] = CurrentRow(r)]
       \/ log = <<>> /\ known /\ Goto(r, "insert") /\ UNCHANGED got
       \/ log = <<>> /\ ~known /\ Goto(r, "blank") /\ UNCHANGED got
    /\ UNCHANGED <<log, cache, kind, used, changed, blind, known, floor, faults>>

\* createSetting: whatever the INSERT throws is dropped, the row of somebody
\* else as well as a failure of it or of cacheGuild, which follows it and
\* changes nothing here; getSetting calls itself again.
InsertNothing(r) == UNCHANGED <<log, faults>>

InsertRow(r) ==
    \/ log = <<>> /\ log' = <<DefaultRow>> /\ UNCHANGED faults
    \/ log # <<>> /\ UNCHANGED <<log, faults>>
    \/ faults < MaxFaults /\ faults' = faults + 1 /\ UNCHANGED log

Insert(r) ==
    /\ pc[r] = "insert"
    /\ Goto(r, "select")
    /\ InsertRow(r)
    /\ UNCHANGED <<cache, kind, got, used, changed, blind, known, floor>>

\* None of the requests is about to store a row older than v.
Quiet(requests, v) == \A q \in requests : pc[q] = "set" => got[q] >= v

\* SET setting-<guild>: by a reader, which then has its answer, or by a
\* writer, which then confirms its change.
Store(r) ==
    /\ pc[r] = "set"
    /\ cache' = got[r]
    /\ \/ /\ ~changed[r]
          /\ used' = [used EXCEPT ![r] = got[r]]
          /\ Goto(r, AfterAnswer(r))
          /\ UNCHANGED floor
       \/ /\ changed[r]
          /\ Goto(r, "done")
          /\ floor' = IF Quiet(Requests \ {r}, got[r]) THEN got[r] ELSE floor
          /\ UNCHANGED used
    /\ UNCHANGED <<log, kind, got, changed, blind, known, faults>>

\* SET of undefined stores the empty value, which redisCache takes for no copy;
\* the request goes on with the default prefix and language.
Blank(r) ==
    /\ pc[r] = "blank"
    /\ cache' = Nothing
    /\ \/ changed[r] /\ Goto(r, "done") /\ UNCHANGED blind
       \/ ~changed[r] /\ Goto(r, AfterAnswer(r)) /\ blind' = [blind EXCEPT ![r] = TRUE]
    /\ UNCHANGED <<log, kind, got, used, changed, known, floor, faults>>

\* UPDATE settings SET <column>: nothing, if there is no row.  The SELECT that
\* updateLanguage makes before has no effect: its test of the length of the
\* rows is misspelt.
ColumnOf(r) == IF kind[r] = "prefix" THEN "prefix" ELSE "language"

UsedWithChange(r) == [log[SettingsUsed(r)] EXCEPT ![ColumnOf(r)] = r]
RowWithChange(r) == [log[Len(log)] EXCEPT ![ColumnOf(r)] = r]

Update(r) ==
    /\ pc[r] = "update"
    /\ \/ /\ log # <<>> /\ Len(log) < MaxVersions
          /\ log' = Append(log, RowWithChange(r))
       \/ log = <<>> /\ UNCHANGED log
    /\ changed' = [changed EXCEPT ![r] = TRUE]
    /\ Goto(r, "select")
    /\ UNCHANGED <<cache, kind, got, used, blind, known, floor, faults>>

\* A call is rejected, and the request with it.
Fail(r) ==
    /\ faults < MaxFaults
    /\ pc[r] \in {"get", "select", "set", "blank", "update"}
    /\ Goto(r, "failed")
    /\ faults' = faults + 1
    /\ UNCHANGED <<log, cache, kind, got, used, changed, blind, known, floor>>

\* 'EX', 60.
NeverExpires == FALSE
MayExpire == cache # Nothing

Expire ==
    /\ MayExpire
    /\ cache' = Nothing
    /\ floor' = IF Quiet(Requests, Len(log)) THEN Len(log) ELSE floor
    /\ UNCHANGED <<log, rvars, known, faults>>

\* The bot joins or leaves the guild, or Discord reports an outage of it.
JoinsOrLeaves ==
    /\ known' = ~known
    /\ UNCHANGED <<log, cache, rvars, floor, faults>>

-----------------------------------------------------------------------------
RequestStep(r) == Get(r) \/ Select(r) \/ Insert(r) \/ Store(r) \/ Blank(r) \/ Update(r)

Next ==
    \/ \E r \in Requests : RequestStep(r) \/ Fail(r)
    \/ \E r \in Requests, k \in Kind : Start(r, k)
    \/ Expire
    \/ JoinsOrLeaves

\* Calls are answered, and redis drops an expired key.
Fairness ==
    /\ \A r \in Requests : WF_vars(RequestStep(r))
    /\ WF_vars(Expire)

Spec == Init /\ [][Next]_vars /\ Fairness

-----------------------------------------------------------------------------
(* Properties.                                                             *)

Place == {"idle", "get", "select", "insert", "set", "blank", "update", "menu", "done", "failed"}

TypeOK ==
    /\ log \in Seq(Row)
    /\ cache \in 0..Len(log)
    /\ kind \in [Requests -> Kind]
    /\ pc \in [Requests -> Place]
    /\ got \in [Requests -> 0..Len(log)]
    /\ used \in [Requests -> 0..Len(log)]
    /\ changed \in [Requests -> BOOLEAN]
    /\ blind \in [Requests -> BOOLEAN]
    /\ known \in BOOLEAN
    /\ floor \in 0..Len(log)
    /\ faults \in 0..MaxFaults

\* Once a change is confirmed, or the copy expires, while nobody is about to
\* store an older row, no older row is ever stored, whatever was read before.
FloorHolds ==
    /\ cache # Nothing => cache >= floor
    /\ \A r \in Requests : pc[r] = "set" => got[r] >= floor

\* A change that is confirmed was made: the row had its value, whatever became of
\* it since.  An UPDATE misses the row only if the request, or the one whose
\* button it presses, was answered while there was none and the guild was
\* unknown; it is confirmed all the same.
Made(r) == \E v \in 1..Len(log) : log[v][ColumnOf(r)] = r

ConfirmedIsMade ==
    \A r \in Requests : pc[r] = "done" /\ changed[r] /\ ~blind[r] => Made(r)

\* The settings of a guild are a register of single-column changes whose
\* answers are never older than the floor.
Register == INSTANCE SettingsRegister WITH Columns <- Column
KeepsRegister == Register!Spec

\* In the end the copy is the row, or there is none: every stale copy expires
\* and none is stored after it.
SettlesFresh == <>[](cache \in {Nothing, Len(log)})

\* Nobody reads, inserts and reads again for ever.
RequestsEnd ==
    <>[](\A r \in Requests : pc[r] \notin {"get", "select", "insert", "set", "blank"})

\* "Changed prefix to ...": a message that looks its settings up after the
\* confirmation is answered with the changed row.
ConfirmedIsServed ==
    [][\A q, r \in Requests :
         /\ q # r /\ pc[r] = "done" /\ changed[r]
         /\ pc[q] = "get" /\ used'[q] # used[q]
         => used'[q] >= got[r]]_vars

-----------------------------------------------------------------------------
(* What makes the properties inductive.                                    *)

\* A request is answered once, before it changes anything.
AnsweredOnce ==
    \A r \in Requests :
        /\ pc[r] \in {"idle", "get"} => ~changed[r] /\ used[r] = Nothing
        /\ pc[r] \in {"select", "insert", "set", "blank"} /\ ~changed[r] => used[r] = Nothing
        /\ pc[r] = "set" => got[r] # Nothing

RowExists == \A r \in Requests : pc[r] \in {"update", "menu"} => log # <<>> \/ blind[r]

ChangesMade == \A r \in Requests : changed[r] /\ ~blind[r] => Made(r)

IInv == TypeOK /\ AnsweredOnce /\ RowExists /\ ChangesMade /\ FloorHolds
=============================================================================
