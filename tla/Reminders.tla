------------------------------ MODULE Reminders ------------------------------
(***************************************************************************)
(* The remindme command and the jobs service.  The command sets a key that *)
(* redis expires, inserts a row with the text, and confirms.  Redis tells  *)
(* the expiry to whoever listens at that moment; the handler of the jobs   *)
(* service selects and deletes the row and posts the text.  A call that    *)
(* rejects there is caught by nobody and ends the process, and with it the *)
(* handlers of all other reminders.  RInit, RNext and so on: CommandProofs *)
(* extends this module together with Collectors and Commands.              *)
(***************************************************************************)
EXTENDS Naturals, FiniteSets

CONSTANTS
    Reminders,   \* calls of remindme; each has a key and a row of its own
    MaxFaults    \* bound on failed calls and crashes

ASSUME FaultsAssumption == MaxFaults \in Nat

VARIABLES
    cmd,      \* cmd[r]: the awaited call the command is at, or how it ended
    key,      \* key[r]: the key in redis
    row,      \* row[r]: the row is in the table
    up,       \* the jobs service runs and has subscribed
    job,      \* job[r]: the awaited call the handler of the expiry is at
    posted,   \* posted[r]: number of messages in the channel
    faults,   \* number of faults
    lost      \* history: reminders that no message will come for

rvars == <<cmd, key, row, up, job, posted, faults, lost>>

Handling == {"select", "delete", "del", "post", "again"}

RInit ==
    /\ cmd = [r \in Reminders |-> "set"]
    /\ key = [r \in Reminders |-> "none"]
    /\ row = [r \in Reminders |-> FALSE]
    /\ up = TRUE
    /\ job = [r \in Reminders |-> "none"]
    /\ posted = [r \in Reminders |-> 0]
    /\ faults = 0
    /\ lost = {}

Fault == faults < MaxFaults /\ faults' = faults + 1

-----------------------------------------------------------------------------
(* The command.                                                            *)

Runs(r, at, next) == cmd[r] = at /\ cmd' = [cmd EXCEPT ![r] = next]

\* SET with EX, at least 60 seconds.
SetsKey(r) ==
    /\ Runs(r, "set", "insert")
    /\ key' = [key EXCEPT ![r] = "live"]
    /\ UNCHANGED <<row, up, job, posted, faults, lost>>

Inserts(r) ==
    /\ Runs(r, "insert", "confirm")
    /\ row' = [row EXCEPT ![r] = TRUE]
    /\ UNCHANGED <<key, up, job, posted, faults, lost>>

Confirms(r) ==
    /\ Runs(r, "confirm", "confirmed")
    /\ UNCHANGED <<key, row, up, job, posted, faults, lost>>

\* Defect: the command goes on after an INSERT that was rejected.
Swallowed(at) == IF at = "insert" THEN "confirm" ELSE "failed"

\* A call rejects or the worker dies: the command ends where it is.
AfterFailure(at) == "failed"

CommandFails(r) ==
    /\ \E at \in {"set", "insert", "confirm"} : Runs(r, at, AfterFailure(at))
    /\ Fault
    /\ UNCHANGED <<key, row, up, job, posted, lost>>

Command(r) == SetsKey(r) \/ Inserts(r) \/ Confirms(r)

-----------------------------------------------------------------------------
(* Redis, and the handler of the expiry.                                   *)

Expires(r) ==
    /\ key[r] = "live"
    /\ key' = [key EXCEPT ![r] = "none"]
    /\ IF up
       THEN job' = [job EXCEPT ![r] = "select"] /\ UNCHANGED lost
       ELSE lost' = lost \union {r} /\ UNCHANGED job
    /\ UNCHANGED <<cmd, row, up, posted, faults>>

Handles(r, at, next) == job[r] = at /\ job' = [job EXCEPT ![r] = next]

Selects(r) ==
    /\ row[r]
    /\ Handles(r, "select", "delete")
    /\ UNCHANGED <<cmd, key, row, up, posted, faults, lost>>

\* No row: the command failed, or has not inserted it yet.
SelectsNothing(r) ==
    /\ ~row[r]
    /\ Handles(r, "select", "done")
    /\ lost' = lost \union {r}
    /\ UNCHANGED <<cmd, key, row, up, posted, faults>>

Deletes(r) ==
    /\ Handles(r, "delete", "del")
    /\ row' = [row EXCEPT ![r] = FALSE]
    /\ UNCHANGED <<cmd, key, up, posted, faults, lost>>

\* The key has expired: del finds nothing.
DeletesKey(r) ==
    /\ Handles(r, "del", "post")
    /\ UNCHANGED <<cmd, key, row, up, posted, faults, lost>>

\* Discord posts the message; the response is under way.
Posts(r) ==
    /\ \E at \in {"post", "again"} :
          Handles(r, at, IF at = "post" THEN "reply" ELSE "lastreply")
    /\ posted' = [posted EXCEPT ![r] = @ + 1]
    /\ UNCHANGED <<cmd, key, row, up, faults, lost>>

Replied(r) ==
    /\ \E at \in {"reply", "lastreply"} : Handles(r, at, "done")
    /\ UNCHANGED <<cmd, key, row, up, posted, faults, lost>>

\* Defect: it posts again for an error without a code, too.
PostsOnAnyError(r) ==
    /\ \E at \in {"post", "reply"} : Handles(r, at, "again")
    /\ UNCHANGED <<cmd, key, row, up, posted, faults, lost>>

\* 50035: the message that asked for the reminder is gone; post without it.
RefusesReference(r) ==
    /\ Handles(r, "post", "again")
    /\ UNCHANGED <<cmd, key, row, up, posted, faults, lost>>

\* 10003, 50001 or any other code: given up.  The second post only logs.
Refuses(r) ==
    /\ \E at \in {"post", "again"} : Handles(r, at, "done")
    /\ Fault
    /\ lost' = lost \union {r}
    /\ UNCHANGED <<cmd, key, row, up, posted>>

\* The response to the second post is lost: logged.
LastReplyLost(r) ==
    /\ Handles(r, "lastreply", "done")
    /\ Fault
    /\ UNCHANGED <<cmd, key, row, up, posted, lost>>

\* A query rejects, or there is no response to the first post and the error has
\* no code to look at: the process ends.  It may also end by itself.
Ended(s) == IF s \in {"none", "done"} THEN s ELSE "done"

Crashes ==
    /\ up
    /\ Fault
    /\ up' = FALSE
    /\ job' = [r \in Reminders |-> Ended(job[r])]
    /\ lost' = lost \union {r \in Reminders : job[r] \in Handling}
    /\ UNCHANGED <<cmd, key, row, posted>>

Restarts ==
    /\ ~up
    /\ up' = TRUE
    /\ UNCHANGED <<cmd, key, row, job, posted, faults, lost>>

Handler(r) ==
    \/ Selects(r) \/ SelectsNothing(r) \/ Deletes(r) \/ DeletesKey(r)
    \/ Posts(r) \/ Replied(r) \/ RefusesReference(r)

RNext ==
    \/ \E r \in Reminders :
          Command(r) \/ CommandFails(r) \/ Expires(r) \/ Handler(r)
            \/ Refuses(r) \/ LastReplyLost(r)
    \/ Crashes \/ Restarts

\* Keys expire, and a handler that runs goes on; nothing restarts the service.
RFairness == \A r \in Reminders : WF_rvars(Expires(r)) /\ WF_rvars(Handler(r))

RSpec == RInit /\ [][RNext]_rvars /\ RFairness

-----------------------------------------------------------------------------
RTypeOK ==
    /\ cmd \in [Reminders -> {"set", "insert", "confirm", "confirmed", "failed"}]
    /\ key \in [Reminders -> {"none", "live"}]
    /\ row \in [Reminders -> BOOLEAN]
    /\ up \in BOOLEAN
    /\ job \in [Reminders -> Handling \union {"none", "reply", "lastreply", "done"}]
    /\ posted \in [Reminders -> Nat]
    /\ faults \in 0..MaxFaults
    /\ lost \subseteq Reminders

\* A reminder that the user was told of is somewhere: in redis and postgres, in
\* the handler, in the channel, or among those a fault has lost.
Accounted ==
    \A r \in Reminders :
        cmd[r] = "confirmed" =>
            \/ row[r] /\ (key[r] = "live" \/ job[r] \in {"select", "delete"})
            \/ job[r] \in {"del", "post", "again"}
            \/ posted[r] = 1
            \/ r \in lost

\* What the user sees of reminder r.
Seen(r) ==
    IF posted[r] > 1 THEN "doubled"
    ELSE IF posted[r] = 1 THEN "delivered"
    ELSE IF r \in lost THEN "lost"
    ELSE IF row[r] \/ job[r] \in Handling \ {"select"} THEN "set"
    ELSE "absent"

Box == INSTANCE ReminderBox WITH box <- [r \in Reminders |-> Seen(r)]

\* Every reminder whose row is stored is delivered once or lost in the end, a
\* lost one is not delivered after all, and no fault delivers one twice.
DeliversOnce == Box!Spec
==============================================================================
