------------------------------- MODULE Commands -------------------------------
(***************************************************************************)
(* The way of a command of a guild's member: a message or a slash command  *)
(* passes the blacklist and the list of testers, each read from redis in a *)
(* call of its own, and then the gates of its type and permissions, which  *)
(* the two handlers write down differently.  Two of the commands behind    *)
(* the gates change the blacklist that other commands are reading.  GInit, *)
(* GNext and so on: one module proves theorems of this specification and   *)
(* of those of Collectors and Reminders.                                   *)
(***************************************************************************)
EXTENDS Naturals

CONSTANTS
    Requests,     \* messages with the prefix and slash commands
    Members, Guild,
    Owners, Developers, Testers   \* config.owners, config.developers; keys tester-*

ASSUME ListsAssumption == Owners \subseteq Members /\ Developers \subseteq Members

VARIABLES
    req,      \* req[r]: the member, the handler, and the call it awaits
    listed,   \* keys blacklist-user-* and blacklist-guild-*
    call,     \* call[r]: what the command was let through with, and its order
    clear     \* history: clear[r]: who was seen off the blacklist since r came

gvars == <<req, listed, call, clear>>

Targets == Members \cup {Guild}
NotYet == [at |-> "none"]

\* The commands by what their gates look at; none has noThread.
Commands ==
    {[type |-> "any", user |-> FALSE, bot |-> FALSE],
     [type |-> "any", user |-> TRUE, bot |-> FALSE],      \* prefix, language
     [type |-> "any", user |-> TRUE, bot |-> TRUE],       \* purge, slowmode, stealemoji
     [type |-> "any", user |-> FALSE, bot |-> TRUE],      \* play
     [type |-> "developer", user |-> FALSE, bot |-> FALSE],
     [type |-> "owner", user |-> FALSE, bot |-> FALSE]}

\* What the gates read of Discord's state: permissions of member and bot, and
\* whether the member owns the guild.
Views == [user : BOOLEAN, bot : BOOLEAN, own : BOOLEAN]

GInit ==
    /\ req = [r \in Requests |-> NotYet]
    /\ listed \in SUBSET Targets
    /\ call = [r \in Requests |-> NotYet]
    /\ clear = [r \in Requests |-> {}]

-----------------------------------------------------------------------------
(* The calls before the gates.                                             *)

\* Mutant: the guild's key is not read.
SkipsGuild(via, at) ==
    CASE at = "arrives" -> IF via = "message" THEN "setting" ELSE "user"
      [] at = "setting" -> IF via = "message" THEN "user" ELSE "gate"
      [] at = "user" -> "tester"
      [] at = "tester" -> IF via = "message" THEN "gate" ELSE "setting"

\* The awaited calls of a handler, in their order.
After(via, at) ==
    CASE at = "arrives" -> IF via = "message" THEN "setting" ELSE "user"
      [] at = "setting" -> IF via = "message" THEN "user" ELSE "gate"
      [] at = "user" -> "guild"
      [] at = "guild" -> "tester"
      [] at = "tester" -> IF via = "message" THEN "gate" ELSE "setting"

Goes(r, at) == req' = [req EXCEPT ![r].at = at]
Proceeds(r) == Goes(r, After(req[r].via, req[r].at))

\* A message of a bot or in a DM ends before the first call.
Arrives(r, m, via) ==
    /\ req[r] = NotYet
    /\ req' = [req EXCEPT ![r] = [by |-> m, via |-> via, at |-> After(via, "arrives")]]
    /\ clear' = [clear EXCEPT ![r] = {m, Guild} \ listed]
    /\ UNCHANGED <<listed, call>>

\* redisCache: see SettingsCache.
ReadsSetting(r) == req[r].at = "setting" /\ Proceeds(r) /\ UNCHANGED <<listed, call, clear>>

ReadsKey(r, at, key) ==
    /\ req[r].at = at
    /\ \/ key \in listed /\ Goes(r, "ended")
       \/ key \notin listed /\ Proceeds(r)
    /\ UNCHANGED <<listed, call, clear>>

\* Owners, developers and members of the support guild need no key.
ReadsTester(r) ==
    LET known == req[r].by \in Owners \cup Developers \cup Testers IN
    /\ req[r].at = "tester"
    /\ \/ Proceeds(r)                   \* in the support guild, too
       \/ ~known /\ Goes(r, "ended")
    /\ UNCHANGED <<listed, call, clear>>

-----------------------------------------------------------------------------
(* The gates.  For a command that is not for DMs a message awaits one more *)
(* setting before them and drops it, between the last key and the gate.    *)

TypeAllows(c, m) ==
    /\ c.type = "owner" => m \in Owners
    /\ c.type = "developer" => m \in Developers

\* processCommand: a command with both permissions is not checked for the
\* bot's, unless the member owns the guild.
MessagePasses(c, m, v) ==
    /\ TypeAllows(c, m)
    /\ \/ c.user /\ ~v.own /\ v.user
       \/ ~(c.user /\ ~v.own) /\ (c.bot => v.bot)

\* -f and -force, for owners.
OverridePasses(c, m, v) == m \in Owners /\ (c.bot => v.bot)

\* Mutant: the bot's permissions are not looked at.
SlashForgetsBot(c, m, v) == TypeAllows(c, m) /\ (c.user => v.user \/ v.own)

SlashPasses(c, m, v) ==
    /\ TypeAllows(c, m)
    /\ c.user => v.user \/ v.own
    /\ c.bot => v.bot

Call(c, v, op, t) == [at |-> "ran", gap |-> c.bot /\ ~v.bot, user |-> c.user, op |-> op, target |-> t]

\* A developer's command may change the blacklist, any other one ends here.
\* blacklist resolves its target by REST first, unblacklist does not.
Executes(r, c, v) ==
    /\ req[r].at = "gate"
    /\ \/ req[r].via = "message" /\ MessagePasses(c, req[r].by, v)
       \/ req[r].via = "message" /\ OverridePasses(c, req[r].by, v)
       \/ req[r].via = "slash" /\ SlashPasses(c, req[r].by, v)
    /\ \/ Goes(r, "ended") /\ call' = [call EXCEPT ![r] = Call(c, v, "other", Guild)]
       \/ /\ c.type = "developer" /\ req[r].via = "message"
          /\ \E t \in Targets, op \in {"blacklist", "unblacklist"} :
                /\ Goes(r, IF op = "blacklist" THEN "resolve" ELSE "get")
                /\ call' = [call EXCEPT ![r] = Call(c, v, op, t)]
    /\ UNCHANGED <<listed, clear>>

\* An answer, nothing at all, or a rejection: play without the bot's
\* permissions maps over the userPerm that it has not.
Refused(r) == req[r].at = "gate" /\ Goes(r, "ended") /\ UNCHANGED <<listed, call, clear>>

-----------------------------------------------------------------------------
(* blacklist and unblacklist: read the key, then write it.                 *)

Resolves(r) ==
    /\ req[r].at = "resolve"
    /\ \E next \in {"get", "ended"} : Goes(r, next)
    /\ UNCHANGED <<listed, call, clear>>

ReadsTarget(r) ==
    /\ req[r].at = "get"
    /\ Goes(r, IF (call[r].target \in listed) = (call[r].op = "unblacklist") THEN "write" ELSE "ended")
    /\ UNCHANGED <<listed, call, clear>>

Writes(r) ==
    LET t == call[r].target IN
    /\ req[r].at = "write"
    /\ Goes(r, "ended")
    /\ listed' = IF call[r].op = "blacklist" THEN listed \cup {t} ELSE listed \ {t}
    /\ clear' = [q \in Requests |->
                    IF req[q] = NotYet THEN {} ELSE clear[q] \cup ({req[q].by, Guild} \ listed')]
    /\ UNCHANGED call

-----------------------------------------------------------------------------

GNext ==
    \E r \in Requests :
        \/ \E m \in Members, via \in {"message", "slash"} : Arrives(r, m, via)
        \/ ReadsSetting(r)
        \/ req[r] # NotYet /\ ReadsKey(r, "user", req[r].by)
        \/ ReadsKey(r, "guild", Guild)
        \/ ReadsTester(r)
        \/ \E c \in Commands, v \in Views : Executes(r, c, v)
        \/ Refused(r)
        \/ Resolves(r)
        \/ ReadsTarget(r)
        \/ Writes(r)

GSpec == GInit /\ [][GNext]_gvars

-----------------------------------------------------------------------------
(* Properties.                                                             *)

GTypeOK ==
    /\ listed \subseteq Targets
    /\ \A r \in Requests : req[r] # NotYet =>
          /\ req[r].by \in Members
          /\ req[r].at \in {"setting", "user", "guild", "tester", "gate", "resolve", "get", "write", "ended"}
          /\ req[r].at \in {"resolve", "get", "write"} => call[r] # NotYet
    /\ \A r \in Requests : clear[r] \subseteq Targets

\* A command runs only if its member and its guild were each off the blacklist
\* at some moment since it came, whatever is listed while its handler waits.
BlacklistHolds ==
    \A r \in Requests : call[r] # NotYet => {req[r].by, Guild} \subseteq clear[r]

\* A command runs without the permissions the bot needs only if it is a message
\* and the command asks the member for permissions, too (messageHandler.ts:151).
BotPermGap ==
    \A r \in Requests : call[r] # NotYet /\ call[r].gap => req[r].via = "message" /\ call[r].user

===============================================================================
