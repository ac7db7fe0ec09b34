------------------------------ MODULE Starboard ------------------------------
(***************************************************************************)
(* The starboard of one guild: a row of postgres with the JSON list of the *)
(* messages that were posted, the reactions that read the row, post and    *)
(* append to the list, and the commands that create and delete the row.    *)
(* Each of them reads first and writes after an await.  Both containers of *)
(* a handover handle every reaction.  Whether a reaction counts (locked,   *)
(* emoji, minimum) and what a post says is data that no property tells     *)
(* apart.                                                                  *)
(***************************************************************************)
EXTENDS Naturals, Sequences, FiniteSets, Functions

CONSTANTS
    Handlers,    \* calls of the handler of messageReactionAdd
    Messages,    \* messages of the guild
    Commands,    \* the slash commands create and delete
    MaxFaults    \* bound on failed calls of Discord and postgres

ASSUME FaultsAssumption == MaxFaults \in Nat

VARIABLES
    exists,   \* the row of the guild exists
    ids,      \* its column ids: handlers stand for their posts; <<>> is NULL
    posts,    \* the posts in the channel, by the handler that made them
    pc,       \* pc[h]: the awaited call it is at
    msg,      \* msg[h]: the message that got the reaction
    empty,    \* empty[h]: the row it read had no list
    cpc,      \* cpc[c]: where the command is
    faults,   \* number of faults
    safe,     \* history: what was listed while no post was pending on an empty list
    raced,    \* history: messages with two reactions posting at once
    mishap    \* history: something broke the list or may have doubled a post

hvars == <<pc, msg, empty>>
vars == <<exists, ids, posts, hvars, cpc, faults, safe, raced, mishap>>

Listed == Range(ids)
Posting == {h \in Handlers : pc[h] \in {"post", "store"}}
PostingOnEmpty == {h \in Posting : empty[h]}

Init ==
    /\ exists = FALSE
    /\ ids = <<>>
    /\ posts = {}
    /\ pc = [h \in Handlers |-> "idle"]
    /\ msg \in [Handlers -> Messages]
    /\ empty = [h \in Handlers |-> FALSE]
    /\ cpc = [c \in Commands |-> "idle"]
    /\ faults = 0
    /\ safe = {}
    /\ raced = {}
    /\ mishap = FALSE

-----------------------------------------------------------------------------
(* messageReactionAdd.                                                     *)

Goto(h, l) == pc' = [pc EXCEPT ![h] = l]

\* getStartboard gives no row, or one that does not want this reaction.
Ignored(h) ==
    /\ pc[h] = "idle"
    /\ Goto(h, "done")
    /\ UNCHANGED <<exists, ids, posts, msg, empty, cpc, faults, raced, mishap>>

\* res.ids?.find(r => r.actual_message_id === message.id)
FoundLast(h) == ids # <<>> /\ msg[ids[Len(ids)]] = msg[h]
Found(h) == \E g \in Listed : msg[g] = msg[h]

\* The post is edited: the call is all that is left to do.
EditStarts(h) ==
    /\ pc[h] = "idle"
    /\ exists /\ Found(h)
    /\ Goto(h, "edit")
    /\ UNCHANGED <<exists, ids, posts, msg, empty, cpc, faults, raced, mishap>>

EditEnds(h) ==
    /\ pc[h] = "edit"
    /\ Goto(h, "done")
    /\ UNCHANGED <<exists, ids, posts, msg, empty, cpc, faults, raced, mishap>>

PostStarts(h) ==
    /\ pc[h] = "idle"
    /\ exists /\ ~Found(h)
    /\ Goto(h, "post")
    /\ empty' = [empty EXCEPT ![h] = ids = <<>>]
    /\ raced' = IF \E g \in Posting : msg[g] = msg[h] THEN raced \union {msg[h]} ELSE raced
    /\ mishap' = (mishap \/ msg[h] \in raced' \/ PostingOnEmpty # {})
    /\ UNCHANGED <<exists, ids, posts, msg, cpc, faults>>

Posted(h) ==
    /\ pc[h] = "post"
    /\ \/ posts' = posts \union {h} /\ Goto(h, "store") /\ UNCHANGED faults
       \/ /\ faults < MaxFaults /\ faults' = faults + 1
          /\ Goto(h, "done")
          /\ UNCHANGED posts
    /\ UNCHANGED <<exists, ids, msg, empty, cpc, raced, mishap>>

\* ids || obj: NULL stays NULL.
OnlyLast(list, h) == IF list = <<>> THEN <<>> ELSE <<h>>
Concat(list, h) == IF list = <<>> THEN <<>> ELSE Append(list, h)

\* UPDATE starboard SET ids: nothing, if the row is gone.
Store(h) ==
    /\ pc[h] = "store"
    /\ Goto(h, "done")
    /\ \/ /\ exists
          /\ ids' = IF empty[h] THEN <<h>> ELSE Concat(ids, h)
          /\ UNCHANGED <<faults, mishap>>
       \/ /\ ~exists
          /\ UNCHANGED <<ids, faults, mishap>>
       \/ /\ faults < MaxFaults /\ faults' = faults + 1
          /\ mishap' = TRUE
          /\ UNCHANGED ids
    /\ UNCHANGED <<exists, posts, msg, empty, cpc, raced>>

-----------------------------------------------------------------------------
(* /starboard create and delete.                                           *)

Cgoto(c, l) == cpc' = [cpc EXCEPT ![c] = l]

Asks(c) ==
    /\ cpc[c] = "idle"
    /\ Cgoto(c, IF exists THEN "delete" ELSE "create")
    /\ UNCHANGED <<exists, ids, posts, hvars, faults, raced, mishap>>

\* The INSERT of a second row is rejected.
InsertResets == <<>>
InsertKeeps == ids

Creates(c) ==
    /\ cpc[c] = "create"
    /\ Cgoto(c, "done")
    /\ exists' = TRUE
    /\ ids' = InsertKeeps
    /\ UNCHANGED <<posts, hvars, faults, raced, mishap>>

Deletes(c) ==
    /\ cpc[c] = "delete"
    /\ Cgoto(c, "done")
    /\ exists' = FALSE
    /\ ids' = <<>>
    /\ mishap' = TRUE
    /\ UNCHANGED <<posts, hvars, faults, raced>>

\* The SELECT or the write is rejected; for the asking nothing is to be seen.
CommandFails(c) ==
    /\ faults < MaxFaults /\ faults' = faults + 1
    /\ cpc[c] \in {"create", "delete"}
    /\ Cgoto(c, "done")
    /\ UNCHANGED <<exists, ids, posts, hvars, raced, mishap>>

-----------------------------------------------------------------------------
Step ==
    \/ \E h \in Handlers :
         \/ Ignored(h) \/ EditStarts(h) \/ EditEnds(h)
         \/ PostStarts(h) \/ Posted(h) \/ Store(h)
    \/ \E c \in Commands : Asks(c) \/ Creates(c) \/ Deletes(c) \/ CommandFails(c)

Remember ==
    safe' = IF ~exists' THEN {}
            ELSE IF PostingOnEmpty' = {} THEN safe \union Listed'
            ELSE safe

Next == Step /\ Remember

Spec == Init /\ [][Next]_vars

-----------------------------------------------------------------------------
(* Properties.                                                             *)

TypeOK ==
    /\ exists \in BOOLEAN
    /\ ids \in Seq(Handlers)
    /\ posts \subseteq Handlers
    /\ pc \in [Handlers -> {"idle", "edit", "post", "store", "done"}]
    /\ msg \in [Handlers -> Messages]
    /\ empty \in [Handlers -> BOOLEAN]
    /\ cpc \in [Commands -> {"idle", "create", "delete", "done"}]
    /\ faults \in 0..MaxFaults
    /\ safe \subseteq Handlers
    /\ raced \subseteq Messages
    /\ mishap \in BOOLEAN

\* An entry that was in the list when no post was pending on an empty list
\* stays until the starboard is deleted: only the first posts of a starboard
\* can be overwritten.
SafeStays == safe \subseteq Listed

\* A message is listed twice only if two of its reactions were posting at the
\* same time, through deletions, lost entries and failures.
DoubleNeedsRace ==
    \A i, j \in DOMAIN ids :
        i # j /\ msg[ids[i]] = msg[ids[j]] => msg[ids[i]] \in raced

\* As long as no two reactions of one message, or on an empty list, post at
\* once, no store fails and no board is deleted: no message is posted twice,
\* and every post is listed or about to be.
BoardAgrees ==
    ~mishap =>
        /\ \A g, h \in posts : g # h => msg[g] # msg[h]
        /\ \A h \in posts : h \in Listed \/ pc[h] = "store"

-----------------------------------------------------------------------------
(* What makes the properties inductive.                                    *)

Gone == ~exists => ids = <<>> /\ safe = {}

NothingSafeYet == PostingOnEmpty # {} => safe = {}

ListedWerePosted ==
    /\ \A h \in Listed : pc[h] = "done"
    /\ \A h \in posts : pc[h] \in {"store", "done"}

\* A reaction that posts is the only one of its message, or its message raced.
PostsAlone ==
    \A h \in Posting :
        msg[h] \notin raced =>
            /\ \A g \in Posting : msg[g] = msg[h] => g = h
            /\ \A g \in Listed : msg[g] # msg[h]

NoMishapYet ==
    ~mishap =>
        /\ raced = {}
        /\ \A h \in Posting :
             /\ exists
             /\ empty[h] => ids = <<>> /\ Posting = {h}
             /\ ~empty[h] => ids # <<>>

IInv ==
    /\ TypeOK /\ Gone /\ NothingSafeYet /\ ListedWerePosted /\ PostsAlone /\ NoMishapYet
    /\ SafeStays /\ DoubleNeedsRace /\ BoardAgrees
=============================================================================
