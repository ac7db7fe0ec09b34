------------------------------- MODULE Twilight -------------------------------
(***************************************************************************)
(* The Discord REST proxy.  Every request looks up the rate limiter of its *)
(* token in a map that all threads share, waits for a ticket of it, and is *)
(* sent on to Discord.  A task reaps the limiters that nobody used lately. *)
(*                                                                         *)
(* A token has a shard of the map for itself and is its number, so that    *)
(* iterations visit the tokens in order.  An iterator read-locks the shard *)
(* of every item it has given out until the item is dropped; get_mut,      *)
(* insert, remove and retain write-lock the shard they are at.             *)
(* A limiter is named after the request that made it, and lets one request *)
(* be at Discord at a time: the buckets of one limiter are not told apart. *)
(***************************************************************************)
EXTENDS Naturals, FiniteSets

CONSTANTS
    Requests,    \* the requests that reach the proxy
    Default,     \* the token of the proxy itself, and its limiter
    None,        \* no limiter
    Shards,      \* number of tokens other than the default one
    Sizes,       \* values of CLIENT_CACHE_MAX_SIZE to consider
    Unbounded,   \* CLIENT_CACHE_MAX_SIZE is not set
    Timeout,     \* CLIENT_DECAY_TIMEOUT
    MaxTime      \* bound on the clock

Tokens == 1..Shards

ASSUME TwilightAssumption ==
    /\ Shards \in Nat /\ Timeout \in Nat /\ MaxTime \in Nat
    /\ Sizes \subseteq Nat
    /\ Unbounded \notin Nat
    /\ Default \notin Tokens \union Requests \union {None}
    /\ None \notin Requests

VARIABLES
    max,      \* max_size: fixed when the proxy starts
    now,      \* the clock
    lim,      \* lim[t]: the limiter in the map for token t, or None
    used,     \* used[t]: its time of last use
    pc,       \* pc[r]: where request r is
    tok,      \* tok[r]: its token
    time,     \* time[r]: its access_time
    got,      \* got[r]: the limiter it was given
    pos,      \* pos[r]: the shard its iteration visits next
    count,    \* count[r]: the entries that len() has counted
    first,    \* first[r]: first_entry of lru()
    old,      \* old[r]: the least recently used entry so far
    reaper,   \* the shard that retain visits next; 0 while it sleeps
    reapAt,   \* right_now
    split,    \* history: tokens whose entry was removed, or made by two at once
    crowded,  \* history: two requests missed the map at once
    crossed   \* history: tokens whose time of last use went back

map == <<lim, used>>
scan == <<pos, count, first, old>>
reap == <<reaper, reapAt>>
history == <<split, crowded, crossed>>
vars == <<max, now, map, pc, tok, time, got, scan, reap, history>>

Missing == {"len", "next", "fold", "remove", "insert"}
Labels == {"idle", "lookup", "ticket", "ready", "sent", "answered", "panicked"} \union Missing

Present(t) == lim[t] # None
Entries == {t \in Tokens : Present(t)}

Init ==
    /\ max \in Sizes \union {Unbounded}
    /\ now = 0
    /\ lim = [t \in Tokens |-> None]
    /\ used = [t \in Tokens |-> 0]
    /\ pc = [r \in Requests |-> "idle"]
    /\ tok \in [Requests -> Tokens \union {Default}]
    /\ time = [r \in Requests |-> 0]
    /\ got = [r \in Requests |-> None]
    /\ pos = [r \in Requests |-> 1]
    /\ count = [r \in Requests |-> 0]
    /\ first = [r \in Requests |-> 0]
    /\ old = [r \in Requests |-> 0]
    /\ reaper = 0
    /\ reapAt = 0
    /\ split = {}
    /\ crowded = FALSE
    /\ crossed = {}

Goto(r, l) == pc' = [pc EXCEPT ![r] = l]

\* The shards that a request has read-locked: the items of lru() that are alive.
\* Defect: the key is not cloned, and keeps its item alive.
HeldByKey(t) == \E r \in Requests : pc[r] \in {"fold", "remove"} /\ t \in {first[r], old[r]}

Held(t) == \E r \in Requests : pc[r] = "fold" /\ t \in {first[r], old[r]}

-----------------------------------------------------------------------------
(* get_or_insert.                                                          *)

\* No token, one that is not a string, or that of the proxy: the own limiter.
GetsDefault(r) ==
    /\ pc[r] = "idle" /\ tok[r] = Default
    /\ got' = [got EXCEPT ![r] = Default]
    /\ Goto(r, "ticket")
    /\ UNCHANGED <<max, now, map, tok, time, scan, reap, history>>

Arrives(r) ==
    /\ pc[r] = "idle" /\ tok[r] # Default
    /\ time' = [time EXCEPT ![r] = now]
    /\ Goto(r, "lookup")
    /\ UNCHANGED <<max, now, map, tok, got, scan, reap, history>>

\* Defect: a hit does not write the time.
NoTouch(r) == used

Touch(r) == [used EXCEPT ![tok[r]] = time[r]]

\* Defect: a clone has buckets of its own.
DeepClone(r) == r

\* entry.0.clone(): the clones share the buckets.
Clone(r) == lim[tok[r]]

Hits(r) ==
    /\ pc[r] = "lookup" /\ ~Held(tok[r]) /\ Present(tok[r])
    /\ used' = Touch(r)
    /\ got' = [got EXCEPT ![r] = Clone(r)]
    /\ Goto(r, "ticket")
    /\ crossed' = IF time[r] < used[tok[r]] THEN crossed \union {tok[r]} ELSE crossed
    /\ UNCHANGED <<max, now, lim, tok, time, scan, reap, split, crowded>>

Misses(r) ==
    /\ pc[r] = "lookup" /\ ~Held(tok[r]) /\ ~Present(tok[r])
    /\ Goto(r, IF max \in {0, Unbounded} THEN "insert" ELSE "len")
    /\ crowded' = (crowded \/ \E s \in Requests : pc[s] \in Missing)
    /\ split' = IF \E s \in Requests : pc[s] \in Missing /\ tok[s] = tok[r]
                THEN split \union {tok[r]} ELSE split
    /\ UNCHANGED <<max, now, map, tok, time, got, scan, reap, crossed>>

\* len() adds up the shards one after the other.
Counts(r) ==
    /\ pc[r] = "len" /\ pos[r] \in Tokens
    /\ count' = [count EXCEPT ![r] = @ + IF Present(pos[r]) THEN 1 ELSE 0]
    /\ pos' = [pos EXCEPT ![r] = @ + 1]
    /\ UNCHANGED <<max, now, map, pc, tok, time, got, first, old, reap, history>>

\* Defect: one entry too many before the first is evicted.
FullTooLate(r) == count[r] > max

Full(r) == count[r] >= max

Compares(r) ==
    /\ pc[r] = "len" /\ pos[r] \notin Tokens
    /\ Goto(r, IF Full(r) THEN "next" ELSE "insert")
    /\ pos' = [pos EXCEPT ![r] = 1]
    /\ count' = [count EXCEPT ![r] = 0]
    /\ UNCHANGED <<max, now, map, tok, time, got, first, old, reap, history>>

\* iter().next(): the first entry, if there is one.
FindsFirst(r) ==
    /\ pc[r] = "next" /\ pos[r] \in Tokens /\ Present(pos[r])
    /\ first' = [first EXCEPT ![r] = pos[r]]
    /\ old' = [old EXCEPT ![r] = pos[r]]
    /\ pos' = [pos EXCEPT ![r] = 1]
    /\ Goto(r, "fold")
    /\ UNCHANGED <<max, now, map, tok, time, got, count, reap, history>>

Skips(r) ==
    /\ pc[r] = "next" /\ pos[r] \in Tokens /\ ~Present(pos[r])
    /\ pos' = [pos EXCEPT ![r] = @ + 1]
    /\ UNCHANGED <<max, now, map, pc, tok, time, got, count, first, old, reap, history>>

\* expect("Length of inner map is guaranteed to be greater than 0")
Panics(r) ==
    /\ pc[r] = "next" /\ pos[r] \notin Tokens
    /\ Goto(r, "panicked")
    /\ pos' = [pos EXCEPT ![r] = 1]
    /\ UNCHANGED <<max, now, map, tok, time, got, count, first, old, reap, history>>

Older(r, t) == IF Present(t) /\ used[old[r]] > used[t] THEN t ELSE old[r]

Folds(r) ==
    /\ pc[r] = "fold" /\ pos[r] \in Tokens
    /\ old' = [old EXCEPT ![r] = Older(r, pos[r])]
    /\ pos' = [pos EXCEPT ![r] = @ + 1]
    /\ UNCHANGED <<max, now, map, pc, tok, time, got, count, first, reap, history>>

\* The key is cloned, and both items of lru() are dropped.
Picks(r) ==
    /\ pc[r] = "fold" /\ pos[r] \notin Tokens
    /\ Goto(r, "remove")
    /\ first' = [first EXCEPT ![r] = 0]
    /\ pos' = [pos EXCEPT ![r] = 1]
    /\ UNCHANGED <<max, now, map, tok, time, got, count, old, reap, history>>

Drop(t) == lim' = [lim EXCEPT ![t] = None] /\ used' = [used EXCEPT ![t] = 0]

Removes(r) ==
    /\ pc[r] = "remove" /\ ~Held(old[r])
    /\ Drop(old[r])
    /\ split' = split \union {old[r]}
    /\ old' = [old EXCEPT ![r] = 0]
    /\ Goto(r, "insert")
    /\ UNCHANGED <<max, now, tok, time, got, pos, count, first, reap, crowded, crossed>>

Inserts(r) ==
    /\ pc[r] = "insert" /\ max # 0 /\ ~Held(tok[r])
    /\ lim' = [lim EXCEPT ![tok[r]] = r]
    /\ used' = Touch(r)
    /\ got' = [got EXCEPT ![r] = r]
    /\ Goto(r, "ticket")
    /\ UNCHANGED <<max, now, tok, time, scan, reap, history>>

\* Without a map the limiter is for this request only.
InsertsNothing(r) ==
    /\ pc[r] = "insert" /\ max = 0
    /\ got' = [got EXCEPT ![r] = r]
    /\ Goto(r, "ticket")
    /\ UNCHANGED <<max, now, map, tok, time, scan, reap, history>>

GetOrInsert(r) ==
    \/ GetsDefault(r) \/ Arrives(r) \/ Hits(r) \/ Misses(r)
    \/ Counts(r) \/ Compares(r) \/ FindsFirst(r) \/ Skips(r) \/ Panics(r)
    \/ Folds(r) \/ Picks(r) \/ Removes(r) \/ Inserts(r) \/ InsertsNothing(r)

-----------------------------------------------------------------------------
(* handle_request.                                                         *)

served == <<max, now, map, tok, time, got, scan, reap, history>>

\* A method or a path that the library does not know (501), before a ticket is
\* asked for; or the limiter gives none (500).
Rejects(r) == pc[r] = "ticket" /\ Goto(r, "answered") /\ UNCHANGED served

\* A ticket is out until the sender of the headers is used or dropped.
Busy(l) == \E s \in Requests : got[s] = l /\ pc[s] \in {"ready", "sent"}

GetsTicket(r) ==
    /\ pc[r] = "ticket" /\ ~Busy(got[r])
    /\ Goto(r, "ready")
    /\ UNCHANGED served

Sends(r) == pc[r] = "ready" /\ Goto(r, "sent") /\ UNCHANGED served

\* The address does not parse (500), or there is no response (502): the ticket is
\* dropped.  Otherwise it takes the headers, and the response is passed on.
BadUri(r) == pc[r] = "ready" /\ Goto(r, "answered") /\ UNCHANGED served
Responds(r) == pc[r] = "sent" /\ Goto(r, "answered") /\ UNCHANGED served

HandleRequest(r) ==
    \/ Rejects(r) \/ GetsTicket(r) \/ Sends(r) \/ BadUri(r) \/ Responds(r)

-----------------------------------------------------------------------------
(* reap_old_ratelimiters.                                                  *)

waiting == <<max, pc, tok, time, got, scan>>

ReapStarts ==
    /\ reaper = 0
    /\ reaper' = 1 /\ reapAt' = now
    /\ UNCHANGED <<waiting, now, map, history>>

Expired(t) == used[t] + Timeout <= reapAt

\* retain, at one shard.
Reaps ==
    /\ reaper \in Tokens /\ ~Held(reaper)
    /\ Present(reaper) /\ Expired(reaper)
    /\ Drop(reaper)
    /\ split' = split \union {reaper}
    /\ reaper' = reaper + 1
    /\ UNCHANGED <<waiting, now, reapAt, crowded, crossed>>

Retains ==
    /\ reaper \in Tokens /\ ~Held(reaper)
    /\ ~(Present(reaper) /\ Expired(reaper))
    /\ reaper' = reaper + 1
    /\ UNCHANGED <<waiting, now, map, reapAt, history>>

ReapEnds ==
    /\ reaper > Shards
    /\ reaper' = 0 /\ reapAt' = 0
    /\ UNCHANGED <<waiting, now, map, history>>

Tick ==
    /\ now < MaxTime
    /\ now' = now + 1
    /\ UNCHANGED <<waiting, map, reap, history>>

Reap == ReapStarts \/ Reaps \/ Retains \/ ReapEnds
Step(r) == GetOrInsert(r) \/ HandleRequest(r)
Next == (\E r \in Requests : Step(r)) \/ Reap \/ Tick

Spec == Init /\ [][Next]_vars

-----------------------------------------------------------------------------
TypeOK ==
    /\ max \in Sizes \union {Unbounded}
    /\ now \in 0..MaxTime
    /\ lim \in [Tokens -> Requests \union {None}]
    /\ used \in [Tokens -> 0..MaxTime]
    /\ pc \in [Requests -> Labels]
    /\ tok \in [Requests -> Tokens \union {Default}]
    /\ time \in [Requests -> 0..MaxTime]
    /\ got \in [Requests -> Requests \union {Default, None}]
    /\ pos \in [Requests -> 1..(Shards + 1)]
    /\ count \in [Requests -> 0..Shards]
    /\ first \in [Requests -> 0..Shards]
    /\ old \in [Requests -> 0..Shards]
    /\ reaper \in 0..(Shards + 1)
    /\ reapAt \in 0..MaxTime
    /\ split \subseteq Tokens
    /\ crowded \in BOOLEAN
    /\ crossed \subseteq Tokens

\* The purpose of the proxy: as long as a token's entry is neither evicted nor
\* reaped nor missed by two requests at once, all its requests go through one
\* limiter, so that never two of them are at Discord.  Without a map
\* (CLIENT_CACHE_MAX_SIZE=0) only the proxy's own token is limited.
OneInFlight ==
    \A r, s \in Requests :
        /\ r # s /\ tok[r] = tok[s]
        /\ pc[r] = "sent" /\ pc[s] = "sent"
        => tok[r] # Default /\ (tok[r] \in split \/ max = 0)

\* CLIENT_CACHE_MAX_SIZE bounds the map as long as no two requests miss it at
\* once: the map is counted, searched, thinned and filled in separate steps.
SizeBound == max # Unbounded => Cardinality(Entries) <= max \/ crowded

\* The reaper spares a limiter that one of its requests asked for within the
\* timeout, unless the requests wrote their times in another order than they
\* took them.
RecentStays ==
    [][\A t \in Tokens :
           /\ reaper = t /\ reaper' = t + 1
           /\ Present(t) /\ ~Present(t)'
           => \/ t \in crossed
              \/ \A r \in Requests : got[r] = lim[t] => time[r] + Timeout <= reapAt]_vars

\* What takes a request on; that it may be rejected instead frees nobody.
Proceeds(r) ==
    GetOrInsert(r) \/ GetsTicket(r) \/ Sends(r) \/ BadUri(r) \/ Responds(r)

\* While a request is not answered, some request can go on: nobody waits for a
\* lock that itself or a waiting request holds, or for a ticket that is lost.
SomeoneRuns ==
    \/ \A r \in Requests : pc[r] \in {"answered", "panicked"}
    \/ ENABLED \E r \in Requests : Proceeds(r)

\* What lru() has found stays in the map as long as it looks for an older entry:
\* the items it holds keep every other request and the reaper from removing it.
\* The key that it returns holds nothing.
LruKeeps ==
    \A r \in Requests : pc[r] = "fold" => {first[r], old[r]} \subseteq Entries

\* ratelimiter_map.rs:109, the message of expect: "Length of inner map is
\* guaranteed to be greater than 0".
NeverEmpty == \A r \in Requests : pc[r] # "panicked"

\* It is so while no entry is removed, and no token missed by two at once: what
\* len() has counted is still there for iter() to find.
PanicNeedsRemoval == \A r \in Requests : pc[r] = "panicked" => split # {}

===============================================================================
