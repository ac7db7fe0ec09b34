# Manbo v2 in TLA+

Manbo is a Discord bot of several services: the bot proper (`bot/`), the
`jobs` service, the `docker` controller, the HTTP `api` and `twilight`, a REST
proxy in Rust, around postgres, redis and a Lavalink audio server. Almost
everything that is hard about it is the same thing: several processes, or
several calls of one asynchronous handler, that read something, await, and act
on what they read. The modules here model that part, TLC checks them on small
instances, and TLAPS proves the safety properties for all instances.

Contents: 1 inventory, 2 plan, 3 how to read the models, 4 the modules,
5 the runs, 6 what the code does otherwise than it says, 7 fairness, 8 proofs,
9 what is not modelled.

## 1. Inventory

Paths are relative to `src/`; `app/` stands for `bot/src/app/`.

**Zero-downtime handover** (`app/events/ready.ts`, `app/index.ts`,
`bot/src/miscellaneous/WebsocketClient.ts`, `jobs/src/apps/WebSocketServer.ts`,
`docker/src/endpoints/docker.ts`). Two containers, `no1` and `no2`, replace each
other. State: the flag `checkUUID` of each worker, its socket to the
relay, one redis key per event name with the uuid of the container that
answers it. Operations: a worker starts and tells all others to check; becomes
ready, writes the keys, tells its own container to stop checking and asks for the
stop of the other container; every gated event handler consults flag and key.
Hard: interleaving, lost relay messages, crashes, failed requests. Correct if an
event is answered by one container, and by one at all times.

**Shard cluster** (`bot/src/primary.ts`, `replica.ts`,
`miscellaneous/workerListener.ts`). The primary splits the shards over workers,
forks them at once or one per interval tick, and listens to `online`,
`disconnect`, `exit`. Hard: rounding of ranges, order of events. Correct if
every shard has one worker and a half-dead container does not linger.

**Music player** (`app/modules/Queue.ts`, `AudioDispatcher.ts`,
`app/structures/AudioManager.ts`, `app/commands/music/*`). State per guild: the
map entry `queue`, the players of the library, and per dispatcher its track
queue. Concurrent play commands, library callbacks at the end of a track, lost
nodes. Correct if a guild has one connection, and everything that plays ends.

**Settings cache** (`app/modules/messageHandler.ts`, `slashCommandHandler.ts`,
`app/commands/configuration/*`, `bot/src/database/interfaces/postgres/*`). A row of
postgres and a copy of it in redis that expires; every message reads, some
change. Correct if changes are not undone and staleness is bounded.

**Starboard** (`app/events/messageReaction/*`, `app/modules/starboard/*`). A row
with a JSON list; reactions post and append. Correct if a message is posted once
and its post is found again.

**WebSocket relay** (`jobs/src/apps/WebSocketServer.ts`,
`bot/src/miscellaneous/WebsocketClient.ts`): the sockets of all workers and the type
each identified with; handover flags, statistics, reload. Hard: two requests
run into the same totals, sockets close under a loop that awaits. Correct if no
answer counts twice, and every connected worker is told once.

**Command gates** (`messageHandler.ts`, `slashCommandHandler.ts`,
`app/commands/developer/{blacklist,unblacklist}.ts`). Each of the two handlers reads
the blacklist and the testers from redis, one key per call, and then decides by type
and permissions, in different words. Hard: the list changes between the reads. Correct
if nobody runs a command who was listed all the time, and both handlers ask for the
same permissions.

**Interactive messages** (`general/help.ts`, `information/{emojis,avatar}.ts`,
`music/{play,playlist,loop}.ts`, `configuration/language.ts`, all in `app/commands/`).
A command posts a message with buttons or a menu and starts a collector, whose
options decide which presses it is handed. State: the message, its collector, a page
number, the calls under way. Hard: five of the eight collectors name no message
(category, emojis, avatar, playlist, language), two handlers may answer one interaction, a
collector ends while a handler awaits, the edit that removes its components is rejected.
Correct if what a message says follows from presses on it, and dead components stay for a
known reason only.

**Economy** (`app/commands/economy/*`): registration, coins, a sign-out with a
timed confirmation. The INSERT of a registration names a column that does not exist,
so nobody is ever registered.

**Reminders** (`app/commands/utility/remindme.ts`,
`jobs/src/apps/{RedisSubscribe,redis/remindme}.ts`): an expiring key, a row, a
subscriber that deletes the row and posts. Hard: expiry before the row exists,
expiry nobody hears, a rejection that ends the process. Correct if a reminder is posted
once, or lost by a fault that one can name.

**Postgres pool and message batcher**
(`bot/src/miscellaneous/messageBatcher.ts`): a buffer that is taken out and then
stored. Unused: its only caller is called from a comment in `messageCreate.ts`.

**Top.gg listener** (`jobs/src/apps/TopggListener.ts`): a vote inserts a row; it never
recognises one, so that a second vote is rejected.

**HTTP API** (`api/src`): stateless handlers with a JWT and a rate limiter; the
guild count of `info.ts`.

**Docker controller service** (`docker/src`): one endpoint that stops a
container, and its authentication.

**Webhook logger** (three copies of `WebhookLogger.ts`): logging with a throttle.

**Discord REST proxy** (`twilight/src`): a bounded map of rate limiters by
token, least recently used out first, shared by all threads, with a reaper. Hard: it is
looked up, counted, searched, thinned and filled in separate steps, each under the locks of
some shards. Correct if the requests of one token go through one limiter, and
the bound holds.

**Stateless commands and utilities**: about, purge, timeout, the
sweeper, automod (not wired to an event).

How they interact: the primary of a container forks the workers; each worker
connects to Discord, to redis and postgres and to the relay; the relay passes
the handover flags between workers of both containers; the ready handler of a
worker calls the docker controller, which stops the other container; a dead
worker takes its container down. Inside a worker the gateway events start
handlers that run interleaved at every `await`: message and interaction handlers
read the settings cache, then run commands, the play command among them;
reactions work on the starboard.

## 2. Plan

In the order in which they were written, the most important behaviour first:

| module | over | proofs | what it is about |
| --- | --- | --- | --- |
| `ZeroDowntime` | `EventOwner` (abstract) | `ZeroDowntimeProofs` | who answers an event while one container replaces the other |
| `Music` | `VoiceSlot` (abstract) | `MusicProofs` | who holds the voice connection of a guild |
| `ShardCluster` | `ShardPlan` (arithmetic) | `ShardClusterProofs` | which worker hosts a shard |
| `SettingsCache` | `SettingsRegister` (abstract) | `SettingsCacheProofs` | a row and its copy |
| `Starboard` | | `StarboardProofs` | one list, many reactions |
| `WsRelay` | | `WsRelayProofs` | broadcasts answered by broadcasts |
| `Twilight` | | `TwilightProofs` | one limiter per token in a bounded map |
| `Reminders` | `ReminderBox` (abstract) | `CommandProofs` | what becomes of a reminder when things crash |
| `Collectors` | | `CommandProofs` | which message a press changes |
| `Commands` | | `CommandProofs` | whom the gates let through |

What is left: `Collectors` takes the dispatcher behind a search as free and `Music` its
requests as given; the two could be composed at `play.ts:138`.

`CommandProofs` extends `Collectors`, `Commands` and `Reminders` together, so
the definitions that each module has of its own kind carry a letter there: `GInit`,
`GNext`, `GSpec`, `GTypeOK` in `Commands` (gates), `RInit`, `RNext`, `RSpec`,
`RTypeOK` in `Reminders`, plain names in `Collectors`.

Parameters are CONSTANTS with named assumptions, there is one action per
operation, and no module uses RECURSIVE operators, so that all of them can be
proved about.

## 3. How to read the models

A step of a model is the code between two `await`s (or between two callbacks); a
call and its answer are one step when the answer is used at once. A failed call is a
disjunct or an action of its own, counted by `faults`, so that runs and proofs can
speak of executions with no or few of them. `history` variables are read by no
action; properties use them. Bounds are constants named `Max...`, appear only in
guards, and are never relied on by an invariant: the proofs hold for all of
them. An operator marked as a defect or a mutant is used by no specification; it is a
plausible mistake, kept to show that the properties would find it.

Each module gives the code of its definitions in `PROJECT.json`, under `map`.

## 4. The modules

### ZeroDowntime and EventOwner

`Worker` is a pair of container uuid and shard range. `checkUUID` is
`global.bot.checkUUID` of the worker, `eventKey` the redis keys, `inbox` the
messages of the relay not yet read, `socket` the worker's connection, `missed`
a history of a dropped `restart: true`. `phase` is the program counter of
a worker: `Deploy` starts a container, `Hello` sends `restart: true`
(`index.ts:117`), `Identify` connects, `FirstReady`/`Ready` start the ready
handler, `ClaimKey` is one redis SET, `ReleaseWorkers` sends `restart: false`,
`StopOther` calls the controller. `Deliver` gives one gateway event to the
workers of its range, each of which runs `CheckFlag` and, when the flag is on,
`CheckKey`. The faults are `Crash`, `SocketCloses`, a redis call that is rejected
(`ClaimFails` ends the ready handler among its keys, and the worker lives on, since
`index.ts:143` only logs; in `CheckKey` the event is dropped), a request to the controller
that fails, and a start that overtakes a stop. A container crashes as a whole: that is what
`OneDownAllDown` of `ShardCluster` says of one worker's death.

The controller answers before the stop is through (`docker.ts:16`), so the container in `doomed`
may crash or, after that, be started again first; `ContainerStops` then ends whatever runs in it,
the newest container included. Nothing in the code prevents it, and the properties of a
handover except it with the other faults.

`Send` is one step from the sender to the inboxes of the workers: a message of op 1 does not
wait at the relay. What the delay could do is done by the inboxes, which are read at any
time, and by a socket that closes with its inbox unread, which `missed` records.

`EventOwner` is what the handover promises: every event name has one owner, which only
the container started last can become, and a worker decides about an event in one step, by
who owns its name then. `Ownership` maps the owner to the redis key, and `Verdict` what a
worker has made of an event: it is pending from delivery until `CheckFlag` or `CheckKey` has
settled it. So `CheckFlag` is a stutter where the flag is on and the decision where it is off,
though the keys are not read then; `Deploy` is `Start`, `ClaimKey` is `Take`, a container
that goes down is `Stop`, and all of sockets, flags and messages stutters.
`AnswerUntold` is the one liberty: a worker of an older container that has not been told of the
newer one may answer what it does not own. `Lose` is the read that is rejected.

`guildCreate`, `guildDelete`, `messageReactionAdd` and `messageReactionRemove` do
not call `checkZeroDowntimeUUID`; the event names of this module are the others.

### Music and VoiceSlot

One guild. A play command is a request with a program counter: `Resolve` (the
search), per track `Queue.handle` (`HandleExisting`, `HandleBusy`, `HandleJoin`
then `Joined`), and `Replied`/`Rejected`. `registered` is the entry of `queue`,
`link[d]` the connection of dispatcher `d`, `queued[d]` the number of tracks.
`Destroy`, `Play` are the methods of the dispatcher; `TrackEnds`, `PlayerFails`,
`NodeLost` the callbacks; `Stop`, `Shorten`, `TogglePause`, `SetRepeat` the other
commands. What is lost: the order of tracks, therefore shuffle; skip only asks
the audio server to end a track, which `TrackEnds` may do anyway, and is the only way for a paused
one to end, so that fairness speaks of the others; the condition
`!existing.current` is never true where it is tested. The players map of the library is
external: `HasPlayer` and `Live`. A second end event for a track that got stuck,
which the server may send, is not modelled.

`VoiceSlot` is the promise: the connection is asked for by one request at a
time, belongs to one dispatcher, and never returns to one that lost it.

### ShardPlan and ShardCluster

`ShardPlan` is the arithmetic of `primary.ts:27-51` on its own. `ShardCluster` is
the launch (`LaunchOne`, `StaggerAll`, `Tick`), the life of the workers (`Online`,
`Startup`, `Dies`, `FollowsPrimary`) and what the listeners do (`HearsDisconnect`,
`HearsExit`). A worker that exits with a code other than zero is replaced by a new process at once
(`workerListener.ts:66`), and the next call ends the primary (`module.exports` is not the listener
any more), which takes the replacement along. The branch for a crash loop is dead code: its
counter is never raised while the primary lives.

### SettingsCache and SettingsRegister

`log` is the history of the row, its last element the row; `cache` an index into
it or nothing. A request is a message, a slash command or a press of a language
button. `Get`, `Select`, `Insert`, `Store`, `Update` are its awaited calls, `Expire`
the expiry of the copy. `known` is whether the guild is in `bot.guilds`, which `JoinsOrLeaves`
changes: for a guild that is not, a missing row is not inserted, `undefined` is stored as the copy
(`Blank`) and the request goes on with no settings (`read.ts:27-33`); `blind` is the history of that.
The cache of guilds that `createSetting` fills as well is read by no handler, and the SELECT of
`updateLanguage` has no effect, as its test is misspelt: both are part of the call next to them.
`floor` is a history: the state of the row when last a change
was stored, or the copy expired, while nobody was about to store an older row.
`SettingsRegister` is the promise: changes of one column each, none undone, and
answers never older than a floor that only rises.

### Starboard

`ids` is the JSON list, `<<>>` its NULL (an empty list is never stored).
An entry is named by the handler call that made its post. `PostStarts`, `Posted`
and `Store` are the two awaits of the posting branch; `empty[h]` is whether the row
read first had no list, which decides between the two UPDATEs. `safe`, `raced`
and `mishap` are histories. Whether a reaction counts at all (emoji, minimum,
lock) is a free choice (`Ignored`).

### WsRelay

Every worker has one socket (`sock`, its client's view) and two queues, `up` to the
relay and `down` from it; a socket that closes loses both, and `SocketRetries` is the
timer of 500 ms. `kind` is `socket.type` at the relay. A request is a call of `about`
or `devstats`: `Ask` resets the totals of its worker and sends op 3000, once its first reply
is posted, before which nothing is read; `Show` is the end of its sleep, at any time. `RelayAsksAll` and `RelayTellsAll` are the two
broadcasts, `WorkerReplies` and `WorkerAdds` what every worker does about them.
`totals[x][w][r]` counts how often `x` added the answer of `w` to `r`, where the code
has sums; which request an answer belongs to is history. The loop of op 10010 is
`RelayStartsLoop`, `RelayVisits` and `RelayEndsLoop`: it iterates over the live set of
clients, so sockets that open meanwhile are visited too, in an order the
model leaves free, as it does the time of the pauses in between. Both ends of a socket are taken to close at once, and one
developer reloads once. Op 2 is in `ZeroDowntime`.

### Twilight

`lim[t]` is the limiter of token `t` in the map and `used[t]` its time of last use; a
limiter is named after the request that made it. `get_or_insert` is cut where it takes
a lock: `Arrives` takes the time, `Hits` and `Misses` are the lookup, `Counts` adds up
one shard of `len()`, `FindsFirst`, `Skips` and `Folds` are the iterator of `lru()`,
`Removes` and `Inserts` the rest. A token has a shard for itself, which is
the finest interleaving: two tokens in one shard can only exclude each other more.
`Held` are the shards an iterator keeps locked through the items it has given
out. `Panics` is the `expect` on an empty map. `Rejects` to `Responds` are
`handle_request` with each of its errors, and `ReapStarts` to `ReapEnds` the reaper, shard by shard.
The limiter is a library: that one request at a time has its ticket is assumed of it, and
so is that it takes no ticket back from a request that is late (the library has a timeout for
that, which is not modelled); its buckets are not told apart. `split`, `crowded` and `crossed` are histories of
the races that the properties except. `MCTwilight` fixes which tokens three requests
bring, as requests are alike.

### Reminders and ReminderBox

`key` and `row` are what the command leaves in redis and postgres (`SetsKey`,
`Inserts`, `Confirms`); `Expires` tells the handler of the jobs service, if
it runs, and the handler goes through `Selects`, `Deletes`, `DeletesKey`, `Posts` and
`Replied`. An error of the first post with the code 50035 posts again
(`RefusesReference`), one with another code gives up (`Refuses`), one without a
code makes the catch throw and ends the process: that, a query that rejects and a
process that dies by itself are `Crashes`, which loses every handler at once.
`CommandFails` ends the command between any two of its calls. The arguments are not
modelled: a command that rejects them changes nothing.

`ReminderBox` is what the user may expect: a reminder that is set is delivered once or
lost, and neither is taken back.

### Collectors

`menu[m]` is the command behind message `m` and who ran it, `live[m]` its collector,
`shown[m]` and `text[m]` what Discord shows, `edits[m]` the calls of `msg.edit` under way
(the library sends those for one message in order), `page[m]` the counter of an emoji list. Components
are pairs of a command and a `custom_id`; a page that is computed from a text is `NaN`.
An emoji list has pages 0 to `LastPage`, and no buttons when it has one page (`Opens`).
`IsPressed` hands a press to every collector whose options `Matches` it and does what
the handlers do before their first await; `hand[p][c]` is the call that the handler of
`c` then awaits. Discord accepts one answer to an interaction, whichever handler is first
(`Declines`, `DefersLanguage`, `DefersUpdate`, `EditsParent`), and rejects the next;
any other call of a handler may be rejected too, and ends it (`Rejects`). `Stops` is the end
of a collector, by its time or by a handler, whose `end` event removes the components, by an
edit which, as any other, may be rejected (`IsNotEdited`). `crossed`, `raced` and `kept` are
histories. `First` is the member who opens the first message: members differ by name only.
What the collectors match is read off the options, their library is external; the
track that a search adds goes to `Music`.

### Commands

`req[r]` is a message or a slash command and the call its handler awaits, in the order
`After` of that handler; `listed` the keys of the blacklist. `ReadsKey` ends a listed
request. A message whose command is not for DMs awaits the settings once more before the gates
and drops them, which the step to the gates allows for.
`MessagePasses`, `OverridePasses` (`-f`) and `SlashPasses` are the gates, over the commands by what their gates look at and over every view of
Discord's permissions. `Resolves`, `ReadsTarget` and `Writes` are `blacklist` and
`unblacklist`. `clear[r]` is the history of who was seen off the list since `r` came. No
command of the repository has `noThread`, and looking up names and aliases is left out.

## 5. The runs

| run | instance | shows |
| --- | --- | --- |
| `zd_one` | one worker per container, two event names, one gateway event, three deployments, one fault | `OneAnswer`, `OwnedIsAnswered`, `ClaimBeforeRelease`, `UncheckedOwnsAll`, `NoServiceGap`, `HandoverCompletes`, and the refinement `KeepsOwner`. Three deployments let the first uuid come back, and a container to stop be started again; one fault is the worst the properties still speak of (`missed`, `faults = 0`). About 700,000 states. |
| `zd_gap` | two workers per container, one event name | violates `NoServiceGap`, see 6. |
| `music` | two play commands of up to two tracks, four dispatchers, one fault | all safety properties, `KeepsSlot` and `OrphanEnds`. Two commands of two tracks make every pair of awaits overlap; a command makes at most one dispatcher per track. |
| `cluster` | 1, 3, 5, 17 shards on 2 or 4 cores, two faults, five processes | `ShardsDisjoint`, `AllHosted`, `OneDownAllDown` for single shards, a short last range, more cores than shards, more than one range of 16. The fifth process is the replacement of a dead worker. |
| `settings` | three requests of any kind, one fault, four states of the row, a guild that the bot joins or leaves | `FloorHolds`, `ConfirmedIsMade`, `KeepsRegister`, `SettlesFresh`, `RequestsEnd`. One default row, one change by each request: a reader and two writers overlap in every way. About 2.3 million states. |
| `starboard` | four reactions to two messages, three commands, one fault | `SafeStays`, `DoubleNeedsRace`, `BoardAgrees`: create, delete, create around two overlapping posts of one message, with others left to find the result. |
| `ws_relay` | two workers, two requests, one reload; commands and faults share a budget of two | `OncePerRequest`, `AloneIsExact`, `NotIdentifiedTwice`, `ReloadOnce`, `TrafficEnds`. Two requests overlap, or one overlaps a dropped socket, a restarted relay or the reload; broadcasts relate pairs of workers, so two suffice. |
| `twilight` | three requests for up to two tokens and the own one, no map, a map of one entry and one without a bound, timeout and clock of one tick | `OneInFlight`, `SizeBound`, `RecentStays`, `SomeoneRuns`. Two requests can share a token while a third evicts it; one tick is enough to take times in one order and write them in the other, and to reap what was used before it. |
| `twilight_lru` | the same requests, a map of one entry | violates `NeverEmpty`, see 6. |
| `reminders` | three reminders, three faults | `Accounted` and the refinement `DeliversOnce`. A crash loses two handlers at once while a third command runs; a fault is left for the command and for what follows the restart. |
| `collectors` | two messages of any of the eight kinds, two presses, two members, two pages | `UndefinedNeedsCrossTalk`, `DeadNeedsCause`, `Settles`. Cross-talk relates two messages; two presses overlap in every pair of handlers; a third page adds no boundary. |
| `commands` | three requests, a developer who is an owner (as in `config`) and another member | `BlacklistHolds`, `BotPermGap`. One request is being gated while two others change the list to and fro. |

Deadlock checking is off in all of them: commands and requests are used up and
the system rests. What must not stand still is stated instead (`SomeoneRuns`, `Settles`,
`RequestsEnd`, `TrafficEnds`). Type invariants are in no run, as they are proved.
The invariants that only proofs need and that stand in the module of the component
(`IInv`, `NoneSkipped`, `ForksFollow`, ...), and those that are proved and in no run
(`NoneLeftOut`, `DeathIsSeen`, `ForksFit`, `LruKeeps`, `PanicNeedsRemoval`,
`KeysMoveToNewest`), can be added to its configuration, and hold there.

`ZeroDowntimeTwo.cfg` has two workers per container and no fault (2.5 million states):
`GapInv`, `GapIsStart`, `SocketStays`, `HandlerEndsOther` and `KeepsOwner` hold. Two ranges are
what a gap takes; `zd_one` is where faults are looked at.

Four further configurations reproduce what section 6 describes and are meant to
fail: `MusicBusy.cfg`, `ShardClusterRespawn.cfg`, `SettingsStale.cfg` and
`CollectorsOwn.cfg`, each for the module it is named after.

What the properties mean is said beside them in the modules. Some that hold are
weaker than one would wish, and the difference is the point: `OneAnswer` excludes
deliveries during which the key changed hands, because `CheckFlag` and
`CheckKey` of the two containers may straddle the change; `SafeStays` excludes
the first posts of a starboard; `AloneIsExact` speaks of a request that no other
request and no fault disturbed, since a disturbed one shows too much or too little;
`FloorHolds` bounds staleness by the expiry
only once no old row is about to be stored; `OneInFlight`, `SizeBound` and `RecentStays`
except the tokens that were evicted in use, misses that overlapped and times
written in the wrong order; `DeadNeedsCause` says when dead buttons stay; `ConfirmedIsMade` excepts
requests that met a guild without a row which the bot is not in; `OwnedIsAnswered` speaks of events whose name
has an owner and keeps it, while nothing fails, since a rejected redis read drops an event for good; `BotPermGap`
says that only one of the two handlers lets a command run without the bot's permissions.

Each property of a passing run has a mutant in `PROJECT.json`: a plausible
mistake in one definition that TLC finds through that property.

## 6. Where the code differs from what it says

* `zd_gap`: with more than one worker per container the handover has a gap. The
  keys are shared by all ranges, but the first ready worker takes them all, so
  events of ranges not yet online at the new container are dropped by the old one.
  The gap is no larger than that: an event name is unserved on a range only while the new
  container owns it and the new worker of that range is not yet connected (`GapIsStart`, proved
  for any number of workers as `GapOnlyWhileStarting`).
  With one worker per container there is none (`zd_one`, and `NoGap` for any number of
  deployments and events). Also, a new container
  that crashes after it took the keys leaves the old one silent; `NoServiceGap`
  therefore speaks of executions without faults.
* `twilight_lru`: "Length of inner map is guaranteed to be greater than 0". The length is
  compared first and the oldest entry is looked for afterwards; when another request has
  removed the last entry in between, or the reaper has, the request panics. It takes such a
  removal, or two requests that missed one token at once (`PanicsAfterRemoval`).
* `MusicBusy.cfg`, `BusyMeansConnecting`: a playlist command whose dispatcher was stopped in
  time calls `play()` on it; `destroy()` (`AudioDispatcher.ts:79`) deletes the entry of a newer
  dispatcher, whose player stays. The next play command answers "Connecting ..."
  (`play.ts:52`) although nobody does, until the orphan's tracks end (`OrphanEnds`; a paused
  one never ends).
* `ShardClusterRespawn.cfg`, `RespawnHosts`: "Attempting to respawn a replacement"
  (`workerListener.ts:63`) never does; the container ends.
* `SettingsStale.cfg`, `ConfirmedIsServed`: a changed prefix is confirmed, and messages may
  be answered with the old one for up to 60 seconds (`messageHandler.ts:60`).
* `CollectorsOwn.cfg`, `OnlyExecutor`: "Only the command executor can use this!"
  (`locales/en-US/commands.json:72`). The collector of a category menu names no message
  (`help.ts:221`), so a member who has one can select on the help menu of somebody else, and the
  bot redraws it for him.

Seen while reading, deterministic and in no run: `/starboard settings emoji` is
always rejected (`settings.ts:47`), `/starboard stats` ranks by list
order (`stats.ts:20`), `update.ts:7` misspells `length`, op 10011 requires a misspelt
path and reloads nothing (`WebsocketClient.ts:106`), registration in the economy is
always rejected (`create.ts:78`), and so is a second vote (`TopggListener.ts:22`);
the guild count of the api is that of the last worker (`info.ts:10`); `play` without the
bot's permissions maps over a `userPerm` it does not have and rejects
(`messageHandler.ts:157`); the counter of the webhook loggers falls for ever while
nothing fails, so that the throttle of five errors is reached late or never
(`WebhookLogger.ts:6`); and the text with which `playlist` refuses other members has no key in the
locales (`playlist.ts:77`).

## 7. Fairness

Only the liveness properties need any, and all of it is weak fairness of steps the
runtime owes: awaited calls settle, timers fire, processes that were started
run, redis drops an expired key, docker carries out a stop, a track that is not
paused ends (`play` accepts no streams), messages on an open socket are read, and a
socket that connects opens unless it fails. No operator, user, fault or gateway event
is owed. An accepted call may fail while faults are left; a
failure that can happen for ever, such as an INSERT that is always rejected, is
excluded by `MaxFaults`, and `RequestsEnd` would not hold without that bound.

`Reminders` has weak fairness of `Expires` and of `Handler` for each reminder:
redis drops an expired key and a handler that runs goes on. Nothing restarts the jobs
service, and `DeliversOnce` holds all the same, since an expiry nobody hears is a loss.
`Collectors` has one weak fairness of all steps under way: every
call is answered and every collector has a time. Presses and commands are bounded, so
this is enough for everything to settle. `Twilight` and `Commands` have none;
`SomeoneRuns` is a state predicate about what is enabled. It counts no rejection of a
waiting request as going on, which would hide a ticket that never comes back.

## 8. Proofs

For every number of workers, requests, tracks, shards, handlers, tokens and faults, and
from nothing but the named assumptions on the constants:

| module | theorems |
| --- | --- |
| `ZeroDowntimeProofs` | `TypeOK`, `ClaimBeforeRelease`, `UncheckedOwnsAll`, `OneAnswer`, `KeysMoveToNewest`, `GapIsStart`, `HandlerEndsOther`; `KeepsOwner`: the refinement of `EventOwner`; and, where a container has one worker, `NoServiceGap` and `OwnedIsAnswered` |
| `MusicProofs` | `TypeOK`, `OneConnection`, `RegisteredIsLive`, `ClosedHoldsNothing`, `DonePlays`, and `KeepsSlot`: the refinement of `VoiceSlot` |
| `ShardClusterProofs` | `TypeOK`, `ShardsDisjoint`, `NoneLeftOut`, `DeathIsSeen`, `ForksFit` |
| `SettingsCacheProofs` | `TypeOK`, `FloorHolds`, `ConfirmedIsMade`, and `KeepsRegister`: the refinement of `SettingsRegister` |
| `StarboardProofs` | `TypeOK`, `SafeStays`, `DoubleNeedsRace`, `BoardAgrees` |
| `WsRelayProofs` | `TypeOK`, `OncePerRequest`, `AloneIsExact`, `NotIdentifiedTwice`, `ReloadOnce` |
| `TwilightProofs` | `TypeOK`, `OneInFlight`, `SizeBound`, `RecentStays`, `LruKeeps`, `PanicNeedsRemoval` |
| `CommandProofs` | of `Collectors`: `TypeOK`, `UndefinedNeedsCrossTalk`, `DeadNeedsCause` |
| | of `Commands`: `GTypeOK`, `BlacklistHolds`, `BotPermGap` |
| | of `Reminders`: `RTypeOK`, `Accounted`, and the refinement of the safety part of `ReminderBox` |

Each follows from an inductive invariant, stated with its
parts named at the end of the component's module or before the proofs that use it;
`Twilight` has one for each theorem. Two theorems have a hypothesis beyond the
assumptions: `NoGap` and `OwnedEventsAnswered` suppose a single shard range, since with two the
first property is false (`zd_gap`), and so is the second: the owner of a key need not be online on the
range of the event. By the plan of `primary.ts` that is a bot
of one shard, any bot on one core, two to five shards on two cores, three or four on three, and
up to 16, but no fewer than there are cores, with `USE_MAX_CONCURRENCY`.

*ZeroDowntime.* Workers of the older container are past their start, so only the
newest container still writes keys or sends flags; what it has written stays its
own. A flag is released, or a release is on its way, only after a worker of the
container has written every key. And an older worker that has lost a key, or
whose successor has said hello, will check: it checks already, or the order
is in its inbox with no release behind it, or it missed the order.

For the gap: as long as nothing failed, the owner of a key runs, and one of its workers has
written that key since it started (`OwnerLives`); a container starts and stops with all its
workers (`RunsWhole`); and it is to be stopped only when its successor serves with every key
(`DoomedIsReplaced`). So the owner of a key always has a worker on every range, and that worker
serves unless it is still starting, which only a worker of the newest container is
(`GapIsStart`). Where a container has one worker, the one that wrote the key is that worker, and
it is online: then an event name is served exactly when its key is set (`NoGap`).

For the end of a handover: until something fails the socket of a worker that got beyond its
hello is open (`SocketStays`), so `ReleaseWorkers` does not throw and the handler gets to the
request that stops the other container; that one stays off until it is deployed, and is the
newest then (`HandlerEndsOther`).

For the owner's answer: the worker that wrote the key is the one online on the range, so the event
reaches it (`OwnerHasEvent`); while nothing fails only a container in `doomed` stops, and by
`DoomedIsReplaced` its successor then has every key, so the owner does not stop; and with a key
that has not changed hands the owner does not take the event for somebody else's.

For the refinement: whoever writes a key is of the newest container, so `ClaimKey` is `Take`; a
worker whose flag is off owns every key if it missed no order (`UncheckedOwnsAll`), and if it is
of the newest container even so, which is all that `Answer` and `AnswerUntold` ask; and an event
that was not delivered has no verdict.

*Music.* A request joins only when no entry and no player exists, nothing
makes an entry meanwhile, and every path that loses the entry keeps the player as the lock;
so join, player and entry exclude each other. The refinement maps the holder to the
joining request or the live dispatcher, unique by `OneConnection`.

*ShardCluster.* The ranges are given away in ascending order, by the loop or by
the queue of the interval, so no two workers have the same; and ranges with
different numbers do not overlap, whatever the rounding. Nor is one skipped
(`NoneSkipped`), but for the first of a custom launch, and a shard lies in the range that its
quotient numbers: so none is left out. Forks follow the loop, or what the interval has taken
from the queue (`ForksFollow`), whose last tick forks one process for nothing; and rounding
the shards of a worker up, with two more, makes no more ranges than cores. A death leaves its disconnect
with the primary until the primary is down, which is what `OneDownAllDown` needs besides
fairness. One process more is forked in place of a worker that died with a code (`Replacements`),
and no second one, as the primary ends in the same step.

*SettingsCache.* The state a request is about to store is never below the floor, which
rises only when this stays so; a request is answered once; a change is preceded by a
read that found or made the row, or by one that did neither and left the request `blind`.

*Starboard.* While a post is pending that read no list, nothing is safe; a
posting reaction is alone with its message unless the message raced; and before any
mishap a post pending on an empty list is the only one pending.

*WsRelay.* `Flow(x, w, r)` counts the places in which the answer of `w` to `r` may
be on its way into the totals of `x`: the request at the relay, the question at `w`, the
answer at the relay, the message at `x`, the totals. Every step moves it from one place
to the next or loses it, so it never grows beyond the one that `Ask` puts in, and
stays one while nothing is lost. Greetings and reloads are counted the same way.

*Twilight.* All requests of a token that is not split and is present hold the limiter
in the map, and nobody is about to insert another; so two of them share a limiter, which has
one ticket out. For the bound: a request that misses alone sees the map as it is, and only
the reaper acts beside it, so there are no more entries at the shards it has passed than it
counted, and after its removal there is room. For the reaper: unless times crossed, the entry carries a time at
least as late as that of every request holding its limiter. For `lru()`: what it holds is
locked, so neither `Removes` nor `Reaps` gets at it; and what `len()` has counted is, until
something is removed, at or behind the place of the iteration that looks for it (`Found`).

*Collectors.* As long as no press was handed to the collector of another message
(`Apart`), what a message shows, says and is about to be edited to belongs to its own
command, and every handler works on a press of its own message; the part that holds with
cross-talk too is that a help menu only ever shows help, since its collector names its
message. A message whose collector has ended, whose clearing edit was not rejected and that
did not race with the end, has an edit that clears it under way, or is clear with nobody at
work on it (`Gone`).

*Commands.* Whoever is not on the list now is in `clear`, whoever a request has read is in
`clear`, and `clear` only grows; in either order of calls both keys are read
before the gates. That `ReadsTarget` and `Writes` of other requests come in between
changes nothing of this: what was seen stays seen.

*Reminders.* The row of a reminder is there exactly while its command has inserted it and its handler
has not deleted it, nothing is posted before the handler is at its post, a second post
comes only where none was made, and what a fault took is in `lost`. Each step then is a
step of the box or leaves it alone.

Model-checked only: all liveness (`HandoverCompletes`, `OrphanEnds`, `AllHosted`,
`OneDownAllDown`, `SettlesFresh`, `RequestsEnd`, `TrafficEnds`, `Settles`, the fairness of
`DeliversOnce`), which needs fairness, and `SomeoneRuns`, which speaks of ENABLED: both are out
of the prover's reach. Every other property of a passing run is proved.

## 9. Not modelled, and why

* Economy: the INSERT of a registration is always rejected, so no other state is reached.
* The message batcher: its only caller is called from a comment. The postgres pool is
  configuration of a library.
* Top.gg listener: one row, two statements, the second never reached.
* HTTP API: stateless handlers over libraries for tokens and rate limits.
* Webhook logger: its counter decides whether a line is posted, and nothing else.
* Stateless commands: each formats a reply or makes one call of Discord.

Inside modelled components: message texts and argument checks of commands; the
order of tracks; the channel and counters of the starboard; the cache of the `guilds`
table, which no handler reads; the docker controller's authentication; the buckets of a
rate limiter, the metrics and the rewriting of paths in the proxy; the redis keys of a search, which
live 33 seconds while its collector lives 30, a matter of time that the models do not
measure. A failed request for the number of shards leaves the primary idle for ever
(`AskFails`); nothing in the code retries it.
