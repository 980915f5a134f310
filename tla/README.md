# zRuvix, specified in TLA+

zRuvix follows the Discord presences of the members of a guild and serves them
over REST and WebSocket. This directory holds TLA+ models of its concurrent
core, the TLC configurations that check them, and proofs checked by TLAPS.

    tlc -workers 2 -config presence_sockets.cfg MCPresence
    tlc -workers 2 -config gateway.cfg Gateway
    tlc -workers 2 -config history.cfg MCHistory
    tlapm PresenceProofs.tla
    tlapm GatewayProofs.tla

## 1. The system

| Component | Code | State it keeps | Operations |
|---|---|---|---|
| Presence registry, cache, fan-out | `internal/presence/presence.go` | `Registry.m`, the `Presence` objects (Discord data, KV, external report, banner, subscribers, markers), `cache`, `globalSubs` | LookupOrStart, Stop, Sync, SyncLocal, BuildPretty, GetPrettyPresence, ensureBanner, subscribe, unsubscribe |
| External reports | `internal/presence/external.go` | a report in memory and in Redis, with a TTL of 5 minutes | SetExternalMusic, ClearExternalMusic, load, merge |
| History | `internal/presence/history.go` | Redis lists and counters, change markers in the object | recordHistory, History, Stats, MostPlayed, PurgeHistory |
| Gateway client | `internal/gateway/client.go` | session id, resume URL, sequence number, one connection, one heartbeat goroutine | Run, connectAndServe, heartbeat, handleDispatch |
| KV store | `internal/kv/kv.go` | Redis hash, `Presence.KV` | Set, Multiset, Del, Clear |
| WebSocket connections | `internal/socket/handler.go` | bounded queue, closed flag, tracked ids | readLoop, writeLoop, handleInit, handleUnsubscribe, cleanup |
| Redis client | `internal/redis/redis.go` | none; keys in Redis, channel `zruvix:global_sync` | commands that ignore errors, publish, subscribe |
| Discord REST | `internal/discord/discord.go` | none | FetchUser |
| API keys | `internal/bot/apikey.go` | two Redis keys per user | validate, rotate |
| Bot, HTTP API, changelog, config, metrics | `internal/bot`, `internal/api`, ... | none of their own | requests in front of the operations above |

How they interact. One gateway goroutine handles all dispatches in order and
calls the registry. Every HTTP request, bot command and WebSocket connection has
a goroutine of its own and calls the registry, `kv` and the report operations.
`ensureBanner` starts one more. They share `Registry.mu`, one `mu` per Presence,
`cacheMu`, `globalMu` and `Conn.mu`; no two of these are ever held together,
so locks cannot deadlock. What is hard is what
happens between critical sections: a snapshot is taken under `p.mu`, and the
cache, the history and the subscribers are updated from it after the lock is
released.

What makes each component correct:

- Presence: the cache and what subscribers were last sent are the current
  state; subscribe_to_all misses nobody; a closed connection is forgotten; an
  expired report is not served; the banner is fetched once; updates arrive.
- Gateway: no event of a session is lost or handled twice, the monitored users
  are the members, dead connections are noticed, the client always comes back.
- KV: memory shows what Redis stores, a crash loses nothing that was shown, the
  key limit holds.
- Sockets: fan-out never blocks and never sends on a closed channel; a slow
  consumer loses messages but not order; no goroutine outlives its connection.
- History: one play per song, lists within their cap, counters, list and details
  that agree, nothing after a purge.
- global_sync: a node that has missed nothing shows what Redis stores.
- API keys: the current key works, no other key does, a key that was posted as
  the first argument of a command is refused. A key among the other arguments of
  `.set`, or in the field or the value of a request, is stored without a look at
  it, and stays valid.
- Now playing: the source that is named is the one of the song that is shown, times
  derived from a position span the present, a song is one play. Timestamps that a
  report brings are stored as they are.

`PROJECT.json` lists the hazards of this code by line, each with the properties
that watch it. Some of these hazards are ones the code lives with: two
publications that overlap do leave a stale cache. There a property exempts the
hazard by a ghost and shows that nothing else has the same effect; the hazard's
note then says "delimited, not caught".

## 2. Modules

| Module | What it is |
|---|---|
| `Presence` | the presence core for one user, every goroutine, one action per critical section or Redis command |
| `MCPresence` | symmetry for TLC |
| `PresenceProofs` | proofs: types, bindings of program points to operations and objects, fetch once, no leaked subscriber, freshness, subscribe_to_all, expiry |
| `EventStream` | abstract: events of a session handled once and in order |
| `Gateway` | the gateway client and the service it talks to; implements `EventStream` |
| `GatewayProofs` | proofs: the refinement, heartbeats, membership, types and bounds |
| `KV` | one user's key-value map in Redis and in memory |
| `KVProofs` | proofs: types and flow, crash safety, the limit, memory against Redis |
| `Feed` | abstract: the updates of a publisher reach a client in order, each at most once |
| `Socket` | connections with their queue, reader, writer and cleanup, and the fan-out; implements `Feed` |
| `SocketProofs` | proofs: the closed channel, loss, the refinement |
| `Plays` | isNewPlay, as an operator |
| `History`, `MCHistory` | recordHistory and PurgeHistory on several nodes over one Redis |
| `HistoryProofs` | proofs: bounded lists, plays counted once and none missed, statistics that agree, the newest status, purges |
| `Access`, `MCAccess` | API keys, and the bot commands and requests that use them |
| `AccessProofs` | proofs: which keys are accepted |
| `GlobalSync` | one user's KV map on several nodes |
| `GlobalSyncProofs` | proofs: copies against Redis, no echo |
| `NowPlaying` | what a user is shown to listen to, and what of it counts as a play |
| `NowPlayingProofs` | proofs: sources, times, one play per song |

### Presence

One monitored user. `reg` is the registry entry, `data[o]`, `tried[o]`, `marker[o]`,
`subs[o]` the fields of object o: a stopped and restarted user gets a new object, and
goroutines may still hold the old one. Payloads are version numbers: `disc` counts
gateway events, `kv` KV writes, `ext` external reports. Each goroutine has a program
counter; between two of its actions any other may run. `Snap`, `LoadExt`, `Keep`,
`Drop`, `CacheSet` are BuildPretty; `Lookup`, `Merge`, `Publish`, `Record`, `Tell` are
Sync and applySync; `Chunk`, `LoadObject`, `Announce` are LookupOrStart;
`EnsureBanner`, `Fetched`, `FetchFails` are the banner fetch, which only
GetPrettyPresence starts; `Stats` builds and caches without it; client actions are the
socket handlers. `Drop` reads the report pointer outside the lock as the code does, so
it may skip the section. Whether a report expires between two reads is the free action
`Expire`. `"banner"` in `Calls` lets FetchUser answer with a banner; the other
instances have fetches that bring none. With `RedisFails` a command may be lost and a
read may find nothing.

Two ghosts: `fetches` counts REST fetches, and `overlapped` records whether the
last write of the registered object ran while another publication was under way
or while someone held another object. `FreshWhenQuiet` says that this is the
only cause of staleness. Without the ghost it is false, and three documented
promises fail for that reason (section 3).

Not in the module, but in the others: the contents of history lists (`History`),
the publication on global_sync (`GlobalSync`), the connection's queue
(`Socket`; here a client is seen through its last message, and the queue is not
full). One user: users share only globalSubs.

### Gateway

The reader (`Dial`, `Read`, one action per opcode and dispatch kind,
`ReadError`) and the heartbeat goroutine (`TakeAck`, `Beat`, `Stale`) of the
current connection. `Read` takes a message and stores its sequence number;
handling it is a later step, so the heartbeat and the network move in between.
`wire` and `out` are the messages under way. A connection can be `cut`: both
directions lose what is sent from then on, and nobody need notice. Discord's
side is external and written from what the client relies on: it numbers events,
replays them on a resume or refuses it, acknowledges heartbeats, answers member
requests; GUILD_CREATE of a large guild lists only some members. RESUMED events
and heartbeat requests by Discord (opcode 1), which the client ignores, are left
out, and so are undecodable messages.

`StreamSpec` is the refinement: `EventStream` with the session as epoch, the
length of Discord's log as the events emitted, and the handled numbers as
`done`. `MembersMonitored` relates the registry to the guild; its ghost
`missed` stands for a lost member request (gw.send ignores errors and a resume
does not repeat it), `gap` for users who left between two sessions.

### KV

`redis` is the hash, `kv[o]` the map of object o, `copy` the map GetKV gave a
worker. Set: lookup, copy and limit check, HSET, lookup, replace the map.
Multiset and Del: Redis first, then lookup, copy, lookup, replace. Clear: DEL,
lookup, replace. `Start` makes an object with a nil map visible and `Load` fills
it (HGETALL runs inside the lock of the object, so the two are one step).
`Crash` ends the process between any two steps. Redis errors and pair validation
are not modelled: a HSET that is lost while Set reports success leaves memory ahead
of Redis, and no property here sees it. The empty PATCH, which changes nothing, is
left out.

### Socket and Feed

One monitored user and several connections. A connection has three parties: the
reader (`Hello`, `Initialize`, `AddSubscriber`, `InitState`, `Unsubscribe`,
`BadMessage`, `ReadFails`, then `Cleanup`, `Leave`, `CloseNow`), the writer
(`Take`, `Written`, `WriterEnds`) and the publishers, goroutines in applySync,
which copy the subscriber set (`Publish`) and call SendEvent on each
(`Tell`) while subscribers come and go. `closed` is the flag, `chanOpen` the
channel itself: a send on a closed channel sets `panicked`. `Written` happens
only when the peer reads, which it may never do; `Take` leaves the channel with
room for one more. `due` and `full` are ghosts that say what the channel owes as
long as nothing has found it full.

A publisher is one goroutine. Two updates that are published at once by two
goroutines of one user may reach a client in either order: that hazard belongs
to the fan-out and is in `Presence`, so `Feed` promises an order per publisher.
What connections `Restless` may do is bounded by the set; the others subscribe
once and stay.

### Plays and History

Each node has an object with three markers; they share the user's keys in Redis.
`Sync` takes a snapshot, `Compare` is the critical section of recordHistory, and
the Redis commands that follow are a list of which `Issue` takes one at a time.
`Purge` issues six deletions and then resets the markers of the node that ran it
(`Reset`). `Crash` drops one node's goroutines and markers. What Discord reports
is external: a song has a number and a start, and a report may repeat it,
jitter, leave out its start, pause it or bring the next one.

Ghosts: `due` counts per track the songs each node was told of, which is what
the counters are compared with (two nodes count a song twice, as the code does);
`overlapped`, `mixed`, `cut`, `blind` and `strayed` record that two recorders of one
node overlapped, that a purge overlapped something, that a crash cut a goroutine
short, that a song came without a start, that a song came with a start more than
`Gap` off (one of `Strays`, which a report may give of any song). A property names
those it needs: missed plays are excluded also under overlaps, inflated ones only
without. Once a start has strayed neither is promised, because isNewPlay cannot
tell it from a restart.

### Access

`owner` and `current` are the two Redis entries of a key. storeNewKey is
`Existing`, `Del`, `Set`, `Point`, one per command. A bot command with a first
argument starts with `Check` (validateAPIKey), which sends the current key into
a rotation; a request starts with `Auth`. Both end in `Store`. With `RedisFails`
a write may be lost and a read may return nothing, so the leak check of an empty
argument can take a failed read for the key, as in the code. `Crash` ends the
process. Users may post any key they were ever sent, as the label or as the value
of a command or a request, and any of `Texts`. `kv` holds the pairs with the way
each came in: only a label that came in by a command was compared with the key,
and that is what `StoredKeysRefused` speaks of. A PATCH of several pairs is one
pair here.

Ghosts: `leaked` are the keys a rotation that has ended was meant to revoke,
`overlapped` the users with overlapping rotations, `cut` those with a rotation
or a check that Redis or a crash has cut short. `CurrentKeyWorks` holds under
overlaps too; that no other key works does not, because two rotations can both
read the same old key.

### GlobalSync

`store` is the hash in Redis, `view[n]` the map of the object on node n. A write runs
`Copy`, `Persist`, `Sync`, `Publish` in the order of Set, which may refuse after the
copy, or with `Persist` first for Multiset and Del; Clear needs no copy. `Publish`
puts the map into the inbox of every connected node, its own included. `Register` and
`Load` are the two halves of LookupOrStart. A map is the set of the writes it shows; a
Del takes any one of them out (`Changed`). Connections break with what was on its way,
processes end anywhere, subscriptions are made whenever go-redis gets to it.

The ghosts `stale` and `tainted` follow what the code cannot know: a node missed
a message, a write ended without a publication (the user was not monitored where
it was made, or the process ended), or a map was computed from a copy that had.
`ShowsWhatIsStored` says that nothing else makes a node differ from Redis, as
long as writes do not overlap.

### NowPlaying

The data of one sync, without interleavings: activities of Discord and a report
go in, `Pretty` (buildPretty and mergeExternalMusic) gives the music shown, and
`Record` compares it with the markers. Time counts in units of the 10 seconds
that isNewPlay tolerates. `SetExternalMusic` takes the inputs a client may send
(`Inputs`): a position that is right, a little ahead, past the end or missing, with
or without a duration; timestamps of the song or from anywhere (`Stamps`), in the
past, in the future or at 0, also empty ones or with a field missing; and a source
of its own. `Derive` and `Times` compute the times. `Tick` lets a report expire,
`Restart` makes a new object with the report from Redis. The player is external: it
begins, stands still and seeks. Ghosts follow each song: how long it has stood
still, how often it was counted, whether another was recorded since, and whether a
report gave it a start that is not its own (`astray`). A report without a track id is
left out: recordHistory skips it.

Six facts of the code that the properties had to be stated around, the last two
found while proving. A report with a duration and no position makes its song start
when it arrives (external.go:124), so that each refresh of it after more than the
gap is another play, and a repeat soon after it is none; timestamps are compared
with each other and not with the clock; hence `astray`. A paused
song that is reported again at the same position has a start that moves with the
clock, and counts as a replay after 10 seconds (`is_paused` is stored and never
read); hence `drift`. Timestamps that end before they start are dropped and nothing is
derived from the position, although external.go:105 says "otherwise derive".
A song that was hidden behind another source is counted again when it reappears;
hence `displaced`. A report may call its own source "spotify", and then it is shown
under that name although Spotify does not play. Two songs of one track that
follow each other within the gap can be recorded in the other order, the later
one from a report and the earlier one from Discord's older activity: then the
earlier one is not counted, so `EverySongCounted` excepts the pair and not only
the later song. It takes three songs and two updates, which the run does not
have.

## 3. Runs

| Run | Shows | Bounds |
|---|---|---|
| `presence_sockets` | freshness, subscribe_to_all, cleanup, over stop and restart | 1 connection, 1 KV writer, 2 objects, 3 events, 1 write |
| `presence_reads` | reports set, cleared, expiring under two concurrent requests; one fetch | 2 requests, 1 fetcher, 1 object, 2 events, 1 report |
| `presence_restart` | freshness with banner fetches and failing Redis, over a restart | 1 request, 2 fetchers, 2 objects, 3 events |
| `presence_delivery` | every update reaches a subscriber that stays (liveness) | 1 connection, 1 writer, 1 object, 2 events |
| `presence_stop_cache` | violation: Stop and a late builder | 2 events |
| `gateway` | refinement of EventStream, membership, heartbeat accounting, liveness | 1 user, 2 guild changes, 2 losses |
| `kv` | memory against Redis, crash, limit | 2 writers, 2 keys, limit 1, 3 operations, 2 objects |
| `socket` | no send on a closed channel, loss only by overflow, refinement of Feed, the fan-out and the writer end | 1 restless connection, 2 publishers, capacity 2, 3 updates |
| `history` | lists within their cap, plays neither missed nor inflated, statistics that agree, a purge that erases | 2 nodes, 2 goroutines, 2 tracks, cap 1, 2 songs, 1 stray start, 3 syncs or purges |
| `access` | the current key works, no other does, leaked keys and keys stored as labels are refused | 2 users, 3 goroutines, 3 keys, 1 other text, 1 other operation |
| `global_sync` | copies that missed nothing are what Redis stores, no echo, convergence (liveness) | 2 nodes, 1 writer, 2 writes, 2 crashes or disconnections |
| `now_playing` | source and song agree, derived times span the present, one play per song | 1 track played twice, 1 name of a source, songs of 3 units, 3 other starts, 3 units of time, 1 other update, 1 activity |

Why the bounds suffice. A stop and a restart need two objects; three events are
a start, a stop or update, and one more that races with what they left behind;
one KV write or report is enough to be the newer or the older of two
publications. In `gateway`, two losses allow a loss during the recovery from a
loss (a cut while resuming, a refused resume after a cut, a late ACK after a
reconnect), two guild changes allow a member to join and leave around them. In
`kv`, two keys and two writers are what a lost update needs, a limit of one key
is reached with one write, a third operation can come between two others.

In `socket`, a channel of two messages can hold one of each publisher, or two of one,
whose order then matters, while a third is being written; the third update can find it
full, fit, or find it closed. That a peer which does not read harms no other
connection is in the step of a publisher, which never waits (`FanOutEnds`). In
`history`, a cap of one is exceeded by the second push, three syncs allow one to
overtake another, or a purge between two, on either node; two songs of one track are a
replay, of two tracks a change. In `access`, three keys are what two overlapping
rotations replace and create, with a third goroutine that posts or uses one of them.
In `global_sync`, two writes suffice for one to be announced and the other not, two
faults for a lost message and a crash; larger instances (two writers with one fault,
three writes with one fault) were checked as well. In `now_playing`, the report lives
2 units and a song lasts 3, so it expires in the middle of its song; positions may be
past the end; a track played twice is what isNewPlay must tell from one that jitters.
A report that calls its source "spotify", and Spotify and YouTube Music shown at once,
are in the proofs only.

Fairness. `FairSpec` of Presence asks that every goroutine in the middle of a
call goes on: Go schedules them, no lock is held across a blocking call except
the HGETALL and GET of LookupOrStart, which the Redis client bounds by timeouts,
FetchUser has an HTTP timeout, and SendEvent never blocks. No new request is
ever required. `FairSpec` of Gateway asks that the goroutines run, the timer
fires, the default host can be dialled and Discord answers. A lost connection is
assumed to be reported only during the handshake and after our own close; in
between, noticing it is the heartbeat's work, and `SilenceNoticed` checks that.
The handshake assumption is needed: before HELLO nothing in the code bounds
ws.Read.

`FairSpec` of Socket schedules the publishers, the readers outside ws.Read and
the writers outside ws.Write; peers promise nothing, not even to read. That the
reader leaves ws.Read when the socket is closed is the library's promise.
`FairSpec` of GlobalSync schedules a write once it has begun and lets a connected
node read its subscription; nodes need not start, connect or write.

### What the code does not promise

`presence_stop_cache` is a violation: `Registry.Stop` "drops its cache entry"
(presence.go:124), but a builder that took its snapshot before caches it again.
`PROJECT.json` quotes it under `findings`. Seven more properties stand in the
modules because comments of the code state them, and TLC refutes each; they have
no run of their own. To see a counterexample, list the property alone in a cfg
with these constants:

| Property | What happens | Instance |
|---|---|---|
| `NextReadHasBanner` (Presence) | the snapshot of a sync in progress overwrites the cache entry with the banner, although "the next read will" have it (presence.go:320) | `Calls = {"chunk", "update", "get", "banner"}`, 1 worker, 1 fetcher, 1 object, 2 events |
| `ExpiredNotServed` (Presence) | a cleared report comes back into the cache from an older snapshot; the object no longer knows it, so nothing notices its expiry (presence.go:323) | `presence_reads` with 1 event |
| `ClosesOnlyUnacknowledged` (Gateway) | the heartbeat timer wins over an ACK that has arrived but was not taken (client.go:233) | `gateway` with 1 loss, 0 guild changes |
| `KeepsConnection` (Gateway) | a resume host that is gone is dialled for ever (client.go:101) | `gateway` with 0 guild changes |
| `NoReplayWithoutRestart` (NowPlaying) | a song that runs and is reported with a duration and no position gets a new start each time and is counted again, although the same track is a replay only on "a genuine restart" (history.go:43-45) | `now_playing` with 1 song, `Jitter = 0`, `Stamps = {}` |
| `SourceIsKnown` (NowPlaying) | a report is shown under the name it gives its source, where the type names two (types.go:87) | `now_playing` with `Sources = {"youtube_music", "other"}`, `Stamps = {}` |
| `LimitEnforced` (KV) | two Sets pass the check together and the hash exceeds the limit (kv.go:36) | `Calls = {"set"}`, 1 object, 2 operations |

## 4. Proofs

| Theorem | Module | Statement |
|---|---|---|
| `TypesAndBindings` | `PresenceProofs` | `Spec => [](TypeOK /\ Bindings)` |
| `FetchOnce` | `PresenceProofs` | `Spec => []FetchOncePerObject` |
| `NoLeak` | `PresenceProofs` | `Spec => []NoLeakedSubscriber` |
| `Freshness` | `PresenceProofs` | `Spec => []FreshWhenQuiet` |
| `NobodyIsMissed` | `PresenceProofs` | `Spec => []GlobalCovers` |
| `ExpiryIsNoticed` | `PresenceProofs` | `Spec => []ExpiryNoticed` |
| `GatewayIsStream` | `GatewayProofs` | `Spec => StreamSpec` (refinement of `EventStream`) |
| `OneHeartbeatOnly` | `GatewayProofs` | `Spec => []OneBeatInFlight` |
| `MembersAreMonitored` | `GatewayProofs` | `Spec => []MembersMonitored` |
| `SessionsArePaid` | `GatewayProofs` | `Spec => [](session <= losses + 1)` |
| `GatewayTypes` | `GatewayProofs` | `Spec => []TypeOK` |
| `KVTypes` | `KVProofs` | `Spec => []TypeOK` |
| `ShownSurvivesHolds` | `KVProofs` | `Spec => []ShownSurvives` |
| `SetWithinLimitHolds` | `KVProofs` | `Spec => SetWithinLimit` |
| `ShownIsStoredHolds` | `KVProofs` | `Spec => []ShownIsStored` |
| `NeverSendsOnClosed` | `SocketProofs` | `Spec => []NoSendOnClosed` |
| `LosesOnlyOnOverflow` | `SocketProofs` | `Spec => []OnlyOverflowLoses` |
| `SocketIsFeed` | `SocketProofs` | `Spec => FeedSpec` (refinement of `Feed`) |
| `TheCurrentKeyWorks` | `AccessProofs` | `Spec => []CurrentKeyWorks` |
| `OnlyOneKey` | `AccessProofs` | `Spec => []OneKey` |
| `LeakedKeysAreRevoked` | `AccessProofs` | `Spec => []LeakRevoked` |
| `StoredKeysAreRefused` | `AccessProofs` | `Spec => []StoredKeysRefused` |
| `NodesShowWhatIsStored` | `GlobalSyncProofs` | `Spec => []ShowsWhatIsStored` |
| `WritesAreNotEchoed` | `GlobalSyncProofs` | `Spec => []NoEcho` |
| `WhatIsShownIsPlaying` | `NowPlayingProofs` | `Spec => []SourceMatchesSong` |
| `ReportsSpanTheirArrival` | `NowPlayingProofs` | `Spec => []ReportSpansItsArrival` |
| `NoSongCountsTwice` | `NowPlayingProofs` | `Spec => []SongCountedOnce` |
| `NoSongIsMissed` | `NowPlayingProofs` | `Spec => []EverySongCounted` |
| `ListsStayBounded` | `HistoryProofs` | `Spec => []ListsBounded` |
| `NoPlayIsMissed` | `HistoryProofs` | `Spec => []NoPlayMissed` |
| `NoPlayIsInflated` | `HistoryProofs` | `Spec => []NoPlayInflated` |
| `StatisticsAlwaysAgree` | `HistoryProofs` | `Spec => []StatisticsAgree` |
| `NewestStatusIsRight` | `HistoryProofs` | `Spec => []NewestStatusIsCurrent` |
| `PurgesErase` | `HistoryProofs` | `Spec => PurgeErases` |

Each holds for every set of goroutines, connections, users, nodes and tracks and
for every bound: the bounds of the runs are constants of which the proofs know
that they are naturals. Every module follows the same argument. Its properties
speak of idle states, of counts or of what has already happened, and are not
inductive; an invariant with one named part per idea is, and it is preserved by
each action in a lemma of its own. The types, and what each program point knows
of its operation, are always the first part.

**Presence**, with and without failing Redis, from `BoundsAssumption` (bounds
are naturals) and `ThreadsAssumption` (the kinds of goroutine are disjoint).

- `Bindings` ties each program point to the operations that can be there and to
  a live object: without it no action's effect on `data[obj[t]]` can be typed.
  The proof first shows, once and for all, what each goroutine leaves alone
  (the frame lemmas), then treats one action per step.
- `OneFetch`: `fetches[o]` is 0 until `tried[o]` is set, then at most 1.
- `Tracking` and `Globals`: a subscriber of the registered object is tracked,
  and a connection in cleanup is only in sets that cleanup has yet to reach.
  `NoLeakedSubscriber` alone is not inductive, because the tracked ids are
  what cleanup works from.
- `Isolated`: while `overlapped` is false, at most one goroutine is publishing,
  and its snapshot, the cache, each subscriber's last message and the marker
  are the current state as soon as it has passed the step that writes them. It
  has one named part for each of the four. `QuietIsFresh` derives the invariant.
- `Covering`: a connection in globalSubs has been told of the registered object,
  or LookupOrStart has yet to announce it, or subscribe_to_all to send
  INIT_STATE with it. `Named` (a snapshot under way bears its object) and
  `Kinds` (which operations a connection runs, and that a closed one only cleans
  up) are what the step of each goroutine needs.
- `Expiring`: the report in the cache, and in each snapshot about to be cached,
  is that of the object, or gone because that one has expired. It rests on
  `Isolated`, which says who may still replace the cache.

**Gateway**, from `GatewayAssumption` (bounds are naturals).

- `Lines` is what a connection looks like before and after HELLO, `Heart` where
  the one heartbeat, or its ACK, may be: on its way out, on its way back, being
  handled, or in `ackCh`.
- `Order`: the numbers on the wire go on from the last event handled without a
  gap (`Stretch`, and `Numbers` for the stored sequence number), and a handshake
  under way asks for exactly that (`Handshake`, `Resumable`). The refinement
  follows: a dispatch that is handled is the next of its session.
- `Guild`: who is monitored and no member has a removal to come (`NoStranger`),
  and a member who is not monitored has an event or a request that brings them
  (`Coming`). `MembersMonitored` is the case in which nothing is to come.
- `Bounds` counts what is still to come, on top of the rest. `Paid`: the sessions
  so far and those the client may still ask for (`Owed`) are at most one more than
  the cuts, reconnects, invalidations and late ACKs. It needs that READY is read
  before a request to reconnect (`Readied`) and that Discord refuses only a session
  it has given up (`Refused`). `Fits`: the events of a session, those whose handler
  will ask for members (`Asking`) and the requests on their way are at most two for
  each guild change and three for the session's start.

**KV**, from `KVAssumption` (bounds are naturals, there is a key, the keys are
finitely many).

- `Flow` is what a program point knows of its operation: an object that was
  looked up, a value, one key and room for it after Set's check. `TypeOK` and
  the limit need it: `kv[obj[t]]` must be applied inside its domain.
- `Survives` adds to `ShownSurvives` the copies that workers hold and the keys
  of a write that has reached Redis. Without them a merge could show anything.
- `Solo` says how far the only running operation has come: before its Redis
  command both maps agree, after it Redis is ahead by exactly its change, and
  its copy is the map shown. `ShownIsStored` speaks of idle states only, so it
  says nothing inductive by itself.

**Socket**, from `SocketAssumption` (the capacity is at least 1, `"server"` is no
publisher).

- `ClosedFirst`: a closed channel has its flag set, under the same lock that
  SendEvent takes. `Shape` says what the writer holds.
- `InOrder`: what is on its way to a connection lies above what it has, not above
  what it was told, and rises for each publisher. A step of the writer is then a
  step of `Feed`.

**Access**, from `AccessAssumption` (texts are not numbers, as keys are; 0 is no user).

- `Fresh`: the key a rotation brings is known to nobody before it ends; `Own`: no
  key crosses from one user to another. Both hold under all interleavings.
- `Works`: a current key that is not accepted belongs to a rotation that will
  replace it by one that is. This survives overlaps, though not a rotation that
  is cut short.
- `Single`, `Kept`, `Refused`: without overlaps the accepted key is the current
  one or the one a rotation is about to point to; a leaked key is the current one
  while its rotation runs; the label a command has stored, or is about to store, is
  not accepted.

**GlobalSync**, from `GlobalSyncAssumption` (bounds are naturals, the goroutines
are finitely many, which counting them needs). `Promise` follows the only write
under way: before it reaches Redis every node shows the store or has it on its
way (`Shows`); then the goroutine carries the store (`Carries`) until its
publication hands it to all who listen. `Alone` and `OwnFirst` say whose messages
may be on their way meanwhile. `Counted` adds to `NoEcho` the writes that have
yet to publish.

**NowPlaying**, from `NowPlayingAssumption` and `PlaysAssumption` (lengths and bounds
are naturals, the starts in `Stamps` any integers, the jitter is at most the gap). Its
invariant has an existential: a start S and a latest start E for every song, which no
variable holds, because `now - position` only tells those of the song that plays.
`Timeline`, `Carriers`, `Marks` and `Last` place every start that is reported, shown
or remembered between the two, unless the song is `astray`, and `SameSong` and
`OtherSong` conclude what isNewPlay answers. `InputTimes` is the lemma about `Derive`
and `Times`: an input that is not `Misleading` has no times or those of the song;
`ShownFrom` and `ShownSource` are those about `Pretty`.

**History**, from `HistoryAssumption` (the cap is at least 1, the bounds are
naturals, the nodes, goroutines and tracks are finitely many, there is a node,
None is no track and no status) and `PlaysAssumption`.

- `Steps` is what a goroutine has yet to issue: each command at most once, a push
  followed by its trim, the commands of a play in order. `Alone` is what
  `overlapped` and `mixed` promise while they are false.
- `Erased`: a purge that runs by itself is about to delete what is still there.
  `PurgesErase` and the case of `Reset` in the other lemmas follow.
- `Newest`: a status on its way to the list is the marker of its node, and the
  head of the list is some node's marker unless such a push is to come.
- `NothingLost`: the plays due are at most those counted, about to be counted by a
  goroutine (`Counting`), and owed by a node whose goroutine holds a snapshot of
  a song that its marker does not show (`Owed`, one per node and song).
- `NothingTwice` is the other direction: counted, about to be, and about to be
  found new (`Finding`, one per node) are at most the plays due, until a start has
  strayed. `Settled` says
  why the second snapshot of a song finds nothing new; `WindowsApart` that the
  starts of two songs are more than `Gap` apart.
- `Tallied`: the details, the sum of the counters and the length of the list
  differ by exactly the goroutines that have issued one command of a play and
  not yet the last one (`Late`). `NoPlayMissed` holds under overlaps too, and so
  does this.
- The sum is a fold over the tracks. That one more play of one track adds one to
  it (`SumGrows`), whatever element the fold takes first, is proved from the
  definition of the fold in the library: its recursion has a solution
  (`SumsExist`) and only one (`SumsAgree`). The induction is over finite sets,
  from a least counterexample (`Smallest`).

Only model-checked:

- Liveness, which needs fairness and is out of the prover's reach:
  `EventuallyDelivered`, `CatchesUp`, `SilenceNoticed`, `FanOutEnds`, `NoWriterLeak`,
  `Converges`. The other temporal properties are proved: `SetWithinLimit`,
  `PurgeErases` and the two refinements.

## 5. Not modelled

- Formatting and I/O: REST routing and response codes, request parsing,
  quicklinks, the SVG card, docs and health endpoints, message texts, the Discord
  REST helpers of the bot, metrics and configuration. They change no state that
  another part reads.
- The changelog: a static list and one Redis list that only the owner writes,
  with the same LPUSH and LTRIM as the history lists.
- Data that is passed through: album art, custom status, the activity list, user
  objects, compression and encoding of messages. Validation of KV pairs.
- Read-only functions of the history (`History`, `MostPlayed`): what they
  read is what the properties of `History` are about; ranking is a sort.
- The day boundary of `tracks_today`, the TTL of its key, and lost Redis commands
  of the history and of KV: a command that fails is only modelled for the
  presence cache and for the API keys.
- One update published by two goroutines of the same user on the way to one
  client's queue: the order is covered by `Presence`, not by `Socket`.

## 6. Plan

Done: all modules of section 2; proofs of every invariant, action property and
refinement the passing runs check. What the next extension would add:

1. Lost Redis commands in `History` and `KV`, as `Presence` and `Access` have them:
   a play whose commands fail half-way, a Set whose write to the hash fails.
2. The day boundary of `tracks_today` and the expiry of its key.
