------------------------------ MODULE Presence ------------------------------
(***************************************************************************)
(* The presence core of zRuvix (internal/presence/presence.go) for one      *)
(* monitored user: the registry entry and the Presence objects it has       *)
(* pointed to, the pretty-presence cache, the subscriber sets, and every    *)
(* goroutine that touches them.                                             *)
(*                                                                          *)
(* One action is one critical section of the code (of Registry.mu,          *)
(* Presence.mu, cacheMu, globalMu or Conn.mu) or one Redis command; between *)
(* two actions any other goroutine may run.  Payloads are version numbers:  *)
(* disc is the gateway event that wrote discord_user / discord_presence,    *)
(* kv the write that produced the KV map, ext the external report.          *)
(*                                                                          *)
(* Goroutines:                                                              *)
(*   Gateway   the single loop of internal/gateway that runs all dispatches *)
(*   Clients   one readLoop per WebSocket connection (internal/socket)      *)
(*   Workers   HTTP and bot requests (internal/api, internal/bot)           *)
(*   Fetchers  the goroutines ensureBanner spawns                           *)
(*                                                                          *)
(* What recordHistory appends to Redis and what Sync publishes on           *)
(* zruvix:global_sync leave this state; the socket queue is seen through    *)
(* its last message and assumed not full.                                   *)
(***************************************************************************)
EXTENDS Naturals, FiniteSets

CONSTANTS Gateway, Clients, Workers, Fetchers,
          Calls,         \* the operations an instance exercises, with "banner"
                         \* when FetchUser may answer with one
          RedisFails,    \* TRUE: a Redis command may be lost or return nothing
          MaxObj,        \* bound: Presence objects ever created
          MaxEvents,     \* bound: gateway events handled
          MaxKV,         \* bound: KV writes started
          MaxReports     \* bound: external now-playing reports accepted

Threads == {Gateway} \cup Clients \cup Workers \cup Fetchers

ASSUME BoundsAssumption ==
  /\ MaxObj \in Nat /\ MaxEvents \in Nat /\ MaxKV \in Nat /\ MaxReports \in Nat
  /\ RedisFails \in BOOLEAN

\* The four kinds of goroutine are different goroutines.
ASSUME ThreadsAssumption ==
  /\ Gateway \notin Clients \cup Workers \cup Fetchers
  /\ Clients \cap Workers = {}
  /\ Clients \cap Fetchers = {}
  /\ Workers \cap Fetchers = {}

VARIABLES
  reg,        \* Registry.m[user]: the registered object, 0 when not monitored
  nobj,       \* Presence objects created so far
  data,       \* the fields of each object that buildPretty reads
  tried,      \* bannerTried of each object
  marker,     \* lastStatus, lastTrackID, lastTrackStart: the version recorded
  subs,       \* subscribers of each object
  cache,      \* cache[user], NoPretty when absent
  rkv, rext,  \* the KV hash and the external report in Redis
  events, kvs, reports,   \* versions handed out so far
  dead,       \* reports 1..dead are older than ExternalMusicTTL
  pc,         \* program counter of each goroutine
  op,         \* the operation it runs
  obj,        \* the *Presence it works on, 0 for none
  own,        \* the *Presence Set- and ClearExternalMusic looked up first
  snap,       \* its snapshot or built presence
  to,         \* subscribers it still has to tell
  val,        \* the KV version or report it writes
  globals,    \* globalSubs
  view,       \* the last presence message queued for each client
  told,       \* ghost: the objects each client has been told about
  closed,     \* clients whose Conn.closed is set
  tracked,    \* clients with the user in Conn.subscribedIDs
  fetches,    \* ghost: REST fetches started for each object
  overlapped  \* ghost: the last write overlapped another publication

regVars == <<reg, nobj>>
objVars == <<data, tried, marker, subs>>
redisVars == <<rkv, rext>>
inputs == <<events, kvs, reports, dead>>
locals == <<op, obj, own, snap, to, val>>
sockets == <<globals, view, told, closed, tracked>>
ghosts == <<fetches, overlapped>>
vars == <<regVars, objVars, cache, redisVars, inputs, pc, locals, sockets, ghosts>>

Objs == 1..MaxObj

PCs == {"idle", "init", "snap", "load", "keep", "drop", "cache", "announce",
        "tellAll", "lookup", "merge", "publish", "record", "tell", "uncache",
        "ensure", "stale", "hit", "persist", "ids", "find", "add",
        "initState", "unglobal", "unfind", "remove", "fetch", "gone"}

Ops == {"none", "chunk", "update", "stop", "get", "kv", "set", "clear",
        "sub", "subAll", "unsub", "close", "fetch"}

Pretty == [obj : 0..MaxObj, disc : 0..MaxEvents, kv : 0..MaxKV,
           ext : 0..MaxReports, banner : BOOLEAN]

\* A new object for event d, with nothing loaded yet.
Fresh(o, d) == [obj |-> o, disc |-> d, kv |-> 0, ext |-> 0, banner |-> FALSE]

NoPretty == Fresh(0, 0)

-----------------------------------------------------------------------------
Init ==
  /\ reg = 0 /\ nobj = 0 /\ cache = NoPretty
  /\ data = [o \in Objs |-> NoPretty]
  /\ tried = [o \in Objs |-> FALSE]
  /\ marker = [o \in Objs |-> 0]
  /\ subs = [o \in Objs |-> {}]
  /\ rkv = 0 /\ rext = 0
  /\ events = 0 /\ kvs = 0 /\ reports = 0 /\ dead = 0
  /\ pc = [t \in Threads |-> "idle"]
  /\ op = [t \in Threads |-> "none"]
  /\ obj = [t \in Threads |-> 0]
  /\ own = [t \in Threads |-> 0]
  /\ snap = [t \in Threads |-> NoPretty]
  /\ to = [t \in Threads |-> {}]
  /\ val = [t \in Threads |-> 0]
  /\ globals = {} /\ closed = {} /\ tracked = {}
  /\ view = [c \in Clients |-> NoPretty]
  /\ told = [c \in Clients |-> {}]
  /\ fetches = [o \in Objs |-> 0]
  /\ overlapped = FALSE

\* ExternalMusic.Live: the report when it is within its TTL, else none.
LiveOnly(r) == IF r > dead THEN r ELSE 0
Expired(r) == r # 0 /\ r <= dead
Shown(d) == [d EXCEPT !.ext = LiveOnly(@)]

\* Program points between the snapshot a publication takes and its last send.
Publishing == {"load", "keep", "drop", "cache", "announce", "tellAll",
               "publish", "record", "tell", "add", "initState"}

\* While t writes to object o, another goroutine is publishing, or some
\* goroutine still holds a pointer to another (stopped) object.
Overlaps(t, o) ==
  \/ own[t] \notin {0, o}
  \/ \E u \in Threads \ {t} : \/ obj[u] \notin {0, o}
                              \/ own[u] \notin {0, o}
                              \/ pc[u] \in Publishing

\* A write that t will publish decides the ghost anew ...
NoteWrite(t, o) ==
  overlapped' = IF o = reg THEN Overlaps(t, o) ELSE overlapped
\* ... one that no full publication follows can only set it.
NoteMinorWrite(t, o) ==
  overlapped' = (overlapped \/ (o = reg /\ Overlaps(t, o)))

\* What redis.Get and HGetAll return for a stored version: an error reads as none.
Reads(v) == {v} \cup (IF RedisFails THEN {0} ELSE {})

\* Conn.SendEvent: a closed connection ignores the message.
SendEvent(c, p) ==
  IF c \in closed THEN UNCHANGED <<view, told>>
  ELSE /\ view' = [view EXCEPT ![c] = p]
       /\ told' = [told EXCEPT ![c] = @ \cup {p.obj}]

Goto(t, l) == pc' = [pc EXCEPT ![t] = l]

\* An idle goroutine starts operation o on object x.
Begin(t, l, o, x) ==
  /\ pc[t] = "idle" /\ Goto(t, l)
  /\ op' = [op EXCEPT ![t] = o]
  /\ obj' = [obj EXCEPT ![t] = x]

\* The operation of t has returned.
End(t, l) ==
  /\ Goto(t, l)
  /\ op' = [op EXCEPT ![t] = "none"]
  /\ obj' = [obj EXCEPT ![t] = 0]
  /\ own' = [own EXCEPT ![t] = 0]
  /\ snap' = [snap EXCEPT ![t] = NoPretty]
  /\ to' = [to EXCEPT ![t] = {}]
  /\ val' = [val EXCEPT ![t] = 0]
Finish(t) == End(t, "idle")

-----------------------------------------------------------------------------
(* Gateway dispatches: each takes the next event number. *)

\* createMemberPresences, first step LookupOrStart: reuse or insert under r.mu.
Chunk ==
  LET t == Gateway  n == nobj + 1 IN
  /\ "chunk" \in Calls /\ events < MaxEvents
  /\ events' = events + 1
  /\ \/ /\ reg # 0 /\ Begin(t, "lookup", "chunk", 0)
        /\ UNCHANGED <<regVars, objVars, overlapped>>
     \/ /\ reg = 0 /\ nobj < MaxObj
        /\ nobj' = n /\ reg' = n
        /\ data' = [data EXCEPT ![n] = Fresh(n, events + 1)]
        /\ overlapped' = Overlaps(t, n)
        /\ Begin(t, "init", "chunk", n)
        /\ UNCHANGED <<tried, marker, subs>>
  /\ UNCHANGED <<cache, redisVars, kvs, reports, dead, own, snap, to, val,
                 sockets, fetches>>

\* LookupOrStart, the p.mu section: load KV and the external report.
LoadObject ==
  LET t == Gateway  o == obj[t] IN
  /\ pc[t] = "init"
  /\ \E k \in Reads(rkv), e \in Reads(rext) :
       data' = [data EXCEPT ![o] = [@ EXCEPT !.kv = k, !.ext = LiveOnly(e)]]
  /\ NoteWrite(t, o)
  /\ Goto(t, "snap")
  /\ UNCHANGED <<regVars, tried, marker, subs, cache, redisVars, inputs, locals,
                 sockets, fetches>>

\* Mutant: a new user is announced to the object's own subscribers only.
AnnounceToSubscribers ==
  LET t == Gateway IN
  /\ pc[t] = "announce"
  /\ to' = [to EXCEPT ![t] = subs[obj[t]]]
  /\ Goto(t, "tellAll")
  /\ UNCHANGED <<regVars, objVars, cache, redisVars, inputs, op, obj, own, snap,
                 val, sockets, ghosts>>

\* LookupOrStart after BuildPretty: the global subscribers at this moment.
Announce ==
  LET t == Gateway IN
  /\ pc[t] = "announce"
  /\ to' = [to EXCEPT ![t] = globals]
  /\ Goto(t, "tellAll")
  /\ UNCHANGED <<regVars, objVars, cache, redisVars, inputs, op, obj, own, snap,
                 val, sockets, ghosts>>

\* PRESENCE_UPDATE and GUILD_MEMBER_UPDATE: SyncLocal of a monitored user.
Update ==
  /\ "update" \in Calls /\ events < MaxEvents /\ reg # 0
  /\ events' = events + 1
  /\ Begin(Gateway, "merge", "update", reg)
  /\ UNCHANGED <<regVars, objVars, cache, redisVars, kvs, reports, dead, own,
                 snap, to, val, sockets, ghosts>>

\* GUILD_MEMBER_REMOVE: Registry.Stop deletes the entry under r.mu ...
Stop ==
  /\ "stop" \in Calls /\ events < MaxEvents
  /\ events' = events + 1
  /\ reg' = 0
  /\ Begin(Gateway, "uncache", "stop", 0)
  /\ UNCHANGED <<nobj, objVars, cache, redisVars, kvs, reports, dead, own, snap,
                 to, val, sockets, ghosts>>

\* ... and then the cache entry under cacheMu.
CacheDelete ==
  /\ pc[Gateway] = "uncache"
  /\ cache' = NoPretty
  /\ Finish(Gateway)
  /\ UNCHANGED <<regVars, objVars, redisVars, inputs, sockets, ghosts>>

\* GUILD_MEMBER_ADD only asks Discord for the member: nothing changes here.
MemberAdd == pc[Gateway] = "idle" /\ UNCHANGED vars

-----------------------------------------------------------------------------
(* Registry.Sync / SyncLocal and applySync. *)

\* Registry.Lookup inside Sync: an unmonitored user ends the call; Set- and
\* ClearExternalMusic go on to rebuild the object they looked up first.
Lookup(t) ==
  /\ pc[t] = "lookup"
  /\ \/ /\ reg # 0
        /\ Goto(t, "merge") /\ obj' = [obj EXCEPT ![t] = reg]
        /\ UNCHANGED <<op, own, snap, to, val>>
     \/ /\ reg = 0 /\ op[t] \in {"set", "clear"}
        /\ Goto(t, "snap") /\ obj' = [obj EXCEPT ![t] = own[t]]
        /\ UNCHANGED <<op, own, snap, to, val>>
     \/ reg = 0 /\ op[t] \notin {"set", "clear"} /\ Finish(t)
  /\ UNCHANGED <<regVars, objVars, cache, redisVars, inputs, sockets, ghosts>>

\* The running operation's diff applied to an object's fields.
Merged(t, d) ==
  CASE op[t] \in {"chunk", "update"} -> [d EXCEPT !.disc = events]
    [] op[t] = "kv" -> [d EXCEPT !.kv = val[t]]
    [] OTHER -> [d EXCEPT !.ext = LiveOnly(val[t])]

\* Mutant: the fields are read before the diff is applied.
MergeAfterSnapshot(t) ==
  LET o == obj[t] IN
  /\ pc[t] = "merge"
  /\ data' = [data EXCEPT ![o] = Merged(t, data[o])]
  /\ NoteWrite(t, o)
  /\ snap' = [snap EXCEPT ![t] = Shown(data[o])]
  /\ to' = [to EXCEPT ![t] = subs[o]]
  /\ Goto(t, "publish")
  /\ UNCHANGED <<regVars, tried, marker, subs, cache, redisVars, inputs, op, obj,
                 own, val, sockets, fetches>>

\* applySync, the p.mu section: merge, snapshot the fields and the subscribers.
Merge(t) ==
  LET o == obj[t] IN
  /\ pc[t] = "merge"
  /\ data' = [data EXCEPT ![o] = Merged(t, data[o])]
  /\ NoteWrite(t, o)
  /\ snap' = [snap EXCEPT ![t] = Shown(Merged(t, data[o]))]
  /\ to' = [to EXCEPT ![t] = subs[o]]
  /\ Goto(t, "publish")
  /\ UNCHANGED <<regVars, tried, marker, subs, cache, redisVars, inputs, op, obj,
                 own, val, sockets, fetches>>

\* buildPretty: the report's liveness was decided between the snapshot and now.
Built(t) == {snap[t], Shown(snap[t])}

\* buildPretty inside applySync and ensureBanner: cacheSet.
Publish(t) ==
  /\ pc[t] = "publish"
  /\ \E p \in Built(t) :
       cache' = p /\ snap' = [snap EXCEPT ![t] = p]
  /\ Goto(t, IF op[t] = "fetch" THEN "tell" ELSE "record")
  /\ UNCHANGED <<regVars, objVars, redisVars, inputs, op, obj, own, to, val,
                 sockets, ghosts>>

\* recordHistory, the p.mu section: the change markers follow the snapshot.
Record(t) ==
  /\ pc[t] = "record"
  /\ marker' = [marker EXCEPT ![obj[t]] = snap[t].disc]
  /\ Goto(t, "tell")
  /\ UNCHANGED <<regVars, data, tried, subs, cache, redisVars, inputs, locals,
                 sockets, ghosts>>

\* The fan-out loops: one SendEvent per subscriber of the snapshot.
Tell(t) ==
  /\ pc[t] \in {"tell", "tellAll"}
  /\ \E c \in to[t] :
       SendEvent(c, snap[t]) /\ to' = [to EXCEPT ![t] = @ \ {c}]
  /\ UNCHANGED <<regVars, objVars, cache, redisVars, inputs, pc, op, obj, own,
                 snap, val, globals, closed, tracked, ghosts>>

\* Where a finished fan-out leads: LookupOrStart is followed by SyncLocal; Set-
\* and ClearExternalMusic rebuild the object they looked up first.
AfterFanOut(t) ==
  \/ /\ pc[t] = "tellAll"
     /\ Goto(t, "lookup") /\ snap' = [snap EXCEPT ![t] = NoPretty]
     /\ UNCHANGED <<op, obj, own, to, val>>
  \/ /\ pc[t] = "tell" /\ op[t] \in {"set", "clear"}
     /\ Goto(t, "snap") /\ obj' = [obj EXCEPT ![t] = own[t]]
     /\ UNCHANGED <<op, own, snap, to, val>>
  \/ pc[t] = "tell" /\ op[t] \notin {"set", "clear"} /\ Finish(t)

\* Mutant: the fan-out returns before it has reached every subscriber.
FanOutDoneEarly(t) ==
  /\ AfterFanOut(t)
  /\ UNCHANGED <<regVars, objVars, cache, redisVars, inputs, sockets, ghosts>>

FanOutDone(t) ==
  /\ to[t] = {}
  /\ AfterFanOut(t)
  /\ UNCHANGED <<regVars, objVars, cache, redisVars, inputs, sockets, ghosts>>

-----------------------------------------------------------------------------
(* Presence.BuildPretty. *)

\* The p.mu.RLock section: snapshot, with an expired report dropped.
Snap(t) ==
  LET p == Shown(data[obj[t]]) IN
  /\ pc[t] = "snap"
  /\ snap' = [snap EXCEPT ![t] = p]
  /\ Goto(t, IF p.ext = 0 THEN "load" ELSE "cache")
  /\ UNCHANGED <<regVars, objVars, cache, redisVars, inputs, op, obj, own, to,
                 val, sockets, ghosts>>

\* loadExternalMusic: a live report found in Redis, or none.
LoadExt(t) ==
  /\ pc[t] = "load"
  /\ \E r \in Reads(rext) :
       /\ snap' = [snap EXCEPT ![t] = [@ EXCEPT !.ext = LiveOnly(r)]]
       /\ Goto(t, IF LiveOnly(r) = 0 THEN "drop" ELSE "keep")
  /\ UNCHANGED <<regVars, objVars, cache, redisVars, inputs, op, obj, own, to,
                 val, sockets, ghosts>>

\* Mutant: the report found in Redis is shown but not stored in the object.
KeepOnlyInResult(t) ==
  /\ pc[t] = "keep"
  /\ Goto(t, "cache")
  /\ UNCHANGED <<regVars, objVars, cache, redisVars, inputs, locals, sockets,
                 ghosts>>

\* The report found in Redis becomes the object's.
Keep(t) ==
  LET o == obj[t]  r == snap[t].ext IN
  /\ pc[t] = "keep"
  /\ IF data[o].ext = r THEN UNCHANGED <<data, overlapped>>
     ELSE /\ data' = [data EXCEPT ![o] = [@ EXCEPT !.ext = r]]
          /\ NoteMinorWrite(t, o)
  /\ Goto(t, "cache")
  /\ UNCHANGED <<regVars, tried, marker, subs, cache, redisVars, inputs, locals,
                 sockets, fetches>>

\* Clear an expired report.  The test that guards the lock reads the pointer
\* outside p.mu, so it may also see no report and skip the section.
Drop(t) ==
  LET o == obj[t] IN
  /\ pc[t] = "drop"
  /\ \/ /\ Expired(data[o].ext)
        /\ data' = [data EXCEPT ![o] = [@ EXCEPT !.ext = 0]]
        /\ NoteMinorWrite(t, o)
     \/ UNCHANGED <<data, overlapped>>
  /\ Goto(t, "cache")
  /\ UNCHANGED <<regVars, tried, marker, subs, cache, redisVars, inputs, locals,
                 sockets, fetches>>

\* buildPretty inside BuildPretty: cacheSet, and back to the caller.
CacheSet(t) ==
  /\ pc[t] = "cache"
  /\ \E p \in Built(t) :
       /\ cache' = p
       /\ \/ /\ op[t] \in {"chunk", "sub", "subAll"}
             /\ snap' = [snap EXCEPT ![t] = p]
             /\ Goto(t, IF op[t] = "chunk" THEN "announce" ELSE "add")
             /\ UNCHANGED <<op, obj, own, to, val>>
          \/ op[t] \in {"get", "set", "clear"} /\ Finish(t)
  /\ UNCHANGED <<regVars, objVars, redisVars, inputs, sockets, ghosts>>

-----------------------------------------------------------------------------
(* Requests: GET presence and stats, KV writes, now-playing reports. *)

\* GetPrettyPresence: Lookup (an unmonitored user is answered 404).
Get(t) ==
  /\ "get" \in Calls /\ reg # 0
  /\ Begin(t, "ensure", "get", reg)
  /\ UNCHANGED <<regVars, objVars, cache, redisVars, inputs, own, snap, to, val,
                 sockets, ghosts>>

\* Stats: Lookup and BuildPretty, without a look into the cache or at the banner;
\* it goes on like a GET that misses the cache.
Stats(t) ==
  /\ "get" \in Calls /\ reg # 0
  /\ Begin(t, "snap", "get", reg)
  /\ UNCHANGED <<regVars, objVars, cache, redisVars, inputs, own, snap, to, val,
                 sockets, ghosts>>

\* ensureBanner's go statement: an idle fetcher starts on object o.
Spawn(t, o) ==
  /\ fetches' = [fetches EXCEPT ![o] = @ + 1]
  /\ \E f \in Fetchers :
       /\ pc[f] = "idle"
       /\ pc' = [pc EXCEPT ![t] = "stale", ![f] = "fetch"]
       /\ op' = [op EXCEPT ![f] = "fetch"]
       /\ obj' = [obj EXCEPT ![f] = o]

\* Mutant: bannerTried is tested but left unset.
EnsureBannerUnmarked(t) ==
  /\ pc[t] = "ensure"
  /\ \/ tried[obj[t]] /\ Goto(t, "stale") /\ UNCHANGED <<op, obj, fetches>>
     \/ ~tried[obj[t]] /\ Spawn(t, obj[t])
  /\ UNCHANGED <<regVars, objVars, cache, redisVars, inputs, own, snap, to, val,
                 sockets, overlapped>>

\* ensureBanner: test and set bannerTried under p.mu, then spawn the fetch.
EnsureBanner(t) ==
  /\ pc[t] = "ensure"
  /\ tried' = [tried EXCEPT ![obj[t]] = TRUE]
  /\ \/ tried[obj[t]] /\ Goto(t, "stale") /\ UNCHANGED <<op, obj, fetches>>
     \/ ~tried[obj[t]] /\ Spawn(t, obj[t])
  /\ UNCHANGED <<regVars, data, marker, subs, cache, redisVars, inputs, own,
                 snap, to, val, sockets, overlapped>>

\* GetPrettyPresence: an expired report forces a rebuild.
CheckStale(t) ==
  /\ pc[t] = "stale"
  /\ Goto(t, IF Expired(data[obj[t]].ext) THEN "snap" ELSE "hit")
  /\ UNCHANGED <<regVars, objVars, cache, redisVars, inputs, locals, sockets,
                 ghosts>>

\* GetPrettyPresence: answer from the cache, or build on a miss.
CacheGet(t) ==
  /\ pc[t] = "hit"
  /\ \/ cache = NoPretty /\ Goto(t, "snap") /\ UNCHANGED locals
     \/ cache # NoPretty /\ Finish(t)
  /\ UNCHANGED <<regVars, objVars, cache, redisVars, inputs, sockets, ghosts>>

\* The goroutine of ensureBanner.  FetchUser fails or finds nothing: the
\* object keeps bannerTried and is never fetched again.
FetchFails(t) ==
  /\ pc[t] = "fetch"
  /\ Finish(t)
  /\ UNCHANGED <<regVars, objVars, cache, redisVars, inputs, sockets, ghosts>>

\* Mutant: the banner is stored after the fields have been read.
FetchedAfterSnapshot(t) ==
  LET o == obj[t] IN
  /\ "banner" \in Calls /\ pc[t] = "fetch"
  /\ data' = [data EXCEPT ![o] = [@ EXCEPT !.banner = TRUE]]
  /\ NoteMinorWrite(t, o)
  /\ snap' = [snap EXCEPT ![t] = Shown(data[o])]
  /\ to' = [to EXCEPT ![t] = subs[o]]
  /\ Goto(t, "publish")
  /\ UNCHANGED <<regVars, tried, marker, subs, cache, redisVars, inputs, op, obj,
                 own, val, sockets, fetches>>

\* FetchUser answers with a banner: the p.mu section stores it and snapshots.
\* No history is recorded afterwards, so this write repairs nothing.
Fetched(t) ==
  LET o == obj[t]  d == [data[o] EXCEPT !.banner = TRUE] IN
  /\ "banner" \in Calls /\ pc[t] = "fetch"
  /\ data' = [data EXCEPT ![o] = d]
  /\ NoteMinorWrite(t, o)
  /\ snap' = [snap EXCEPT ![t] = Shown(d)]
  /\ to' = [to EXCEPT ![t] = subs[o]]
  /\ Goto(t, "publish")
  /\ UNCHANGED <<regVars, tried, marker, subs, cache, redisVars, inputs, op, obj,
                 own, val, sockets, fetches>>

\* kv.Set, Multiset, Del, Clear up to the Redis command: a new KV map.  Only
\* Set refuses an unmonitored user before it writes.
WriteKV(t) ==
  /\ "kv" \in Calls /\ kvs < MaxKV
  /\ kvs' = kvs + 1
  /\ Begin(t, "persist", "kv", 0)
  /\ val' = [val EXCEPT ![t] = kvs + 1]
  /\ UNCHANGED <<regVars, objVars, cache, redisVars, events, reports, dead, own,
                 snap, to, sockets, ghosts>>

\* SetExternalMusic up to the accepted report; it keeps the object it found.
SetExternalMusic(t) ==
  /\ "set" \in Calls /\ reg # 0 /\ reports < MaxReports
  /\ reports' = reports + 1
  /\ Begin(t, "persist", "set", 0)
  /\ own' = [own EXCEPT ![t] = reg]
  /\ val' = [val EXCEPT ![t] = reports + 1]
  /\ UNCHANGED <<regVars, objVars, cache, redisVars, events, kvs, dead, snap, to,
                 sockets, ghosts>>

\* ClearExternalMusic: no report takes the place of the current one.
ClearExternalMusic(t) ==
  /\ "clear" \in Calls /\ reg # 0
  /\ Begin(t, "persist", "clear", 0)
  /\ own' = [own EXCEPT ![t] = reg]
  /\ UNCHANGED <<regVars, objVars, cache, redisVars, inputs, snap, to, val,
                 sockets, ghosts>>

\* Mutant: a report is written under the KV key.
PersistUnderKV(t) ==
  /\ pc[t] = "persist"
  /\ rkv' = val[t]
  /\ Goto(t, "lookup")
  /\ UNCHANGED <<regVars, objVars, cache, rext, inputs, locals, sockets, ghosts>>

\* HSET / SETEX / DEL, before Registry.Sync; a failed command is ignored.
Persist(t) ==
  /\ pc[t] = "persist"
  /\ \/ op[t] = "kv" /\ rkv' = val[t] /\ UNCHANGED rext
     \/ op[t] # "kv" /\ rext' = val[t] /\ UNCHANGED rkv
     \/ RedisFails /\ UNCHANGED redisVars
  /\ Goto(t, "lookup")
  /\ UNCHANGED <<regVars, objVars, cache, inputs, locals, sockets, ghosts>>

\* Time: the oldest live report passes ExternalMusicTTL.
Expire ==
  /\ dead < reports
  /\ dead' = dead + 1
  /\ UNCHANGED <<regVars, objVars, cache, redisVars, events, kvs, reports, pc,
                 locals, sockets, ghosts>>

-----------------------------------------------------------------------------
(* One readLoop per connection. *)

\* subscribe_to_id: Lookup; an unmonitored user gives an empty INIT_STATE.
Subscribe(c) ==
  /\ "sub" \in Calls
  /\ Begin(c, IF reg = 0 THEN "initState" ELSE "snap", "sub", reg)
  /\ UNCHANGED <<regVars, objVars, cache, redisVars, inputs, own, snap, to, val,
                 sockets, ghosts>>

\* subscribe_to_all: AddGlobalSubscriber first ...
SubscribeAll(c) ==
  /\ "subAll" \in Calls
  /\ globals' = globals \cup {c}
  /\ Begin(c, "ids", "subAll", 0)
  /\ UNCHANGED <<regVars, objVars, cache, redisVars, inputs, own, snap, to, val,
                 view, told, closed, tracked, ghosts>>

\* ... then Registry.IDs, tracked for the cleanup ...
ReadIDs(c) ==
  /\ pc[c] = "ids"
  /\ \/ reg = 0 /\ Goto(c, "initState") /\ UNCHANGED tracked
     \/ reg # 0 /\ Goto(c, "find") /\ tracked' = tracked \cup {c}
  /\ UNCHANGED <<regVars, objVars, cache, redisVars, inputs, locals, globals,
                 view, told, closed, ghosts>>

\* ... and SubscribeToIDsAndBuild looks the id up again.
FindID(c) ==
  /\ pc[c] = "find"
  /\ Goto(c, IF reg = 0 THEN "initState" ELSE "snap")
  /\ obj' = [obj EXCEPT ![c] = reg]
  /\ UNCHANGED <<regVars, objVars, cache, redisVars, inputs, op, own, snap, to,
                 val, sockets, ghosts>>

\* Mutant: the subscription is not tracked for the cleanup.
AddSubscriberUntracked(c) ==
  /\ pc[c] = "add"
  /\ subs' = [subs EXCEPT ![obj[c]] = @ \cup {c}]
  /\ Goto(c, "initState")
  /\ UNCHANGED <<regVars, data, tried, marker, cache, redisVars, inputs, locals,
                 sockets, ghosts>>

\* AddSubscriber, after BuildPretty has returned.
AddSubscriber(c) ==
  /\ pc[c] = "add"
  /\ subs' = [subs EXCEPT ![obj[c]] = @ \cup {c}]
  /\ tracked' = tracked \cup {c}
  /\ Goto(c, "initState")
  /\ UNCHANGED <<regVars, data, tried, marker, cache, redisVars, inputs, locals,
                 globals, view, told, closed, ghosts>>

\* handleInit ends by queueing INIT_STATE.
InitState(c) ==
  /\ pc[c] = "initState"
  /\ SendEvent(c, snap[c])
  /\ Finish(c)
  /\ UNCHANGED <<regVars, objVars, cache, redisVars, inputs, globals, closed,
                 tracked, ghosts>>

\* handleUnsubscribe: Lookup, then RemoveSubscriber.
Unsubscribe(c) ==
  /\ "unsub" \in Calls
  /\ \/ /\ reg = 0 /\ pc[c] = "idle"
        /\ tracked' = tracked \ {c} /\ UNCHANGED <<pc, op, obj>>
     \/ reg # 0 /\ Begin(c, "remove", "unsub", reg) /\ UNCHANGED tracked
  /\ UNCHANGED <<regVars, objVars, cache, redisVars, inputs, own, snap, to, val,
                 globals, view, told, closed, ghosts>>

\* RemoveSubscriber, for handleUnsubscribe or as the end of cleanup.
RemoveSubscriber(c) ==
  /\ pc[c] = "remove"
  /\ subs' = [subs EXCEPT ![obj[c]] = @ \ {c}]
  /\ \/ op[c] = "unsub" /\ tracked' = tracked \ {c} /\ Finish(c)
     \/ op[c] # "unsub" /\ UNCHANGED tracked /\ End(c, "gone")
  /\ UNCHANGED <<regVars, data, tried, marker, cache, redisVars, inputs, globals,
                 view, told, closed, ghosts>>

\* cleanup: mark the connection closed and close its queue ...
Close(c) ==
  /\ "close" \in Calls
  /\ closed' = closed \cup {c}
  /\ Begin(c, "unglobal", "close", 0)
  /\ UNCHANGED <<regVars, objVars, cache, redisVars, inputs, own, snap, to, val,
                 globals, view, told, tracked, ghosts>>

\* ... leave the global subscribers ...
RemoveGlobal(c) ==
  /\ pc[c] = "unglobal"
  /\ globals' = globals \ {c}
  /\ \/ c \in tracked /\ Goto(c, "unfind") /\ UNCHANGED locals
     \/ c \notin tracked /\ End(c, "gone")
  /\ UNCHANGED <<regVars, objVars, cache, redisVars, inputs, view, told, closed,
                 tracked, ghosts>>

\* ... and unsubscribe from every tracked user that is still monitored.
UnsubscribeTracked(c) ==
  /\ pc[c] = "unfind"
  /\ \/ reg = 0 /\ End(c, "gone")
     \/ /\ reg # 0
        /\ Goto(c, "remove") /\ obj' = [obj EXCEPT ![c] = reg]
        /\ UNCHANGED <<op, own, snap, to, val>>
  /\ UNCHANGED <<regVars, objVars, cache, redisVars, inputs, sockets, ghosts>>

-----------------------------------------------------------------------------
GatewayStep ==
  Chunk \/ LoadObject \/ Announce \/ Update \/ Stop \/ CacheDelete \/ MemberAdd

Sync(t) == \/ Lookup(t) \/ Merge(t) \/ Publish(t) \/ Record(t) \/ Tell(t)
           \/ FanOutDone(t)

BuildPretty(t) == Snap(t) \/ LoadExt(t) \/ Keep(t) \/ Drop(t) \/ CacheSet(t)

WorkerStep(t) ==
  \/ Get(t) \/ Stats(t) \/ EnsureBanner(t) \/ CheckStale(t) \/ CacheGet(t)
  \/ WriteKV(t) \/ SetExternalMusic(t) \/ ClearExternalMusic(t) \/ Persist(t)

ClientStep(c) ==
  \/ Subscribe(c) \/ SubscribeAll(c) \/ ReadIDs(c) \/ FindID(c)
  \/ AddSubscriber(c) \/ InitState(c) \/ Unsubscribe(c) \/ RemoveSubscriber(c)
  \/ Close(c) \/ RemoveGlobal(c) \/ UnsubscribeTracked(c)

Next ==
  \/ GatewayStep
  \/ \E t \in Threads : Sync(t) \/ BuildPretty(t)
  \/ \E t \in Workers : WorkerStep(t)
  \/ \E c \in Clients : ClientStep(c)
  \/ \E f \in Fetchers : FetchFails(f) \/ Fetched(f)
  \/ Expire

Spec == Init /\ [][Next]_vars

\* A goroutine in the middle of a call: its next step needs no outside event.
\* FetchUser returns within its HTTP timeout, so "fetch" is among them.
Continue(t) ==
  /\ pc[t] \notin {"idle", "gone"}
  /\ \/ Sync(t) \/ BuildPretty(t)
     \/ t = Gateway /\ GatewayStep
     \/ t \in Workers /\ WorkerStep(t)
     \/ t \in Clients /\ ClientStep(t)
     \/ t \in Fetchers /\ (FetchFails(t) \/ Fetched(t))

\* The Go scheduler runs every runnable goroutine; no call blocks for ever.
Fairness == \A t \in Threads : WF_vars(Continue(t))

FairSpec == Spec /\ Fairness

-----------------------------------------------------------------------------
(* Correctness. *)

\* The types of the state.
ObjectTypes ==
  /\ reg \in 0..MaxObj /\ nobj \in 0..MaxObj
  /\ data \in [Objs -> Pretty]
  /\ tried \in [Objs -> BOOLEAN] /\ marker \in [Objs -> 0..MaxEvents]
  /\ subs \in [Objs -> SUBSET Clients]
  /\ cache \in Pretty

InputTypes ==
  /\ rkv \in 0..MaxKV /\ rext \in 0..MaxReports
  /\ events \in 0..MaxEvents /\ kvs \in 0..MaxKV
  /\ reports \in 0..MaxReports /\ dead \in 0..MaxReports
  /\ fetches \in [Objs -> Nat] /\ overlapped \in BOOLEAN

CallTypes ==
  /\ pc \in [Threads -> PCs] /\ op \in [Threads -> Ops]
  /\ obj \in [Threads -> 0..MaxObj] /\ own \in [Threads -> 0..MaxObj]
  /\ snap \in [Threads -> Pretty] /\ to \in [Threads -> SUBSET Clients]
  /\ val \in [Threads -> Nat]

SocketTypes ==
  /\ globals \subseteq Clients
  /\ view \in [Clients -> Pretty] /\ told \in [Clients -> SUBSET (0..MaxObj)]
  /\ closed \subseteq Clients /\ tracked \subseteq Clients

TypeOK == ObjectTypes /\ InputTypes /\ CallTypes /\ SocketTypes

\* p shows the present Discord data, KV and banner of object o.
Shows(p, o) ==
  /\ p.obj = data[o].obj
  /\ p.disc = data[o].disc /\ p.kv = data[o].kv /\ p.banner = data[o].banner

\* No dispatch, rebuild or fan-out is under way.
Quiet ==
  /\ pc[Gateway] = "idle"
  /\ \A t \in Threads : pc[t] \notin Publishing \cup {"snap"}

\* No call at all is under way.
AllIdle == \A t \in Threads : pc[t] \in {"idle", "gone"}

\* Staleness has one cause.  The code caches and fans out snapshots after
\* releasing p.mu; unless the last write of the presence overlapped another
\* publication, then once nothing is under way the cached presence, what every
\* open subscriber was last sent, and the history markers are the current state.
FreshWhenQuiet ==
  (reg # 0 /\ Quiet /\ ~overlapped) =>
    /\ Shows(cache, reg)
    /\ \A c \in subs[reg] \ closed : Shows(view[c], reg)
    /\ marker[reg] = data[reg].disc

\* Under the same condition, a cached report that has expired is still the
\* object's report, so the next GetPrettyPresence notices it and rebuilds; and a
\* live one is the object's.
ExpiryNoticed ==
  (reg # 0 /\ Quiet /\ ~overlapped) =>
    \/ cache.ext = data[reg].ext
    \/ cache.ext = 0 /\ Expired(data[reg].ext)

\* subscribe_to_all misses nobody: a connection in globalSubs has been told of
\* the monitored user, by INIT_STATE or by LookupOrStart, whichever came first
\* (AddGlobalSubscriber runs before Registry.IDs, insertion before the fan-out).
GlobalCovers ==
  \A c \in globals :
    (reg # 0 /\ pc[Gateway] = "idle" /\ pc[c] = "idle") => reg \in told[c]

\* A connection whose cleanup has ended is referenced by no live subscriber
\* set, whatever the user's Stop and restart did in between.
NoLeakedSubscriber ==
  \A c \in Clients : pc[c] = "gone" =>
    /\ c \notin globals
    /\ reg # 0 => c \notin subs[reg]

\* bannerTried makes concurrent first reads of one object start one fetch.  A
\* restarted user has a new object, and is fetched again.
FetchOncePerObject == \A o \in Objs : fetches[o] <= 1

\* Every Discord update reaches every subscriber that stays: it is sent that
\* version or a later one, unless publications overlapped.  No quiet moment is
\* needed: writers go on, and subscribers may leave and come back in between.
EventuallyDelivered ==
  \A c \in Clients, d \in 1..MaxEvents :
    (reg # 0 /\ c \in subs[reg] \ closed /\ data[reg].disc = d) ~>
      \/ view[c].disc >= d
      \/ overlapped \/ reg = 0 \/ c \in closed
      \/ c \notin subs[reg]

\* "Stop removes a presence from monitoring and drops its cache entry"
\* (presence.go:124): with no call under way, an unmonitored user has none.
StopDropsCache == (reg = 0 /\ AllIdle) => cache = NoPretty

\* "the current response may not include it, the next read will"
\* (presence.go:320-321): with no call under way the cache has the banner.
NextReadHasBanner == (reg # 0 /\ AllIdle) => (data[reg].banner => cache.banner)

\* "so clients do not keep a stale youtube_music / now_playing from the cache"
\* (presence.go:323-324): with no call under way, an expired report in the cache
\* is one the next GetPrettyPresence notices.
ExpiredNotServed ==
  (reg # 0 /\ AllIdle) => (Expired(cache.ext) => Expired(data[reg].ext))

=============================================================================
