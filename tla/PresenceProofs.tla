--------------------------- MODULE PresenceProofs ---------------------------
(***************************************************************************)
(* Six safety properties of Presence, for every number of goroutines,       *)
(* objects, events, KV writes and reports.                                  *)
(*                                                                          *)
(* A step moves one goroutine (ensureBanner also starts a second), and the  *)
(* state keeps its types.  TypeOK is not inductive alone: that data[obj[t]] *)
(* is applied inside its domain needs Bindings, what each program point     *)
(* knows of its object.                                                     *)
(*                                                                          *)
(* Each of the others has its strengthening: OneFetch says that bannerTried *)
(* records every fetch; Tracking and Globals that a live subscription is    *)
(* always known to the cleanup of its connection; Covering that whom        *)
(* subscribe_to_all has not told of the object yet is about to be told, by  *)
(* LookupOrStart or by INIT_STATE, with Kinds and Named for what each       *)
(* goroutine may be doing and whose snapshot it holds. Isolated is what     *)
(* holds between a write that overlapped no publication and the next write: *)
(* every snapshot in flight is current, and whatever is not up to date yet  *)
(* has a goroutine that is about to bring it up to date. Expiring says the  *)
(* same of reports, which expire at any time: those in the cache and in     *)
(* snapshots are the object's, or gone because that one has expired.        *)
(***************************************************************************)
EXTENDS Presence, TLAPS

\* Program points at which a goroutine uses its object.
BoundPCs == {"init", "snap", "load", "keep", "drop", "cache", "announce",
             "tellAll", "merge", "publish", "record", "tell", "ensure",
             "stale", "hit", "add", "remove", "fetch"}

\* A step of goroutine t leaves the local state of u alone.
Keeps(u) ==
  /\ pc'[u] = pc[u] /\ op'[u] = op[u] /\ obj'[u] = obj[u] /\ own'[u] = own[u]
  /\ snap'[u] = snap[u] /\ to'[u] = to[u] /\ val'[u] = val[u]

OthersKeep(t) == \A u \in Threads : u # t => Keeps(u)

LEMMA ThreadKinds ==
  /\ Gateway \in Threads
  /\ Clients \subseteq Threads /\ Workers \subseteq Threads
  /\ Fetchers \subseteq Threads
  BY DEF Threads

LEMMA BeginKeeps ==
  ASSUME CallTypes, NEW t \in Threads, NEW l, NEW o, NEW x, Begin(t, l, o, x)
  PROVE  \A u \in Threads : u # t => pc'[u] = pc[u] /\ op'[u] = op[u] /\ obj'[u] = obj[u]
  BY DEF CallTypes, Begin, Goto

LEMMA GotoKeeps ==
  ASSUME CallTypes, NEW t \in Threads, NEW l, Goto(t, l)
  PROVE  \A u \in Threads : u # t => pc'[u] = pc[u]
  BY DEF CallTypes, Goto

LEMMA EndKeeps ==
  ASSUME CallTypes, NEW t \in Threads, NEW l, End(t, l)
  PROVE  OthersKeep(t)
  BY DEF CallTypes, End, Goto, OthersKeep, Keeps

LEMMA GatewayKeeps ==
  ASSUME CallTypes, GatewayStep PROVE OthersKeep(Gateway)
<1> USE ThreadKinds, BeginKeeps, GotoKeeps DEF OthersKeep, Keeps, locals
<1>1. CASE Chunk BY <1>1 DEF Chunk
<1>2. CASE LoadObject BY <1>2 DEF LoadObject
<1>3. CASE Announce BY <1>3 DEF Announce, CallTypes
<1>4. CASE Update BY <1>4 DEF Update
<1>5. CASE Stop BY <1>5 DEF Stop
<1>6. CASE CacheDelete BY <1>6, EndKeeps DEF CacheDelete, Finish
<1>7. CASE MemberAdd BY <1>7 DEF MemberAdd, vars
<1> QED BY <1>1, <1>2, <1>3, <1>4, <1>5, <1>6, <1>7 DEF GatewayStep

LEMMA SyncKeeps ==
  ASSUME CallTypes, NEW t \in Threads, Sync(t) \/ BuildPretty(t)
  PROVE  OthersKeep(t)
<1> USE GotoKeeps DEF OthersKeep, Keeps, locals
<1>1. CASE Lookup(t) BY <1>1, EndKeeps DEF Lookup, Finish, CallTypes
<1>2. CASE Merge(t) BY <1>2 DEF Merge, CallTypes
<1>3. CASE Publish(t) BY <1>3 DEF Publish, CallTypes
<1>4. CASE Record(t) BY <1>4 DEF Record
<1>5. CASE Tell(t) BY <1>5 DEF Tell, CallTypes
<1>6. CASE FanOutDone(t) BY <1>6, EndKeeps DEF FanOutDone, AfterFanOut, Finish, CallTypes
<1>7. CASE Snap(t) BY <1>7 DEF Snap, CallTypes
<1>8. CASE LoadExt(t) BY <1>8 DEF LoadExt, CallTypes
<1>9. CASE Keep(t) BY <1>9 DEF Keep
<1>10. CASE Drop(t) BY <1>10 DEF Drop
<1>11. CASE CacheSet(t) BY <1>11, EndKeeps DEF CacheSet, Finish, CallTypes
<1> QED
  BY <1>1, <1>2, <1>3, <1>4, <1>5, <1>6, <1>7, <1>8, <1>9, <1>10, <1>11
     DEF Sync, BuildPretty

LEMMA WorkerKeeps ==
  ASSUME CallTypes, NEW t \in Workers, WorkerStep(t), ~EnsureBanner(t)
  PROVE  OthersKeep(t)
<1> USE ThreadKinds, BeginKeeps, GotoKeeps DEF OthersKeep, Keeps, locals
<1>1. CASE Get(t) \/ Stats(t) BY <1>1 DEF Get, Stats
<1>2. CASE CheckStale(t) BY <1>2 DEF CheckStale
<1>3. CASE CacheGet(t) BY <1>3, EndKeeps DEF CacheGet, Finish
<1>4. CASE WriteKV(t) BY <1>4 DEF WriteKV, CallTypes
<1>5. CASE SetExternalMusic(t) BY <1>5 DEF SetExternalMusic, CallTypes
<1>6. CASE ClearExternalMusic(t) BY <1>6 DEF ClearExternalMusic, CallTypes
<1>7. CASE Persist(t) BY <1>7 DEF Persist
<1> QED BY <1>1, <1>2, <1>3, <1>4, <1>5, <1>6, <1>7 DEF WorkerStep

LEMMA ClientKeeps ==
  ASSUME CallTypes, NEW c \in Clients, ClientStep(c) PROVE OthersKeep(c)
<1> USE ThreadKinds, BeginKeeps, GotoKeeps DEF OthersKeep, Keeps, locals
<1>1. CASE Subscribe(c) BY <1>1 DEF Subscribe
<1>2. CASE SubscribeAll(c) BY <1>2 DEF SubscribeAll
<1>3. CASE ReadIDs(c) BY <1>3 DEF ReadIDs
<1>4. CASE FindID(c) BY <1>4 DEF FindID, CallTypes
<1>5. CASE AddSubscriber(c) BY <1>5 DEF AddSubscriber
<1>6. CASE InitState(c) BY <1>6, EndKeeps DEF InitState, Finish
<1>7. CASE Unsubscribe(c) BY <1>7 DEF Unsubscribe
<1>8. CASE RemoveSubscriber(c) BY <1>8, EndKeeps DEF RemoveSubscriber, Finish
<1>9. CASE Close(c) BY <1>9 DEF Close
<1>10. CASE RemoveGlobal(c) BY <1>10, EndKeeps DEF RemoveGlobal
<1>11. CASE UnsubscribeTracked(c) BY <1>11, EndKeeps DEF UnsubscribeTracked, CallTypes
<1> QED
  BY <1>1, <1>2, <1>3, <1>4, <1>5, <1>6, <1>7, <1>8, <1>9, <1>10, <1>11
     DEF ClientStep

LEMMA FetcherKeeps ==
  ASSUME CallTypes, NEW f \in Fetchers, FetchFails(f) \/ Fetched(f)
  PROVE  OthersKeep(f)
<1>1. CASE FetchFails(f) BY <1>1, EndKeeps, ThreadKinds DEF FetchFails, Finish
<1>2. CASE Fetched(f)
  BY <1>2, GotoKeeps, ThreadKinds DEF Fetched, CallTypes, OthersKeep, Keeps
<1> QED BY <1>1, <1>2

-----------------------------------------------------------------------------
(* Types and pointers. *)

\* What t knows at its program point: which pointers are set, to objects that
\* exist, and how large the value it writes may be.
Bound(t) ==
  /\ obj[t] <= nobj /\ own[t] <= nobj
  /\ pc[t] \in BoundPCs => obj[t] # 0
  /\ op[t] \in {"set", "clear"} => own[t] # 0 /\ val[t] <= MaxReports
  /\ op[t] = "kv" => val[t] <= MaxKV
  /\ pc[t] = "init" => t = Gateway /\ op[t] = "chunk"
  /\ pc[t] = "idle" => val[t] = 0
  /\ pc[t] \in {"announce", "tellAll"} => op[t] = "chunk"
  /\ pc[t] = "persist" => op[t] \in {"kv", "set", "clear"}
  /\ pc[t] \in {"lookup", "merge"} =>
       op[t] \in {"chunk", "update", "kv", "set", "clear"}

\* The newest object is the registered one, and every goroutine is bound.
Bindings ==
  /\ reg # 0 => reg = nobj
  /\ \A t \in Threads : Bound(t)
  /\ pc[Gateway] = "uncache" => reg = 0

LEMMA ShownType ==
  ASSUME NEW d \in Pretty, InputTypes PROVE Shown(d) \in Pretty
  BY BoundsAssumption DEF InputTypes, Shown, LiveOnly, Pretty

LEMMA NoPrettyType == NoPretty \in Pretty
  BY BoundsAssumption DEF NoPretty, Fresh, Pretty

LEMMA BuiltType ==
  ASSUME InputTypes, CallTypes, NEW t \in Threads
  PROVE  \A p \in Built(t) : p \in Pretty
  BY ShownType DEF CallTypes, Built

LEMMA MergedType ==
  ASSUME InputTypes, CallTypes, NEW t \in Threads, Bound(t), pc[t] = "merge",
         NEW d \in Pretty
  PROVE  Merged(t, d) \in Pretty
<1>1. CASE op[t] \in {"chunk", "update"}
  BY <1>1, BoundsAssumption DEF InputTypes, Merged, Pretty
<1>2. CASE op[t] = "kv"
  BY <1>2, BoundsAssumption DEF InputTypes, CallTypes, Bound, Merged, Pretty
<1>3. CASE op[t] \in {"set", "clear"}
  <2>1. LiveOnly(val[t]) \in 0..MaxReports
    BY <1>3, BoundsAssumption DEF CallTypes, Bound, LiveOnly
  <2>2. Merged(t, d) = [d EXCEPT !.ext = LiveOnly(val[t])]
    BY <1>3 DEF Merged
  <2> QED BY <2>1, <2>2 DEF Pretty
<1> QED BY <1>1, <1>2, <1>3 DEF Bound

LEMMA ObjectAtWork ==
  ASSUME TypeOK, Bindings, NEW t \in Threads, pc[t] \in BoundPCs
  PROVE  obj[t] \in Objs
  BY BoundsAssumption DEF TypeOK, CallTypes, Bindings, Bound, Objs

LEMMA BeginTypes ==
  ASSUME CallTypes, NEW t \in Threads, NEW l \in PCs, NEW o \in Ops,
         NEW x \in 0..MaxObj, Begin(t, l, o, x)
  PROVE  /\ pc' \in [Threads -> PCs] /\ op' \in [Threads -> Ops]
         /\ obj' \in [Threads -> 0..MaxObj]
  BY DEF CallTypes, Begin, Goto

LEMMA GotoTypes ==
  ASSUME CallTypes, NEW t \in Threads, NEW l \in PCs, Goto(t, l)
  PROVE  pc' \in [Threads -> PCs]
  BY DEF CallTypes, Goto

LEMMA EndTypes ==
  ASSUME CallTypes, NEW t \in Threads, NEW l \in PCs, End(t, l)
  PROVE  CallTypes'
<1>1. pc' \in [Threads -> PCs] /\ to' \in [Threads -> SUBSET Clients]
  BY DEF CallTypes, End, Goto
<1>2. op' \in [Threads -> Ops]
  BY DEF CallTypes, End, Ops
<1>3. snap' \in [Threads -> Pretty]
  BY NoPrettyType DEF CallTypes, End
<1>4. /\ obj' \in [Threads -> 0..MaxObj] /\ own' \in [Threads -> 0..MaxObj]
      /\ val' \in [Threads -> Nat]
  BY BoundsAssumption DEF CallTypes, End
<1> QED BY <1>1, <1>2, <1>3, <1>4 DEF CallTypes

LEMMA IdleIsLabel == "idle" \in PCs /\ "gone" \in PCs
  BY DEF PCs

\* Where operations start, and their names.
LEMMA Starts ==
  /\ \A l \in {"init", "lookup", "merge", "uncache", "ensure", "persist", "snap",
                "initState", "ids", "remove", "unglobal"} : l \in PCs
  /\ \A o \in {"chunk", "update", "stop", "get", "kv", "set", "clear", "sub",
                "subAll", "unsub", "close"} : o \in Ops
  /\ 0 \in 0..MaxObj
  BY BoundsAssumption DEF PCs, Ops

LEMMA CallTypesStep ==
  ASSUME TypeOK, Bindings, Next PROVE CallTypes'
<1> USE ThreadKinds DEF TypeOK
<1>1. CASE GatewayStep
  <2>1. CASE Chunk
    <3>1. PICK l \in PCs, x \in 0..MaxObj : Begin(Gateway, l, "chunk", x)
      <4>1. CASE reg # 0
        BY <2>1, <4>1, BoundsAssumption DEF Chunk, PCs
      <4>2. CASE reg = 0
        BY <2>1, <4>2, BoundsAssumption DEF Chunk, ObjectTypes, PCs
      <4> QED BY <4>1, <4>2
    <3> QED
      BY <2>1, <3>1, BeginTypes, Starts DEF Chunk, Ops, CallTypes
  <2>2. CASE LoadObject
    BY <2>2, GotoTypes DEF LoadObject, CallTypes, PCs, locals
  <2>3. CASE Announce
    <3>1. to' \in [Threads -> SUBSET Clients]
      BY <2>3 DEF Announce, CallTypes, SocketTypes
    <3>2. pc' \in [Threads -> PCs]
      BY <2>3, GotoTypes DEF Announce, PCs
    <3> QED BY <2>3, <3>1, <3>2 DEF Announce, CallTypes
  <2>4. CASE Update
    BY <2>4, BeginTypes, Starts DEF Update, ObjectTypes, CallTypes
  <2>5. CASE Stop
    <3>1. Begin(Gateway, "uncache", "stop", 0) /\ UNCHANGED <<own, snap, to, val>>
      BY <2>5 DEF Stop
    <3> QED BY <3>1, BeginTypes, Starts DEF CallTypes
  <2>6. CASE CacheDelete
    BY <2>6, EndTypes, IdleIsLabel DEF CacheDelete, Finish
  <2>7. CASE MemberAdd
    BY <2>7 DEF MemberAdd, vars, locals, CallTypes
  <2> QED BY <1>1, <2>1, <2>2, <2>3, <2>4, <2>5, <2>6, <2>7 DEF GatewayStep
<1>2. ASSUME NEW t \in Threads, Sync(t) PROVE CallTypes'
  <2>1. CASE Lookup(t)
    <3>1. CASE reg # 0
      <4>1. pc' \in [Threads -> PCs]
        BY <2>1, <3>1, GotoTypes DEF Lookup, PCs
      <4>2. obj' \in [Threads -> 0..MaxObj]
        BY <2>1, <3>1 DEF Lookup, CallTypes, ObjectTypes
      <4> QED BY <2>1, <3>1, <4>1, <4>2 DEF Lookup, CallTypes
    <3>2. CASE reg = 0 /\ op[t] \in {"set", "clear"}
      <4>1. pc' \in [Threads -> PCs]
        BY <2>1, <3>2, GotoTypes DEF Lookup, PCs
      <4>2. obj' \in [Threads -> 0..MaxObj]
        BY <2>1, <3>2 DEF Lookup, CallTypes
      <4> QED BY <2>1, <3>2, <4>1, <4>2 DEF Lookup, CallTypes
    <3>3. CASE reg = 0 /\ op[t] \notin {"set", "clear"}
      BY <2>1, <3>3, EndTypes, IdleIsLabel DEF Lookup, Finish
    <3> QED BY <3>1, <3>2, <3>3
  <2>2. CASE Merge(t)
    <3>1. obj[t] \in Objs
      BY <2>2, ObjectAtWork DEF Merge, BoundPCs
    <3>2. Shown(Merged(t, data[obj[t]])) \in Pretty
      BY <2>2, <3>1, ShownType, MergedType DEF Merge, ObjectTypes, Bindings
    <3>3. pc' \in [Threads -> PCs]
      BY <2>2, GotoTypes DEF Merge, PCs
    <3>4. snap' \in [Threads -> Pretty] /\ to' \in [Threads -> SUBSET Clients]
      BY <2>2, <3>1, <3>2 DEF Merge, CallTypes, ObjectTypes
    <3> QED BY <2>2, <3>3, <3>4 DEF Merge, CallTypes
  <2>3. CASE Publish(t)
    <3>1. pc' \in [Threads -> PCs]
      BY <2>3, GotoTypes DEF Publish, PCs
    <3>2. snap' \in [Threads -> Pretty]
      BY <2>3, BuiltType DEF Publish, CallTypes
    <3> QED BY <2>3, <3>1, <3>2 DEF Publish, CallTypes
  <2>4. CASE Record(t)
    BY <2>4, GotoTypes DEF Record, CallTypes, PCs, locals
  <2>5. CASE Tell(t)
    BY <2>5 DEF Tell, CallTypes
  <2>6. CASE FanOutDone(t)
    <3>1. CASE pc[t] = "tellAll"
      <4>1. Goto(t, "lookup") /\ snap' = [snap EXCEPT ![t] = NoPretty]
            /\ UNCHANGED <<op, obj, own, to, val>>
        BY <2>6, <3>1 DEF FanOutDone, AfterFanOut
      <4> QED BY <4>1, GotoTypes, NoPrettyType DEF CallTypes, PCs
    <3>2. CASE pc[t] = "tell" /\ op[t] \in {"set", "clear"}
      <4>1. Goto(t, "snap") /\ obj' = [obj EXCEPT ![t] = own[t]]
            /\ UNCHANGED <<op, own, snap, to, val>>
        BY <2>6, <3>2 DEF FanOutDone, AfterFanOut
      <4> QED BY <4>1, GotoTypes DEF CallTypes, PCs
    <3>3. CASE Finish(t)
      BY <3>3, EndTypes, IdleIsLabel DEF Finish
    <3> QED BY <2>6, <3>1, <3>2, <3>3 DEF FanOutDone, AfterFanOut
  <2> QED BY <1>2, <2>1, <2>2, <2>3, <2>4, <2>5, <2>6 DEF Sync
<1>3. ASSUME NEW t \in Threads, BuildPretty(t) PROVE CallTypes'
  <2>1. CASE Snap(t)
    <3>1. Shown(data[obj[t]]) \in Pretty
      BY <2>1, ObjectAtWork, ShownType DEF Snap, BoundPCs, ObjectTypes
    <3>2. snap' \in [Threads -> Pretty]
      BY <2>1, <3>1 DEF Snap, CallTypes
    <3>3. pc' \in [Threads -> PCs]
      BY <2>1, GotoTypes DEF Snap, PCs
    <3> QED BY <2>1, <3>2, <3>3 DEF Snap, CallTypes
  <2>2. CASE LoadExt(t)
    <3>1. PICK r \in Reads(rext) :
            /\ snap' = [snap EXCEPT ![t] = [@ EXCEPT !.ext = LiveOnly(r)]]
            /\ Goto(t, IF LiveOnly(r) = 0 THEN "drop" ELSE "keep")
      BY <2>2 DEF LoadExt
    <3>2. LiveOnly(r) \in 0..MaxReports
      BY BoundsAssumption DEF Reads, InputTypes, LiveOnly
    <3>3. [snap[t] EXCEPT !.ext = LiveOnly(r)] \in Pretty
      BY <3>2 DEF CallTypes, Pretty
    <3>4. snap' \in [Threads -> Pretty]
      BY <3>1, <3>3 DEF CallTypes
    <3>5. pc' \in [Threads -> PCs]
      BY <3>1, GotoTypes DEF PCs
    <3> QED BY <2>2, <3>4, <3>5 DEF LoadExt, CallTypes
  <2>3. CASE Keep(t)
    BY <2>3, GotoTypes DEF Keep, CallTypes, PCs, locals
  <2>4. CASE Drop(t)
    BY <2>4, GotoTypes DEF Drop, CallTypes, PCs, locals
  <2>5. CASE CacheSet(t)
    <3>1. CASE op[t] \in {"get", "set", "clear"}
      BY <2>5, <3>1, EndTypes, IdleIsLabel DEF CacheSet, Finish
    <3>2. CASE op[t] \in {"chunk", "sub", "subAll"}
      <4>1. snap' \in [Threads -> Pretty]
        BY <2>5, <3>2, BuiltType DEF CacheSet, CallTypes
      <4>2. pc' \in [Threads -> PCs]
        BY <2>5, <3>2, GotoTypes DEF CacheSet, PCs
      <4> QED BY <2>5, <3>2, <4>1, <4>2 DEF CacheSet, CallTypes
    <3> QED BY <2>5, <3>1, <3>2 DEF CacheSet
  <2> QED BY <1>3, <2>1, <2>2, <2>3, <2>4, <2>5 DEF BuildPretty
<1>4. ASSUME NEW t \in Workers, WorkerStep(t) PROVE CallTypes'
  <2>1. CASE Get(t) \/ Stats(t)
    BY <1>4, <2>1, BeginTypes, Starts DEF Get, Stats, ObjectTypes, CallTypes
  <2>2. CASE EnsureBanner(t)
    <3>1. CASE Goto(t, "stale") /\ UNCHANGED <<op, obj>>
      BY <2>2, <3>1, GotoTypes DEF EnsureBanner, CallTypes, PCs
    <3>2. CASE Spawn(t, obj[t])
      <4>1. PICK f \in Fetchers :
              /\ pc' = [pc EXCEPT ![t] = "stale", ![f] = "fetch"]
              /\ op' = [op EXCEPT ![f] = "fetch"]
              /\ obj' = [obj EXCEPT ![f] = obj[t]]
        BY <3>2 DEF Spawn
      <4>2. pc' \in [Threads -> PCs]
        BY <4>1 DEF CallTypes, PCs
      <4>3. op' \in [Threads -> Ops] /\ obj' \in [Threads -> 0..MaxObj]
        BY <4>1 DEF CallTypes, Ops
      <4> QED BY <2>2, <4>2, <4>3 DEF EnsureBanner, CallTypes
    <3> QED BY <2>2, <3>1, <3>2 DEF EnsureBanner
  <2>3. CASE CheckStale(t)
    BY <2>3, GotoTypes DEF CheckStale, CallTypes, PCs, locals
  <2>4. CASE CacheGet(t)
    <3>1. CASE Finish(t) BY <3>1, EndTypes, IdleIsLabel DEF Finish
    <3>2. CASE Goto(t, "snap") /\ UNCHANGED locals
      BY <3>2, GotoTypes DEF CallTypes, PCs, locals
    <3> QED BY <2>4, <3>1, <3>2 DEF CacheGet
  <2>5. CASE WriteKV(t)
    <3>1. val' \in [Threads -> Nat]
      BY <2>5, BoundsAssumption DEF WriteKV, CallTypes, InputTypes
    <3> QED
      BY <2>5, <3>1, BeginTypes, Starts DEF WriteKV, CallTypes
  <2>6. CASE SetExternalMusic(t)
    <3>1. val' \in [Threads -> Nat] /\ own' \in [Threads -> 0..MaxObj]
      BY <2>6, BoundsAssumption
         DEF SetExternalMusic, CallTypes, InputTypes, ObjectTypes
    <3> QED
      BY <2>6, <3>1, BeginTypes, Starts
         DEF SetExternalMusic, CallTypes
  <2>7. CASE ClearExternalMusic(t)
    <3>1. own' \in [Threads -> 0..MaxObj]
      BY <2>7 DEF ClearExternalMusic, CallTypes, ObjectTypes
    <3> QED
      BY <2>7, <3>1, BeginTypes, Starts
         DEF ClearExternalMusic, CallTypes
  <2>8. CASE Persist(t)
    BY <2>8, GotoTypes DEF Persist, CallTypes, PCs, locals
  <2> QED
    BY <1>4, <2>1, <2>2, <2>3, <2>4, <2>5, <2>6, <2>7, <2>8 DEF WorkerStep
<1>5. ASSUME NEW c \in Clients, ClientStep(c) PROVE CallTypes'
  <2>1. CASE Subscribe(c)
    BY <2>1, BeginTypes, Starts DEF Subscribe, CallTypes, ObjectTypes
  <2>2. CASE SubscribeAll(c)
    BY <2>2, BeginTypes, Starts DEF SubscribeAll, CallTypes
  <2>3. CASE ReadIDs(c)
    BY <2>3, GotoTypes DEF ReadIDs, CallTypes, PCs, locals
  <2>4. CASE FindID(c)
    BY <2>4, GotoTypes DEF FindID, CallTypes, ObjectTypes, PCs
  <2>5. CASE AddSubscriber(c)
    BY <2>5, GotoTypes DEF AddSubscriber, CallTypes, PCs, locals
  <2>6. CASE InitState(c)
    BY <2>6, EndTypes, IdleIsLabel DEF InitState, Finish
  <2>7. CASE Unsubscribe(c)
    <3>1. CASE Begin(c, "remove", "unsub", reg)
      BY <2>7, <3>1, BeginTypes, Starts DEF Unsubscribe, CallTypes, ObjectTypes
    <3>2. CASE UNCHANGED <<pc, op, obj>>
      BY <2>7, <3>2 DEF Unsubscribe, CallTypes
    <3> QED BY <2>7, <3>1, <3>2 DEF Unsubscribe
  <2>8. CASE RemoveSubscriber(c)
    BY <2>8, EndTypes, IdleIsLabel DEF RemoveSubscriber, Finish
  <2>9. CASE Close(c)
    BY <2>9, BeginTypes, Starts DEF Close, CallTypes
  <2>10. CASE RemoveGlobal(c)
    <3>1. CASE End(c, "gone") BY <3>1, EndTypes, IdleIsLabel
    <3>2. CASE Goto(c, "unfind") /\ UNCHANGED locals
      BY <3>2, GotoTypes DEF CallTypes, PCs, locals
    <3> QED BY <2>10, <3>1, <3>2 DEF RemoveGlobal
  <2>11. CASE UnsubscribeTracked(c)
    <3>1. CASE End(c, "gone") BY <3>1, EndTypes, IdleIsLabel
    <3>2. CASE reg # 0
      BY <2>11, <3>2, GotoTypes DEF UnsubscribeTracked, CallTypes, ObjectTypes, PCs
    <3> QED BY <2>11, <3>1, <3>2 DEF UnsubscribeTracked
  <2> QED
    BY <1>5, <2>1, <2>2, <2>3, <2>4, <2>5, <2>6, <2>7, <2>8, <2>9, <2>10, <2>11
       DEF ClientStep
<1>6. ASSUME NEW f \in Fetchers, FetchFails(f) \/ Fetched(f) PROVE CallTypes'
  <2>1. CASE FetchFails(f)
    BY <2>1, EndTypes, IdleIsLabel DEF FetchFails, Finish
  <2>2. CASE Fetched(f)
    <3>1. obj[f] \in Objs
      BY <2>2, ObjectAtWork DEF Fetched, BoundPCs
    <3>2. Shown([data[obj[f]] EXCEPT !.banner = TRUE]) \in Pretty
      <4>1. [data[obj[f]] EXCEPT !.banner = TRUE] \in Pretty
        BY <3>1 DEF ObjectTypes, Pretty
      <4> QED BY <4>1, ShownType
    <3>3. snap' \in [Threads -> Pretty] /\ to' \in [Threads -> SUBSET Clients]
      BY <2>2, <3>1, <3>2 DEF Fetched, CallTypes, ObjectTypes
    <3>4. pc' \in [Threads -> PCs]
      BY <2>2, GotoTypes DEF Fetched, PCs
    <3> QED BY <2>2, <3>3, <3>4 DEF Fetched, CallTypes
  <2> QED BY <1>6, <2>1, <2>2
<1>7. CASE Expire
  BY <1>7 DEF Expire, CallTypes, locals
<1> QED BY <1>1, <1>2, <1>3, <1>4, <1>5, <1>6, <1>7 DEF Next

LEMMA ObjectTypesStep ==
  ASSUME TypeOK, Bindings, Next PROVE ObjectTypes'
<1> USE ThreadKinds DEF TypeOK
<1>1. CASE GatewayStep
  <2>1. CASE Chunk
    <3>1. CASE reg # 0
      BY <2>1, <3>1, BoundsAssumption DEF Chunk, ObjectTypes, regVars, objVars, Begin
    <3>2. CASE reg = 0
      <4>1. nobj + 1 \in Objs /\ events + 1 \in 0..MaxEvents
        BY <2>1, <3>2, BoundsAssumption DEF Chunk, ObjectTypes, InputTypes, Objs
      <4>2. Fresh(nobj + 1, events + 1) \in Pretty
        BY <4>1, BoundsAssumption DEF Fresh, Pretty, Objs
      <4>3. data' = [data EXCEPT ![nobj + 1] = Fresh(nobj + 1, events + 1)]
        BY <2>1, <3>2 DEF Chunk
      <4>4. data' \in [Objs -> Pretty]
        BY <4>1, <4>2, <4>3 DEF ObjectTypes
      <4> QED BY <2>1, <3>2, <4>1, <4>4, BoundsAssumption DEF Chunk, ObjectTypes, Objs
    <3> QED BY <3>1, <3>2
  <2>2. CASE LoadObject
    <3>1. PICK k \in Reads(rkv), e \in Reads(rext) :
            data' = [data EXCEPT ![obj[Gateway]] =
                       [@ EXCEPT !.kv = k, !.ext = LiveOnly(e)]]
      BY <2>2 DEF LoadObject
    <3>2. k \in 0..MaxKV /\ LiveOnly(e) \in 0..MaxReports
      BY BoundsAssumption DEF Reads, InputTypes, LiveOnly
    <3>3. obj[Gateway] \in Objs
      BY <2>2, ObjectAtWork DEF LoadObject, BoundPCs
    <3>4. [data[obj[Gateway]] EXCEPT !.kv = k, !.ext = LiveOnly(e)] \in Pretty
      BY <3>2, <3>3 DEF ObjectTypes, Pretty
    <3>5. data' \in [Objs -> Pretty]
      BY <3>1, <3>3, <3>4 DEF ObjectTypes
    <3> QED BY <2>2, <3>5 DEF LoadObject, ObjectTypes, regVars
  <2>3. CASE Announce
    BY <2>3 DEF Announce, ObjectTypes, regVars, objVars
  <2>4. CASE Update
    BY <2>4 DEF Update, ObjectTypes, regVars, objVars
  <2>5. CASE Stop
    BY <2>5, BoundsAssumption DEF Stop, ObjectTypes, objVars
  <2>6. CASE CacheDelete
    BY <2>6, NoPrettyType DEF CacheDelete, ObjectTypes, regVars, objVars
  <2>7. CASE MemberAdd
    BY <2>7 DEF MemberAdd, vars, ObjectTypes, regVars, objVars
  <2> QED BY <1>1, <2>1, <2>2, <2>3, <2>4, <2>5, <2>6, <2>7 DEF GatewayStep
<1>2. ASSUME NEW t \in Threads, Sync(t) PROVE ObjectTypes'
  <2>1. CASE Lookup(t) \/ Tell(t) \/ FanOutDone(t)
    BY <2>1 DEF Lookup, Tell, FanOutDone, ObjectTypes, regVars, objVars
  <2>2. CASE Merge(t)
    <3>1. obj[t] \in Objs
      BY <2>2, ObjectAtWork DEF Merge, BoundPCs
    <3>2. Merged(t, data[obj[t]]) \in Pretty
      BY <2>2, <3>1, MergedType DEF Merge, ObjectTypes, Bindings
    <3>3. data' \in [Objs -> Pretty]
      BY <2>2, <3>1, <3>2 DEF Merge, ObjectTypes
    <3> QED BY <2>2, <3>3 DEF Merge, ObjectTypes, regVars
  <2>3. CASE Publish(t)
    BY <2>3, BuiltType DEF Publish, ObjectTypes, regVars, objVars
  <2>4. CASE Record(t)
    <3>1. snap[t].disc \in 0..MaxEvents
      BY DEF CallTypes, Pretty
    <3>2. marker' \in [Objs -> 0..MaxEvents]
      BY <2>4, <3>1 DEF Record, ObjectTypes
    <3> QED BY <2>4, <3>2 DEF Record, ObjectTypes, regVars
  <2> QED BY <1>2, <2>1, <2>2, <2>3, <2>4 DEF Sync
<1>3. ASSUME NEW t \in Threads, BuildPretty(t) PROVE ObjectTypes'
  <2>1. CASE Snap(t) \/ LoadExt(t)
    BY <2>1 DEF Snap, LoadExt, ObjectTypes, regVars, objVars
  <2>2. CASE Keep(t)
    <3>1. obj[t] \in Objs
      BY <2>2, ObjectAtWork DEF Keep, BoundPCs
    <3>2. [data[obj[t]] EXCEPT !.ext = snap[t].ext] \in Pretty
      <4>1. snap[t].ext \in 0..MaxReports
        BY DEF CallTypes, Pretty
      <4>2. data[obj[t]] \in Pretty
        BY <3>1 DEF ObjectTypes
      <4> QED BY <4>1, <4>2 DEF Pretty
    <3>3. data' \in [Objs -> Pretty]
      BY <2>2, <3>1, <3>2 DEF Keep, ObjectTypes
    <3> QED BY <2>2, <3>3 DEF Keep, ObjectTypes, regVars
  <2>3. CASE Drop(t)
    <3>1. obj[t] \in Objs
      BY <2>3, ObjectAtWork DEF Drop, BoundPCs
    <3>2. [data[obj[t]] EXCEPT !.ext = 0] \in Pretty
      BY <3>1, BoundsAssumption DEF ObjectTypes, Pretty
    <3>3. data' \in [Objs -> Pretty]
      BY <2>3, <3>1, <3>2 DEF Drop, ObjectTypes
    <3> QED BY <2>3, <3>3 DEF Drop, ObjectTypes, regVars
  <2>4. CASE CacheSet(t)
    BY <2>4, BuiltType DEF CacheSet, ObjectTypes, regVars, objVars
  <2> QED BY <1>3, <2>1, <2>2, <2>3, <2>4 DEF BuildPretty
<1>4. ASSUME NEW t \in Workers, WorkerStep(t) PROVE ObjectTypes'
  <2>1. CASE EnsureBanner(t)
    BY <2>1 DEF EnsureBanner, ObjectTypes, regVars
  <2>2. CASE ~EnsureBanner(t)
    BY <1>4, <2>2
       DEF WorkerStep, Get, Stats, CheckStale, CacheGet, WriteKV, SetExternalMusic,
           ClearExternalMusic, Persist, ObjectTypes, regVars, objVars
  <2> QED BY <2>1, <2>2
<1>5. ASSUME NEW c \in Clients, ClientStep(c) PROVE ObjectTypes'
  <2>1. CASE AddSubscriber(c)
    <3>1. subs' \in [Objs -> SUBSET Clients]
      BY <1>5, <2>1 DEF AddSubscriber, ObjectTypes
    <3> QED BY <2>1, <3>1 DEF AddSubscriber, ObjectTypes, regVars
  <2>2. CASE RemoveSubscriber(c)
    <3>1. subs' \in [Objs -> SUBSET Clients]
      BY <2>2 DEF RemoveSubscriber, ObjectTypes
    <3> QED BY <2>2, <3>1 DEF RemoveSubscriber, ObjectTypes, regVars
  <2>3. CASE ~AddSubscriber(c) /\ ~RemoveSubscriber(c)
    BY <1>5, <2>3
       DEF ClientStep, Subscribe, SubscribeAll, ReadIDs, FindID, InitState,
           Unsubscribe, Close, RemoveGlobal, UnsubscribeTracked, ObjectTypes,
           regVars, objVars
  <2> QED BY <2>1, <2>2, <2>3
<1>6. ASSUME NEW f \in Fetchers, FetchFails(f) \/ Fetched(f) PROVE ObjectTypes'
  <2>1. CASE FetchFails(f)
    BY <2>1 DEF FetchFails, ObjectTypes, regVars, objVars
  <2>2. CASE Fetched(f)
    <3>1. obj[f] \in Objs
      BY <2>2, ObjectAtWork DEF Fetched, BoundPCs
    <3>2. [data[obj[f]] EXCEPT !.banner = TRUE] \in Pretty
      BY <3>1 DEF ObjectTypes, Pretty
    <3>3. data' \in [Objs -> Pretty]
      BY <2>2, <3>1, <3>2 DEF Fetched, ObjectTypes
    <3> QED BY <2>2, <3>3 DEF Fetched, ObjectTypes, regVars
  <2> QED BY <1>6, <2>1, <2>2
<1>7. CASE Expire
  BY <1>7 DEF Expire, ObjectTypes, regVars, objVars
<1> QED BY <1>1, <1>2, <1>3, <1>4, <1>5, <1>6, <1>7 DEF Next

LEMMA InputTypesStep ==
  ASSUME TypeOK, Bindings, Next PROVE InputTypes'
<1> USE ThreadKinds, BoundsAssumption DEF TypeOK, InputTypes, redisVars, inputs, ghosts
<1>1. CASE GatewayStep
  <2>1. CASE Chunk
    <3>1. overlapped' \in BOOLEAN
      BY <2>1 DEF Chunk, Overlaps
    <3> QED BY <2>1, <3>1 DEF Chunk
  <2>2. CASE LoadObject
    BY <2>2 DEF LoadObject, NoteWrite, Overlaps
  <2>3. CASE ~Chunk /\ ~LoadObject
    BY <1>1, <2>3
       DEF GatewayStep, Announce, Update, Stop, CacheDelete, MemberAdd, vars
  <2> QED BY <2>1, <2>2, <2>3
<1>2. ASSUME NEW t \in Threads, Sync(t) PROVE InputTypes'
  BY <1>2 DEF Sync, Lookup, Merge, NoteWrite, Overlaps, Publish, Record, Tell,
              FanOutDone
<1>3. ASSUME NEW t \in Threads, BuildPretty(t) PROVE InputTypes'
  BY <1>3 DEF BuildPretty, Snap, LoadExt, Keep, Drop, NoteMinorWrite, CacheSet
<1>4. ASSUME NEW t \in Workers, WorkerStep(t) PROVE InputTypes'
  <2>1. CASE EnsureBanner(t)
    <3>1. obj[t] \in Objs
      BY <2>1, ObjectAtWork DEF EnsureBanner, BoundPCs
    <3>2. fetches' \in [Objs -> Nat]
      BY <2>1, <3>1 DEF EnsureBanner, Spawn
    <3> QED BY <2>1, <3>2 DEF EnsureBanner
  <2>2. CASE Persist(t)
    <3>1. op[t] \in {"kv", "set", "clear"} /\ Bound(t)
      BY <2>2 DEF Persist, Bindings, Bound
    <3>2. /\ op[t] = "kv" => val[t] \in 0..MaxKV
          /\ op[t] # "kv" => val[t] \in 0..MaxReports
      BY <3>1 DEF Bound, CallTypes
    <3> QED BY <2>2, <3>1, <3>2 DEF Persist
  <2>3. CASE ~EnsureBanner(t) /\ ~Persist(t)
    BY <1>4, <2>3 DEF WorkerStep, Get, Stats, CheckStale, CacheGet, WriteKV,
                      SetExternalMusic, ClearExternalMusic
  <2> QED BY <2>1, <2>2, <2>3
<1>5. ASSUME NEW c \in Clients, ClientStep(c) PROVE InputTypes'
  BY <1>5 DEF ClientStep, Subscribe, SubscribeAll, ReadIDs, FindID, AddSubscriber,
              InitState, Unsubscribe, RemoveSubscriber, Close, RemoveGlobal,
              UnsubscribeTracked
<1>6. ASSUME NEW f \in Fetchers, FetchFails(f) \/ Fetched(f) PROVE InputTypes'
  BY <1>6 DEF FetchFails, Fetched, NoteMinorWrite
<1>7. CASE Expire
  BY <1>7 DEF Expire
<1> QED BY <1>1, <1>2, <1>3, <1>4, <1>5, <1>6, <1>7 DEF Next

LEMMA SocketTypesStep ==
  ASSUME TypeOK, Bindings, Next PROVE SocketTypes'
<1> USE ThreadKinds DEF TypeOK, SocketTypes, sockets
<1>0. ASSUME NEW c \in Clients, NEW p \in Pretty, SendEvent(c, p)
      PROVE  view' \in [Clients -> Pretty] /\ told' \in [Clients -> SUBSET (0..MaxObj)]
  <2>1. p.obj \in 0..MaxObj
    BY DEF Pretty
  <2> QED BY <1>0, <2>1 DEF SendEvent
<1>1. CASE GatewayStep
  BY <1>1 DEF GatewayStep, Chunk, LoadObject, Announce, Update, Stop, CacheDelete,
              MemberAdd, vars
<1>2. ASSUME NEW t \in Threads, Sync(t) PROVE SocketTypes'
  <2>1. CASE Tell(t)
    <3>1. PICK c \in to[t] : SendEvent(c, snap[t])
      BY <2>1 DEF Tell
    <3>2. c \in Clients /\ snap[t] \in Pretty
      BY DEF CallTypes
    <3> QED BY <2>1, <3>1, <3>2, <1>0 DEF Tell
  <2>2. CASE ~Tell(t)
    BY <1>2, <2>2 DEF Sync, Lookup, Merge, Publish, Record, FanOutDone
  <2> QED BY <2>1, <2>2
<1>3. ASSUME NEW t \in Threads, BuildPretty(t) PROVE SocketTypes'
  BY <1>3 DEF BuildPretty, Snap, LoadExt, Keep, Drop, CacheSet
<1>4. ASSUME NEW t \in Workers, WorkerStep(t) PROVE SocketTypes'
  BY <1>4 DEF WorkerStep, Get, Stats, EnsureBanner, CheckStale, CacheGet, WriteKV,
              SetExternalMusic, ClearExternalMusic, Persist
<1>5. ASSUME NEW c \in Clients, ClientStep(c) PROVE SocketTypes'
  <2>1. CASE InitState(c)
    <3>1. snap[c] \in Pretty
      BY DEF CallTypes
    <3> QED BY <2>1, <3>1, <1>0 DEF InitState
  <2>2. CASE ~InitState(c)
    BY <1>5, <2>2
       DEF ClientStep, Subscribe, SubscribeAll, ReadIDs, FindID, AddSubscriber,
           Unsubscribe, RemoveSubscriber, Close, RemoveGlobal, UnsubscribeTracked
  <2> QED BY <2>1, <2>2
<1>6. ASSUME NEW f \in Fetchers, FetchFails(f) \/ Fetched(f) PROVE SocketTypes'
  BY <1>6 DEF FetchFails, Fetched
<1>7. CASE Expire
  BY <1>7 DEF Expire
<1> QED BY <1>1, <1>2, <1>3, <1>4, <1>5, <1>6, <1>7 DEF Next

LEMMA OthersStayBound ==
  ASSUME TypeOK, Bindings, NEW t \in Threads, OthersKeep(t),
         nobj' \in Nat, nobj' >= nobj
  PROVE  \A u \in Threads : u # t => Bound(u)'
<1> SUFFICES ASSUME NEW u \in Threads, u # t PROVE Bound(u)'
  OBVIOUS
<1>1. Bound(u) /\ Keeps(u)
  BY DEF Bindings, OthersKeep
<1>2. /\ obj[u] \in Nat /\ own[u] \in Nat /\ nobj \in Nat
  BY BoundsAssumption DEF TypeOK, CallTypes, ObjectTypes
<1> QED BY <1>1, <1>2 DEF Bound, Keeps

LEMMA EndBinds ==
  ASSUME TypeOK, NEW t \in Threads, NEW l \in {"idle", "gone"}, End(t, l),
         nobj' \in Nat
  PROVE  Bound(t)'
<1>1. /\ pc'[t] = l /\ op'[t] = "none" /\ obj'[t] = 0 /\ own'[t] = 0
      /\ val'[t] = 0
  BY DEF TypeOK, CallTypes, End, Goto
<1> QED BY <1>1 DEF Bound, BoundPCs

LEMMA BindingsStep ==
  ASSUME TypeOK, Bindings, Next PROVE Bindings'
<1> USE ThreadKinds DEF TypeOK
<1>a. nobj \in Nat /\ reg \in Nat
  BY BoundsAssumption DEF ObjectTypes
<1>1. CASE GatewayStep
  <2>0. OthersKeep(Gateway)
    BY <1>1, GatewayKeeps
  <2>1. CASE Chunk
    <3>1. CASE reg # 0
      <4>1. /\ pc'[Gateway] = "lookup" /\ op'[Gateway] = "chunk"
            /\ obj'[Gateway] = 0 /\ own'[Gateway] = own[Gateway]
            /\ nobj' = nobj /\ reg' = reg
        BY <2>1, <3>1 DEF Chunk, Begin, Goto, CallTypes, regVars
      <4>2. Bound(Gateway)'
        BY <4>1, <1>a DEF Bindings, Bound, BoundPCs
      <4> QED BY <2>0, <4>1, <4>2, <1>a, OthersStayBound DEF Bindings
    <3>2. CASE reg = 0
      <4>1. /\ pc'[Gateway] = "init" /\ op'[Gateway] = "chunk"
            /\ obj'[Gateway] = nobj + 1 /\ own'[Gateway] = own[Gateway]
            /\ nobj' = nobj + 1 /\ reg' = nobj + 1
        BY <2>1, <3>2 DEF Chunk, Begin, Goto, CallTypes
      <4>2. own[Gateway] \in Nat /\ own[Gateway] <= nobj
        BY BoundsAssumption DEF Bindings, Bound, CallTypes
      <4>3. Bound(Gateway)'
        BY <4>1, <4>2, <1>a DEF Bound, BoundPCs
      <4> QED BY <2>0, <4>1, <4>3, <1>a, OthersStayBound DEF Bindings
    <3> QED BY <3>1, <3>2
  <2>2. CASE LoadObject
    <3>1. /\ pc'[Gateway] = "snap" /\ obj'[Gateway] = obj[Gateway]
          /\ own'[Gateway] = own[Gateway] /\ op'[Gateway] = op[Gateway]
          /\ val'[Gateway] = val[Gateway]
          /\ nobj' = nobj /\ reg' = reg /\ pc[Gateway] = "init"
      BY <2>2 DEF LoadObject, Goto, CallTypes, regVars, locals
    <3>2. Bound(Gateway)'
      BY <3>1 DEF Bindings, Bound, BoundPCs
    <3> QED BY <2>0, <3>1, <3>2, <1>a, OthersStayBound DEF Bindings
  <2>3. CASE Announce
    <3>1. /\ pc'[Gateway] = "tellAll" /\ obj'[Gateway] = obj[Gateway]
          /\ own'[Gateway] = own[Gateway] /\ op'[Gateway] = op[Gateway]
          /\ val'[Gateway] = val[Gateway]
          /\ nobj' = nobj /\ reg' = reg /\ pc[Gateway] = "announce"
      BY <2>3 DEF Announce, Goto, CallTypes, regVars
    <3>2. Bound(Gateway)'
      BY <3>1 DEF Bindings, Bound, BoundPCs
    <3> QED BY <2>0, <3>1, <3>2, <1>a, OthersStayBound DEF Bindings
  <2>4. CASE Update
    <3>1. /\ pc'[Gateway] = "merge" /\ obj'[Gateway] = reg
          /\ own'[Gateway] = own[Gateway] /\ op'[Gateway] = "update"
          /\ nobj' = nobj /\ reg' = reg /\ reg # 0
      BY <2>4 DEF Update, Begin, Goto, CallTypes, regVars
    <3>2. Bound(Gateway)'
      BY <3>1, <1>a DEF Bindings, Bound, BoundPCs
    <3> QED BY <2>0, <3>1, <3>2, <1>a, OthersStayBound DEF Bindings
  <2>5. CASE Stop
    <3>1. /\ pc'[Gateway] = "uncache" /\ obj'[Gateway] = 0
          /\ own'[Gateway] = own[Gateway] /\ op'[Gateway] = "stop"
          /\ nobj' = nobj /\ reg' = 0
      BY <2>5 DEF Stop, Begin, Goto, CallTypes
    <3>2. Bound(Gateway)'
      BY <3>1, <1>a DEF Bindings, Bound, BoundPCs
    <3> QED BY <2>0, <3>1, <3>2, <1>a, OthersStayBound DEF Bindings
  <2>6. CASE CacheDelete
    <3>1. nobj' = nobj /\ reg' = reg /\ End(Gateway, "idle")
      BY <2>6 DEF CacheDelete, Finish, regVars
    <3>2. Bound(Gateway)' /\ pc'[Gateway] = "idle"
      BY <3>1, <1>a, EndBinds DEF End, Goto, CallTypes
    <3> QED BY <2>0, <3>1, <3>2, <1>a, OthersStayBound DEF Bindings
  <2>7. CASE MemberAdd
    BY <2>7 DEF MemberAdd, vars, Bindings, Bound, regVars, locals
  <2> QED BY <1>1, <2>1, <2>2, <2>3, <2>4, <2>5, <2>6, <2>7 DEF GatewayStep
<1>2. ASSUME NEW t \in Threads, nobj' = nobj, reg' = reg, OthersKeep(t), Bound(t)',
             pc'[t] # "uncache" \/ t # Gateway
      PROVE  Bindings'
  <2>1. \A u \in Threads : Bound(u)'
    BY <1>2, <1>a, OthersStayBound
  <2>2. pc'[Gateway] = "uncache" => pc[Gateway] = "uncache"
    BY <1>2 DEF OthersKeep, Keeps
  <2> QED BY <1>2, <2>1, <2>2 DEF Bindings
<1>3. ASSUME NEW t \in Threads, Sync(t) \/ BuildPretty(t) PROVE Bindings'
  <2>0. OthersKeep(t) /\ nobj' = nobj /\ reg' = reg /\ Bound(t)
    BY <1>3, SyncKeeps
       DEF Bindings, regVars, Sync, Lookup, Merge, Publish, Record, Tell,
           FanOutDone, BuildPretty, Snap, LoadExt, Keep, Drop, CacheSet
  <2>1. CASE Goto(t, "idle") /\ End(t, "idle")
    BY <2>0, <2>1, <1>2, <1>a, EndBinds DEF End, Goto, CallTypes
  <2>2. CASE Lookup(t)
    <3>1. CASE reg # 0
      BY <2>0, <2>2, <3>1, <1>2, <1>a
         DEF Lookup, Goto, CallTypes, Bindings, Bound, BoundPCs
    <3>2. CASE reg = 0 /\ op[t] \in {"set", "clear"}
      BY <2>0, <2>2, <3>2, <1>2, <1>a
         DEF Lookup, Goto, CallTypes, Bound, BoundPCs
    <3> QED BY <2>1, <2>2, <3>1, <3>2 DEF Lookup, Finish, End
  <2>3. CASE Merge(t)
    BY <2>0, <2>3, <1>2 DEF Merge, Goto, CallTypes, Bound, BoundPCs
  <2>4. CASE Publish(t)
    BY <2>0, <2>4, <1>2 DEF Publish, Goto, CallTypes, Bound, BoundPCs
  <2>5. CASE Record(t)
    BY <2>0, <2>5, <1>2 DEF Record, Goto, CallTypes, Bound, BoundPCs, locals
  <2>6. CASE Tell(t)
    BY <2>0, <2>6, <1>2 DEF Tell, CallTypes, Bound, BoundPCs
  <2>7. CASE FanOutDone(t)
    <3>1. CASE pc[t] = "tellAll"
      BY <2>0, <2>7, <3>1, <1>2
         DEF FanOutDone, AfterFanOut, Goto, CallTypes, Bound, BoundPCs
    <3>2. CASE pc[t] = "tell" /\ op[t] \in {"set", "clear"}
      BY <2>0, <2>7, <3>2, <1>2, <1>a
         DEF FanOutDone, AfterFanOut, Goto, CallTypes, Bound, BoundPCs
    <3> QED BY <2>1, <2>7, <3>1, <3>2 DEF FanOutDone, AfterFanOut, Finish, End
  <2>8. CASE Snap(t)
    BY <2>0, <2>8, <1>2 DEF Snap, Goto, CallTypes, Bound, BoundPCs
  <2>9. CASE LoadExt(t)
    BY <2>0, <2>9, <1>2 DEF LoadExt, Goto, CallTypes, Bound, BoundPCs
  <2>10. CASE Keep(t)
    BY <2>0, <2>10, <1>2 DEF Keep, Goto, CallTypes, Bound, BoundPCs, locals
  <2>11. CASE Drop(t)
    BY <2>0, <2>11, <1>2 DEF Drop, Goto, CallTypes, Bound, BoundPCs, locals
  <2>12. CASE CacheSet(t)
    <3>1. CASE op[t] \in {"chunk", "sub", "subAll"}
      BY <2>0, <2>12, <3>1, <1>2 DEF CacheSet, Goto, CallTypes, Bound, BoundPCs
    <3> QED BY <2>1, <2>12, <3>1 DEF CacheSet, Finish, End
  <2> QED
    BY <1>3, <2>2, <2>3, <2>4, <2>5, <2>6, <2>7, <2>8, <2>9, <2>10, <2>11, <2>12
       DEF Sync, BuildPretty
<1>4. ASSUME NEW t \in Workers, WorkerStep(t) PROVE Bindings'
  <2>0. nobj' = nobj /\ reg' = reg /\ Bound(t) /\ t # Gateway
    BY <1>4, ThreadsAssumption
       DEF Bindings, regVars, WorkerStep, Get, Stats, EnsureBanner, CheckStale, CacheGet,
           WriteKV, SetExternalMusic, ClearExternalMusic, Persist
  <2>1. CASE EnsureBanner(t)
    <3>1. CASE Goto(t, "stale") /\ UNCHANGED <<op, obj>>
      <4>1. OthersKeep(t)
        BY <2>1, <3>1, GotoKeeps DEF EnsureBanner, OthersKeep, Keeps
      <4> QED BY <2>0, <2>1, <3>1, <4>1, <1>2
              DEF EnsureBanner, Goto, CallTypes, Bound, BoundPCs
    <3>2. CASE Spawn(t, obj[t])
      <4>1. PICK f \in Fetchers :
              /\ pc[f] = "idle"
              /\ pc' = [pc EXCEPT ![t] = "stale", ![f] = "fetch"]
              /\ op' = [op EXCEPT ![f] = "fetch"]
              /\ obj' = [obj EXCEPT ![f] = obj[t]]
              /\ own' = own /\ val' = val
        BY <2>1, <3>2 DEF EnsureBanner, Spawn
      <4>2. pc[t] = "ensure" /\ t # f /\ f # Gateway
        BY <2>1, ThreadsAssumption DEF EnsureBanner
      <4>3. Bound(t)'
        BY <2>0, <4>1, <4>2 DEF CallTypes, Bound, BoundPCs
      <4>4. Bound(f)'
        BY <2>0, <4>1, <4>2 DEF CallTypes, Bindings, Bound, BoundPCs
      <4>5. \A u \in Threads : u # t /\ u # f => Bound(u)'
        BY <2>0, <4>1 DEF CallTypes, Bindings, Bound
      <4>6. pc'[Gateway] = pc[Gateway]
        BY <2>0, <4>1, <4>2 DEF CallTypes
      <4> QED BY <2>0, <4>3, <4>4, <4>5, <4>6 DEF Bindings
    <3> QED BY <2>1, <3>1, <3>2 DEF EnsureBanner
  <2>2. CASE ~EnsureBanner(t)
    <3>0. OthersKeep(t)
      BY <1>4, <2>2, WorkerKeeps
    <3>1. CASE Get(t) \/ Stats(t)
      BY <2>0, <3>0, <3>1, <1>2, <1>a
         DEF Get, Stats, Begin, Goto, CallTypes, Bindings, Bound, BoundPCs
    <3>2. CASE CheckStale(t)
      BY <2>0, <3>0, <3>2, <1>2 DEF CheckStale, Goto, CallTypes, Bound, BoundPCs, locals
    <3>3. CASE CacheGet(t)
      <4>1. CASE Finish(t)
        BY <2>0, <3>0, <4>1, <1>2, <1>a, EndBinds DEF Finish
      <4>2. CASE Goto(t, "snap") /\ UNCHANGED locals
        BY <2>0, <3>0, <3>3, <4>2, <1>2
           DEF CacheGet, Goto, CallTypes, Bound, BoundPCs, locals
      <4> QED BY <3>3, <4>1, <4>2 DEF CacheGet
    <3>4. CASE WriteKV(t)
      <4>1. /\ pc'[t] = "persist" /\ op'[t] = "kv" /\ obj'[t] = 0
            /\ own'[t] = own[t] /\ val'[t] = kvs + 1 /\ kvs < MaxKV
        BY <3>4 DEF WriteKV, Begin, Goto, CallTypes
      <4> QED BY <2>0, <3>0, <4>1, <1>2, <1>a, BoundsAssumption
              DEF Bound, BoundPCs, InputTypes
    <3>5. CASE SetExternalMusic(t)
      <4>1. /\ pc'[t] = "persist" /\ op'[t] = "set" /\ obj'[t] = 0
            /\ own'[t] = reg /\ val'[t] = reports + 1 /\ reports < MaxReports
            /\ reg # 0
        BY <3>5 DEF SetExternalMusic, Begin, Goto, CallTypes
      <4> QED BY <2>0, <3>0, <4>1, <1>2, <1>a, BoundsAssumption
              DEF Bindings, Bound, BoundPCs, InputTypes
    <3>6. CASE ClearExternalMusic(t)
      <4>1. /\ pc'[t] = "persist" /\ op'[t] = "clear" /\ obj'[t] = 0
            /\ own'[t] = reg /\ val'[t] = 0 /\ reg # 0
        BY <2>0, <3>6 DEF ClearExternalMusic, Begin, Goto, CallTypes, Bound
      <4> QED BY <2>0, <3>0, <4>1, <1>2, <1>a, BoundsAssumption
              DEF Bindings, Bound, BoundPCs, InputTypes
    <3>7. CASE Persist(t)
      BY <2>0, <3>0, <3>7, <1>2 DEF Persist, Goto, CallTypes, Bound, BoundPCs, locals
    <3> QED BY <1>4, <2>2, <3>1, <3>2, <3>3, <3>4, <3>5, <3>6, <3>7 DEF WorkerStep
  <2> QED BY <2>1, <2>2
<1>5. ASSUME NEW c \in Clients, ClientStep(c) PROVE Bindings'
  <2>0. OthersKeep(c) /\ nobj' = nobj /\ reg' = reg /\ Bound(c) /\ c # Gateway
    BY <1>5, ClientKeeps, ThreadsAssumption
       DEF Bindings, regVars, ClientStep, Subscribe, SubscribeAll, ReadIDs, FindID,
           AddSubscriber, InitState, Unsubscribe, RemoveSubscriber, Close,
           RemoveGlobal, UnsubscribeTracked
  <2>1. CASE End(c, "idle") \/ End(c, "gone")
    BY <2>0, <2>1, <1>2, <1>a, EndBinds
  <2>2. CASE Subscribe(c)
    BY <2>0, <2>2, <1>2, <1>a
       DEF Subscribe, Begin, Goto, CallTypes, Bindings, Bound, BoundPCs
  <2>3. CASE SubscribeAll(c)
    BY <2>0, <2>3, <1>2, <1>a
       DEF SubscribeAll, Begin, Goto, CallTypes, Bound, BoundPCs
  <2>4. CASE ReadIDs(c)
    BY <2>0, <2>4, <1>2 DEF ReadIDs, Goto, CallTypes, Bound, BoundPCs, locals
  <2>5. CASE FindID(c)
    BY <2>0, <2>5, <1>2, <1>a
       DEF FindID, Goto, CallTypes, Bindings, Bound, BoundPCs
  <2>6. CASE AddSubscriber(c)
    BY <2>0, <2>6, <1>2 DEF AddSubscriber, Goto, CallTypes, Bound, BoundPCs, locals
  <2>7. CASE Unsubscribe(c)
    BY <2>0, <2>7, <1>2, <1>a
       DEF Unsubscribe, Begin, Goto, CallTypes, Bindings, Bound, BoundPCs
  <2>8. CASE Close(c)
    BY <2>0, <2>8, <1>2, <1>a DEF Close, Begin, Goto, CallTypes, Bound, BoundPCs
  <2>9. CASE RemoveGlobal(c)
    <3>1. CASE Goto(c, "unfind") /\ UNCHANGED locals
      BY <2>0, <2>9, <3>1, <1>2
         DEF RemoveGlobal, Goto, CallTypes, Bound, BoundPCs, locals
    <3> QED BY <2>1, <2>9, <3>1 DEF RemoveGlobal
  <2>10. CASE UnsubscribeTracked(c)
    <3>1. CASE reg # 0
      BY <2>0, <2>10, <3>1, <1>2, <1>a
         DEF UnsubscribeTracked, Goto, CallTypes, Bindings, Bound, BoundPCs
    <3> QED BY <2>1, <2>10, <3>1 DEF UnsubscribeTracked
  <2> QED
    BY <1>5, <2>1, <2>2, <2>3, <2>4, <2>5, <2>6, <2>7, <2>8, <2>9, <2>10
       DEF ClientStep, InitState, RemoveSubscriber, Finish
<1>6. ASSUME NEW f \in Fetchers, FetchFails(f) \/ Fetched(f) PROVE Bindings'
  <2>0. OthersKeep(f) /\ nobj' = nobj /\ reg' = reg /\ Bound(f) /\ f # Gateway
    BY <1>6, FetcherKeeps, ThreadsAssumption DEF Bindings, regVars, FetchFails, Fetched
  <2>1. CASE FetchFails(f)
    BY <2>0, <2>1, <1>2, <1>a, EndBinds DEF FetchFails, Finish
  <2>2. CASE Fetched(f)
    BY <2>0, <2>2, <1>2 DEF Fetched, Goto, CallTypes, Bound, BoundPCs
  <2> QED BY <1>6, <2>1, <2>2
<1>7. CASE Expire
  BY <1>7 DEF Expire, regVars, locals, Bindings, Bound
<1> QED BY <1>1, <1>3, <1>4, <1>5, <1>6, <1>7 DEF Next

\* The state is well typed and every *Presence a goroutine uses exists: no
\* goroutine of the code dereferences a nil object.
THEOREM TypesAndBindings == Spec => [](TypeOK /\ Bindings)
<1>1. Init => TypeOK /\ Bindings
  <2> SUFFICES ASSUME Init PROVE TypeOK /\ Bindings
    OBVIOUS
  <2>1. ObjectTypes
    BY NoPrettyType, BoundsAssumption DEF Init, ObjectTypes
  <2>2. InputTypes
    <3>1. fetches \in [Objs -> Nat] /\ overlapped \in BOOLEAN
      BY DEF Init
    <3> QED BY <3>1, BoundsAssumption DEF Init, InputTypes
  <2>3. CallTypes
    BY NoPrettyType, IdleIsLabel, BoundsAssumption DEF Init, CallTypes, Ops
  <2>4. SocketTypes
    BY NoPrettyType DEF Init, SocketTypes
  <2>5. Bindings
    BY ThreadKinds, BoundsAssumption DEF Init, Bindings, Bound, BoundPCs
  <2> QED BY <2>1, <2>2, <2>3, <2>4, <2>5 DEF TypeOK
<1>2. TypeOK /\ Bindings /\ [Next]_vars => (TypeOK /\ Bindings)'
  <2>1. CASE Next
    BY <2>1, ObjectTypesStep, InputTypesStep, CallTypesStep, SocketTypesStep,
       BindingsStep DEF TypeOK
  <2>2. CASE UNCHANGED vars
    <3>1. TypeOK => TypeOK'
      BY <2>2 DEF vars, regVars, objVars, redisVars, inputs, locals, sockets, ghosts,
                  TypeOK, ObjectTypes, InputTypes, CallTypes, SocketTypes
    <3>2. Bindings => Bindings'
      BY <2>2 DEF vars, regVars, locals, Bindings, Bound
    <3> QED BY <3>1, <3>2
  <2> QED BY <2>1, <2>2
<1> QED BY <1>1, <1>2, PTL DEF Spec

-----------------------------------------------------------------------------

\* bannerTried records every fetch.
OneFetch ==
  \A o \in Objs :
    /\ fetches[o] <= 1
    /\ (~tried[o] \/ o > nobj) => fetches[o] = 0

LEMMA OneFetchStep ==
  ASSUME TypeOK, Bindings, OneFetch, Next PROVE OneFetch'
<1> USE DEF TypeOK
<1>a. nobj \in Nat
  BY BoundsAssumption DEF ObjectTypes
<1>b. ASSUME UNCHANGED <<tried, fetches>>, nobj' \in Nat, nobj' >= nobj
      PROVE  OneFetch'
  BY <1>a, <1>b DEF OneFetch, Objs
<1>1. CASE GatewayStep
  <2>1. UNCHANGED <<tried, fetches>>
    BY <1>1 DEF GatewayStep, Chunk, LoadObject, Announce, Update, Stop, CacheDelete,
                MemberAdd, vars, objVars, ghosts
  <2>2. nobj' = nobj \/ nobj' = nobj + 1
    BY <1>1 DEF GatewayStep, Chunk, LoadObject, Announce, Update, Stop, CacheDelete,
                MemberAdd, vars, regVars
  <2> QED BY <2>1, <2>2, <1>a, <1>b
<1>2. ASSUME NEW t \in Threads, Sync(t) \/ BuildPretty(t) PROVE OneFetch'
  BY <1>2, <1>a, <1>b
     DEF Sync, Lookup, Merge, Publish, Record, Tell, FanOutDone, BuildPretty, Snap,
         LoadExt, Keep, Drop, CacheSet, regVars, objVars, ghosts
<1>3. ASSUME NEW t \in Workers, WorkerStep(t) PROVE OneFetch'
  <2>1. CASE EnsureBanner(t)
    <3>1. obj[t] \in Objs /\ obj[t] <= nobj /\ nobj' = nobj
      BY <2>1, ObjectAtWork, ThreadKinds
         DEF EnsureBanner, BoundPCs, Bindings, Bound, regVars
    <3>2. CASE tried[obj[t]]
      BY <2>1, <3>1, <3>2 DEF EnsureBanner, Spawn, ObjectTypes, OneFetch
    <3>3. CASE ~tried[obj[t]]
      <4>1. /\ tried' = [tried EXCEPT ![obj[t]] = TRUE]
            /\ fetches' = [fetches EXCEPT ![obj[t]] = @ + 1]
        BY <2>1, <3>3 DEF EnsureBanner, Spawn
      <4>2. fetches[obj[t]] = 0
        BY <3>1, <3>3 DEF OneFetch
      <4> QED BY <3>1, <4>1, <4>2, <1>a DEF ObjectTypes, InputTypes, OneFetch, Objs
    <3> QED BY <3>2, <3>3
  <2>2. CASE ~EnsureBanner(t)
    BY <1>3, <2>2, <1>a, <1>b
       DEF WorkerStep, Get, Stats, CheckStale, CacheGet, WriteKV, SetExternalMusic,
           ClearExternalMusic, Persist, regVars, objVars, ghosts
  <2> QED BY <2>1, <2>2
<1>4. ASSUME NEW c \in Clients, ClientStep(c) PROVE OneFetch'
  BY <1>4, <1>a, <1>b
     DEF ClientStep, Subscribe, SubscribeAll, ReadIDs, FindID, AddSubscriber,
         InitState, Unsubscribe, RemoveSubscriber, Close, RemoveGlobal,
         UnsubscribeTracked, regVars, objVars, ghosts
<1>5. ASSUME NEW f \in Fetchers, FetchFails(f) \/ Fetched(f) PROVE OneFetch'
  BY <1>5, <1>a, <1>b DEF FetchFails, Fetched, regVars, objVars, ghosts
<1>6. CASE Expire
  BY <1>6, <1>a, <1>b DEF Expire, regVars, objVars, ghosts
<1> QED BY <1>1, <1>2, <1>3, <1>4, <1>5, <1>6 DEF Next

\* However many reads of a user's presence run at once, ensureBanner starts one
\* REST fetch for each Presence object.
THEOREM FetchOnce == Spec => []FetchOncePerObject
<1>1. Init => OneFetch
  BY DEF Init, OneFetch
<1>2. (TypeOK /\ Bindings) /\ OneFetch /\ [Next]_vars => OneFetch'
  <2>1. UNCHANGED vars /\ OneFetch => OneFetch'
    BY DEF vars, regVars, objVars, ghosts, OneFetch
  <2> QED BY <2>1, OneFetchStep
<1>3. OneFetch => FetchOncePerObject
  BY DEF OneFetch, FetchOncePerObject
<1> QED BY <1>1, <1>2, <1>3, TypesAndBindings, PTL DEF Spec

-----------------------------------------------------------------------------
(* Subscriptions and the cleanup of a connection. *)

\* A subscriber of the registered object is tracked by its connection, which has
\* not ended; if it is being removed, it is from that object.
Tracking ==
  /\ \A o \in Objs : o > nobj => subs[o] = {}
  /\ reg # 0 => \A c \in subs[reg] :
       /\ c \in tracked /\ pc[c] # "gone"
       /\ pc[c] = "remove" => obj[c] = reg
       /\ pc[c] = "initState" => obj[c] # 0

\* A global subscriber has not come past the point of its cleanup that removes it.
Globals ==
  \A c \in globals :
    /\ pc[c] \notin {"unfind", "gone"}
    /\ pc[c] = "remove" => op[c] = "unsub"

\* Steps that move no goroutine to one of the points above keep both.
LEMMA TrackingFrame ==
  ASSUME TypeOK, Bindings, Tracking, Globals,
         UNCHANGED <<nobj, subs, globals, tracked>>, reg' \in {0, reg},
         \A c \in Clients : \/ pc'[c] = pc[c] /\ obj'[c] = obj[c] /\ op'[c] = op[c]
                            \/ pc'[c] \notin {"gone", "remove", "initState", "unfind"}
  PROVE  Tracking' /\ Globals'
<1>1. globals \subseteq Clients /\ (reg # 0 => reg \in Objs /\ subs[reg] \subseteq Clients)
  BY BoundsAssumption DEF TypeOK, ObjectTypes, SocketTypes, Objs
<1> QED BY <1>1 DEF Tracking, Globals

LEMMA TrackingStep ==
  ASSUME TypeOK, Bindings, Tracking, Globals, Next PROVE Tracking' /\ Globals'
<1> USE ThreadKinds DEF TypeOK
<1>a. /\ nobj \in Nat /\ reg \in Nat /\ (reg # 0 => reg \in Objs)
      /\ globals \subseteq Clients
      /\ \A o \in Objs : subs[o] \subseteq Clients
  BY BoundsAssumption DEF ObjectTypes, SocketTypes, Objs
<1>b. \A c \in Clients : c # Gateway /\ c \notin Workers /\ c \notin Fetchers
  BY ThreadsAssumption
<1>1. CASE GatewayStep
  <2>0. OthersKeep(Gateway)
    BY <1>1, GatewayKeeps
  <2>1. CASE Chunk /\ reg = 0
    <3>1. /\ nobj' = nobj + 1 /\ reg' = nobj + 1 /\ nobj + 1 \in Objs
          /\ UNCHANGED <<subs, globals, tracked>>
      BY <2>1, <1>a, BoundsAssumption DEF Chunk, sockets, Objs
    <3>2. Tracking'
      BY <3>1, <1>a DEF Tracking, Objs
    <3>3. Globals'
      BY <2>0, <3>1, <1>a, <1>b DEF Globals, OthersKeep, Keeps
    <3> QED BY <3>2, <3>3
  <2>2. CASE ~(Chunk /\ reg = 0)
    <3>1. UNCHANGED <<nobj, subs, globals, tracked>> /\ reg' \in {0, reg}
      BY <1>1, <2>2 DEF GatewayStep, Chunk, LoadObject, Announce, Update, Stop,
           CacheDelete, MemberAdd, vars, regVars, objVars, sockets
    <3> QED BY <2>0, <3>1, <1>b, TrackingFrame DEF OthersKeep, Keeps
  <2> QED BY <2>1, <2>2
<1>2. ASSUME NEW t \in Threads, Sync(t) \/ BuildPretty(t)
      PROVE  Tracking' /\ Globals'
  <2>1. OthersKeep(t)
    BY <1>2, SyncKeeps
  <2>2. UNCHANGED <<reg, nobj, subs, globals, tracked>>
    BY <1>2 DEF Sync, Lookup, Merge, Publish, Record, Tell, FanOutDone, BuildPretty,
         Snap, LoadExt, Keep, Drop, CacheSet, regVars, objVars, sockets
  <2>3. pc'[t] \notin {"gone", "remove", "initState", "unfind"}
    BY <1>2 DEF Sync, Lookup, Merge, Publish, Record, Tell, FanOutDone, AfterFanOut,
         BuildPretty, Snap, LoadExt, Keep, Drop, CacheSet, Finish, End, Goto, CallTypes
  <2> QED BY <2>1, <2>2, <2>3, TrackingFrame DEF OthersKeep, Keeps
<1>3. ASSUME NEW t \in Workers, WorkerStep(t) PROVE Tracking' /\ Globals'
  <2>1. UNCHANGED <<reg, nobj, subs, globals, tracked>>
    BY <1>3 DEF WorkerStep, Get, Stats, EnsureBanner, CheckStale, CacheGet, WriteKV,
         SetExternalMusic, ClearExternalMusic, Persist, regVars, objVars, sockets
  <2>2. \A c \in Clients : pc'[c] = pc[c] /\ obj'[c] = obj[c] /\ op'[c] = op[c]
    <3>1. CASE EnsureBanner(t)
      BY <3>1, <1>b DEF EnsureBanner, Spawn, Goto, CallTypes
    <3>2. CASE ~EnsureBanner(t)
      BY <1>3, <3>2, <1>b, WorkerKeeps DEF OthersKeep, Keeps
    <3> QED BY <3>1, <3>2
  <2> QED BY <2>1, <2>2, TrackingFrame
<1>4. ASSUME NEW c \in Clients, ClientStep(c) PROVE Tracking' /\ Globals'
  <2>0. OthersKeep(c) /\ nobj' = nobj /\ reg' = reg
    BY <1>4, ClientKeeps
       DEF ClientStep, Subscribe, SubscribeAll, ReadIDs, FindID, AddSubscriber,
           InitState, Unsubscribe, RemoveSubscriber, Close, RemoveGlobal,
           UnsubscribeTracked, regVars
  <2>f. ASSUME UNCHANGED <<subs, globals, tracked>>,
               pc'[c] \notin {"gone", "remove", "initState", "unfind"}
        PROVE  Tracking' /\ Globals'
    BY <2>0, <2>f, TrackingFrame DEF OthersKeep, Keeps
  <2>1. CASE Subscribe(c)
    <3>1. /\ UNCHANGED <<subs, globals, tracked>> /\ obj'[c] = reg
          /\ pc'[c] = IF reg = 0 THEN "initState" ELSE "snap"
      BY <2>1 DEF Subscribe, Begin, Goto, CallTypes, objVars, sockets
    <3> QED BY <2>0, <3>1, <1>a DEF Tracking, Globals, OthersKeep, Keeps
  <2>2. CASE SubscribeAll(c)
    <3>1. /\ UNCHANGED <<subs, tracked>> /\ globals' = globals \cup {c}
          /\ pc'[c] = "ids"
      BY <2>2 DEF SubscribeAll, Begin, Goto, CallTypes, objVars
    <3> QED BY <2>0, <3>1, <1>a DEF Tracking, Globals, OthersKeep, Keeps
  <2>3. CASE ReadIDs(c)
    <3>1. /\ UNCHANGED <<subs, globals>> /\ tracked \subseteq tracked'
          /\ pc'[c] = IF reg = 0 THEN "initState" ELSE "find"
      BY <2>3 DEF ReadIDs, Goto, CallTypes, objVars
    <3> QED BY <2>0, <3>1, <1>a DEF Tracking, Globals, OthersKeep, Keeps
  <2>4. CASE FindID(c)
    <3>1. /\ UNCHANGED <<subs, globals, tracked>>
          /\ pc'[c] = IF reg = 0 THEN "initState" ELSE "snap"
      BY <2>4 DEF FindID, Goto, CallTypes, objVars, sockets
    <3> QED BY <2>0, <3>1, <1>a DEF Tracking, Globals, OthersKeep, Keeps
  <2>5. CASE AddSubscriber(c)
    <3>1. obj[c] \in Objs /\ obj[c] <= nobj /\ obj[c] # 0
      BY <2>5, ObjectAtWork DEF AddSubscriber, BoundPCs, Bindings, Bound
    <3>2. /\ subs' = [subs EXCEPT ![obj[c]] = @ \cup {c}]
          /\ tracked' = tracked \cup {c} /\ globals' = globals
          /\ pc'[c] = "initState" /\ obj'[c] = obj[c]
      BY <2>5 DEF AddSubscriber, Goto, CallTypes, locals
    <3>3. \A o \in Objs : o # obj[c] => subs'[o] = subs[o]
      BY <3>2 DEF ObjectTypes
    <3>4. subs'[obj[c]] = subs[obj[c]] \cup {c}
      BY <3>1, <3>2 DEF ObjectTypes
    <3>5. Tracking'
      BY <2>0, <3>1, <3>2, <3>3, <3>4, <1>a DEF Tracking, OthersKeep, Keeps, Objs
    <3>6. Globals'
      BY <2>0, <3>2, <1>a DEF Globals, OthersKeep, Keeps
    <3> QED BY <3>5, <3>6
  <2>6. CASE InitState(c)
    BY <2>6, <2>f DEF InitState, Finish, End, Goto, CallTypes, objVars
  <2>7. CASE Unsubscribe(c)
    <3>1. CASE reg = 0
      <4>1. /\ UNCHANGED <<subs, globals, pc, op, obj>>
        BY <2>7, <3>1 DEF Unsubscribe, objVars
      <4> QED BY <2>0, <3>1, <4>1 DEF Tracking, Globals
    <3>2. CASE reg # 0
      <4>1. /\ UNCHANGED <<subs, globals, tracked>>
            /\ pc'[c] = "remove" /\ obj'[c] = reg /\ op'[c] = "unsub"
        BY <2>7, <3>2 DEF Unsubscribe, Begin, Goto, CallTypes, objVars
      <4> QED BY <2>0, <3>2, <4>1, <1>a DEF Tracking, Globals, OthersKeep, Keeps
    <3> QED BY <3>1, <3>2
  <2>8. CASE RemoveSubscriber(c)
    <3>1. obj[c] \in Objs /\ obj[c] <= nobj /\ obj[c] # 0
      BY <2>8, ObjectAtWork DEF RemoveSubscriber, BoundPCs, Bindings, Bound
    <3>2. /\ subs' = [subs EXCEPT ![obj[c]] = @ \ {c}] /\ globals' = globals
          /\ pc'[c] \in {"idle", "gone"}
          /\ pc'[c] = "gone" => op[c] # "unsub"
          /\ tracked \ {c} \subseteq tracked' /\ pc[c] = "remove"
      BY <2>8 DEF RemoveSubscriber, Finish, End, Goto, CallTypes
    <3>3. \A o \in Objs : subs'[o] = IF o = obj[c] THEN subs[o] \ {c} ELSE subs[o]
      BY <3>2 DEF ObjectTypes
    <3>4. Tracking'
      <4>1. \A o \in Objs : o > nobj' => subs'[o] = {}
        BY <2>0, <3>3 DEF Tracking
      <4>2. reg # 0 => c \notin subs'[reg] /\ subs'[reg] \subseteq subs[reg]
        BY <3>2, <3>3, <1>a DEF Tracking
      <4> QED BY <2>0, <3>2, <4>1, <4>2, <1>a DEF Tracking, OthersKeep, Keeps
    <3>5. Globals'
      BY <2>0, <3>2, <1>a DEF Globals, OthersKeep, Keeps
    <3> QED BY <3>4, <3>5
  <2>9. CASE Close(c)
    BY <2>9, <2>f DEF Close, Begin, Goto, CallTypes, objVars
  <2>10. CASE RemoveGlobal(c)
    <3>1. /\ UNCHANGED <<subs, tracked>> /\ globals' = globals \ {c}
          /\ pc'[c] \in {"unfind", "gone"} /\ (pc'[c] = "gone" => c \notin tracked)
      BY <2>10 DEF RemoveGlobal, End, Goto, CallTypes, objVars
    <3> QED BY <2>0, <3>1, <1>a DEF Tracking, Globals, OthersKeep, Keeps
  <2>11. CASE UnsubscribeTracked(c)
    <3>1. /\ UNCHANGED <<subs, globals, tracked>> /\ pc[c] = "unfind"
          /\ \/ reg = 0 /\ pc'[c] = "gone"
             \/ reg # 0 /\ pc'[c] = "remove" /\ obj'[c] = reg
      BY <2>11 DEF UnsubscribeTracked, End, Goto, CallTypes, objVars, sockets
    <3> QED BY <2>0, <3>1, <1>a DEF Tracking, Globals, OthersKeep, Keeps
  <2> QED
    BY <1>4, <2>1, <2>2, <2>3, <2>4, <2>5, <2>6, <2>7, <2>8, <2>9, <2>10, <2>11
       DEF ClientStep
<1>5. ASSUME NEW f \in Fetchers, FetchFails(f) \/ Fetched(f)
      PROVE  Tracking' /\ Globals'
  <2>1. UNCHANGED <<reg, nobj, subs, globals, tracked>>
    BY <1>5 DEF FetchFails, Fetched, regVars, objVars, sockets
  <2> QED BY <1>5, <2>1, <1>b, FetcherKeeps, TrackingFrame DEF OthersKeep, Keeps
<1>6. CASE Expire
  BY <1>6, TrackingFrame DEF Expire, regVars, objVars, sockets, locals
<1> QED BY <1>1, <1>2, <1>3, <1>4, <1>5, <1>6 DEF Next

\* Live subscriptions stay known to the cleanup, in every reachable state.
THEOREM Subscriptions == Spec => [](Tracking /\ Globals)
<1>1. Init => Tracking /\ Globals
  BY DEF Init, Tracking, Globals
<1>2. (TypeOK /\ Bindings) /\ (Tracking /\ Globals) /\ [Next]_vars
        => (Tracking /\ Globals)'
  <2>1. UNCHANGED vars /\ Tracking /\ Globals => (Tracking /\ Globals)'
    BY DEF vars, regVars, objVars, locals, sockets, Tracking, Globals
  <2> QED BY <2>1, TrackingStep
<1> QED BY <1>1, <1>2, TypesAndBindings, PTL DEF Spec

\* No connection is left in a live subscriber set after its cleanup, for any
\* number of connections and any order of stops, restarts and subscriptions.
THEOREM NoLeak == Spec => []NoLeakedSubscriber
<1>1. Tracking /\ Globals => NoLeakedSubscriber
  BY DEF Tracking, Globals, NoLeakedSubscriber
<1> QED BY <1>1, Subscriptions, PTL

-----------------------------------------------------------------------------
(* Freshness. *)

\* LookupOrStart of the registered object, up to the merge that follows it.
Starting ==
  /\ op[Gateway] = "chunk"
  /\ pc[Gateway] \in {"init", "snap", "load", "keep", "drop", "cache",
                      "announce", "tellAll", "lookup", "merge"}

\* Nobody holds a stopped object, and every snapshot in flight is current.
SnapshotsCurrent ==
  \A t \in Threads :
    /\ obj[t] \in {0, reg} /\ own[t] \in {0, reg}
    /\ (pc[t] \in Publishing /\ obj[t] # 0) => Shows(snap[t], reg)

\* The cache is current, or somebody is about to rebuild it.
CachePending(t) ==
  /\ obj[t] = reg
  /\ pc[t] \in {"init", "snap", "load", "keep", "drop", "cache", "publish"}

CacheCurrent == Shows(cache, reg) \/ \E t \in Threads : CachePending(t)

\* A subscriber's view is current, or somebody is about to send it a message.
TellPending(t, c) ==
  obj[t] = reg /\ pc[t] \in {"publish", "record", "tell"} /\ c \in to[t]

InitPending(c) == pc[c] = "initState" /\ obj[c] = reg

ViewCurrent(c) ==
  \/ Shows(view[c], reg)
  \/ \E t \in Threads : TellPending(t, c)
  \/ InitPending(c)

ViewsCurrent == Starting \/ \A c \in subs[reg] \ closed : ViewCurrent(c)

\* The history markers are current, or somebody is about to set them.
RecordPending(t) ==
  obj[t] = reg /\ (pc[t] = "record" \/ (pc[t] = "publish" /\ op[t] # "fetch"))

MarkerCurrent ==
  \/ Starting
  \/ marker[reg] = data[reg].disc
  \/ \E t \in Threads : RecordPending(t)

Isolated ==
  (reg # 0 /\ ~overlapped) =>
    SnapshotsCurrent /\ CacheCurrent /\ ViewsCurrent /\ MarkerCurrent

LEMMA QuietIsFresh ==
  ASSUME TypeOK, Bindings, Isolated PROVE FreshWhenQuiet
<1> SUFFICES ASSUME reg # 0, Quiet, ~overlapped
             PROVE  /\ Shows(cache, reg)
                    /\ \A c \in subs[reg] \ closed : Shows(view[c], reg)
                    /\ marker[reg] = data[reg].disc
  BY DEF FreshWhenQuiet
<1>1. \A t \in Threads : pc[t] \notin Publishing /\ pc[t] # "snap" /\ pc[t] # "init"
  BY DEF Quiet, Bindings, Bound
<1>2. CacheCurrent /\ ViewsCurrent /\ MarkerCurrent /\ ~Starting
  BY DEF Isolated, Quiet, Starting
<1>3. Shows(cache, reg)
  BY <1>1, <1>2 DEF CacheCurrent, CachePending, Publishing
<1>4. ASSUME NEW c \in subs[reg] \ closed PROVE Shows(view[c], reg)
  <2>1. c \in Threads
    BY <1>4, BoundsAssumption, ThreadKinds DEF TypeOK, ObjectTypes, Objs
  <2> QED
    BY <1>1, <1>2, <2>1
       DEF ViewsCurrent, ViewCurrent, TellPending, InitPending, Publishing
<1>5. marker[reg] = data[reg].disc
  BY <1>1, <1>2 DEF MarkerCurrent, RecordPending, Publishing
<1> QED BY <1>3, <1>4, <1>5

\* The fields that Shows compares do not change.
SameData ==
  /\ data'[reg].obj = data[reg].obj /\ data'[reg].disc = data[reg].disc
  /\ data'[reg].kv = data[reg].kv /\ data'[reg].banner = data[reg].banner

\* Steps of t that publish nothing and give up nothing they were about to do.
LEMMA IsolatedFrame ==
  ASSUME TypeOK, Bindings, Isolated, NEW t \in Threads, OthersKeep(t),
         reg' = reg, ~overlapped' => ~overlapped, SameData,
         cache' = cache, view' = view, marker' = marker,
         reg # 0 => subs'[reg] \ closed' \subseteq subs[reg] \ closed,
         (reg # 0 /\ SnapshotsCurrent) =>
           /\ obj'[t] \in {0, reg} /\ own'[t] \in {0, reg}
           /\ (pc'[t] \in Publishing /\ obj'[t] # 0) => Shows(snap'[t], reg),
         CachePending(t) => CachePending(t)',
         \A c \in Clients : TellPending(t, c) => TellPending(t, c)',
         InitPending(t) => InitPending(t)',
         RecordPending(t) => RecordPending(t)',
         t = Gateway /\ Starting => Starting'
  PROVE  Isolated'
<1> SUFFICES ASSUME reg # 0, ~overlapped'
             PROVE  (SnapshotsCurrent /\ CacheCurrent /\ ViewsCurrent /\ MarkerCurrent)'
  BY DEF Isolated
<1>0. /\ SnapshotsCurrent /\ CacheCurrent /\ ViewsCurrent /\ MarkerCurrent
      /\ \A u \in Threads : u # t => Keeps(u)
  BY DEF Isolated, OthersKeep
<1>1. \A p : Shows(p, reg)' <=> Shows(p, reg)
  BY DEF Shows, SameData
<1>2. SnapshotsCurrent'
  BY <1>0 DEF SnapshotsCurrent, Keeps, Shows, SameData
<1>3. \A u \in Threads : CachePending(u) => CachePending(u)'
  BY <1>0 DEF CachePending, Keeps
<1>4. \A u \in Threads, c \in Clients : TellPending(u, c) => TellPending(u, c)'
  BY <1>0 DEF TellPending, Keeps
<1>5. \A u \in Threads : InitPending(u) => InitPending(u)'
  BY <1>0 DEF InitPending, Keeps
<1>6. \A u \in Threads : RecordPending(u) => RecordPending(u)'
  BY <1>0 DEF RecordPending, Keeps
<1>7. Starting => Starting'
  BY <1>0, ThreadKinds DEF Starting, Keeps
<1>8. CacheCurrent'
  BY <1>0, <1>3 DEF CacheCurrent, Shows, SameData
<1>9. ViewsCurrent'
  <2>1. subs[reg] \subseteq Clients
    BY BoundsAssumption DEF TypeOK, ObjectTypes, Objs
  <2>2. ASSUME NEW c \in Clients, ViewCurrent(c) PROVE ViewCurrent(c)'
    <3>1. CASE Shows(view[c], reg)
      BY <3>1 DEF ViewCurrent, Shows, SameData
    <3>2. CASE InitPending(c) \/ \E u \in Threads : TellPending(u, c)
      BY <3>2, <1>4, <1>5, ThreadKinds DEF ViewCurrent
    <3> QED BY <2>2, <3>1, <3>2 DEF ViewCurrent
  <2> QED BY <1>0, <1>7, <2>1, <2>2 DEF ViewsCurrent
<1>10. MarkerCurrent'
  BY <1>0, <1>6, <1>7 DEF MarkerCurrent, SameData
<1> QED BY <1>2, <1>8, <1>9, <1>10

LEMMA GatewayIsolated ==
  ASSUME TypeOK, Bindings, Tracking, Isolated, GatewayStep PROVE Isolated'
<1> USE ThreadKinds DEF TypeOK
<1>a. OthersKeep(Gateway)
  BY GatewayKeeps
<1>b. nobj \in Nat /\ reg \in 0..MaxObj
  BY BoundsAssumption DEF ObjectTypes
<1>1. CASE Chunk /\ reg = 0
  <2> DEFINE n == nobj + 1
  <2>1. /\ n \in Objs /\ reg' = n /\ overlapped' = Overlaps(Gateway, n)
        /\ pc'[Gateway] = "init" /\ op'[Gateway] = "chunk" /\ obj'[Gateway] = n
        /\ own' = own
    BY <1>1, <1>b, BoundsAssumption DEF Chunk, Begin, Goto, CallTypes, Objs
  <2>2. SUFFICES ASSUME ~Overlaps(Gateway, n)
                 PROVE  (SnapshotsCurrent /\ CacheCurrent /\ ViewsCurrent /\ MarkerCurrent)'
    BY <2>1 DEF Isolated
  <2>3. Starting' /\ CachePending(Gateway)'
    BY <2>1 DEF Starting, CachePending
  <2>4. SnapshotsCurrent'
    <3>1. own'[Gateway] \in {0, reg'} /\ obj'[Gateway] = reg' /\ pc'[Gateway] \notin Publishing
      BY <2>1, <2>2 DEF Overlaps, Publishing
    <3>2. ASSUME NEW u \in Threads, u # Gateway
          PROVE  obj'[u] \in {0, reg'} /\ own'[u] \in {0, reg'} /\ pc'[u] \notin Publishing
      BY <1>a, <2>1, <2>2, <3>2 DEF Overlaps, OthersKeep, Keeps
    <3> QED BY <3>1, <3>2 DEF SnapshotsCurrent
  <2> QED BY <2>3, <2>4 DEF CacheCurrent, ViewsCurrent, MarkerCurrent
<1>2. CASE LoadObject
  <2> DEFINE o == obj[Gateway]
  <2>1. /\ o \in Objs /\ o # 0 /\ reg' = reg /\ op' = op
        /\ pc[Gateway] = "init" /\ pc'[Gateway] = "snap"
        /\ obj' = obj /\ own' = own
        /\ overlapped' = IF o = reg THEN Overlaps(Gateway, o) ELSE overlapped
    BY <1>2, ObjectAtWork
       DEF LoadObject, Goto, CallTypes, NoteWrite, BoundPCs, Bindings, Bound,
           regVars, locals
  <2>2. SUFFICES ASSUME reg # 0, ~overlapped'
                 PROVE  (SnapshotsCurrent /\ CacheCurrent /\ ViewsCurrent /\ MarkerCurrent)'
    BY <2>1 DEF Isolated
  <2>3. o = reg /\ ~Overlaps(Gateway, o)
    BY <2>1, <2>2 DEF Isolated, SnapshotsCurrent
  <2>4. Starting' /\ CachePending(Gateway)'
    <3>1. op[Gateway] = "chunk"
      BY <2>1 DEF Bindings, Bound
    <3> QED BY <2>1, <2>3, <3>1 DEF Starting, CachePending
  <2>5. SnapshotsCurrent'
    <3>1. own'[Gateway] \in {0, reg'} /\ obj'[Gateway] = reg' /\ pc'[Gateway] \notin Publishing
      BY <2>1, <2>3 DEF Overlaps, Publishing
    <3>2. ASSUME NEW u \in Threads, u # Gateway
          PROVE  obj'[u] \in {0, reg'} /\ own'[u] \in {0, reg'} /\ pc'[u] \notin Publishing
      BY <1>a, <2>1, <2>3, <3>2 DEF Overlaps, OthersKeep, Keeps
    <3> QED BY <3>1, <3>2 DEF SnapshotsCurrent
  <2> QED BY <2>4, <2>5 DEF CacheCurrent, ViewsCurrent, MarkerCurrent
<1>3. CASE Stop \/ CacheDelete
  BY <1>3 DEF Stop, CacheDelete, Bindings, Isolated, regVars
<1>4. CASE MemberAdd
  BY <1>4 DEF MemberAdd, vars, regVars, objVars, locals, sockets, ghosts,
       Isolated, SnapshotsCurrent, CacheCurrent, ViewsCurrent, MarkerCurrent, Starting,
       CachePending, ViewCurrent, TellPending, InitPending, RecordPending, Shows
<1>5. CASE (Chunk /\ reg # 0) \/ Update
  <2>1. /\ UNCHANGED <<reg, data, subs, closed, cache, view, marker, overlapped, own>>
        /\ pc[Gateway] = "idle" /\ pc'[Gateway] \in {"lookup", "merge"}
        /\ obj'[Gateway] \in {0, reg}
    BY <1>5 DEF Chunk, Update, Begin, Goto, CallTypes, regVars, objVars, sockets, ghosts
  <2> QED
    BY <1>a, <2>1, IsolatedFrame
       DEF SameData, SnapshotsCurrent, CachePending, TellPending, InitPending,
           RecordPending, Starting, Publishing
<1>6. CASE Announce
  <2>1. /\ UNCHANGED <<reg, data, subs, closed, cache, view, marker, overlapped,
                       obj, own, op, snap>>
        /\ pc[Gateway] = "announce" /\ pc'[Gateway] = "tellAll"
    BY <1>6 DEF Announce, Goto, CallTypes, regVars, objVars, sockets, ghosts
  <2> QED
    BY <1>a, <2>1, IsolatedFrame
       DEF SameData, SnapshotsCurrent, CachePending, TellPending, InitPending,
           RecordPending, Starting, Publishing
<1> QED BY <1>1, <1>2, <1>3, <1>4, <1>5, <1>6 DEF GatewayStep

\* The state a write leaves when no other publication is under way: whoever
\* wrote is about to publish, and nobody else holds a snapshot.
LEMMA LoneWrite ==
  ASSUME TypeOK, Bindings, NEW t \in Threads, OthersKeep(t), reg # 0, reg' = reg,
         obj' = obj, own' = own, obj[t] = reg, ~Overlaps(t, reg),
         pc'[t] = "publish", Shows(snap[t], reg)',
         view' = view, cache' = cache
  PROVE  SnapshotsCurrent' /\ CacheCurrent'
<1>1. own'[t] \in {0, reg'}
  BY DEF Overlaps
<1>2. ASSUME NEW u \in Threads, u # t
      PROVE  obj'[u] \in {0, reg'} /\ own'[u] \in {0, reg'} /\ pc'[u] \notin Publishing
  BY <1>2 DEF Overlaps, OthersKeep, Keeps
<1>3. SnapshotsCurrent'
  BY <1>1, <1>2 DEF SnapshotsCurrent
<1>4. CachePending(t)'
  BY DEF CachePending
<1> QED BY <1>3, <1>4 DEF CacheCurrent

LEMMA SyncIsolated ==
  ASSUME TypeOK, Bindings, Tracking, Isolated, NEW t \in Threads, Sync(t)
  PROVE  Isolated'
<1> USE DEF TypeOK
<1>a. OthersKeep(t)
  BY SyncKeeps
<1>b. reg \in 0..MaxObj
  BY DEF ObjectTypes
<1>1. CASE Lookup(t)
  <2>1. /\ UNCHANGED <<reg, data, subs, closed, cache, view, marker, overlapped>>
        /\ pc[t] = "lookup"
    BY <1>1 DEF Lookup, regVars, objVars, sockets, ghosts
  <2>2. CASE reg # 0
    <3>1. pc'[t] = "merge" /\ obj'[t] = reg /\ own' = own /\ op' = op
      BY <1>1, <2>2 DEF Lookup, Goto, CallTypes
    <3> QED
      BY <1>a, <2>1, <3>1, IsolatedFrame
         DEF SameData, SnapshotsCurrent, CachePending, TellPending, InitPending,
             RecordPending, Starting, Publishing
  <2> QED BY <2>1, <2>2 DEF Isolated
<1>2. CASE Merge(t)
  <2> DEFINE o == obj[t]
  <2>1. /\ o \in Objs /\ o # 0 /\ reg' = reg /\ op' = op
        /\ pc[t] = "merge" /\ pc'[t] = "publish" /\ op[t] # "fetch"
        /\ obj' = obj /\ own' = own
        /\ overlapped' = IF o = reg THEN Overlaps(t, o) ELSE overlapped
        /\ UNCHANGED <<subs, closed, cache, view, marker>>
        /\ data'[o] = Merged(t, data[o]) /\ snap'[t] = Shown(Merged(t, data[o]))
        /\ to'[t] = subs[o]
    BY <1>2, ObjectAtWork
       DEF Merge, Goto, CallTypes, ObjectTypes, NoteWrite, BoundPCs, Bindings, Bound,
           regVars, sockets
  <2>2. SUFFICES ASSUME reg # 0, ~overlapped'
                 PROVE  (SnapshotsCurrent /\ CacheCurrent /\ ViewsCurrent /\ MarkerCurrent)'
    BY <2>1 DEF Isolated
  <2>3. o = reg /\ ~Overlaps(t, reg)
    BY <2>1, <2>2 DEF Isolated, SnapshotsCurrent
  <2>4. Shows(snap[t], reg)'
    <3>1. Merged(t, data[o]) \in Pretty
      BY <2>1, MergedType DEF Bindings, ObjectTypes
    <3> QED BY <2>1, <2>3, <3>1 DEF Shows, Shown, Pretty
  <2>5. SnapshotsCurrent' /\ CacheCurrent'
    BY <1>a, <2>1, <2>2, <2>3, <2>4, LoneWrite
  <2>6. ViewsCurrent'
    BY <2>1, <2>3 DEF ViewsCurrent, ViewCurrent, TellPending
  <2>7. MarkerCurrent'
    BY <2>1, <2>3 DEF MarkerCurrent, RecordPending
  <2> QED BY <2>5, <2>6, <2>7
<1>3. CASE Publish(t)
  <2>1. obj[t] \in Objs /\ obj[t] # 0
    BY <1>3, ObjectAtWork DEF Publish, BoundPCs, Bindings, Bound
  <2>2. /\ UNCHANGED <<reg, data, subs, closed, view, marker, overlapped, op, obj,
                       own, to>>
        /\ pc[t] = "publish"
        /\ pc'[t] = IF op[t] = "fetch" THEN "tell" ELSE "record"
        /\ cache' = snap'[t] /\ snap'[t] \in Built(t)
    BY <1>3 DEF Publish, Goto, CallTypes, regVars, objVars, sockets, ghosts
  <2>3. SUFFICES ASSUME reg # 0, ~overlapped
                 PROVE  (SnapshotsCurrent /\ CacheCurrent /\ ViewsCurrent /\ MarkerCurrent)'
    BY <2>2 DEF Isolated
  <2>4. SnapshotsCurrent /\ ViewsCurrent /\ MarkerCurrent /\ obj[t] = reg
        /\ Shows(snap[t], reg)
    BY <2>1, <2>2, <2>3 DEF Isolated, SnapshotsCurrent, Publishing
  <2>5. Shows(snap[t], reg)'
    <3>1. snap[t] \in Pretty
      BY DEF CallTypes
    <3> QED BY <2>2, <2>4, <3>1 DEF Built, Shown, Shows, Pretty
  <2>6. SnapshotsCurrent'
    BY <1>a, <2>2, <2>4, <2>5 DEF SnapshotsCurrent, OthersKeep, Keeps, Shows
  <2>7. CacheCurrent'
    BY <2>2, <2>5 DEF CacheCurrent, Shows
  <2>8. ViewsCurrent'
    <3>1. Starting => Starting'
      BY <1>a, <2>2, ThreadKinds DEF Starting, OthersKeep, Keeps
    <3>2. ASSUME NEW c \in subs[reg] \ closed, ViewCurrent(c) PROVE ViewCurrent(c)'
      <4>1. c \in Threads
        BY <2>1, <2>4, ThreadKinds DEF ObjectTypes
      <4> QED BY <1>a, <2>2, <3>2, <4>1
              DEF ViewCurrent, TellPending, InitPending, OthersKeep, Keeps, Shows
    <3> QED BY <2>2, <2>4, <3>1, <3>2 DEF ViewsCurrent
  <2>9. MarkerCurrent'
    <3>1. Starting => Starting'
      BY <1>a, <2>2, ThreadKinds DEF Starting, OthersKeep, Keeps
    <3>2. \A u \in Threads : RecordPending(u) => RecordPending(u)'
      BY <1>a, <2>2 DEF RecordPending, OthersKeep, Keeps
    <3> QED BY <2>2, <2>4, <3>1, <3>2 DEF MarkerCurrent
  <2> QED BY <2>6, <2>7, <2>8, <2>9
<1>4. CASE Record(t)
  <2>1. obj[t] \in Objs /\ obj[t] # 0
    BY <1>4, ObjectAtWork DEF Record, BoundPCs, Bindings, Bound
  <2>2. /\ UNCHANGED <<reg, data, subs, closed, cache, view, overlapped, op, obj,
                       own, snap, to>>
        /\ pc[t] = "record" /\ pc'[t] = "tell"
        /\ marker'[obj[t]] = snap[t].disc
    BY <1>4, <2>1 DEF Record, Goto, CallTypes, ObjectTypes, regVars, sockets, ghosts, locals
  <2>3. SUFFICES ASSUME reg # 0, ~overlapped
                 PROVE  (SnapshotsCurrent /\ CacheCurrent /\ ViewsCurrent /\ MarkerCurrent)'
    BY <2>2 DEF Isolated
  <2>4. SnapshotsCurrent /\ ViewsCurrent /\ CacheCurrent /\ obj[t] = reg
        /\ Shows(snap[t], reg)
    BY <2>1, <2>2, <2>3 DEF Isolated, SnapshotsCurrent, Publishing
  <2>5. MarkerCurrent'
    BY <2>2, <2>4 DEF MarkerCurrent, Shows
  <2>6. SnapshotsCurrent'
    BY <1>a, <2>2, <2>4 DEF SnapshotsCurrent, OthersKeep, Keeps, Shows, Publishing
  <2>7. CacheCurrent'
    BY <1>a, <2>2, <2>4 DEF CacheCurrent, CachePending, OthersKeep, Keeps, Shows
  <2>8. ViewsCurrent'
    <3>1. Starting => Starting'
      BY <1>a, <2>2, ThreadKinds DEF Starting, OthersKeep, Keeps
    <3>2. ASSUME NEW c \in subs[reg] \ closed, ViewCurrent(c) PROVE ViewCurrent(c)'
      <4>1. c \in Threads
        BY <2>1, <2>4, ThreadKinds DEF ObjectTypes
      <4> QED BY <1>a, <2>2, <3>2, <4>1
              DEF ViewCurrent, TellPending, InitPending, OthersKeep, Keeps, Shows
    <3> QED BY <2>2, <2>4, <3>1, <3>2 DEF ViewsCurrent
  <2> QED BY <2>5, <2>6, <2>7, <2>8
<1>5. CASE Tell(t)
  <2>1. obj[t] \in Objs /\ obj[t] # 0
    BY <1>5, ObjectAtWork DEF Tell, BoundPCs, Bindings, Bound
  <2>2. PICK c \in to[t] : SendEvent(c, snap[t]) /\ to' = [to EXCEPT ![t] = @ \ {c}]
    BY <1>5 DEF Tell
  <2>3. /\ UNCHANGED <<reg, data, subs, closed, cache, marker, overlapped, pc, op,
                       obj, own, snap>>
        /\ pc[t] \in {"tell", "tellAll"} /\ to'[t] = to[t] \ {c}
        /\ c \in Clients
    BY <1>5, <2>2 DEF Tell, CallTypes, regVars, objVars, ghosts
  <2>4. SUFFICES ASSUME reg # 0, ~overlapped
                 PROVE  (SnapshotsCurrent /\ CacheCurrent /\ ViewsCurrent /\ MarkerCurrent)'
    BY <2>3 DEF Isolated
  <2>5. SnapshotsCurrent /\ ViewsCurrent /\ CacheCurrent /\ MarkerCurrent
        /\ obj[t] = reg /\ Shows(snap[t], reg)
    BY <2>1, <2>3, <2>4 DEF Isolated, SnapshotsCurrent, Publishing
  <2>6. SnapshotsCurrent' /\ CacheCurrent' /\ MarkerCurrent' /\ (Starting => Starting')
    BY <2>3, <2>5 DEF SnapshotsCurrent, CacheCurrent, CachePending, MarkerCurrent,
         RecordPending, Starting, Shows
  <2>7. ASSUME NEW d \in subs[reg] \ closed, ViewCurrent(d) PROVE ViewCurrent(d)'
    <3>1. d \in Clients
      BY <2>1, <2>5 DEF ObjectTypes
    <3>2. CASE d = c
      BY <2>2, <2>3, <2>5, <2>7, <3>2 DEF SendEvent, SocketTypes, ViewCurrent, Shows
    <3>3. CASE d # c
      <4>1. view'[d] = view[d]
        BY <2>2, <3>1, <3>3 DEF SendEvent, SocketTypes
      <4>2. \A u \in Threads : TellPending(u, d) => TellPending(u, d)'
        BY <1>a, <2>3, <3>3 DEF TellPending, OthersKeep, Keeps
      <4> QED BY <2>3, <2>7, <4>1, <4>2 DEF ViewCurrent, InitPending, Shows
    <3> QED BY <3>2, <3>3
  <2>8. ViewsCurrent'
    BY <2>3, <2>5, <2>6, <2>7 DEF ViewsCurrent
  <2> QED BY <2>6, <2>8
<1>6. CASE FanOutDone(t)
  <2>1. /\ UNCHANGED <<reg, data, subs, closed, cache, view, marker, overlapped>>
        /\ pc[t] \in {"tell", "tellAll"} /\ to[t] = {}
        /\ obj'[t] \in {0, obj[t], own[t]} /\ own'[t] \in {0, own[t]}
        /\ pc'[t] \notin Publishing
        /\ pc[t] = "tellAll" => pc'[t] = "lookup" /\ op'[t] = op[t]
    BY <1>6 DEF FanOutDone, AfterFanOut, Finish, End, Goto, CallTypes, Publishing,
         regVars, objVars, sockets, ghosts
  <2> QED
    BY <1>a, <2>1, IsolatedFrame
       DEF SameData, SnapshotsCurrent, CachePending, TellPending, InitPending,
           RecordPending, Starting
<1> QED BY <1>1, <1>2, <1>3, <1>4, <1>5, <1>6 DEF Sync

LEMMA BuildIsolated ==
  ASSUME TypeOK, Bindings, Tracking, Isolated, NEW t \in Threads, BuildPretty(t)
  PROVE  Isolated'
<1> USE DEF TypeOK
<1>a. OthersKeep(t)
  BY SyncKeeps
<1>b. obj[t] \in Objs /\ obj[t] # 0
  BY ObjectAtWork DEF BuildPretty, Snap, LoadExt, Keep, Drop, CacheSet, BoundPCs,
       Bindings, Bound
<1>c. snap[t] \in Pretty /\ data[obj[t]] \in Pretty
  BY <1>b DEF CallTypes, ObjectTypes
<1>1. CASE Snap(t)
  <2>1. /\ UNCHANGED <<reg, data, subs, closed, cache, view, marker, overlapped, op,
                       obj, own>>
        /\ pc[t] = "snap" /\ pc'[t] \in {"load", "cache"}
        /\ snap'[t] = Shown(data[obj[t]])
    BY <1>1 DEF Snap, Goto, CallTypes, regVars, objVars, sockets, ghosts
  <2>2. Shows(snap'[t], obj[t])
    BY <1>c, <2>1 DEF Shown, Shows, Pretty
  <2> QED
    BY <1>a, <1>b, <2>1, <2>2, IsolatedFrame
       DEF SameData, SnapshotsCurrent, CachePending, TellPending, InitPending,
           RecordPending, Starting
<1>2. CASE LoadExt(t)
  <2>1. /\ UNCHANGED <<reg, data, subs, closed, cache, view, marker, overlapped, op,
                       obj, own>>
        /\ pc[t] = "load" /\ pc'[t] \in {"drop", "keep"}
        /\ \E r \in Reads(rext) : snap'[t] = [snap[t] EXCEPT !.ext = LiveOnly(r)]
    BY <1>2 DEF LoadExt, Goto, CallTypes, regVars, objVars, sockets, ghosts
  <2>2. Shows(snap[t], obj[t]) => Shows(snap'[t], obj[t])
    BY <1>c, <2>1 DEF Shows, Pretty
  <2> QED
    BY <1>a, <1>b, <2>1, <2>2, IsolatedFrame
       DEF SameData, SnapshotsCurrent, CachePending, TellPending, InitPending,
           RecordPending, Starting, Publishing
<1>3. CASE Keep(t) \/ Drop(t)
  <2>1. /\ UNCHANGED <<reg, subs, closed, cache, view, marker, op, obj, own, snap>>
        /\ pc[t] \in {"keep", "drop"} /\ pc'[t] = "cache"
    BY <1>3 DEF Keep, Drop, Goto, CallTypes, regVars, objVars, sockets, locals
  <2>a. ~overlapped' => ~overlapped
    <3>1. overlapped' = overlapped \/ NoteMinorWrite(t, obj[t])
      BY <1>3 DEF Keep, Drop
    <3> QED BY <3>1 DEF NoteMinorWrite
  <2>2. \A o \in Objs :
          /\ data'[o].obj = data[o].obj /\ data'[o].disc = data[o].disc
          /\ data'[o].kv = data[o].kv /\ data'[o].banner = data[o].banner
    <3>1. CASE data' = data
      BY <3>1
    <3>2. ASSUME NEW r, data' = [data EXCEPT ![obj[t]] = [@ EXCEPT !.ext = r]]
          PROVE  \A o \in Objs :
                   /\ data'[o].obj = data[o].obj /\ data'[o].disc = data[o].disc
                   /\ data'[o].kv = data[o].kv /\ data'[o].banner = data[o].banner
      <4>1. \A o \in Objs : o # obj[t] => data'[o] = data[o]
        BY <3>2 DEF ObjectTypes
      <4>2. data'[obj[t]] = [data[obj[t]] EXCEPT !.ext = r]
        BY <1>b, <3>2 DEF ObjectTypes
      <4> QED BY <1>c, <4>1, <4>2 DEF Pretty
    <3> QED BY <1>3, <3>1, <3>2 DEF Keep, Drop
  <2>3. CASE reg = 0
    BY <2>1, <2>3 DEF Isolated
  <2>4. CASE reg # 0
    <3>1. SameData
      BY <2>2, <2>4, BoundsAssumption DEF ObjectTypes, Objs, SameData
    <3> QED
      BY <1>a, <1>b, <2>1, <2>a, <3>1, IsolatedFrame
         DEF SnapshotsCurrent, CachePending, TellPending, InitPending,
             RecordPending, Starting, Publishing
  <2> QED BY <2>3, <2>4
<1>4. CASE CacheSet(t)
  <2>1. PICK p \in Built(t) : cache' = p /\ (snap'[t] = p \/ pc'[t] = "idle")
    BY <1>4 DEF CacheSet, Finish, End, Goto, CallTypes
  <2>2. /\ UNCHANGED <<reg, data, subs, closed, view, marker, overlapped>>
        /\ pc[t] = "cache" /\ obj'[t] \in {0, obj[t]} /\ own'[t] \in {0, own[t]}
        /\ pc'[t] \in {"announce", "add", "idle"}
        /\ op[t] = "chunk" => pc'[t] = "announce" /\ op'[t] = "chunk"
    BY <1>4 DEF CacheSet, Finish, End, Goto, CallTypes, regVars, objVars, sockets, ghosts
  <2>3. SUFFICES ASSUME reg # 0, ~overlapped
                 PROVE  (SnapshotsCurrent /\ CacheCurrent /\ ViewsCurrent /\ MarkerCurrent)'
    BY <2>2 DEF Isolated
  <2>4. SnapshotsCurrent /\ ViewsCurrent /\ MarkerCurrent /\ obj[t] = reg
        /\ Shows(snap[t], reg)
    BY <1>b, <2>2, <2>3 DEF Isolated, SnapshotsCurrent, Publishing
  <2>5. Shows(p, reg)
    BY <1>c, <2>1, <2>4 DEF Built, Shown, Shows, Pretty
  <2>6. CacheCurrent'
    BY <2>1, <2>2, <2>5 DEF CacheCurrent, Shows
  <2>7. SnapshotsCurrent'
    <3>1. /\ obj'[t] \in {0, reg} /\ own'[t] \in {0, reg}
          /\ pc'[t] \in Publishing => Shows(snap'[t], reg)
      BY <2>1, <2>2, <2>4, <2>5 DEF SnapshotsCurrent, Publishing
    <3> QED BY <1>a, <2>2, <2>4, <3>1 DEF SnapshotsCurrent, OthersKeep, Keeps, Shows
  <2>8. Starting => Starting'
    BY <1>a, <2>2, ThreadKinds DEF Starting, OthersKeep, Keeps
  <2>9. ASSUME NEW c \in subs[reg] \ closed, ViewCurrent(c) PROVE ViewCurrent(c)'
    <3>1. c \in Threads
      BY <1>b, <2>4, ThreadKinds DEF ObjectTypes
    <3> QED BY <1>a, <2>2, <2>9, <3>1
            DEF ViewCurrent, TellPending, InitPending, OthersKeep, Keeps, Shows
  <2>10. ViewsCurrent'
    BY <2>2, <2>4, <2>8, <2>9 DEF ViewsCurrent
  <2>11. MarkerCurrent'
    <3>1. \A u \in Threads : RecordPending(u) => RecordPending(u)'
      BY <1>a, <2>2 DEF RecordPending, OthersKeep, Keeps
    <3> QED BY <2>2, <2>4, <2>8, <3>1 DEF MarkerCurrent
  <2> QED BY <2>6, <2>7, <2>10, <2>11
<1> QED BY <1>1, <1>2, <1>3, <1>4 DEF BuildPretty

LEMMA WorkerIsolated ==
  ASSUME TypeOK, Bindings, Tracking, Isolated, NEW t \in Workers, WorkerStep(t)
  PROVE  Isolated'
<1> USE ThreadKinds DEF TypeOK
<1>1. CASE EnsureBanner(t)
  <2>1. /\ UNCHANGED <<reg, data, subs, closed, cache, view, marker, overlapped, own,
                       snap, to>>
        /\ pc[t] = "ensure"
    BY <1>1 DEF EnsureBanner, regVars, sockets
  <2>2. CASE Goto(t, "stale") /\ UNCHANGED <<op, obj>>
    <3>1. OthersKeep(t)
      BY <1>1, <2>2, GotoKeeps DEF EnsureBanner, OthersKeep, Keeps
    <3>2. pc'[t] = "stale"
      BY <2>2 DEF Goto, CallTypes
    <3>3. t # Gateway
      BY ThreadsAssumption
    <3> QED
      BY <2>1, <2>2, <3>1, <3>2, <3>3, IsolatedFrame
         DEF SameData, SnapshotsCurrent, CachePending, TellPending, InitPending,
             RecordPending, Publishing
  <2>3. CASE Spawn(t, obj[t])
    <3>1. PICK f \in Fetchers :
            /\ pc[f] = "idle"
            /\ pc' = [pc EXCEPT ![t] = "stale", ![f] = "fetch"]
            /\ op' = [op EXCEPT ![f] = "fetch"]
            /\ obj' = [obj EXCEPT ![f] = obj[t]]
      BY <2>3 DEF Spawn
    <3>2. t # f /\ t # Gateway /\ f # Gateway /\ f \notin Clients /\ t \notin Clients
      BY ThreadsAssumption
    <3>3. /\ pc'[t] = "stale" /\ pc'[f] = "fetch" /\ obj'[f] = obj[t] /\ obj'[t] = obj[t]
          /\ \A u \in Threads : u # t /\ u # f =>
               pc'[u] = pc[u] /\ op'[u] = op[u] /\ obj'[u] = obj[u]
      BY <3>1, <3>2 DEF CallTypes
    <3>4. SUFFICES ASSUME reg # 0, ~overlapped
                   PROVE  (SnapshotsCurrent /\ CacheCurrent /\ ViewsCurrent /\ MarkerCurrent)'
      BY <2>1 DEF Isolated
    <3>5. SnapshotsCurrent /\ CacheCurrent /\ ViewsCurrent /\ MarkerCurrent
      BY <3>4 DEF Isolated
    <3>6. SnapshotsCurrent'
      BY <2>1, <3>3, <3>5 DEF SnapshotsCurrent, Shows, Publishing
    <3>7. CacheCurrent'
      <4>1. \A u \in Threads : CachePending(u) => CachePending(u)'
        BY <2>1, <3>1, <3>3 DEF CachePending
      <4> QED BY <2>1, <3>5, <4>1 DEF CacheCurrent, Shows
    <3>8. Starting => Starting'
      BY <3>2, <3>3 DEF Starting
    <3>9. MarkerCurrent'
      <4>1. \A u \in Threads : RecordPending(u) => RecordPending(u)'
        BY <2>1, <3>1, <3>3 DEF RecordPending
      <4> QED BY <2>1, <3>5, <3>8, <4>1 DEF MarkerCurrent
    <3>10. ViewsCurrent'
      <4>1. ASSUME NEW c \in subs[reg] \ closed, ViewCurrent(c) PROVE ViewCurrent(c)'
        <5>1. c \in Clients
          BY <3>4, BoundsAssumption DEF ObjectTypes, Objs
        <5>2. \A u \in Threads : TellPending(u, c) => TellPending(u, c)'
          BY <2>1, <3>1, <3>3 DEF TellPending
        <5>3. InitPending(c) => InitPending(c)'
          BY <2>1, <3>2, <3>3, <5>1 DEF InitPending
        <5> QED BY <2>1, <4>1, <5>2, <5>3 DEF ViewCurrent, Shows
      <4> QED BY <2>1, <3>5, <3>8, <4>1 DEF ViewsCurrent
    <3> QED BY <3>6, <3>7, <3>9, <3>10
  <2> QED BY <1>1, <2>2, <2>3 DEF EnsureBanner
<1>2. CASE ~EnsureBanner(t)
  <2>1. OthersKeep(t) /\ t # Gateway
    BY <1>2, WorkerKeeps, ThreadsAssumption
  <2>2. /\ UNCHANGED <<reg, data, subs, closed, cache, view, marker, overlapped>>
        /\ pc[t] \in {"idle", "stale", "hit", "persist"}
        /\ pc'[t] \notin Publishing
        /\ obj'[t] \in {0, reg, obj[t]} /\ own'[t] \in {0, reg, own[t]}
    BY <1>2
       DEF WorkerStep, Get, Stats, CheckStale, CacheGet, WriteKV, SetExternalMusic,
           ClearExternalMusic, Persist, Begin, Finish, End, Goto, CallTypes, Publishing,
           regVars, objVars, sockets, ghosts, locals
  <2> QED
    BY <2>1, <2>2, IsolatedFrame
       DEF SameData, SnapshotsCurrent, CachePending, TellPending, InitPending,
           RecordPending
<1> QED BY <1>1, <1>2

LEMMA ClientIsolated ==
  ASSUME TypeOK, Bindings, Tracking, Isolated, NEW c \in Clients, ClientStep(c)
  PROVE  Isolated'
<1> USE ThreadKinds DEF TypeOK
<1>a. OthersKeep(c) /\ c # Gateway
  BY ClientKeeps, ThreadsAssumption
<1>b. reg # 0 => reg \in Objs
  BY BoundsAssumption DEF ObjectTypes, Objs
<1>1. CASE AddSubscriber(c)
  <2>1. obj[c] \in Objs /\ obj[c] # 0
    BY <1>1, ObjectAtWork DEF AddSubscriber, BoundPCs, Bindings, Bound
  <2>2. /\ UNCHANGED <<reg, data, closed, cache, view, marker, overlapped, op, obj,
                       own, snap, to>>
        /\ pc[c] = "add" /\ pc'[c] = "initState"
        /\ subs'[obj[c]] = subs[obj[c]] \cup {c}
    BY <1>1, <2>1 DEF AddSubscriber, Goto, CallTypes, ObjectTypes, regVars, ghosts,
         locals
  <2>3. SUFFICES ASSUME reg # 0, ~overlapped
                 PROVE  (SnapshotsCurrent /\ CacheCurrent /\ ViewsCurrent /\ MarkerCurrent)'
    BY <2>2 DEF Isolated
  <2>4. SnapshotsCurrent /\ CacheCurrent /\ ViewsCurrent /\ MarkerCurrent
        /\ obj[c] = reg
    BY <2>1, <2>2, <2>3 DEF Isolated, SnapshotsCurrent
  <2>5. SnapshotsCurrent'
    BY <1>a, <2>2, <2>4 DEF SnapshotsCurrent, OthersKeep, Keeps, Shows, Publishing
  <2>6. CacheCurrent'
    <3>1. \A u \in Threads : CachePending(u) => CachePending(u)'
      BY <1>a, <2>2 DEF CachePending, OthersKeep, Keeps
    <3> QED BY <2>2, <2>4, <3>1 DEF CacheCurrent, Shows
  <2>7. Starting => Starting'
    BY <1>a, <2>2 DEF Starting, OthersKeep, Keeps
  <2>8. MarkerCurrent'
    <3>1. \A u \in Threads : RecordPending(u) => RecordPending(u)'
      BY <1>a, <2>2 DEF RecordPending, OthersKeep, Keeps
    <3> QED BY <2>2, <2>4, <2>7, <3>1 DEF MarkerCurrent
  <2>9. ViewsCurrent'
    <3>1. InitPending(c)'
      BY <2>2, <2>4 DEF InitPending
    <3>2. ASSUME NEW d \in subs[reg] \ closed, d # c, ViewCurrent(d) PROVE ViewCurrent(d)'
      <4>1. d \in Threads
        BY <2>1, <2>4 DEF ObjectTypes
      <4> QED BY <1>a, <2>2, <3>2, <4>1
              DEF ViewCurrent, TellPending, InitPending, OthersKeep, Keeps, Shows
    <3> QED BY <2>2, <2>4, <2>7, <3>1, <3>2 DEF ViewsCurrent, ViewCurrent
  <2> QED BY <2>5, <2>6, <2>8, <2>9
<1>2. CASE InitState(c)
  <2>1. /\ UNCHANGED <<reg, data, subs, closed, cache, marker, overlapped>>
        /\ pc[c] = "initState" /\ pc'[c] = "idle" /\ obj'[c] = 0 /\ own'[c] = 0
        /\ SendEvent(c, snap[c])
    BY <1>2 DEF InitState, Finish, End, Goto, CallTypes, regVars, objVars, ghosts
  <2>2. SUFFICES ASSUME reg # 0, ~overlapped
                 PROVE  (SnapshotsCurrent /\ CacheCurrent /\ ViewsCurrent /\ MarkerCurrent)'
    BY <2>1 DEF Isolated
  <2>3. SnapshotsCurrent /\ CacheCurrent /\ ViewsCurrent /\ MarkerCurrent
    BY <2>2 DEF Isolated
  <2>4. SnapshotsCurrent'
    BY <1>a, <2>1, <2>3 DEF SnapshotsCurrent, OthersKeep, Keeps, Shows, Publishing
  <2>5. CacheCurrent'
    <3>1. \A u \in Threads : CachePending(u) => CachePending(u)'
      BY <1>a, <2>1 DEF CachePending, OthersKeep, Keeps
    <3> QED BY <2>1, <2>3, <3>1 DEF CacheCurrent, Shows
  <2>6. Starting => Starting'
    BY <1>a DEF Starting, OthersKeep, Keeps
  <2>7. MarkerCurrent'
    <3>1. \A u \in Threads : RecordPending(u) => RecordPending(u)'
      BY <1>a, <2>1 DEF RecordPending, OthersKeep, Keeps
    <3> QED BY <2>1, <2>3, <2>6, <3>1 DEF MarkerCurrent
  <2>8. ASSUME NEW d \in subs[reg] \ closed, ViewCurrent(d) PROVE ViewCurrent(d)'
    <3>1. d \in Clients
      BY <1>b, <2>2 DEF ObjectTypes
    <3>2. CASE d = c
      <4>1. obj[c] # 0
        BY <2>1, <2>2, <2>8, <3>2 DEF Tracking
      <4>2. Shows(snap[c], reg)
        BY <2>1, <2>3, <4>1 DEF SnapshotsCurrent, Publishing
      <4>3. view'[c] = snap[c]
        BY <2>1, <2>8, <3>2 DEF SendEvent, SocketTypes
      <4> QED BY <2>1, <3>2, <4>2, <4>3 DEF ViewCurrent, Shows
    <3>3. CASE d # c
      <4>1. view'[d] = view[d]
        BY <2>1, <3>1, <3>3 DEF SendEvent, SocketTypes
      <4>2. \A u \in Threads : TellPending(u, d) => TellPending(u, d)'
        BY <1>a, <2>1 DEF TellPending, OthersKeep, Keeps
      <4>3. InitPending(d) => InitPending(d)'
        BY <1>a, <2>1, <3>1, <3>3 DEF InitPending, OthersKeep, Keeps
      <4> QED BY <2>1, <2>8, <4>1, <4>2, <4>3 DEF ViewCurrent, Shows
    <3> QED BY <3>2, <3>3
  <2>9. ViewsCurrent'
    BY <2>1, <2>3, <2>6, <2>8 DEF ViewsCurrent
  <2> QED BY <2>4, <2>5, <2>7, <2>9
<1>3. CASE ~AddSubscriber(c) /\ ~InitState(c)
  <2>1. /\ UNCHANGED <<reg, data, cache, view, marker, overlapped>>
        /\ closed \subseteq closed'
        /\ pc[c] \in {"idle", "ids", "find", "remove", "unglobal", "unfind"}
        /\ obj'[c] \in {0, reg, obj[c]} /\ own'[c] \in {0, own[c]}
        /\ pc'[c] \in Publishing => reg = 0
    BY <1>3
       DEF ClientStep, Subscribe, SubscribeAll, ReadIDs, FindID, Unsubscribe,
           RemoveSubscriber, Close, RemoveGlobal, UnsubscribeTracked, Begin, Finish,
           End, Goto, CallTypes, Publishing, regVars, objVars, sockets, ghosts, locals
  <2>2. reg # 0 => subs'[reg] \subseteq subs[reg]
    <3>1. CASE RemoveSubscriber(c)
      BY <1>b, <3>1 DEF RemoveSubscriber, ObjectTypes
    <3>2. CASE ~RemoveSubscriber(c)
      BY <1>3, <3>2
         DEF ClientStep, Subscribe, SubscribeAll, ReadIDs, FindID, Unsubscribe, Close,
             RemoveGlobal, UnsubscribeTracked, objVars
    <3> QED BY <3>1, <3>2
  <2>3. reg # 0 => subs'[reg] \ closed' \subseteq subs[reg] \ closed
    BY <2>1, <2>2
  <2> QED
    BY <1>a, <2>1, <2>3, IsolatedFrame
       DEF SameData, SnapshotsCurrent, CachePending, TellPending, InitPending,
           RecordPending
<1> QED BY <1>1, <1>2, <1>3

LEMMA FetcherIsolated ==
  ASSUME TypeOK, Bindings, Tracking, Isolated, NEW f \in Fetchers,
         FetchFails(f) \/ Fetched(f)
  PROVE  Isolated'
<1> USE ThreadKinds DEF TypeOK
<1>a. OthersKeep(f) /\ f # Gateway
  BY FetcherKeeps, ThreadsAssumption
<1>1. CASE FetchFails(f)
  <2>1. /\ UNCHANGED <<reg, data, subs, closed, cache, view, marker, overlapped>>
        /\ pc[f] = "fetch" /\ pc'[f] = "idle" /\ obj'[f] = 0 /\ own'[f] = 0
    BY <1>1 DEF FetchFails, Finish, End, Goto, CallTypes, regVars, objVars, sockets,
         ghosts
  <2> QED
    BY <1>a, <2>1, IsolatedFrame
       DEF SameData, SnapshotsCurrent, CachePending, TellPending, InitPending,
           RecordPending, Publishing
<1>2. CASE Fetched(f)
  <2> DEFINE o == obj[f]
  <2>1. o \in Objs /\ o # 0
    BY <1>2, ObjectAtWork DEF Fetched, BoundPCs, Bindings, Bound
  <2>2. /\ UNCHANGED <<reg, subs, closed, cache, view, marker, op, obj, own>>
        /\ pc[f] = "fetch" /\ pc'[f] = "publish"
        /\ overlapped' = (overlapped \/ (o = reg /\ Overlaps(f, o)))
        /\ data'[o] = [data[o] EXCEPT !.banner = TRUE]
        /\ snap'[f] = Shown([data[o] EXCEPT !.banner = TRUE])
        /\ to'[f] = subs[o]
    BY <1>2, <2>1 DEF Fetched, Goto, CallTypes, ObjectTypes, NoteMinorWrite, regVars,
         sockets
  <2>3. SUFFICES ASSUME reg # 0, ~overlapped'
                 PROVE  (SnapshotsCurrent /\ CacheCurrent /\ ViewsCurrent /\ MarkerCurrent)'
    BY <2>2 DEF Isolated
  <2>4. o = reg /\ ~Overlaps(f, reg) /\ MarkerCurrent
    BY <2>1, <2>2, <2>3 DEF Isolated, SnapshotsCurrent
  <2>5. data[o] \in Pretty
    BY <2>1 DEF ObjectTypes
  <2>6. Shows(snap[f], reg)'
    BY <2>2, <2>4, <2>5 DEF Shows, Shown, Pretty
  <2>7. SnapshotsCurrent' /\ CacheCurrent'
    BY <1>a, <2>2, <2>3, <2>4, <2>6, LoneWrite
  <2>8. ViewsCurrent'
    BY <2>2, <2>4 DEF ViewsCurrent, ViewCurrent, TellPending
  <2>9. MarkerCurrent'
    <3>1. \A u \in Threads : ~RecordPending(u)
      BY <2>2, <2>4 DEF Overlaps, RecordPending, Publishing
    <3>2. Starting => Starting'
      BY <1>a DEF Starting, OthersKeep, Keeps
    <3>3. data'[reg].disc = data[reg].disc
      BY <2>2, <2>4, <2>5 DEF Pretty
    <3> QED BY <2>2, <2>4, <3>1, <3>2, <3>3 DEF MarkerCurrent
  <2> QED BY <2>7, <2>8, <2>9
<1> QED BY <1>1, <1>2

LEMMA IsolatedUnchanged ==
  ASSUME Isolated,
         UNCHANGED <<reg, data, marker, subs, cache, pc, op, obj, own, snap, to, view,
                     closed, overlapped>>
  PROVE  Isolated'
BY DEF Isolated, SnapshotsCurrent, CacheCurrent, ViewsCurrent, MarkerCurrent, Starting,
     CachePending, ViewCurrent, TellPending, InitPending, RecordPending, Shows

\* Staleness has one cause, for any number of goroutines and any bounds: unless
\* the last write of the presence overlapped another publication, whenever
\* nothing is under way the cache, the subscribers and the markers are current.
THEOREM Freshness == Spec => []FreshWhenQuiet
<1>1. Init => Isolated
  BY DEF Init, Isolated
<1>2. (TypeOK /\ Bindings) /\ (Tracking /\ Globals) /\ Isolated /\ [Next]_vars => Isolated'
  <2> SUFFICES ASSUME TypeOK, Bindings, Tracking, Isolated, [Next]_vars PROVE Isolated'
    OBVIOUS
  <2>1. CASE Expire \/ UNCHANGED vars
    BY <2>1, IsolatedUnchanged
       DEF Expire, vars, regVars, objVars, locals, sockets, ghosts
  <2> QED
    BY <2>1, GatewayIsolated, SyncIsolated, BuildIsolated, WorkerIsolated,
       ClientIsolated, FetcherIsolated DEF Next
<1>3. (TypeOK /\ Bindings) /\ Isolated => FreshWhenQuiet
  BY QuietIsFresh
<1> QED BY <1>1, <1>2, <1>3, TypesAndBindings, Subscriptions, PTL DEF Spec
-----------------------------------------------------------------------------
(* Global subscribers. *)

\* An object and the snapshots of it carry its number.
Named ==
  /\ \A o \in Objs : o <= nobj => data[o].obj = o
  /\ \A t \in Threads : (pc[t] \in Publishing /\ obj[t] # 0) => snap[t].obj = obj[t]

\* The operations of the gateway and of the connections.  A closed connection
\* does nothing but its cleanup; subscribe_to_all reads the ids with no object.
Kinds ==
  /\ op[Gateway] \in {"none", "chunk", "update", "stop"}
  /\ \A c \in Clients : pc[c] = "ids" => obj[c] = 0
  /\ \A c \in Clients : op[c] \in {"none", "sub", "subAll", "unsub", "close"}
  /\ \A c \in closed :
       op[c] # "unsub" /\ pc[c] \in {"unglobal", "unfind", "remove", "gone"}

\* LookupOrStart will still announce the object to c ...
Announcing(c) ==
  /\ obj[Gateway] = reg
  /\ \/ pc[Gateway] \in {"init", "snap", "load", "keep", "drop", "cache", "announce"}
     \/ pc[Gateway] = "tellAll" /\ c \in to[Gateway]

\* ... or subscribe_to_all will still send it with INIT_STATE.
Joining(c) ==
  \/ pc[c] \in {"ids", "find"}
  \/ /\ pc[c] \in {"snap", "load", "keep", "drop", "cache", "add", "initState"}
     /\ obj[c] = reg

Covers(c) == reg \in told[c] \/ Announcing(c) \/ Joining(c)
Covering == reg # 0 => \A c \in globals \ closed : Covers(c)

LEMMA NamedFrame ==
  ASSUME TypeOK, Named, NEW t \in Threads, OthersKeep(t), nobj' = nobj,
         \A o \in Objs : o <= nobj => data'[o].obj = data[o].obj,
         (pc'[t] \in Publishing /\ obj'[t] # 0) => snap'[t].obj = obj'[t]
  PROVE  Named'
  BY DEF Named, OthersKeep, Keeps

\* Only LookupOrStart numbers an object, and only snapshots of it are named so.
LEMMA SyncNamed ==
  ASSUME TypeOK, Bindings, Named, NEW t \in Threads, Sync(t) \/ BuildPretty(t)
  PROVE  Named'
<1> USE DEF TypeOK
<1>0. OthersKeep(t) /\ nobj' = nobj
  BY SyncKeeps DEF Sync, Lookup, Merge, Publish, Record, Tell, FanOutDone, BuildPretty, Snap,
                   LoadExt, Keep, Drop, CacheSet, regVars
<1>1. /\ pc[t] \in BoundPCs => obj[t] \in Objs /\ obj[t] <= nobj /\ data[obj[t]] \in Pretty
      /\ snap[t] \in Pretty
      /\ \A o \in Objs : data[o] \in Pretty
  BY ObjectAtWork DEF ObjectTypes, CallTypes, Bindings, Bound
<1>2. CASE Lookup(t)
  <2>1. data' = data /\ pc'[t] \notin Publishing
    BY <1>2 DEF Lookup, Goto, Finish, End, CallTypes, Publishing, objVars
  <2> QED BY <1>0, <2>1, NamedFrame
<1>3. CASE Merge(t)
  <2> DEFINE o == obj[t]
             d == Merged(t, data[o])
  <2>1. /\ o \in Objs /\ o <= nobj /\ obj' = obj /\ data'[o] = d /\ snap'[t] = Shown(d)
        /\ \A x \in Objs : x # o => data'[x] = data[x]
    BY <1>1, <1>3 DEF Merge, BoundPCs, ObjectTypes, CallTypes
  <2>2. d.obj = data[o].obj /\ d \in Pretty
    BY <1>1, <1>3, <2>1, MergedType DEF Merge, Merged, Bindings, Pretty
  <2> HIDE DEF d
  <2>3. Shown(d).obj = d.obj BY <2>2 DEF Shown, Pretty
  <2> QED BY <1>0, <2>1, <2>2, <2>3, NamedFrame DEF Named
<1>4. CASE Publish(t) \/ CacheSet(t)
  <2>1. PICK p \in Built(t) : cache' = p /\ (snap'[t] = p \/ obj'[t] = 0)
    BY <1>4 DEF Publish, CacheSet, Finish, End, CallTypes
  <2>2. p.obj = snap[t].obj BY <1>1, <2>1 DEF Built, Shown, Pretty
  <2>3. data' = data /\ pc[t] \in Publishing /\ obj'[t] \in {0, obj[t]}
    BY <1>4 DEF Publish, CacheSet, Finish, End, CallTypes, Publishing, objVars
  <2> QED BY <1>0, <2>1, <2>2, <2>3, NamedFrame DEF Named
<1>5. CASE Record(t) \/ Tell(t)
  <2>1. data' = data /\ snap' = snap /\ obj' = obj /\ pc[t] \in Publishing
    BY <1>5 DEF Record, Tell, Publishing, objVars, locals
  <2> QED BY <1>0, <2>1, NamedFrame DEF Named
<1>6. CASE FanOutDone(t)
  <2>1. data' = data /\ pc'[t] \notin Publishing
    BY <1>6 DEF FanOutDone, AfterFanOut, Goto, Finish, End, CallTypes, Publishing, objVars
  <2> QED BY <1>0, <2>1, NamedFrame
<1>7. CASE Snap(t)
  <2>1. /\ data' = data /\ obj' = obj /\ obj[t] \in Objs /\ obj[t] <= nobj
        /\ snap'[t] = Shown(data[obj[t]])
    BY <1>1, <1>7 DEF Snap, BoundPCs, CallTypes, objVars
  <2>2. snap'[t].obj = data[obj[t]].obj BY <1>1, <2>1 DEF Shown, Pretty
  <2> QED BY <1>0, <2>1, <2>2, NamedFrame DEF Named
<1>8. CASE LoadExt(t)
  <2>1. /\ data' = data /\ obj' = obj /\ pc[t] = "load"
        /\ \E r \in Reads(rext) : snap'[t] = [snap[t] EXCEPT !.ext = LiveOnly(r)]
    BY <1>8 DEF LoadExt, CallTypes, objVars
  <2>2. snap'[t].obj = snap[t].obj BY <1>1, <2>1 DEF Pretty
  <2> QED BY <1>0, <2>1, <2>2, NamedFrame DEF Named, Publishing
<1>9. CASE Keep(t) \/ Drop(t)
  <2>1. obj' = obj /\ snap' = snap /\ pc[t] \in Publishing /\ obj[t] \in Objs
    BY <1>1, <1>9 DEF Keep, Drop, BoundPCs, Publishing, locals
  <2>2. \/ data' = data
        \/ data' = [data EXCEPT ![obj[t]] = [@ EXCEPT !.ext = snap[t].ext]]
        \/ data' = [data EXCEPT ![obj[t]] = [@ EXCEPT !.ext = 0]]
    <3>1. CASE Keep(t) BY <3>1 DEF Keep
    <3>2. CASE Drop(t) BY <3>2 DEF Drop
    <3> QED BY <1>9, <3>1, <3>2
  <2>3. \A o \in Objs : data'[o].obj = data[o].obj
    BY <1>1, <2>1, <2>2 DEF ObjectTypes, Pretty
  <2> QED BY <1>0, <2>1, <2>3, NamedFrame DEF Named
<1> QED BY <1>2, <1>3, <1>4, <1>5, <1>6, <1>7, <1>8, <1>9 DEF Sync, BuildPretty

LEMMA NamedStep ==
  ASSUME TypeOK, Bindings, Kinds, Named, Next PROVE Named'
<1> USE ThreadKinds DEF TypeOK
<1>0. \A o \in Objs : data[o] \in Pretty BY DEF ObjectTypes
<1>1. CASE GatewayStep
  <2>0. OthersKeep(Gateway) BY <1>1, GatewayKeeps
  <2>1. CASE Chunk /\ reg = 0
    <3> DEFINE n == nobj + 1
    <3>1. /\ nobj \in Nat /\ n \in Objs /\ nobj' = n
          /\ data' = [data EXCEPT ![n] = Fresh(n, events + 1)]
          /\ pc'[Gateway] = "init"
      BY <2>1, BoundsAssumption DEF Chunk, Begin, Goto, CallTypes, ObjectTypes, Objs
    <3>2. ASSUME NEW o \in Objs, o <= nobj' PROVE data'[o].obj = o
      <4>1. Fresh(n, events + 1).obj = n BY DEF Fresh
      <4>2. o = n \/ (o # n /\ o <= nobj) BY <3>1, <3>2 DEF Objs
      <4> QED BY <3>1, <4>1, <4>2 DEF ObjectTypes, Named
    <3>3. pc'[Gateway] \notin Publishing BY <3>1 DEF Publishing
    <3> QED BY <2>0, <3>2, <3>3 DEF Named, OthersKeep, Keeps
  <2>2. CASE LoadObject
    <3>1. obj[Gateway] \in Objs /\ pc'[Gateway] \notin Publishing /\ nobj' = nobj
      BY <2>2, ObjectAtWork DEF LoadObject, BoundPCs, Goto, CallTypes, Publishing, regVars
    <3>2. \E k, e : data' = [data EXCEPT ![obj[Gateway]] = [@ EXCEPT !.kv = k, !.ext = e]]
      BY <2>2 DEF LoadObject
    <3>3. \A o \in Objs : data'[o].obj = data[o].obj
      BY <1>0, <3>1, <3>2 DEF ObjectTypes, Pretty
    <3> QED BY <2>0, <3>1, <3>3, NamedFrame
  <2>3. CASE Announce
    <3>1. data' = data /\ nobj' = nobj /\ snap' = snap /\ obj' = obj /\ pc[Gateway] \in Publishing
      BY <2>3 DEF Announce, regVars, objVars, Publishing
    <3> QED BY <2>0, <3>1, NamedFrame DEF Named
  <2>4. CASE (Chunk /\ reg # 0) \/ Update \/ Stop \/ CacheDelete
    <3>1. data' = data /\ nobj' = nobj /\ pc'[Gateway] \notin Publishing
      BY <2>4 DEF Chunk, Update, Stop, CacheDelete, Begin, Goto, Finish, End, CallTypes, Publishing,
                  regVars, objVars
    <3> QED BY <2>0, <3>1, NamedFrame
  <2>5. CASE MemberAdd BY <2>5 DEF MemberAdd, vars, regVars, objVars, locals, Named
  <2> QED BY <1>1, <2>1, <2>2, <2>3, <2>4, <2>5 DEF GatewayStep
<1>2. ASSUME NEW t \in Workers, WorkerStep(t) PROVE Named'
  <2>1. data' = data /\ nobj' = nobj
    BY <1>2 DEF WorkerStep, Get, Stats, EnsureBanner, CheckStale, CacheGet, WriteKV, SetExternalMusic,
                ClearExternalMusic, Persist, regVars, objVars
  <2>2. CASE EnsureBanner(t)
    <3>1. snap' = snap /\ \A u \in Threads : pc'[u] \in Publishing => pc[u] \in Publishing
                                                                      /\ obj'[u] = obj[u]
      BY <2>2, ThreadsAssumption DEF EnsureBanner, Spawn, Goto, CallTypes, Publishing
    <3> QED BY <2>1, <3>1 DEF Named
  <2>3. CASE ~EnsureBanner(t)
    <3>1. OthersKeep(t) /\ pc'[t] \notin Publishing
      BY <1>2, <2>3, WorkerKeeps
         DEF WorkerStep, Get, Stats, CheckStale, CacheGet, WriteKV, SetExternalMusic, ClearExternalMusic,
             Persist, Begin, Goto, Finish, End, CallTypes, Publishing
    <3> QED BY <2>1, <3>1, NamedFrame
  <2> QED BY <2>2, <2>3
<1>3. ASSUME NEW c \in Clients, ClientStep(c) PROVE Named'
  <2>1. /\ OthersKeep(c) /\ data' = data /\ nobj' = nobj
    BY <1>3, ClientKeeps
       DEF ClientStep, Subscribe, SubscribeAll, ReadIDs, FindID, AddSubscriber, InitState,
           Unsubscribe, RemoveSubscriber, Close, RemoveGlobal, UnsubscribeTracked, regVars, objVars
  <2>2. CASE AddSubscriber(c)
    <3>1. pc[c] \in Publishing /\ snap' = snap /\ obj' = obj
      BY <2>2 DEF AddSubscriber, Publishing, locals
    <3> QED BY <2>1, <3>1, NamedFrame DEF Named
  <2>3. CASE Subscribe(c) \/ FindID(c) \/ ReadIDs(c)
    <3>1. pc'[c] \in Publishing => obj'[c] = 0
      BY <2>3 DEF Subscribe, FindID, ReadIDs, Begin, Goto, CallTypes, Publishing, Kinds, locals
    <3> QED BY <2>1, <3>1, NamedFrame
  <2>4. CASE ~AddSubscriber(c) /\ ~Subscribe(c) /\ ~FindID(c) /\ ~ReadIDs(c)
    <3>1. pc'[c] \notin Publishing \/ (pc' = pc /\ obj' = obj /\ snap' = snap)
      BY <1>3, <2>4
         DEF ClientStep, SubscribeAll, InitState, Unsubscribe, RemoveSubscriber, Close,
             RemoveGlobal, UnsubscribeTracked, Begin, Goto, Finish, End, CallTypes, Publishing
    <3> QED BY <2>1, <3>1, NamedFrame DEF Named
  <2> QED BY <2>2, <2>3, <2>4
<1>4. ASSUME NEW f \in Fetchers, FetchFails(f) \/ Fetched(f) PROVE Named'
  <2>0. OthersKeep(f) BY <1>4, FetcherKeeps
  <2>1. CASE FetchFails(f)
    <3>1. data' = data /\ nobj' = nobj /\ pc'[f] = "idle"
      BY <2>1 DEF FetchFails, Finish, End, Goto, CallTypes, regVars, objVars
    <3> QED BY <2>0, <3>1, NamedFrame DEF Publishing
  <2>2. CASE Fetched(f)
    <3> DEFINE o == obj[f]
               d == [data[o] EXCEPT !.banner = TRUE]
    <3>1. /\ o \in Objs /\ o <= nobj /\ obj' = obj /\ nobj' = nobj /\ data'[o] = d
          /\ snap'[f] = Shown(d) /\ \A x \in Objs : x # o => data'[x] = data[x]
      BY <2>2, ObjectAtWork DEF Fetched, BoundPCs, ObjectTypes, CallTypes, Bindings, Bound, regVars
    <3>2. d.obj = data[o].obj /\ d \in Pretty BY <1>0, <3>1 DEF Pretty
    <3> HIDE DEF d
    <3>3. Shown(d).obj = d.obj BY <3>2 DEF Shown, Pretty
    <3> QED BY <2>0, <3>1, <3>2, <3>3, NamedFrame DEF Named
  <2> QED BY <1>4, <2>1, <2>2
<1>5. CASE Expire BY <1>5 DEF Expire, regVars, objVars, locals, Named
<1> QED BY <1>1, <1>2, <1>3, <1>4, <1>5, SyncNamed DEF Next

LEMMA KindsStep ==
  ASSUME TypeOK, Bindings, Kinds, Next PROVE Kinds'
<1> USE ThreadKinds, ThreadsAssumption DEF TypeOK
<1>0. closed \subseteq Clients BY DEF SocketTypes
<1>1. CASE GatewayStep
  <2>1. /\ OthersKeep(Gateway) /\ closed' = closed
        /\ op'[Gateway] \in {op[Gateway], "none", "chunk", "update", "stop"}
    BY <1>1, GatewayKeeps
       DEF GatewayStep, Chunk, LoadObject, Announce, Update, Stop, CacheDelete, MemberAdd, vars,
           Begin, Goto, Finish, End, CallTypes, locals, sockets
  <2> QED BY <1>0, <2>1 DEF Kinds, OthersKeep, Keeps
<1>2. ASSUME NEW t \in Threads, Sync(t) \/ BuildPretty(t) PROVE Kinds'
  <2>1. OthersKeep(t) /\ closed' = closed /\ op'[t] \in {op[t], "none"}
    BY <1>2, SyncKeeps
       DEF Sync, Lookup, Merge, Publish, Record, Tell, FanOutDone, AfterFanOut, BuildPretty, Snap,
           LoadExt, Keep, Drop, CacheSet, Finish, End, CallTypes, locals, sockets
  <2>2. pc[t] \notin {"unglobal", "unfind", "remove", "gone"} /\ pc'[t] # "ids"
    BY <1>2 DEF CallTypes, Goto, Finish, End, Sync, Lookup, Merge, Publish, Record, Tell, FanOutDone, AfterFanOut, BuildPretty,
                Snap, LoadExt, Keep, Drop, CacheSet
  <2> QED BY <1>0, <2>1, <2>2 DEF Kinds, OthersKeep, Keeps
<1>3. ASSUME NEW t \in Workers, WorkerStep(t) PROVE Kinds'
  <2>1. closed' = closed /\ t \notin Clients /\ t # Gateway
    BY <1>3 DEF WorkerStep, Get, Stats, EnsureBanner, CheckStale, CacheGet, WriteKV, SetExternalMusic,
                ClearExternalMusic, Persist, sockets
  <2>2. \A u \in Clients \cup {Gateway} :
          pc'[u] = pc[u] /\ op'[u] = op[u] /\ (pc[u] = "ids" => obj'[u] = obj[u])
    <3>1. CASE EnsureBanner(t) BY <2>1, <3>1 DEF EnsureBanner, Spawn, Goto, CallTypes
    <3>2. CASE ~EnsureBanner(t)
      BY <1>3, <2>1, <3>2, WorkerKeeps DEF OthersKeep, Keeps
    <3> QED BY <3>1, <3>2
  <2> QED BY <1>0, <2>1, <2>2 DEF Kinds
<1>4. ASSUME NEW c \in Clients, ClientStep(c) PROVE Kinds'
  <2>1. OthersKeep(c) /\ c # Gateway BY <1>4, ClientKeeps
  <2>2. CASE Close(c)
    <3>1. closed' = closed \cup {c} /\ op'[c] = "close" /\ pc'[c] = "unglobal"
      BY <2>2 DEF Close, Begin, Goto, CallTypes
    <3> QED BY <1>0, <2>1, <3>1 DEF Kinds, OthersKeep, Keeps
  <2>3. CASE ~Close(c)
    <3>1. closed' = closed /\ op'[c] \in {op[c], "none", "sub", "subAll", "unsub"}
      BY <1>4, <2>3
         DEF ClientStep, Subscribe, SubscribeAll, ReadIDs, FindID, AddSubscriber, InitState,
             Unsubscribe, RemoveSubscriber, RemoveGlobal, UnsubscribeTracked, Begin, Finish, End,
             CallTypes, locals, sockets
    <3>2. ASSUME op[c] # "unsub", pc[c] \in {"unglobal", "unfind", "remove", "gone"}
          PROVE  op'[c] # "unsub" /\ pc'[c] \in {"unglobal", "unfind", "remove", "gone"}
      BY <1>4, <2>3, <3>2
         DEF ClientStep, Subscribe, SubscribeAll, ReadIDs, FindID, AddSubscriber, InitState,
             Unsubscribe, RemoveSubscriber, RemoveGlobal, UnsubscribeTracked, Begin, Goto, Finish,
             End, CallTypes, locals
    <3>3. pc'[c] = "ids" => obj'[c] = 0
      BY <1>4, <2>3
         DEF ClientStep, Subscribe, SubscribeAll, ReadIDs, FindID, AddSubscriber, InitState,
             Unsubscribe, RemoveSubscriber, RemoveGlobal, UnsubscribeTracked, Begin, Goto, Finish,
             End, CallTypes, locals, Kinds
    <3> QED BY <1>0, <2>1, <3>1, <3>2, <3>3 DEF Kinds, OthersKeep, Keeps
  <2> QED BY <2>2, <2>3
<1>5. ASSUME NEW f \in Fetchers, FetchFails(f) \/ Fetched(f) PROVE Kinds'
  <2>1. OthersKeep(f) /\ closed' = closed /\ f \notin Clients /\ f # Gateway
    BY <1>5, FetcherKeeps DEF FetchFails, Fetched, sockets
  <2> QED BY <1>0, <2>1 DEF Kinds, OthersKeep, Keeps
<1>6. CASE Expire BY <1>6 DEF Expire, locals, sockets, Kinds
<1> QED BY <1>1, <1>2, <1>3, <1>4, <1>5, <1>6 DEF Next

\* A step of t keeps a global subscriber covered unless t gives up what it was
\* about to send.
LEMMA CoveringFrame ==
  ASSUME TypeOK, Covering, NEW t \in Threads, OthersKeep(t), reg' = reg,
         globals' \ closed' \subseteq globals \ closed,
         \A c \in Clients : told[c] \subseteq told'[c],
         \A c \in globals \ closed :
            (t = Gateway /\ reg # 0 /\ Announcing(c)) => Announcing(c)' \/ reg \in told'[c],
         (t \in globals \ closed /\ reg # 0 /\ Joining(t)) => Joining(t)' \/ reg \in told'[t]
  PROVE  Covering'
<1> USE ThreadKinds DEF TypeOK
<1> SUFFICES ASSUME reg # 0, NEW c \in globals' \ closed' PROVE Covers(c)'
  BY DEF Covering
<1>1. c \in globals \ closed /\ c \in Clients /\ Covers(c)
  BY DEF Covering, SocketTypes
<1>2. CASE reg \in told[c] BY <1>1, <1>2 DEF Covers
<1>3. CASE Announcing(c)
  <2>1. CASE t = Gateway BY <1>1, <1>3, <2>1 DEF Covers
  <2>2. CASE t # Gateway BY <1>3, <2>2 DEF Covers, Announcing, OthersKeep, Keeps
  <2> QED BY <2>1, <2>2
<1>4. CASE Joining(c)
  <2>1. CASE t = c BY <1>1, <1>4, <2>1 DEF Covers
  <2>2. CASE t # c BY <1>1, <1>4, <2>2 DEF Covers, Joining, OthersKeep, Keeps
  <2> QED BY <2>1, <2>2
<1> QED BY <1>1, <1>2, <1>3, <1>4 DEF Covers

\* What an open connection is sent, it has been told.
LEMMA SendTells ==
  ASSUME TypeOK, NEW c \in Clients, NEW p \in Pretty, SendEvent(c, p)
  PROVE  /\ \A d \in Clients : told[d] \subseteq told'[d]
         /\ c \notin closed => p.obj \in told'[c]
  BY DEF TypeOK, SocketTypes, SendEvent

LEMMA SyncCovering ==
  ASSUME TypeOK, Bindings, Kinds, Named, Covering, NEW t \in Threads, Sync(t) \/ BuildPretty(t)
  PROVE  Covering'
<1> USE ThreadKinds DEF TypeOK
<1>0. /\ OthersKeep(t) /\ reg' = reg /\ globals' = globals /\ closed' = closed
      /\ pc[t] \in PCs /\ op[t] \in Ops /\ snap[t] \in Pretty
  BY SyncKeeps DEF Sync, Lookup, Merge, Publish, Record, Tell, FanOutDone, BuildPretty, Snap,
                   LoadExt, Keep, Drop, CacheSet, regVars, sockets, CallTypes
<1>1. CASE Lookup(t) \/ Merge(t) \/ Publish(t) \/ Record(t)
  <2>1. told' = told /\ pc[t] \in {"lookup", "merge", "publish", "record"}
    BY <1>1 DEF Lookup, Merge, Publish, Record, sockets
  <2>2. \A c \in Clients : told[c] \subseteq told'[c] BY <2>1
  <2> QED BY <1>0, <2>1, <2>2, CoveringFrame DEF Announcing, Joining
<1>2. CASE Tell(t)
  <2>1. PICK c \in to[t] : SendEvent(c, snap[t]) /\ to' = [to EXCEPT ![t] = @ \ {c}]
    BY <1>2 DEF Tell
  <2>2. c \in Clients /\ pc' = pc /\ obj' = obj /\ pc[t] \in {"tell", "tellAll"}
    BY <1>2, <2>1 DEF Tell, CallTypes
  <2>3. /\ \A d \in Clients : told[d] \subseteq told'[d]
        /\ c \notin closed => snap[t].obj \in told'[c]
    BY <1>0, <2>1, <2>2, SendTells
  <2>4. ASSUME NEW d \in globals \ closed, t = Gateway, reg # 0, Announcing(d)
        PROVE  Announcing(d)' \/ reg \in told'[d]
    <3>1. obj[t] = reg /\ pc[t] = "tellAll" BY <2>2, <2>4 DEF Announcing
    <3>2. snap[t].obj = reg BY <2>4, <3>1 DEF Named, Publishing
    <3>3. CASE d = c BY <2>3, <2>4, <3>2, <3>3
    <3>4. CASE d # c BY <1>0, <2>1, <2>2, <2>4, <3>1, <3>4 DEF Announcing, CallTypes
    <3> QED BY <3>3, <3>4
  <2> QED BY <1>0, <2>2, <2>3, <2>4, CoveringFrame DEF Joining
<1>3. CASE FanOutDone(t)
  <2>1. told' = told /\ pc[t] \in {"tell", "tellAll"} /\ to[t] = {}
    BY <1>3 DEF FanOutDone, AfterFanOut, sockets
  <2>2. \A c \in Clients : told[c] \subseteq told'[c] BY <2>1
  <2> QED BY <1>0, <2>1, <2>2, CoveringFrame DEF Announcing, Joining
<1>4. CASE BuildPretty(t)
  <2>1. told' = told /\ obj[t] \in Objs
    BY <1>4, ObjectAtWork
       DEF BuildPretty, Snap, LoadExt, Keep, Drop, CacheSet, sockets, BoundPCs
  <2>2. \A c \in Clients : told[c] \subseteq told'[c] BY <2>1
  <2>3. CASE Snap(t) \/ LoadExt(t) \/ Keep(t) \/ Drop(t)
    <3>1. obj' = obj /\ pc'[t] \in {"load", "keep", "drop", "cache"}
      BY <2>3 DEF Snap, LoadExt, Keep, Drop, Goto, CallTypes, locals
    <3>2. pc[t] \notin {"ids", "find"}
      BY <2>3 DEF Snap, LoadExt, Keep, Drop
    <3> QED BY <1>0, <2>2, <3>1, <3>2, CoveringFrame DEF Announcing, Joining
  <2>4. CASE CacheSet(t)
    <3>1. pc[t] = "cache" BY <2>4 DEF CacheSet
    <3>2. op[t] \in {"chunk", "sub", "subAll"} =>
             obj' = obj /\ pc'[t] = IF op[t] = "chunk" THEN "announce" ELSE "add"
      BY <2>4 DEF CacheSet, Goto, CallTypes
    <3>3. op[t] \in {"chunk", "sub", "subAll", "get", "set", "clear"}
      BY <2>4 DEF CacheSet
    <3>4. t = Gateway => obj' = obj /\ pc'[t] = "announce"
      BY <3>2, <3>3 DEF Kinds
    <3>5. t \in Clients => obj' = obj /\ pc'[t] = "add"
      BY <3>2, <3>3 DEF Kinds
    <3> QED BY <1>0, <2>2, <3>1, <3>4, <3>5, CoveringFrame DEF Announcing, Joining, SocketTypes
  <2> QED BY <1>4, <2>3, <2>4 DEF BuildPretty
<1> QED BY <1>1, <1>2, <1>3, <1>4 DEF Sync, BuildPretty

LEMMA GatewayCovering ==
  ASSUME TypeOK, Bindings, Covering, GatewayStep PROVE Covering'
<1> USE ThreadKinds DEF TypeOK
<1>0. OthersKeep(Gateway) /\ Gateway \notin globals
  BY GatewayKeeps, ThreadsAssumption DEF SocketTypes
<1>1. globals' = globals /\ closed' = closed /\ told' = told
  BY DEF GatewayStep, Chunk, LoadObject, Announce, Update, Stop, CacheDelete, MemberAdd, vars,
         sockets
<1>2. \A c \in Clients : told[c] \subseteq told'[c] BY <1>1
<1>3. CASE Chunk /\ reg = 0
  <2>1. obj'[Gateway] = reg' /\ pc'[Gateway] = "init"
    BY <1>3 DEF Chunk, Begin, Goto, CallTypes
  <2> QED BY <2>1 DEF Covering, Covers, Announcing
<1>4. CASE Chunk /\ reg # 0
  <2>1. reg' = reg /\ pc[Gateway] = "idle" BY <1>4 DEF Chunk, Begin, regVars
  <2> QED BY <1>0, <1>1, <1>2, <2>1, CoveringFrame DEF Announcing
<1>5. CASE LoadObject
  <2>1. reg' = reg /\ obj' = obj /\ pc'[Gateway] = "snap"
    BY <1>5 DEF LoadObject, Goto, CallTypes, regVars, locals
  <2> QED BY <1>0, <1>1, <1>2, <2>1, CoveringFrame DEF Announcing
<1>6. CASE Announce
  <2>1. reg' = reg /\ obj' = obj /\ pc'[Gateway] = "tellAll" /\ to'[Gateway] = globals
    BY <1>6 DEF Announce, Goto, CallTypes, regVars
  <2> QED BY <1>0, <1>1, <1>2, <2>1, CoveringFrame DEF Announcing
<1>7. CASE Update
  <2>1. reg' = reg /\ pc[Gateway] = "idle" BY <1>7 DEF Update, Begin, regVars
  <2> QED BY <1>0, <1>1, <1>2, <2>1, CoveringFrame DEF Announcing
<1>8. CASE Stop BY <1>8 DEF Stop, Covering
<1>9. CASE CacheDelete
  <2>1. reg' = reg /\ pc[Gateway] = "uncache" BY <1>9 DEF CacheDelete, regVars
  <2> QED BY <1>0, <1>1, <1>2, <2>1, CoveringFrame DEF Announcing
<1>10. CASE MemberAdd
  BY <1>10 DEF MemberAdd, vars, regVars, locals, sockets, Covering, Covers, Announcing, Joining
<1> QED BY <1>3, <1>4, <1>5, <1>6, <1>7, <1>8, <1>9, <1>10 DEF GatewayStep

LEMMA ClientCovering ==
  ASSUME TypeOK, Bindings, Kinds, Named, Covering, NEW c \in Clients, ClientStep(c)
  PROVE  Covering'
<1> USE ThreadKinds DEF TypeOK
<1>0. OthersKeep(c) /\ reg' = reg /\ c # Gateway
  BY ClientKeeps, ThreadsAssumption
     DEF ClientStep, Subscribe, SubscribeAll, ReadIDs, FindID, AddSubscriber, InitState,
         Unsubscribe, RemoveSubscriber, Close, RemoveGlobal, UnsubscribeTracked, regVars
<1>1. CASE SubscribeAll(c)
  <2>1. /\ globals' = globals \cup {c} /\ closed' = closed /\ told' = told
        /\ pc'[c] = "ids" /\ pc[c] = "idle"
    BY <1>1 DEF SubscribeAll, Begin, Goto, CallTypes
  <2> SUFFICES ASSUME reg # 0, NEW d \in globals' \ closed' PROVE Covers(d)'
    BY <1>0 DEF Covering
  <2>2. CASE d = c BY <2>1, <2>2 DEF Covers, Joining
  <2>3. CASE d # c
    <3>1. Covers(d) /\ d \in Clients BY <2>1, <2>3 DEF Covering, SocketTypes
    <3> QED BY <1>0, <2>1, <2>3, <3>1 DEF Covers, Announcing, Joining, OthersKeep, Keeps
  <2> QED BY <2>2, <2>3
<1>2. CASE InitState(c)
  <2>1. /\ SendEvent(c, snap[c]) /\ snap[c] \in Pretty /\ pc[c] = "initState"
        /\ globals' = globals /\ closed' = closed
    BY <1>2 DEF InitState, CallTypes
  <2>2. /\ \A d \in Clients : told[d] \subseteq told'[d]
        /\ c \notin closed => snap[c].obj \in told'[c]
    BY <2>1, SendTells
  <2>3. (reg # 0 /\ Joining(c)) => snap[c].obj = reg
    BY <2>1 DEF Joining, Named, Publishing
  <2> QED BY <1>0, <2>1, <2>2, <2>3, CoveringFrame
<1>3. CASE ~SubscribeAll(c) /\ ~InitState(c)
  <2>1. /\ globals' \ closed' \subseteq globals \ closed /\ told' = told
    BY <1>3 DEF ClientStep, Subscribe, ReadIDs, FindID, AddSubscriber, Unsubscribe,
                RemoveSubscriber, Close, RemoveGlobal, UnsubscribeTracked, sockets
  <2>2. (reg # 0 /\ Joining(c)) => Joining(c)'
    <3>1. CASE ReadIDs(c) BY <1>0, <3>1 DEF ReadIDs, Goto, CallTypes, Joining
    <3>2. CASE FindID(c) BY <1>0, <3>2 DEF FindID, Goto, CallTypes, Joining
    <3>3. CASE AddSubscriber(c)
      BY <1>0, <3>3 DEF AddSubscriber, Goto, CallTypes, Joining, locals
    <3>4. CASE ~ReadIDs(c) /\ ~FindID(c) /\ ~AddSubscriber(c)
      <4>1. pc[c] \in {"idle", "remove", "unglobal", "unfind"}
        BY <1>3, <3>4 DEF ClientStep, Subscribe, Unsubscribe, RemoveSubscriber, Close,
                          RemoveGlobal, UnsubscribeTracked, Begin
      <4> QED BY <4>1 DEF Joining
    <3> QED BY <3>1, <3>2, <3>3, <3>4
  <2>3. \A d \in Clients : told[d] \subseteq told'[d] BY <2>1
  <2> QED BY <1>0, <2>1, <2>2, <2>3, CoveringFrame
<1> QED BY <1>1, <1>2, <1>3

LEMMA CoveringStep ==
  ASSUME TypeOK, Bindings, Kinds, Named, Covering, Next PROVE Covering'
<1> USE ThreadKinds DEF TypeOK
<1>1. ASSUME NEW t \in Workers, WorkerStep(t) PROVE Covering'
  <2>1. /\ reg' = reg /\ globals' = globals /\ closed' = closed /\ told' = told
        /\ t \notin Clients /\ t # Gateway
    BY <1>1, ThreadsAssumption
       DEF WorkerStep, Get, Stats, EnsureBanner, CheckStale, CacheGet, WriteKV, SetExternalMusic,
           ClearExternalMusic, Persist, regVars, sockets
  <2>2. \A c \in Clients : told[c] \subseteq told'[c] BY <2>1
  <2>3. CASE EnsureBanner(t)
    <3>1. to' = to BY <2>3 DEF EnsureBanner
    <3>2. \A u \in Clients \cup {Gateway} : pc'[u] = pc[u] /\ obj'[u] = obj[u]
      BY <2>1, <2>3, ThreadsAssumption DEF EnsureBanner, Spawn, Goto, CallTypes
    <3> QED
      BY <2>1, <3>1, <3>2 DEF Covering, Covers, Announcing, Joining, SocketTypes
  <2>4. CASE ~EnsureBanner(t)
    <3>1. OthersKeep(t) BY <1>1, <2>4, WorkerKeeps
    <3>2. t \notin globals BY <2>1 DEF SocketTypes
    <3> QED BY <2>1, <2>2, <3>1, <3>2, CoveringFrame
  <2> QED BY <2>3, <2>4
<1>2. ASSUME NEW f \in Fetchers, FetchFails(f) \/ Fetched(f) PROVE Covering'
  <2>1. /\ reg' = reg /\ globals' = globals /\ closed' = closed /\ told' = told
        /\ f \notin globals /\ f # Gateway
    BY <1>2, ThreadsAssumption DEF FetchFails, Fetched, regVars, sockets, SocketTypes
  <2>2. \A c \in Clients : told[c] \subseteq told'[c] BY <2>1
  <2> QED BY <1>2, <2>1, <2>2, FetcherKeeps, CoveringFrame
<1>3. CASE Expire
  BY <1>3 DEF Expire, regVars, locals, sockets, Covering, Covers, Announcing, Joining
<1> QED BY <1>1, <1>2, <1>3, GatewayCovering, SyncCovering, ClientCovering DEF Next

\* A connection that subscribes to everybody has been told of the monitored user
\* once neither the gateway nor its own call is at work: AddGlobalSubscriber runs
\* before Registry.IDs, and LookupOrStart inserts before it reads globalSubs, so
\* one of the two sees the other.
THEOREM NobodyIsMissed == Spec => []GlobalCovers
<1>1. (TypeOK /\ Bindings) /\ Init => Kinds /\ Named /\ Covering
  BY BoundsAssumption, ThreadKinds
     DEF Init, Kinds, Named, Covering, Publishing, Objs
<1>2. (TypeOK /\ Bindings) /\ (Kinds /\ Named /\ Covering) /\ [Next]_vars
        => (Kinds /\ Named /\ Covering)'
  <2> SUFFICES ASSUME TypeOK, Bindings, Kinds, Named, Covering, [Next]_vars
               PROVE  (Kinds /\ Named /\ Covering)'
    OBVIOUS
  <2>1. CASE Next BY <2>1, KindsStep, NamedStep, CoveringStep
  <2>2. CASE UNCHANGED vars
    BY <2>2 DEF vars, regVars, objVars, locals, sockets, Kinds, Named, Covering, Covers,
                Announcing, Joining
  <2> QED BY <2>1, <2>2
<1>3. (TypeOK /\ Bindings) /\ (Kinds /\ Named /\ Covering) => GlobalCovers
  <2> SUFFICES ASSUME TypeOK, Bindings, Kinds, Covering, NEW c \in globals,
                      reg # 0, pc[Gateway] = "idle", pc[c] = "idle"
               PROVE  reg \in told[c]
    BY DEF GlobalCovers
  <2>1. c \notin closed BY DEF Kinds
  <2> QED BY <2>1 DEF Covering, Covers, Announcing, Joining
<1> QED BY <1>1, <1>2, <1>3, TypesAndBindings, PTL DEF Spec

-----------------------------------------------------------------------------
(* Expired reports. *)

\* e is the report of the registered object, or none when that has expired.
Agrees(e) == e = data[reg].ext \/ (e = 0 /\ Expired(data[reg].ext))

\* What t is about to cache agrees; before it has asked Redis it shows none.
SnapshotAgrees(t) ==
  obj[t] = reg =>
    /\ pc[t] \in {"load", "drop", "cache", "publish"} => Agrees(snap[t].ext)
    /\ pc[t] \in {"load", "drop"} => snap[t].ext = 0

CacheAgrees == Agrees(cache.ext) \/ \E t \in Threads : CachePending(t)

\* Between a write that overlapped no publication and the next write.
Expiring ==
  (reg # 0 /\ ~overlapped) => CacheAgrees /\ \A t \in Threads : SnapshotAgrees(t)

\* Time only passes: what agreed still agrees, and dropping an expired report
\* from what agrees keeps it so.
LEMMA AgreesShown ==
  ASSUME TypeOK, reg # 0, NEW p \in Pretty, Agrees(p.ext)
  PROVE  Agrees(Shown(p).ext)
<1> USE DEF TypeOK
<1>1. reg \in Objs /\ data[reg] \in Pretty
  BY BoundsAssumption DEF ObjectTypes, Objs
<1>2. p.ext \in Nat /\ data[reg].ext \in Nat /\ dead \in Nat
  BY <1>1, BoundsAssumption DEF Pretty, InputTypes
<1>3. Shown(p).ext = LiveOnly(p.ext) BY DEF Shown, Pretty
<1> QED BY <1>2, <1>3 DEF Agrees, LiveOnly, Expired

\* A step of t that stores no report.
LEMMA ExpiringFrame ==
  ASSUME TypeOK, Expiring, NEW t \in Threads, OthersKeep(t), reg' = reg, dead' = dead,
         ~overlapped' => ~overlapped,
         reg # 0 => data'[reg].ext = data[reg].ext,
         (reg # 0 /\ ~overlapped) => SnapshotAgrees(t)',
         (reg # 0 /\ ~overlapped) =>
            \/ Agrees(cache'.ext)
            \/ cache' = cache /\ (CachePending(t) => CachePending(t)')
  PROVE  Expiring'
<1> SUFFICES ASSUME reg # 0, ~overlapped'
             PROVE  CacheAgrees' /\ \A u \in Threads : SnapshotAgrees(u)'
  BY DEF Expiring
<1>1. CacheAgrees /\ \A u \in Threads : SnapshotAgrees(u) BY DEF Expiring
<1>2. \A e : Agrees(e) => Agrees(e)' BY DEF Agrees, Expired
<1>3. ASSUME NEW u \in Threads PROVE SnapshotAgrees(u)'
  <2>1. CASE u = t BY <2>1
  <2>2. CASE u # t
    <3>1. SnapshotAgrees(u) /\ Keeps(u) BY <1>1, <2>2 DEF OthersKeep
    <3> QED BY <3>1 DEF SnapshotAgrees, Keeps, Agrees, Expired
  <2> QED BY <2>1, <2>2
<1>4. CacheAgrees'
  <2>1. CASE Agrees(cache'.ext) BY <2>1 DEF CacheAgrees, Agrees, Expired
  <2>2. CASE cache' = cache /\ (CachePending(t) => CachePending(t)')
    <3>1. \A u \in Threads : CachePending(u) => CachePending(u)'
      BY <2>2 DEF CachePending, OthersKeep, Keeps
    <3> QED BY <1>1, <2>2, <3>1 DEF CacheAgrees, Agrees, Expired
  <2> QED BY <2>1, <2>2
<1> QED BY <1>3, <1>4

\* A step of t that stores one while no other goroutine is publishing.
LEMMA LoneReport ==
  ASSUME TypeOK, NEW t \in Threads, OthersKeep(t), reg' # 0, ~Overlaps(t, reg'),
         CachePending(t)', SnapshotAgrees(t)'
  PROVE  Expiring'
<1>1. ASSUME NEW u \in Threads PROVE SnapshotAgrees(u)'
  <2>1. CASE u = t BY <2>1
  <2>2. CASE u # t
    <3>1. pc'[u] \notin Publishing BY <2>2 DEF Overlaps, OthersKeep, Keeps
    <3> QED BY <3>1 DEF SnapshotAgrees, Publishing
  <2> QED BY <2>1, <2>2
<1>2. CacheAgrees' BY DEF CacheAgrees
<1> QED BY <1>1, <1>2 DEF Expiring

LEMMA GatewayExpiring ==
  ASSUME TypeOK, Bindings, Isolated, Expiring, GatewayStep PROVE Expiring'
<1> USE ThreadKinds DEF TypeOK
<1>0. OthersKeep(Gateway) BY GatewayKeeps
<1>1. CASE Chunk /\ reg = 0
  <2> DEFINE n == nobj + 1
  <2>1. /\ reg' = n /\ overlapped' = Overlaps(Gateway, n) /\ nobj \in Nat
        /\ pc'[Gateway] = "init" /\ obj'[Gateway] = n
    BY <1>1, BoundsAssumption DEF Chunk, Begin, Goto, CallTypes, ObjectTypes
  <2>2. CASE overlapped' BY <2>2 DEF Expiring
  <2>3. CASE ~overlapped'
    <3>1. ~Overlaps(Gateway, reg') /\ reg' # 0 BY <2>1, <2>3
    <3>2. CachePending(Gateway)' /\ SnapshotAgrees(Gateway)'
      BY <2>1 DEF CachePending, SnapshotAgrees
    <3> QED BY <1>0, <3>1, <3>2, LoneReport
  <2> QED BY <2>2, <2>3
<1>2. CASE LoadObject
  <2>1. /\ reg' = reg /\ obj' = obj /\ pc'[Gateway] = "snap"
        /\ overlapped' = IF obj[Gateway] = reg THEN Overlaps(Gateway, obj[Gateway]) ELSE overlapped
        /\ obj[Gateway] \in Objs /\ obj[Gateway] # 0
    BY <1>2, ObjectAtWork
       DEF LoadObject, NoteWrite, Goto, CallTypes, BoundPCs, Bindings, Bound, regVars, locals
  <2>2. SUFFICES ASSUME reg # 0, ~overlapped' PROVE Expiring'
    BY <2>1 DEF Expiring
  <2>3. obj[Gateway] = reg /\ ~Overlaps(Gateway, reg)
    BY <2>1, <2>2 DEF Isolated, SnapshotsCurrent
  <2>4. CachePending(Gateway)' /\ SnapshotAgrees(Gateway)'
    BY <2>1, <2>3 DEF CachePending, SnapshotAgrees
  <2> QED BY <1>0, <2>1, <2>2, <2>3, <2>4, LoneReport
<1>3. CASE Stop BY <1>3 DEF Stop, Expiring
<1>4. CASE CacheDelete
  <2>1. reg' = 0 BY <1>4 DEF CacheDelete, Bindings, regVars
  <2> QED BY <2>1 DEF Expiring
<1>5. CASE (Chunk /\ reg # 0) \/ Announce \/ Update
  <2>1. UNCHANGED <<reg, dead, overlapped, data, cache>>
    BY <1>5 DEF Chunk, Announce, Update, regVars, objVars, inputs, ghosts
  <2>2. /\ pc[Gateway] \in {"idle", "announce"}
        /\ pc'[Gateway] \in {"lookup", "merge", "tellAll"}
    BY <1>5 DEF Chunk, Announce, Update, Begin, Goto, CallTypes
  <2> QED BY <1>0, <2>1, <2>2, ExpiringFrame DEF CachePending, SnapshotAgrees
<1>6. CASE MemberAdd
  BY <1>6 DEF MemberAdd, vars, regVars, objVars, inputs, locals, ghosts, Expiring, CacheAgrees,
              CachePending, SnapshotAgrees, Agrees, Expired
<1> QED BY <1>1, <1>2, <1>3, <1>4, <1>5, <1>6 DEF GatewayStep

LEMMA SyncExpiring ==
  ASSUME TypeOK, Bindings, Isolated, Expiring, NEW t \in Threads, Sync(t) PROVE Expiring'
<1> USE DEF TypeOK
<1>0. OthersKeep(t) /\ reg' = reg /\ dead' = dead
  BY SyncKeeps DEF Sync, Lookup, Merge, Publish, Record, Tell, FanOutDone, regVars, inputs
<1>1. CASE Lookup(t)
  <2>1. UNCHANGED <<overlapped, data, cache>> /\ pc[t] = "lookup"
        /\ pc'[t] \in {"merge", "snap", "idle"}
    BY <1>1 DEF Lookup, Goto, Finish, End, CallTypes, objVars, ghosts
  <2> QED BY <1>0, <2>1, ExpiringFrame DEF CachePending, SnapshotAgrees
<1>2. CASE Merge(t)
  <2> DEFINE o == obj[t]
             d == Merged(t, data[o])
  <2>1. /\ o \in Objs /\ o # 0 /\ pc'[t] = "publish" /\ obj' = obj
        /\ overlapped' = IF o = reg THEN Overlaps(t, o) ELSE overlapped
        /\ data'[o] = d /\ snap'[t] = Shown(d)
    BY <1>2, ObjectAtWork
       DEF Merge, Goto, CallTypes, ObjectTypes, NoteWrite, BoundPCs, Bindings, Bound
  <2>2. d \in Pretty
    BY <1>2, <2>1, MergedType DEF Merge, Bindings, ObjectTypes
  <2> HIDE DEF d
  <2>3. SUFFICES ASSUME reg # 0, ~overlapped' PROVE Expiring'
    BY <1>0 DEF Expiring
  <2>4. o = reg /\ ~Overlaps(t, reg)
    BY <2>1, <2>3 DEF Isolated, SnapshotsCurrent
  <2>5. snap'[t].ext = d.ext \/ (snap'[t].ext = 0 /\ d.ext # 0 /\ d.ext <= dead)
    <3>1. d.ext \in Nat /\ dead \in Nat BY <2>2, BoundsAssumption DEF Pretty, InputTypes
    <3>2. Shown(d).ext = LiveOnly(d.ext) BY <2>2 DEF Shown, Pretty
    <3> QED BY <2>1, <3>1, <3>2 DEF LiveOnly
  <2>6. Agrees(snap[t].ext)'
    BY <1>0, <2>1, <2>4, <2>5 DEF Agrees, Expired
  <2>7. CachePending(t)' /\ SnapshotAgrees(t)'
    BY <1>0, <2>1, <2>4, <2>6 DEF CachePending, SnapshotAgrees
  <2> QED BY <1>0, <2>3, <2>4, <2>7, LoneReport
<1>3. CASE Publish(t)
  <2>1. /\ UNCHANGED <<overlapped, data>> /\ pc[t] = "publish" /\ pc'[t] \in {"tell", "record"}
        /\ cache' \in Built(t) /\ obj[t] \in Objs /\ obj[t] # 0 /\ snap[t] \in Pretty
    BY <1>3, ObjectAtWork
       DEF Publish, Goto, CallTypes, BoundPCs, Bindings, Bound, objVars, ghosts
  <2>2. ASSUME reg # 0, ~overlapped PROVE Agrees(cache'.ext)
    <3>1. obj[t] = reg BY <2>1, <2>2 DEF Isolated, SnapshotsCurrent
    <3>2. Agrees(snap[t].ext) BY <2>1, <2>2, <3>1 DEF Expiring, SnapshotAgrees
    <3>3. Agrees(Shown(snap[t]).ext) BY <2>1, <2>2, <3>2, AgreesShown
    <3> QED BY <2>1, <3>2, <3>3 DEF Built
  <2> QED BY <1>0, <2>1, <2>2, ExpiringFrame DEF SnapshotAgrees
<1>4. CASE Record(t)
  <2>1. UNCHANGED <<overlapped, data, cache>> /\ pc[t] = "record" /\ pc'[t] = "tell"
    BY <1>4 DEF Record, Goto, CallTypes, ghosts
  <2> QED BY <1>0, <2>1, ExpiringFrame DEF CachePending, SnapshotAgrees
<1>5. CASE Tell(t)
  <2>1. UNCHANGED <<overlapped, data, cache, pc>> /\ pc[t] \in {"tell", "tellAll"}
    BY <1>5 DEF Tell, objVars, ghosts
  <2> QED BY <1>0, <2>1, ExpiringFrame DEF CachePending, SnapshotAgrees
<1>6. CASE FanOutDone(t)
  <2>1. UNCHANGED <<overlapped, data, cache>> /\ pc[t] \in {"tell", "tellAll"}
        /\ pc'[t] \in {"lookup", "snap", "idle"}
    BY <1>6 DEF FanOutDone, AfterFanOut, Goto, Finish, End, CallTypes, objVars, ghosts
  <2> QED BY <1>0, <2>1, ExpiringFrame DEF CachePending, SnapshotAgrees
<1> QED BY <1>1, <1>2, <1>3, <1>4, <1>5, <1>6 DEF Sync

LEMMA BuildExpiring ==
  ASSUME TypeOK, Bindings, Isolated, Expiring, NEW t \in Threads, BuildPretty(t)
  PROVE  Expiring'
<1> USE DEF TypeOK
<1>0. OthersKeep(t) /\ reg' = reg /\ dead' = dead
  BY SyncKeeps DEF BuildPretty, Snap, LoadExt, Keep, Drop, CacheSet, regVars, inputs
<1>1. /\ obj[t] \in Objs /\ obj[t] # 0 /\ snap[t] \in Pretty /\ data[obj[t]] \in Pretty
      /\ dead \in Nat
  BY ObjectAtWork, BoundsAssumption
     DEF BuildPretty, Snap, LoadExt, Keep, Drop, CacheSet, BoundPCs, Bindings, Bound,
         CallTypes, ObjectTypes, InputTypes
<1>2. (reg # 0 /\ ~overlapped) => obj[t] = reg /\ SnapshotAgrees(t)
  BY <1>1 DEF Isolated, SnapshotsCurrent, Expiring
<1>3. CASE Snap(t)
  <2> DEFINE p == Shown(data[obj[t]])
  <2>1. /\ UNCHANGED <<overlapped, data, cache, obj>> /\ pc[t] = "snap" /\ snap'[t] = p
        /\ pc'[t] \in {"load", "cache"} /\ (pc'[t] = "load" => p.ext = 0)
    BY <1>3 DEF Snap, Goto, CallTypes, objVars, ghosts
  <2>2. ASSUME reg # 0, ~overlapped PROVE Agrees(p.ext)
    <3>1. Agrees(data[reg].ext) BY DEF Agrees
    <3> QED BY <1>1, <1>2, <2>2, <3>1, AgreesShown
  <2> HIDE DEF p
  <2>3. (reg # 0 /\ ~overlapped) => SnapshotAgrees(t)'
    BY <1>0, <2>1, <2>2 DEF SnapshotAgrees, Agrees, Expired
  <2> QED BY <1>0, <1>2, <2>1, <2>3, ExpiringFrame DEF CachePending
<1>4. CASE LoadExt(t)
  <2>1. PICK r \in Reads(rext) :
          /\ snap' = [snap EXCEPT ![t] = [@ EXCEPT !.ext = LiveOnly(r)]]
          /\ Goto(t, IF LiveOnly(r) = 0 THEN "drop" ELSE "keep")
    BY <1>4 DEF LoadExt
  <2>2. UNCHANGED <<overlapped, data, cache, obj>> /\ pc[t] = "load"
    BY <1>4 DEF LoadExt, objVars, ghosts
  <2>3. snap'[t].ext = LiveOnly(r) /\ pc'[t] = IF LiveOnly(r) = 0 THEN "drop" ELSE "keep"
    BY <1>1, <2>1 DEF Goto, CallTypes, Pretty
  <2>4. (reg # 0 /\ ~overlapped) => SnapshotAgrees(t)'
    BY <1>0, <1>2, <2>2, <2>3 DEF SnapshotAgrees, Agrees, Expired
  <2> QED BY <1>0, <1>2, <2>2, <2>3, <2>4, ExpiringFrame DEF CachePending
<1>5. ASSUME NEW e, pc'[t] = "cache", obj' = obj, snap' = snap, snap[t].ext = e,
             data' = [data EXCEPT ![obj[t]] = [@ EXCEPT !.ext = e]],
             NoteMinorWrite(t, obj[t])
      PROVE  Expiring'
  <2>1. SUFFICES ASSUME reg # 0, ~overlapped' PROVE Expiring'
    BY <1>0 DEF Expiring
  <2>2. obj[t] = reg /\ ~Overlaps(t, reg)
    <3>1. ~overlapped BY <1>5, <2>1 DEF NoteMinorWrite
    <3>2. obj[t] = reg BY <1>2, <2>1, <3>1
    <3> QED BY <1>5, <2>1, <3>2 DEF NoteMinorWrite
  <2>3. data'[reg].ext = e BY <1>1, <1>5, <2>2 DEF ObjectTypes, Pretty
  <2>4. CachePending(t)' /\ SnapshotAgrees(t)'
    BY <1>0, <1>5, <2>2, <2>3 DEF CachePending, SnapshotAgrees, Agrees
  <2> QED BY <1>0, <2>1, <2>2, <2>4, LoneReport
<1>6. CASE Keep(t)
  <2>1. obj' = obj /\ snap' = snap /\ cache' = cache /\ pc'[t] = "cache" /\ pc[t] = "keep"
    BY <1>6 DEF Keep, Goto, CallTypes, locals
  <2>2. CASE data[obj[t]].ext = snap[t].ext
    <3>1. UNCHANGED <<data, overlapped>> BY <1>6, <2>2 DEF Keep
    <3>2. (reg # 0 /\ ~overlapped) => SnapshotAgrees(t)'
      BY <1>0, <1>2, <2>1, <2>2, <3>1 DEF SnapshotAgrees, Agrees
    <3> QED BY <1>0, <2>1, <3>1, <3>2, ExpiringFrame DEF CachePending
  <2>3. CASE data[obj[t]].ext # snap[t].ext
    <3>1. data' = [data EXCEPT ![obj[t]] = [@ EXCEPT !.ext = snap[t].ext]]
          /\ NoteMinorWrite(t, obj[t])
      BY <1>6, <2>3 DEF Keep
    <3> QED BY <1>5, <2>1, <3>1
  <2> QED BY <2>2, <2>3
<1>7. CASE Drop(t)
  <2>1. obj' = obj /\ snap' = snap /\ cache' = cache /\ pc'[t] = "cache" /\ pc[t] = "drop"
    BY <1>7 DEF Drop, Goto, CallTypes, locals
  <2>2. CASE UNCHANGED <<data, overlapped>>
    <3>1. (reg # 0 /\ ~overlapped) => SnapshotAgrees(t)'
      BY <1>0, <1>2, <2>1, <2>2 DEF SnapshotAgrees, Agrees, Expired
    <3> QED BY <1>0, <2>1, <2>2, <3>1, ExpiringFrame DEF CachePending
  <2>3. CASE /\ data' = [data EXCEPT ![obj[t]] = [@ EXCEPT !.ext = 0]]
             /\ NoteMinorWrite(t, obj[t])
    <3>1. SUFFICES ASSUME reg # 0, ~overlapped' PROVE Expiring'
      BY <1>0 DEF Expiring
    <3>2. ~overlapped BY <2>3, <3>1 DEF NoteMinorWrite
    <3>3. snap[t].ext = 0 BY <1>2, <2>1, <3>1, <3>2 DEF SnapshotAgrees
    <3> QED BY <1>5, <2>1, <2>3, <3>3
  <2> QED BY <1>7, <2>2, <2>3 DEF Drop
<1>8. CASE CacheSet(t)
  <2>1. /\ UNCHANGED <<overlapped, data>> /\ pc[t] = "cache"
        /\ pc'[t] \in {"announce", "add", "idle"} /\ cache' \in Built(t)
    BY <1>8 DEF CacheSet, Finish, End, Goto, CallTypes, objVars, ghosts
  <2>2. ASSUME reg # 0, ~overlapped PROVE Agrees(cache'.ext)
    <3>1. Agrees(snap[t].ext) BY <1>2, <2>1, <2>2 DEF SnapshotAgrees
    <3>2. Agrees(Shown(snap[t]).ext) BY <1>1, <2>2, <3>1, AgreesShown
    <3> QED BY <2>1, <3>1, <3>2 DEF Built
  <2> QED BY <1>0, <2>1, <2>2, ExpiringFrame DEF SnapshotAgrees
<1> QED BY <1>3, <1>4, <1>6, <1>7, <1>8 DEF BuildPretty

LEMMA OthersExpiring ==
  ASSUME TypeOK, Bindings, Isolated, Expiring,
         \/ \E t \in Workers : WorkerStep(t)
         \/ \E c \in Clients : ClientStep(c)
         \/ \E f \in Fetchers : FetchFails(f) \/ Fetched(f)
  PROVE  Expiring'
<1> USE ThreadKinds DEF TypeOK
<1>1. ASSUME NEW t \in Workers, WorkerStep(t) PROVE Expiring'
  <2>1. UNCHANGED <<reg, dead, overlapped, data, cache>>
    BY <1>1 DEF WorkerStep, Get, Stats, EnsureBanner, CheckStale, CacheGet, WriteKV, SetExternalMusic,
                ClearExternalMusic, Persist, Finish, End, regVars, objVars, inputs, locals, ghosts
  <2>2. CASE EnsureBanner(t)
    <3>1. \A u \in Threads : pc'[u] \in {"stale", "fetch"} \/ (pc'[u] = pc[u] /\ obj'[u] = obj[u])
      BY <2>2, ThreadsAssumption DEF EnsureBanner, Spawn, Goto, CallTypes
    <3>2. \A u \in Threads : CachePending(u) => CachePending(u)'
      <4>1. \A u \in Threads : pc[u] \in {"ensure", "idle"} \/ (pc'[u] = pc[u] /\ obj'[u] = obj[u])
        BY <2>2, ThreadsAssumption DEF EnsureBanner, Spawn, Goto, CallTypes
      <4> QED BY <2>1, <4>1 DEF CachePending
    <3>3. snap' = snap BY <2>2 DEF EnsureBanner
    <3> QED
      BY <2>1, <3>1, <3>2, <3>3 DEF Expiring, CacheAgrees, SnapshotAgrees, Agrees, Expired
  <2>3. CASE ~EnsureBanner(t)
    <3>1. OthersKeep(t) BY <1>1, <2>3, WorkerKeeps
    <3>2. /\ pc[t] \in {"idle", "stale", "hit", "persist"}
          /\ pc'[t] \in {"ensure", "snap", "hit", "idle", "persist", "lookup"}
          /\ pc[t] = "hit" => obj'[t] = obj[t] \/ pc'[t] = "idle"
      BY <1>1, <2>3
         DEF WorkerStep, Get, Stats, CheckStale, CacheGet, WriteKV, SetExternalMusic,
             ClearExternalMusic, Persist, Begin, Finish, End, Goto, CallTypes, locals
    <3> QED BY <2>1, <3>1, <3>2, ExpiringFrame DEF CachePending, SnapshotAgrees
  <2> QED BY <2>2, <2>3
<1>2. ASSUME NEW c \in Clients, ClientStep(c) PROVE Expiring'
  <2>1. OthersKeep(c) /\ UNCHANGED <<reg, dead, overlapped, data, cache>>
    BY <1>2, ClientKeeps
       DEF ClientStep, Subscribe, SubscribeAll, ReadIDs, FindID, AddSubscriber, InitState,
           Unsubscribe, RemoveSubscriber, Close, RemoveGlobal, UnsubscribeTracked, regVars, objVars,
           inputs, ghosts
  <2>2. /\ pc[c] \in {"idle", "ids", "find", "add", "initState", "remove", "unglobal", "unfind"}
        /\ pc'[c] \notin {"load", "drop", "cache", "publish"}
    BY <1>2 DEF ClientStep, Subscribe, SubscribeAll, ReadIDs, FindID, AddSubscriber, InitState,
           Unsubscribe, RemoveSubscriber, Close, RemoveGlobal, UnsubscribeTracked, Begin, Goto,
           Finish, End, CallTypes
  <2> QED BY <2>1, <2>2, ExpiringFrame DEF CachePending, SnapshotAgrees
<1>3. ASSUME NEW f \in Fetchers, FetchFails(f) PROVE Expiring'
  <2>1. /\ OthersKeep(f) /\ UNCHANGED <<reg, dead, overlapped, data, cache>>
        /\ pc[f] = "fetch" /\ pc'[f] = "idle"
    BY <1>3, FetcherKeeps
       DEF FetchFails, Finish, End, Goto, CallTypes, regVars, objVars, inputs, ghosts
  <2> QED BY <2>1, ExpiringFrame DEF CachePending, SnapshotAgrees
<1>4. ASSUME NEW f \in Fetchers, Fetched(f) PROVE Expiring'
  <2> DEFINE o == obj[f]
             d == [data[o] EXCEPT !.banner = TRUE]
  <2>1. /\ OthersKeep(f) /\ reg' = reg /\ dead' = dead /\ obj' = obj
        /\ o \in Objs /\ o # 0 /\ pc'[f] = "publish" /\ NoteMinorWrite(f, o)
        /\ data'[o] = d /\ snap'[f] = Shown(d)
    BY <1>4, FetcherKeeps, ObjectAtWork
       DEF Fetched, Goto, CallTypes, ObjectTypes, BoundPCs, Bindings, Bound, regVars, inputs
  <2>2. d \in Pretty BY <2>1 DEF ObjectTypes, Pretty
  <2> HIDE DEF d
  <2>3. SUFFICES ASSUME reg # 0, ~overlapped' PROVE Expiring'
    BY <2>1 DEF Expiring
  <2>4. o = reg /\ ~Overlaps(f, reg)
    <3>1. ~overlapped BY <2>1, <2>3 DEF NoteMinorWrite
    <3>2. o = reg BY <2>1, <2>3, <3>1 DEF Isolated, SnapshotsCurrent
    <3> QED BY <2>1, <2>3, <3>2 DEF NoteMinorWrite
  <2>5. snap'[f].ext = d.ext \/ (snap'[f].ext = 0 /\ d.ext # 0 /\ d.ext <= dead)
    <3>1. d.ext \in Nat /\ dead \in Nat BY <2>2, BoundsAssumption DEF Pretty, InputTypes
    <3>2. Shown(d).ext = LiveOnly(d.ext) BY <2>2 DEF Shown, Pretty
    <3> QED BY <2>1, <3>1, <3>2 DEF LiveOnly
  <2>6. Agrees(snap[f].ext)' BY <2>1, <2>4, <2>5 DEF Agrees, Expired
  <2>7. CachePending(f)' /\ SnapshotAgrees(f)'
    BY <2>1, <2>4, <2>6 DEF CachePending, SnapshotAgrees
  <2> QED BY <2>1, <2>3, <2>4, <2>7, LoneReport
<1> QED BY <1>1, <1>2, <1>3, <1>4

\* With nothing under way, an expired report in the cache is one the next
\* GetPrettyPresence notices, and a live one is the object's: unless the last
\* write of the presence overlapped another publication.
THEOREM ExpiryIsNoticed == Spec => []ExpiryNoticed
<1>1. Init => Isolated /\ Expiring
  BY DEF Init, Isolated, Expiring
<1>2. (TypeOK /\ Bindings) /\ (Tracking /\ Globals) /\ (Isolated /\ Expiring) /\ [Next]_vars
        => (Isolated /\ Expiring)'
  <2> SUFFICES ASSUME TypeOK, Bindings, Tracking, Isolated, Expiring, [Next]_vars
               PROVE  Isolated' /\ Expiring'
    OBVIOUS
  <2>1. CASE Expire
    <3>1. UNCHANGED <<reg, data, marker, subs, cache, pc, op, obj, own, snap, to, view, closed,
                      overlapped>>
      BY <2>1 DEF Expire, regVars, objVars, locals, sockets, ghosts
    <3>2. reg # 0 => \A e : Agrees(e) => Agrees(e)'
      <4>1. dead' = dead + 1 /\ dead \in Nat
        BY <2>1, BoundsAssumption DEF Expire, TypeOK, InputTypes
      <4>2. reg # 0 => data[reg].ext \in Nat
        BY BoundsAssumption DEF TypeOK, ObjectTypes, Objs, Pretty
      <4> QED BY <3>1, <4>1, <4>2 DEF Agrees, Expired
    <3> QED BY <3>1, <3>2, IsolatedUnchanged DEF Expiring, CacheAgrees, SnapshotAgrees, CachePending
  <2>2. CASE UNCHANGED vars
    BY <2>2, IsolatedUnchanged
       DEF vars, regVars, objVars, inputs, locals, sockets, ghosts, Expiring, CacheAgrees,
           SnapshotAgrees, CachePending, Agrees, Expired
  <2>3. CASE Next /\ ~Expire
    <3>1. Isolated'
      BY <2>3, GatewayIsolated, SyncIsolated, BuildIsolated, WorkerIsolated, ClientIsolated,
         FetcherIsolated DEF Next
    <3>2. Expiring'
      BY <2>3, GatewayExpiring, SyncExpiring, BuildExpiring, OthersExpiring DEF Next
    <3> QED BY <3>1, <3>2
  <2> QED BY <2>1, <2>2, <2>3
<1>3. (TypeOK /\ Bindings) /\ (Isolated /\ Expiring) => ExpiryNoticed
  <2> SUFFICES ASSUME TypeOK, Bindings, Expiring, reg # 0, Quiet, ~overlapped
               PROVE  Agrees(cache.ext)
    BY DEF ExpiryNoticed, Agrees
  <2>1. \A t \in Threads : pc[t] \notin Publishing /\ pc[t] # "snap" /\ pc[t] # "init"
    BY DEF Quiet, Bindings, Bound
  <2> QED BY <2>1 DEF Expiring, CacheAgrees, CachePending, Publishing
<1> QED BY <1>1, <1>2, <1>3, TypesAndBindings, Subscriptions, PTL DEF Spec
=============================================================================
