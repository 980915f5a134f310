------------------------------ MODULE GlobalSync ------------------------------
(***************************************************************************)
(* One user's KV map on several nodes.  Redis holds the map; every node that *)
(* monitors the user holds a copy, which is what its clients are shown.  A   *)
(* write changes Redis, then the copy of its own node (Registry.Sync), and   *)
(* then publishes the whole changed copy on zruvix:global_sync; the other    *)
(* nodes replace theirs by it.                                               *)
(*                                                                           *)
(* Redis pub/sub delivers to the nodes that are connected at that moment, in *)
(* one order, and keeps nothing.  Connections break, processes end, and a    *)
(* node starts or stops monitoring the user when its gateway says so.        *)
(*                                                                           *)
(* A map is the set of the writes it shows: write number i adds the pair i,  *)
(* unless it deletes a pair or all of them.                                  *)
(* Overlapping requests of one node are the subject of KV; here they, and    *)
(* overlapping writes of two nodes, only end what the invariant promises.    *)
(***************************************************************************)
EXTENDS Naturals, Sequences, FiniteSets

CONSTANTS Nodes, Workers,
          MaxWrites,   \* bound: writes started
          MaxFaults    \* bound: crashes and lost connections

ASSUME GlobalSyncAssumption ==
  MaxWrites \in Nat /\ MaxFaults \in Nat /\ IsFiniteSet(Workers)

VARIABLES
  store,      \* zruvix_kv:<user>
  reg,        \* of each node: "down", "none", "loading" or "loaded"
  view,       \* Presence.KV of each node
  connected,  \* the subscription of each node is established
  inbox,      \* the messages on their way to each node
  writes, faults,
  pc, op,     \* of each goroutine: where it is, in which operation
  node, id,   \* on which node, with which write
  copy,       \* the map it syncs
  published,  \* ghost: messages published
  stale,      \* ghost: the copy of a node misses a write, or comes from one that did
  tainted,    \* ghost: the copy of a goroutine is taken from a stale node
  overlapped  \* ghost: writes have overlapped, or one has overlapped its node's start

nodeVars == <<reg, view, connected>>
locals == <<op, node, id, copy, tainted>>
vars == <<store, nodeVars, inbox, writes, faults, pc, locals, published, stale, overlapped>>

NoNode == "none"
Active == {w \in Workers : pc[w] # "idle"}
Monitors(n) == reg[n] \in {"loading", "loaded"}
Foreign(n) == {i \in DOMAIN inbox[n] : inbox[n][i].from # n}

Init ==
  /\ store = {} /\ writes = 0 /\ faults = 0 /\ published = 0 /\ overlapped = FALSE
  /\ reg = [n \in Nodes |-> "down"] /\ view = [n \in Nodes |-> {}]
  /\ connected = [n \in Nodes |-> FALSE] /\ inbox = [n \in Nodes |-> <<>>]
  /\ pc = [w \in Workers |-> "idle"] /\ op = [w \in Workers |-> "none"]
  /\ node = [w \in Workers |-> NoNode] /\ id = [w \in Workers |-> 0]
  /\ copy = [w \in Workers |-> {}] /\ tainted = [w \in Workers |-> FALSE]
  /\ stale = [n \in Nodes |-> FALSE]

Goto(w, l) == pc' = [pc EXCEPT ![w] = l]

Finish(w) ==
  /\ Goto(w, "idle")
  /\ op' = [op EXCEPT ![w] = "none"] /\ node' = [node EXCEPT ![w] = NoNode]
  /\ id' = [id EXCEPT ![w] = 0] /\ copy' = [copy EXCEPT ![w] = {}]
  /\ tainted' = [tainted EXCEPT ![w] = FALSE]

Taint(q) == [i \in DOMAIN q |-> [q[i] EXCEPT !.tainted = TRUE]]

\* A write that nobody will be told of: the copies that exist are stale, and so
\* are those on their way.
Unannounced ==
  /\ stale' = [n \in Nodes |-> stale[n] \/ reg[n] = "loaded"]
  /\ inbox' = [n \in Nodes |-> Taint(inbox[n])]

\* A message that the nodes ns miss.
Missed(ns) == stale' = [n \in Nodes |-> stale[n] \/ (n \in ns /\ reg[n] = "loaded")]

-----------------------------------------------------------------------------
(* A write: kv.Set, Multiset, Del or Clear on node n. *)

\* Set reads the copy first, Multiset and Del write first, Clear needs no copy.
Begin(w, n) ==
  /\ pc[w] = "idle" /\ reg[n] # "down" /\ writes < MaxWrites /\ writes' = writes + 1
  /\ \E o \in {"set", "multi", "del", "clear"}, i \in 1 .. writes + 1 :
       /\ o # "del" => i = writes + 1
       /\ op' = [op EXCEPT ![w] = o] /\ Goto(w, IF o = "set" THEN "copy" ELSE "persist")
       /\ id' = [id EXCEPT ![w] = i]
  /\ node' = [node EXCEPT ![w] = n]
  /\ overlapped' = (overlapped \/ Active # {} \/ Foreign(n) # {} \/ reg[n] = "loading")
  /\ UNCHANGED <<store, nodeVars, inbox, faults, copy, tainted, published, stale>>

\* The map m with the change of w.
Changed(w, m) == IF op[w] = "del" THEN m \ {id[w]} ELSE m \cup {id[w]}

\* GetAll.  It fails for a user this node does not monitor: Set has done nothing
\* by then, the others have written to Redis and tell nobody.  Set is also refused
\* at the limit, and for a pair that is not valid.
Copy(w) ==
  LET n == node[w] IN
  /\ pc[w] = "copy"
  /\ \/ op[w] = "set" /\ Finish(w) /\ UNCHANGED <<stale, inbox>>
     \/ op[w] # "set" /\ ~Monitors(n) /\ Finish(w) /\ Unannounced
     \/ /\ Monitors(n)
        /\ copy' = [copy EXCEPT ![w] = Changed(w, view[n])]
        /\ tainted' = [tainted EXCEPT ![w] = stale[n]]
        /\ Goto(w, IF op[w] = "set" THEN "persist" ELSE "sync")
        /\ UNCHANGED <<op, node, id, stale, inbox>>
  /\ UNCHANGED <<store, nodeVars, writes, faults, published, overlapped>>

\* HSET, HDEL or DEL.
Persist(w) ==
  /\ pc[w] = "persist"
  /\ store' = IF op[w] = "clear" THEN {} ELSE Changed(w, store)
  /\ Goto(w, IF op[w] \in {"multi", "del"} THEN "copy" ELSE "sync")
  /\ UNCHANGED <<nodeVars, inbox, writes, faults, locals, published, stale, overlapped>>

\* Sync applies the map to this node, or returns when the user is not monitored.
Sync(w) ==
  LET n == node[w] IN
  /\ pc[w] = "sync"
  /\ \/ /\ ~Monitors(n) /\ Finish(w) /\ Unannounced /\ UNCHANGED view
     \/ /\ Monitors(n)
        /\ view' = [view EXCEPT ![n] = copy[w]]
        /\ stale' = [stale EXCEPT ![n] = tainted[w]]
        /\ Goto(w, "publish") /\ UNCHANGED <<locals, inbox>>
  /\ UNCHANGED <<store, reg, connected, writes, faults, published, overlapped>>

Diff(w) == [from |-> node[w], map |-> copy[w], tainted |-> tainted[w]]

\* Mutant: a change of KV is applied like one that came from another node.
PublishNothing(w) ==
  /\ pc[w] = "publish" /\ Finish(w)
  /\ UNCHANGED <<store, nodeVars, inbox, writes, faults, published, stale, overlapped>>

\* PUBLISH: a node that is not connected misses the message.
Publish(w) ==
  /\ pc[w] = "publish"
  /\ inbox' = [n \in Nodes |-> IF connected[n] THEN Append(inbox[n], Diff(w)) ELSE inbox[n]]
  /\ Missed({n \in Nodes \ {node[w]} : ~connected[n]})
  /\ published' = published + 1
  /\ Finish(w)
  /\ UNCHANGED <<store, nodeVars, writes, faults, overlapped>>

-----------------------------------------------------------------------------
(* subscribeGlobalSync and the life of a node. *)

\* Mutant: a diff from another node is published again.
ReceiveAndRepublish(n) ==
  LET m == Head(inbox[n]) IN
  /\ inbox[n] # <<>> /\ published <= MaxWrites
  /\ IF m.from # n /\ Monitors(n)
       THEN /\ view' = [view EXCEPT ![n] = m.map] /\ published' = published + 1
            /\ inbox' = [k \in Nodes |-> IF k = n THEN Tail(inbox[k])
                                         ELSE Append(inbox[k], [m EXCEPT !.from = n])]
       ELSE /\ inbox' = [inbox EXCEPT ![n] = Tail(@)] /\ UNCHANGED <<view, published>>
  /\ UNCHANGED <<store, reg, connected, writes, faults, pc, locals, stale, overlapped>>

\* Mutant: a node does not recognise its own messages.
ReceiveOwnToo(n) ==
  LET m == Head(inbox[n]) IN
  /\ inbox[n] # <<>> /\ inbox' = [inbox EXCEPT ![n] = Tail(@)]
  /\ IF Monitors(n)
       THEN view' = [view EXCEPT ![n] = m.map] /\ stale' = [stale EXCEPT ![n] = m.tainted]
       ELSE UNCHANGED <<view, stale>>
  /\ UNCHANGED <<store, reg, connected, writes, faults, pc, locals, published, overlapped>>

\* The next message: an own one is skipped, another one replaces the copy.
Receive(n) ==
  LET m == Head(inbox[n]) IN
  /\ inbox[n] # <<>>
  /\ inbox' = [inbox EXCEPT ![n] = Tail(@)]
  /\ IF m.from # n /\ Monitors(n)
       THEN /\ view' = [view EXCEPT ![n] = m.map]
            /\ stale' = [stale EXCEPT ![n] = m.tainted]
       ELSE UNCHANGED <<view, stale>>
  /\ UNCHANGED <<store, reg, connected, writes, faults, pc, locals, published, overlapped>>

\* The process starts: the subscription is a goroutine of its own.
Boot(n) ==
  /\ reg[n] = "down" /\ reg' = [reg EXCEPT ![n] = "none"]
  /\ UNCHANGED <<store, view, connected, inbox, writes, faults, pc, locals, published, stale,
                 overlapped>>

Connect(n) ==
  /\ reg[n] # "down" /\ ~connected[n] /\ connected' = [connected EXCEPT ![n] = TRUE]
  /\ UNCHANGED <<store, reg, view, inbox, writes, faults, pc, locals, published, stale,
                 overlapped>>

\* LookupOrStart makes the object visible ...
Register(n) ==
  /\ reg[n] = "none" /\ reg' = [reg EXCEPT ![n] = "loading"]
  /\ overlapped' = (overlapped \/ \E w \in Active : node[w] = n)
  /\ UNCHANGED <<store, view, connected, inbox, writes, faults, pc, locals, published, stale>>

\* ... and then loads it, holding p.mu.
Load(n) ==
  /\ reg[n] = "loading" /\ reg' = [reg EXCEPT ![n] = "loaded"]
  /\ view' = [view EXCEPT ![n] = store] /\ stale' = [stale EXCEPT ![n] = FALSE]
  /\ UNCHANGED <<store, connected, inbox, writes, faults, pc, locals, published, overlapped>>

\* Registry.Stop.
Stop(n) ==
  /\ reg[n] = "loaded" /\ reg' = [reg EXCEPT ![n] = "none"]
  /\ view' = [view EXCEPT ![n] = {}] /\ stale' = [stale EXCEPT ![n] = FALSE]
  /\ UNCHANGED <<store, connected, inbox, writes, faults, pc, locals, published, overlapped>>

\* The connection breaks, with what was on its way.
Disconnect(n) ==
  /\ connected[n] /\ faults < MaxFaults /\ faults' = faults + 1
  /\ connected' = [connected EXCEPT ![n] = FALSE] /\ inbox' = [inbox EXCEPT ![n] = <<>>]
  /\ IF Foreign(n) = {} THEN UNCHANGED stale ELSE Missed({n})
  /\ UNCHANGED <<store, reg, view, writes, pc, locals, published, overlapped>>

\* The process ends: what its goroutines have written to Redis stays unannounced.
Crash(n) ==
  LET victims == {w \in Active : node[w] = n}
      Dead(f, v) == [w \in Workers |-> IF w \in victims THEN v ELSE f[w]]
      silent == \E w \in victims : pc[w] \in {"sync", "publish"}
                                   \/ (op[w] # "set" /\ pc[w] = "copy") IN
  /\ reg[n] # "down" /\ faults < MaxFaults /\ faults' = faults + 1
  /\ reg' = [reg EXCEPT ![n] = "down"] /\ view' = [view EXCEPT ![n] = {}]
  /\ connected' = [connected EXCEPT ![n] = FALSE]
  /\ inbox' = [k \in Nodes |-> IF k = n THEN <<>>
                               ELSE IF silent THEN Taint(inbox[k]) ELSE inbox[k]]
  /\ pc' = Dead(pc, "idle") /\ op' = Dead(op, "none") /\ node' = Dead(node, NoNode)
  /\ id' = Dead(id, 0) /\ copy' = Dead(copy, {}) /\ tainted' = Dead(tainted, FALSE)
  /\ stale' = [k \in Nodes |-> k # n /\ (stale[k] \/ (silent /\ reg[k] = "loaded"))]
  /\ UNCHANGED <<store, writes, published, overlapped>>

-----------------------------------------------------------------------------
Step(w) == Copy(w) \/ Persist(w) \/ Sync(w) \/ Publish(w)

Next ==
  \/ \E w \in Workers : Step(w) \/ \E n \in Nodes : Begin(w, n)
  \/ \E n \in Nodes : \/ Receive(n) \/ Boot(n) \/ Connect(n) \/ Register(n) \/ Load(n)
                      \/ Stop(n) \/ Disconnect(n) \/ Crash(n)

Spec == Init /\ [][Next]_vars

\* Goroutines are scheduled, and a connected node reads its subscription.
Fairness ==
  /\ \A w \in Workers : WF_vars(Step(w))
  /\ \A n \in Nodes : WF_vars(Receive(n))

FairSpec == Spec /\ Fairness

-----------------------------------------------------------------------------
(* Correctness. *)

\* When no write is under way, a node with nothing on its way to it shows what
\* Redis stores, even when it started in the middle of a write: the publication
\* comes after the write to Redis, and the object is visible before its map is
\* read.  Only an overlap of writes ends this, and a message that was lost or
\* never sent; a stale node passes its staleness on with its writes, and is
\* healed by a restart or by a write of a node that is not stale.
ShowsWhatIsStored ==
  \A n \in Nodes :
    (Active = {} /\ reg[n] = "loaded" /\ Foreign(n) = {} /\ ~stale[n] /\ ~overlapped)
      => view[n] = store

\* A write is published at most once: what comes from global_sync is not sent
\* there again, so the nodes do not echo each other for ever.
NoEcho == published + Cardinality({w \in Workers : pc[w] = "publish"}) <= writes

\* Writes and faults end, nodes may go on starting and stopping: for good, every
\* copy that is not stale is the map that Redis stores.
Converges ==
  <>[](\A n \in Nodes : (reg[n] = "loaded" /\ ~stale[n] /\ ~overlapped) => view[n] = store)

=============================================================================
