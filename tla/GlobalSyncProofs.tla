-------------------------- MODULE GlobalSyncProofs --------------------------
(***************************************************************************)
(* GlobalSync, for every set of nodes and goroutines and every number of     *)
(* writes and faults: without overlapping writes every copy that is not      *)
(* stale is, or is about to be replaced by, what Redis stores, and no write  *)
(* is published twice.                                                       *)
(*                                                                           *)
(* The argument follows the only write under way: before it reaches Redis    *)
(* all nodes show the store; from then on its goroutine carries the store,   *)
(* until the publication hands it to the nodes that listen and marks those   *)
(* that do not.                                                              *)
(***************************************************************************)
EXTENDS GlobalSync, TLAPS, FiniteSetTheorems, SequenceTheorems

Msgs == [from : Nodes, map : SUBSET Nat, tainted : BOOLEAN]

Types ==
  /\ store \in SUBSET Nat /\ writes \in 0..MaxWrites /\ faults \in 0..MaxFaults
  /\ reg \in [Nodes -> {"down", "none", "loading", "loaded"}]
  /\ view \in [Nodes -> SUBSET Nat] /\ connected \in [Nodes -> BOOLEAN]
  /\ inbox \in [Nodes -> Seq(Msgs)] /\ stale \in [Nodes -> BOOLEAN]
  /\ pc \in [Workers -> {"idle", "copy", "persist", "sync", "publish"}]
  /\ op \in [Workers -> {"none", "set", "multi", "del", "clear"}]
  /\ node \in [Workers -> Nodes \cup {NoNode}] /\ id \in [Workers -> 0..MaxWrites]
  /\ copy \in [Workers -> SUBSET Nat] /\ tainted \in [Workers -> BOOLEAN]
  /\ published \in Nat /\ overlapped \in BOOLEAN

\* What a program point knows, and who has messages on the way.
Flow ==
  /\ \A w \in Workers :
       /\ pc[w] # "idle" => node[w] \in Nodes /\ op[w] # "none"
       /\ pc[w] = "idle" => copy[w] = {} /\ ~tainted[w]
       /\ pc[w] = "copy" => op[w] \in {"set", "multi", "del"}
       /\ (pc[w] = "persist" /\ op[w] = "clear") => copy[w] = {} /\ ~tainted[w]
  /\ \A n \in Nodes : ~connected[n] => inbox[n] = <<>>

\* The write of w is in Redis and not yet published.
Persisted(w) == pc[w] \in {"sync", "publish"} \/ (op[w] \in {"multi", "del"} /\ pc[w] = "copy")

Newest(n) == inbox[n][Len(inbox[n])]

\* The copy of n is what Redis stores, or the last message on its way to n is.
Shows(n) ==
  IF Foreign(n) = {} THEN (reg[n] = "loaded" /\ ~stale[n]) => view[n] = store
                     ELSE ~Newest(n).tainted => Newest(n).map = store

\* What the goroutine of a write carries through its steps.
Carries(w) ==
  LET n == node[w] IN
  /\ (pc[w] = "persist" /\ op[w] = "set" /\ ~tainted[w]) => copy[w] = Changed(w, store)
  /\ (pc[w] = "copy" /\ op[w] \in {"multi", "del"} /\ reg[n] = "loaded" /\ ~stale[n]) =>
       Changed(w, view[n]) = store
  /\ (pc[w] \in {"sync", "publish"} /\ ~tainted[w]) => copy[w] = store
  /\ (pc[w] = "publish" /\ reg[n] = "loaded" /\ ~stale[n]) => view[n] = store

\* One write at a time, on a node that has read what the others have published.
Alone ==
  /\ \A w, x \in Active : w = x
  /\ \A w \in Active : Foreign(node[w]) = {} /\ reg[node[w]] \in {"none", "loaded"}

\* A node's own messages never come behind another node's.
OwnFirst == \A n \in Nodes : Foreign(n) # {} => Newest(n).from # n

Agree ==
  /\ (\A w \in Workers : ~Persisted(w)) => \A n \in Nodes : Shows(n)
  /\ \A w \in Active : Carries(w)

Promise == ~overlapped => Alone /\ OwnFirst /\ Agree

\* Every publication is of a write, and so is every goroutine that may publish.
Counted == published + Cardinality(Active) <= writes

Inv == Types /\ Flow /\ Promise /\ Counted

-----------------------------------------------------------------------------
(* The messages on their way to a node. *)

LEMMA InboxFacts ==
  ASSUME Types, NEW n \in Nodes
  PROVE  /\ inbox[n] \in Seq(Msgs) /\ Len(inbox[n]) \in Nat
         /\ DOMAIN inbox[n] = 1..Len(inbox[n])
         /\ \A i \in 1..Len(inbox[n]) : inbox[n][i] \in Msgs
         /\ inbox[n] = <<>> => Foreign(n) = {}
<1>1. inbox[n] \in Seq(Msgs) BY DEF Types
<1>2. Len(inbox[n]) \in Nat /\ DOMAIN inbox[n] = 1..Len(inbox[n]) BY <1>1, LenProperties
<1>3. inbox[n] = <<>> => DOMAIN inbox[n] = {} BY <1>2, EmptySeq
<1> QED BY <1>1, <1>2, <1>3, ElementOfSeq DEF Foreign

\* The first message is taken: the newest one stays the newest, or was the first.
LEMMA TakeFirst ==
  ASSUME Types, NEW n \in Nodes, inbox[n] # <<>>, inbox'[n] = Tail(inbox[n])
  PROVE  /\ Tail(inbox[n]) \in Seq(Msgs) /\ Head(inbox[n]) \in Msgs
         /\ Foreign(n) = {} => Foreign(n)' = {} /\ Head(inbox[n]).from = n
         /\ (Foreign(n) # {} /\ Newest(n).from # n) =>
              \/ Foreign(n)' # {} /\ Newest(n)' = Newest(n)
              \/ Foreign(n)' = {} /\ Head(inbox[n]) = Newest(n)
<1> DEFINE q == inbox[n]
           t == Tail(inbox[n])
<1>1. q \in Seq(Msgs) /\ Len(q) \in Nat /\ DOMAIN q = 1..Len(q) BY InboxFacts
<1>2. Len(q) > 0 BY <1>1, EmptySeq
<1>3. /\ Head(q) \in Msgs /\ t \in Seq(Msgs) /\ Len(t) = Len(q) - 1
      /\ \A i \in 1..Len(t) : t[i] = q[i + 1]
  BY <1>1, HeadTailProperties
<1>4. DOMAIN t = 1..Len(t) BY <1>3, LenProperties
<1>5. Head(q) = q[1] BY <1>1
<1>6. Foreign(n)' = {i \in 1..Len(t) : t[i].from # n} BY <1>4 DEF Foreign
<1>7. ASSUME Foreign(n) = {} PROVE Foreign(n)' = {} /\ Head(q).from = n
  <2>1. \A i \in 1..Len(q) : q[i].from = n BY <1>1, <1>7 DEF Foreign
  <2>2. \A i \in 1..Len(t) : i + 1 \in 1..Len(q) BY <1>1, <1>3
  <2> QED BY <1>2, <1>3, <1>5, <1>6, <2>1, <2>2
<1>8. ASSUME Newest(n).from # n
      PROVE  \/ Foreign(n)' # {} /\ Newest(n)' = Newest(n)
             \/ Foreign(n)' = {} /\ Head(q) = Newest(n)
  <2>1. CASE Len(q) = 1
    <3>1. Len(t) = 0 BY <1>3, <2>1
    <3>2. Foreign(n)' = {}
      <4>1. \A i \in 1..0 : FALSE OBVIOUS
      <4> HIDE DEF t
      <4> QED BY <1>6, <3>1, <4>1
    <3>3. Head(q) = Newest(n) BY <1>5, <2>1 DEF Newest
    <3> QED BY <3>2, <3>3
  <2>2. CASE Len(q) > 1
    <3>1. Len(t) \in 1..Len(t) /\ Len(t) + 1 = Len(q) BY <1>1, <1>3, <2>2
    <3>2. t[Len(t)] = q[Len(q)] BY <1>3, <3>1
    <3>3. Newest(n)' = Newest(n) BY <3>2 DEF Newest
    <3>4. Len(t) \in Foreign(n)' BY <1>6, <1>8, <3>1, <3>2 DEF Newest
    <3> QED BY <3>3, <3>4
  <2>3. Len(q) = 1 \/ Len(q) > 1
    <3> HIDE DEF q, t
    <3> QED BY <1>1, <1>2
  <2> QED BY <2>1, <2>2, <2>3
<1> QED BY <1>3, <1>7, <1>8

\* A message is put behind the others.
LEMMA PutLast ==
  ASSUME Types, NEW n \in Nodes, NEW m \in Msgs, inbox'[n] = Append(inbox[n], m)
  PROVE  /\ Append(inbox[n], m) \in Seq(Msgs)
         /\ m.from # n => Foreign(n)' # {} /\ Newest(n)' = m
         /\ (m.from = n /\ Foreign(n) = {}) => Foreign(n)' = {}
<1> DEFINE q == inbox[n]
           t == Append(inbox[n], m)
<1>1. q \in Seq(Msgs) /\ Len(q) \in Nat /\ DOMAIN q = 1..Len(q) BY InboxFacts
<1>2. /\ t \in Seq(Msgs) /\ Len(t) = Len(q) + 1
      /\ \A i \in 1..Len(q) : t[i] = q[i]
  BY <1>1, AppendProperties
<1>3. t[Len(q) + 1] = m BY <1>1, AppendProperties
<1>4. DOMAIN t = 1..Len(t) BY <1>2, LenProperties
<1>5. Foreign(n)' = {i \in 1..Len(t) : t[i].from # n} BY <1>4 DEF Foreign
<1>6. Newest(n)' = m BY <1>2, <1>3 DEF Newest
<1>7. ASSUME m.from # n PROVE Foreign(n)' # {}
  <2>1. Len(q) + 1 \in Foreign(n)' BY <1>1, <1>2, <1>3, <1>5, <1>7
  <2> QED BY <2>1
<1>8. ASSUME m.from = n, Foreign(n) = {} PROVE Foreign(n)' = {}
  <2>1. \A i \in 1..Len(q) : q[i].from = n BY <1>1, <1>8 DEF Foreign
  <2>2. ASSUME NEW i \in 1..Len(t) PROVE t[i].from = n
    <3>1. CASE i \in 1..Len(q) BY <1>2, <2>1, <3>1
    <3>2. CASE i = Len(q) + 1 BY <1>3, <1>8, <3>2
    <3> QED BY <1>1, <1>2, <3>1, <3>2
  <2> QED BY <1>5, <2>2
<1> QED BY <1>2, <1>6, <1>7, <1>8

\* What is on its way becomes stale.
LEMMA TaintAll ==
  ASSUME Types, NEW n \in Nodes, inbox'[n] = Taint(inbox[n])
  PROVE  /\ Taint(inbox[n]) \in Seq(Msgs) /\ Foreign(n)' = Foreign(n)
         /\ Foreign(n) # {} => Newest(n)'.tainted /\ Newest(n)'.from = Newest(n).from
         /\ inbox[n] = <<>> => Taint(inbox[n]) = <<>>
<1> DEFINE q == inbox[n]
           t == Taint(inbox[n])
<1>1. /\ q \in Seq(Msgs) /\ Len(q) \in Nat /\ DOMAIN q = 1..Len(q)
      /\ \A i \in 1..Len(q) : q[i] \in Msgs
  BY InboxFacts
<1>2. DOMAIN t = 1..Len(q) /\ \A i \in 1..Len(q) : t[i] = [q[i] EXCEPT !.tainted = TRUE]
  BY <1>1 DEF Taint
<1>3. ASSUME NEW i \in 1..Len(q)
      PROVE  t[i] \in Msgs /\ t[i].from = q[i].from /\ t[i].tainted = TRUE
  <2>1. q[i] \in Msgs /\ t[i] = [q[i] EXCEPT !.tainted = TRUE] BY <1>1, <1>2
  <2> QED BY <2>1 DEF Msgs
<1>4. t \in [1..Len(q) -> Msgs] BY <1>1, <1>3 DEF Taint
<1>5. t \in Seq(Msgs) BY <1>1, <1>4, SeqDef
<1>6. Len(t) = Len(q)
  <2>1. Len(t) \in Nat /\ DOMAIN t = 1..Len(t) BY <1>5, LenProperties
  <2> QED BY <1>1, <1>2, <2>1
<1>7. Foreign(n)' = Foreign(n) BY <1>1, <1>2, <1>3 DEF Foreign
<1>8. ASSUME Foreign(n) # {} PROVE Newest(n)'.tainted /\ Newest(n)'.from = Newest(n).from
  <2>1. Len(q) \in 1..Len(q) BY <1>1, <1>8 DEF Foreign
  <2>2. Newest(n)' = t[Len(q)] BY <1>6 DEF Newest
  <2> QED BY <1>3, <2>1, <2>2 DEF Newest
<1>9. q = <<>> => t = <<>> BY <1>5, <1>6, EmptySeq
<1> QED BY <1>5, <1>7, <1>8, <1>9

-----------------------------------------------------------------------------
(* Types and flow. *)

LEMMA FinishType ==
  ASSUME Types, NEW w \in Workers, Finish(w)
  PROVE  /\ pc' \in [Workers -> {"idle", "copy", "persist", "sync", "publish"}]
         /\ op' \in [Workers -> {"none", "set", "multi", "del", "clear"}]
         /\ node' \in [Workers -> Nodes \cup {NoNode}] /\ id' \in [Workers -> 0..MaxWrites]
         /\ copy' \in [Workers -> SUBSET Nat] /\ tainted' \in [Workers -> BOOLEAN]
<1>1. 0 \in 0..MaxWrites BY GlobalSyncAssumption
<1> QED BY <1>1 DEF Types, Finish, Goto

LEMMA UnannouncedType ==
  ASSUME Types, Unannounced
  PROVE  stale' \in [Nodes -> BOOLEAN] /\ inbox' \in [Nodes -> Seq(Msgs)]
<1>1. ASSUME NEW n \in Nodes PROVE Taint(inbox[n]) \in Seq(Msgs)
  <2>1. inbox'[n] = Taint(inbox[n]) BY DEF Unannounced
  <2> QED BY <2>1, TaintAll
<1> QED BY <1>1 DEF Unannounced, Types

LEMMA TypesStep ==
  ASSUME Types, Flow, Next PROVE Types'
<1> USE GlobalSyncAssumption
<1>1. ASSUME NEW w \in Workers, NEW n \in Nodes, Begin(w, n) PROVE Types'
  <2>1. writes + 1 \in 0..MaxWrites BY <1>1 DEF Begin, Types
  <2>2. overlapped' \in BOOLEAN BY <1>1 DEF Begin, Types
  <2>3. PICK o \in {"set", "multi", "del", "clear"}, i \in 1 .. writes + 1 :
          /\ op' = [op EXCEPT ![w] = o] /\ Goto(w, IF o = "set" THEN "copy" ELSE "persist")
          /\ id' = [id EXCEPT ![w] = i]
    BY <1>1 DEF Begin
  <2>4. i \in 0..MaxWrites BY <2>1, <2>3 DEF Types
  <2> QED BY <1>1, <2>1, <2>2, <2>3, <2>4 DEF Begin, Types, Goto, nodeVars
<1>2. ASSUME NEW w \in Workers, Copy(w) PROVE Types'
  <2>1. node[w] \in Nodes BY <1>2 DEF Copy, Flow
  <2>2. CASE Finish(w)
    <3>1. stale' \in [Nodes -> BOOLEAN] /\ inbox' \in [Nodes -> Seq(Msgs)]
      <4>1. Unannounced \/ UNCHANGED <<stale, inbox>> BY <1>2, <2>1 DEF Copy
      <4> QED BY <4>1, UnannouncedType DEF Types
    <3> QED BY <1>2, <2>2, <3>1, FinishType DEF Copy, Types, nodeVars
  <2>3. CASE ~Finish(w)
    <3>1. Changed(w, view[node[w]]) \in SUBSET Nat
      <4>1. id[w] \in Nat /\ view[node[w]] \in SUBSET Nat BY <2>1 DEF Types
      <4> QED BY <4>1 DEF Changed
    <3>2. stale[node[w]] \in BOOLEAN BY <2>1 DEF Types
    <3>3. /\ copy' = [copy EXCEPT ![w] = Changed(w, view[node[w]])]
          /\ tainted' = [tainted EXCEPT ![w] = stale[node[w]]]
          /\ Goto(w, IF op[w] = "set" THEN "persist" ELSE "sync")
          /\ UNCHANGED <<op, node, id, stale, inbox>>
          /\ UNCHANGED <<store, nodeVars, writes, faults, published, overlapped>>
      BY <1>2, <2>3 DEF Copy
    <3>4. copy' \in [Workers -> SUBSET Nat] /\ tainted' \in [Workers -> BOOLEAN]
      BY <3>1, <3>2, <3>3 DEF Types
    <3>5. pc' \in [Workers -> {"idle", "copy", "persist", "sync", "publish"}]
      BY <3>3 DEF Types, Goto
    <3> QED BY <3>3, <3>4, <3>5 DEF Types, nodeVars
  <2> QED BY <2>2, <2>3
<1>3. ASSUME NEW w \in Workers, Persist(w) PROVE Types'
  <2>1. id[w] \in Nat BY DEF Types
  <2>2. store' \in SUBSET Nat BY <1>3, <2>1 DEF Persist, Types, Changed
  <2> QED BY <1>3, <2>2 DEF Persist, Types, Goto, nodeVars, locals
<1>4. ASSUME NEW w \in Workers, Sync(w) PROVE Types'
  <2>1. CASE Finish(w) /\ Unannounced /\ UNCHANGED view
    BY <1>4, <2>1, FinishType, UnannouncedType DEF Sync, Types
  <2>2. CASE ~(Finish(w) /\ Unannounced /\ UNCHANGED view)
    <3>1. /\ view' = [view EXCEPT ![node[w]] = copy[w]]
          /\ stale' = [stale EXCEPT ![node[w]] = tainted[w]]
          /\ Goto(w, "publish") /\ UNCHANGED <<locals, inbox>>
          /\ UNCHANGED <<store, reg, connected, writes, faults, published, overlapped>>
      BY <1>4, <2>2 DEF Sync
    <3>2. view' \in [Nodes -> SUBSET Nat] /\ stale' \in [Nodes -> BOOLEAN]
      BY <3>1 DEF Types
    <3> QED BY <3>1, <3>2 DEF Types, Goto, locals
  <2> QED BY <2>1, <2>2
<1>5. ASSUME NEW w \in Workers, Publish(w) PROVE Types'
  <2>1. node[w] \in Nodes BY <1>5 DEF Publish, Flow
  <2>2. Diff(w) \in Msgs BY <2>1 DEF Diff, Msgs, Types
  <2>3. inbox' \in [Nodes -> Seq(Msgs)]
    <3>1. \A n \in Nodes : Append(inbox[n], Diff(w)) \in Seq(Msgs)
      BY <2>2, AppendProperties DEF Types
    <3> QED BY <1>5, <3>1 DEF Publish, Types
  <2>4. stale' \in [Nodes -> BOOLEAN] BY <1>5 DEF Publish, Missed
  <2> QED BY <1>5, <2>3, <2>4, FinishType DEF Publish, Types, nodeVars
<1>6. ASSUME NEW n \in Nodes, Receive(n) PROVE Types'
  <2>1. Tail(inbox[n]) \in Seq(Msgs) /\ Head(inbox[n]) \in Msgs
    BY <1>6, HeadTailProperties DEF Receive, Types
  <2>2. Head(inbox[n]).map \in SUBSET Nat /\ Head(inbox[n]).tainted \in BOOLEAN
    BY <2>1 DEF Msgs
  <2> QED BY <1>6, <2>1, <2>2 DEF Receive, Types, locals
<1>7. ASSUME NEW n \in Nodes, Boot(n) \/ Connect(n) PROVE Types'
  BY <1>7 DEF Boot, Connect, Types, locals
<1>8. ASSUME NEW n \in Nodes, Register(n) PROVE Types'
  <2>1. overlapped' \in BOOLEAN BY <1>8 DEF Register, Types
  <2> QED BY <1>8, <2>1 DEF Register, Types, locals
<1>9. ASSUME NEW n \in Nodes, Load(n) PROVE Types'
  BY <1>9 DEF Load, Types, locals
<1>10. ASSUME NEW n \in Nodes, Stop(n) PROVE Types'
  BY <1>10 DEF Stop, Types, locals
<1>11. ASSUME NEW n \in Nodes, Disconnect(n) PROVE Types'
  <2>1. stale' \in [Nodes -> BOOLEAN] BY <1>11 DEF Disconnect, Missed, Types
  <2>2. inbox' \in [Nodes -> Seq(Msgs)] BY <1>11, EmptySeq DEF Disconnect, Types
  <2> QED BY <1>11, <2>1, <2>2 DEF Disconnect, Types, locals
<1>12. ASSUME NEW n \in Nodes, Crash(n) PROVE Types'
  <2>1. \A k \in Nodes : Taint(inbox[k]) \in Seq(Msgs)
    <3>1. SUFFICES ASSUME NEW k \in Nodes PROVE Taint(inbox[k]) \in Seq(Msgs)
      OBVIOUS
    <3>2. /\ inbox[k] \in Seq(Msgs) /\ DOMAIN inbox[k] = 1..Len(inbox[k])
          /\ Len(inbox[k]) \in Nat /\ \A i \in 1..Len(inbox[k]) : inbox[k][i] \in Msgs
      BY InboxFacts
    <3>3. \A m \in Msgs : [m EXCEPT !.tainted = TRUE] \in Msgs BY DEF Msgs
    <3>4. Taint(inbox[k]) \in [1..Len(inbox[k]) -> Msgs] BY <3>2, <3>3 DEF Taint
    <3> QED BY <3>2, <3>4, SeqDef
  <2>2. <<>> \in Seq(Msgs) BY EmptySeq
  <2>3. inbox' \in [Nodes -> Seq(Msgs)] BY <1>12, <2>1, <2>2 DEF Crash, Types
  <2>4. stale' \in [Nodes -> BOOLEAN] BY <1>12 DEF Crash, Types
  <2>5. /\ pc' \in [Workers -> {"idle", "copy", "persist", "sync", "publish"}]
        /\ op' \in [Workers -> {"none", "set", "multi", "del", "clear"}]
        /\ node' \in [Workers -> Nodes \cup {NoNode}]
    BY <1>12 DEF Crash, Types
  <2>6. /\ id' \in [Workers -> 0..MaxWrites]
        /\ copy' \in [Workers -> SUBSET Nat] /\ tainted' \in [Workers -> BOOLEAN]
    <3>1. 0 \in 0..MaxWrites /\ {} \in SUBSET Nat OBVIOUS
    <3> QED BY <1>12, <3>1 DEF Crash, Types
  <2>7. /\ reg' \in [Nodes -> {"down", "none", "loading", "loaded"}]
        /\ view' \in [Nodes -> SUBSET Nat] /\ connected' \in [Nodes -> BOOLEAN]
        /\ faults' \in 0..MaxFaults /\ UNCHANGED <<store, writes, published, overlapped>>
    BY <1>12 DEF Crash, Types
  <2> QED BY <2>3, <2>4, <2>5, <2>6, <2>7 DEF Types
<1> QED BY <1>1, <1>2, <1>3, <1>4, <1>5, <1>6, <1>7, <1>8, <1>9, <1>10, <1>11, <1>12
        DEF Next, Step

\* A step of w leaves what is local to the others alone.
Others(w) ==
  \A x \in Workers \ {w} :
    /\ pc'[x] = pc[x] /\ op'[x] = op[x] /\ node'[x] = node[x]
    /\ id'[x] = id[x] /\ copy'[x] = copy[x] /\ tainted'[x] = tainted[x]

\* The end of a write.
LEMMA Ended ==
  ASSUME Types, NEW w \in Workers, Finish(w)
  PROVE  /\ pc'[w] = "idle" /\ op'[w] = "none" /\ copy'[w] = {} /\ ~tainted'[w]
         /\ Others(w)
  BY DEF Types, Finish, Goto, Others

\* The steps of a write and of its node, in the form the proofs use.
LEMMA BeginFacts ==
  ASSUME Types, NEW w \in Workers, NEW n \in Nodes, Begin(w, n)
  PROVE  /\ pc[w] = "idle" /\ reg[n] # "down" /\ writes' = writes + 1
         /\ node'[w] = n /\ Others(w)
         /\ copy'[w] = copy[w] /\ tainted'[w] = tainted[w]
         /\ \/ op'[w] = "set" /\ pc'[w] = "copy"
            \/ op'[w] \in {"multi", "del", "clear"} /\ pc'[w] = "persist"
         /\ overlapped' = (overlapped \/ Active # {} \/ Foreign(n) # {} \/ reg[n] = "loading")
         /\ UNCHANGED <<store, nodeVars, inbox, published, stale>>
<1>1. PICK o \in {"set", "multi", "del", "clear"}, i \in 1 .. writes + 1 :
        /\ op' = [op EXCEPT ![w] = o] /\ Goto(w, IF o = "set" THEN "copy" ELSE "persist")
        /\ id' = [id EXCEPT ![w] = i]
  BY DEF Begin
<1>2. /\ pc[w] = "idle" /\ reg[n] # "down" /\ writes' = writes + 1
      /\ node' = [node EXCEPT ![w] = n]
      /\ overlapped' = (overlapped \/ Active # {} \/ Foreign(n) # {} \/ reg[n] = "loading")
      /\ UNCHANGED <<store, nodeVars, inbox, copy, tainted, published, stale>>
  BY DEF Begin
<1>3. node'[w] = n BY <1>2 DEF Types
<1>4. Others(w) BY <1>1, <1>2 DEF Others, Types, Goto
<1>5. \/ op'[w] = "set" /\ pc'[w] = "copy"
      \/ op'[w] \in {"multi", "del", "clear"} /\ pc'[w] = "persist"
  BY <1>1 DEF Types, Goto
<1> QED BY <1>2, <1>3, <1>4, <1>5

LEMMA CopyFacts ==
  ASSUME Types, Flow, NEW w \in Workers, Copy(w)
  PROVE  /\ pc[w] = "copy" /\ node[w] \in Nodes /\ op[w] \in {"set", "multi", "del"} /\ Others(w)
         /\ UNCHANGED <<store, nodeVars, writes, published, overlapped>>
         /\ \/ /\ Finish(w)
               /\ IF op[w] = "set" THEN UNCHANGED <<stale, inbox>> ELSE Unannounced
            \/ /\ Monitors(node[w]) /\ copy'[w] = Changed(w, view[node[w]])
               /\ tainted'[w] = stale[node[w]]
               /\ pc'[w] = IF op[w] = "set" THEN "persist" ELSE "sync"
               /\ op'[w] = op[w] /\ node'[w] = node[w] /\ id'[w] = id[w]
               /\ UNCHANGED <<stale, inbox>>
<1>1. /\ pc[w] = "copy" /\ node[w] \in Nodes /\ op[w] \in {"set", "multi", "del"}
      /\ UNCHANGED <<store, nodeVars, writes, published, overlapped>>
  BY DEF Copy, Flow
<1> DEFINE Ends == Finish(w) /\ IF op[w] = "set" THEN UNCHANGED <<stale, inbox>> ELSE Unannounced
<1>2. CASE Ends BY <1>1, <1>2, Ended
<1>3. CASE ~Ends
  <2>1. /\ Monitors(node[w])
        /\ copy' = [copy EXCEPT ![w] = Changed(w, view[node[w]])]
        /\ tainted' = [tainted EXCEPT ![w] = stale[node[w]]]
        /\ pc' = [pc EXCEPT ![w] = IF op[w] = "set" THEN "persist" ELSE "sync"]
        /\ UNCHANGED <<op, node, id, stale, inbox>>
    BY <1>3 DEF Copy, Goto
  <2>2. Others(w) BY <2>1 DEF Others, Types
  <2> QED BY <1>1, <1>3, <2>1, <2>2 DEF Types
<1> QED BY <1>2, <1>3

LEMMA PersistFacts ==
  ASSUME Types, NEW w \in Workers, Persist(w)
  PROVE  /\ pc[w] = "persist" /\ Others(w)
         /\ pc'[w] = IF op[w] \in {"multi", "del"} THEN "copy" ELSE "sync"
         /\ store' = IF op[w] = "clear" THEN {} ELSE Changed(w, store)
         /\ UNCHANGED <<nodeVars, inbox, writes, locals, published, stale, overlapped>>
  BY DEF Persist, Goto, Others, Types, locals

LEMMA SyncFacts ==
  ASSUME Types, Flow, NEW w \in Workers, Sync(w)
  PROVE  /\ pc[w] = "sync" /\ node[w] \in Nodes /\ Others(w)
         /\ UNCHANGED <<store, reg, connected, writes, published, overlapped>>
         /\ \/ ~Monitors(node[w]) /\ Finish(w) /\ Unannounced /\ UNCHANGED view
            \/ /\ Monitors(node[w]) /\ pc'[w] = "publish" /\ UNCHANGED <<locals, inbox>>
               /\ view' = [view EXCEPT ![node[w]] = copy[w]]
               /\ stale' = [stale EXCEPT ![node[w]] = tainted[w]]
<1>1. /\ pc[w] = "sync" /\ node[w] \in Nodes
      /\ UNCHANGED <<store, reg, connected, writes, published, overlapped>>
  BY DEF Sync, Flow
<1>2. CASE ~Monitors(node[w]) BY <1>1, <1>2, Ended DEF Sync
<1>3. CASE Monitors(node[w])
  <2>1. /\ view' = [view EXCEPT ![node[w]] = copy[w]]
        /\ stale' = [stale EXCEPT ![node[w]] = tainted[w]]
        /\ pc' = [pc EXCEPT ![w] = "publish"] /\ UNCHANGED <<locals, inbox>>
    BY <1>3 DEF Sync, Goto
  <2>2. Others(w) BY <2>1 DEF Others, Types, locals
  <2> QED BY <1>1, <1>3, <2>1, <2>2 DEF Types
<1> QED BY <1>2, <1>3

LEMMA PublishFacts ==
  ASSUME Types, Flow, NEW w \in Workers, Publish(w)
  PROVE  /\ pc[w] = "publish" /\ node[w] \in Nodes /\ Diff(w) \in Msgs /\ Finish(w) /\ Others(w)
         /\ \A n \in Nodes :
              /\ inbox'[n] = IF connected[n] THEN Append(inbox[n], Diff(w)) ELSE inbox[n]
              /\ stale'[n] = (stale[n] \/ (n # node[w] /\ ~connected[n] /\ reg[n] = "loaded"))
         /\ published' = published + 1
         /\ UNCHANGED <<store, nodeVars, writes, overlapped>>
<1>1. pc[w] = "publish" /\ node[w] \in Nodes /\ Finish(w) /\ Others(w)
  BY Ended DEF Publish, Flow
<1>2. Diff(w) \in Msgs BY <1>1 DEF Diff, Msgs, Types
<1>3. \A n \in Nodes :
        /\ inbox'[n] = IF connected[n] THEN Append(inbox[n], Diff(w)) ELSE inbox[n]
        /\ stale'[n] = (stale[n] \/ (n # node[w] /\ ~connected[n] /\ reg[n] = "loaded"))
  BY DEF Publish, Missed
<1> QED BY <1>1, <1>2, <1>3 DEF Publish

\* The process of n ends, with the writes that run on it.
LEMMA CrashFacts ==
  ASSUME Types, Flow, NEW n \in Nodes, Crash(n)
  PROVE  /\ \A w \in Workers :
              \/ /\ pc[w] # "idle" /\ node[w] = n
                 /\ pc'[w] = "idle" /\ copy'[w] = {} /\ ~tainted'[w]
              \/ /\ pc[w] = "idle" \/ node[w] # n
                 /\ pc'[w] = pc[w] /\ op'[w] = op[w] /\ node'[w] = node[w]
                 /\ id'[w] = id[w] /\ copy'[w] = copy[w] /\ tainted'[w] = tainted[w]
         /\ reg[n] # "down" /\ reg'[n] = "down" /\ inbox'[n] = <<>>
         /\ \A k \in Nodes \ {n} :
              /\ reg'[k] = reg[k] /\ view'[k] = view[k] /\ connected'[k] = connected[k]
              /\ IF \E w \in Active : node[w] = n /\ Persisted(w)
                 THEN inbox'[k] = Taint(inbox[k]) /\ stale'[k] = (stale[k] \/ reg[k] = "loaded")
                 ELSE inbox'[k] = inbox[k] /\ stale'[k] = stale[k]
         /\ UNCHANGED <<store, writes, published, overlapped>>
<1>1. /\ reg' = [reg EXCEPT ![n] = "down"] /\ view' = [view EXCEPT ![n] = {}]
      /\ connected' = [connected EXCEPT ![n] = FALSE] /\ reg[n] # "down"
      /\ UNCHANGED <<store, writes, published, overlapped>>
  BY DEF Crash
<1>2. \A w \in Workers :
        IF pc[w] # "idle" /\ node[w] = n
        THEN pc'[w] = "idle" /\ copy'[w] = {} /\ ~tainted'[w]
        ELSE /\ pc'[w] = pc[w] /\ op'[w] = op[w] /\ node'[w] = node[w]
             /\ id'[w] = id[w] /\ copy'[w] = copy[w] /\ tainted'[w] = tainted[w]
  BY DEF Crash, Active
<1> DEFINE silent == \E w \in Active : node[w] = n /\ Persisted(w)
<1>3. \A w \in Active : pc[w] = "copy" => (op[w] # "set" <=> op[w] \in {"multi", "del"})
  BY DEF Active, Flow
<1>4. \A k \in Nodes : inbox'[k] = IF k = n THEN <<>> ELSE IF silent THEN Taint(inbox[k])
                                   ELSE inbox[k]
  BY <1>3 DEF Crash, Persisted
<1>5. \A k \in Nodes : stale'[k] = (k # n /\ (stale[k] \/ (silent /\ reg[k] = "loaded")))
  BY <1>3 DEF Crash, Persisted
<1>6. \A k \in Nodes \ {n} :
        reg'[k] = reg[k] /\ view'[k] = view[k] /\ connected'[k] = connected[k]
  BY <1>1 DEF Types
<1>7. reg'[n] = "down" BY <1>1 DEF Types
<1>8. inbox'[n] = <<>> BY <1>4
<1>9. ASSUME NEW k \in Nodes \ {n}
      PROVE IF silent THEN inbox'[k] = Taint(inbox[k]) /\ stale'[k] = (stale[k] \/ reg[k] = "loaded")
                      ELSE inbox'[k] = inbox[k] /\ stale'[k] = stale[k]
  <2>1. stale[k] \in BOOLEAN BY DEF Types
  <2> QED BY <1>4, <1>5, <2>1
<1> QED BY <1>1, <1>2, <1>6, <1>7, <1>8, <1>9

\* A node that is not connected has nothing on its way to it.
LEMMA FlowStep ==
  ASSUME Types, Flow, Next PROVE Flow'
<1> DEFINE Point(w) ==
             /\ pc[w] # "idle" => node[w] \in Nodes /\ op[w] # "none"
             /\ pc[w] = "idle" => copy[w] = {} /\ ~tainted[w]
             /\ pc[w] = "copy" => op[w] \in {"set", "multi", "del"}
             /\ (pc[w] = "persist" /\ op[w] = "clear") => copy[w] = {} /\ ~tainted[w]
           Quiet == \A n \in Nodes : ~connected[n] => inbox[n] = <<>>
<1>a. ASSUME NEW w \in Workers, Others(w), Point(w)' PROVE \A x \in Workers : Point(x)'
  BY <1>a DEF Others, Flow
<1>b. ASSUME UNCHANGED <<pc, op, node, copy, tainted>> PROVE \A x \in Workers : Point(x)'
  BY <1>b DEF Flow
<1>c. ASSUME UNCHANGED <<connected, inbox>> PROVE Quiet' BY <1>c DEF Flow
<1>d. ASSUME Unannounced, UNCHANGED connected PROVE Quiet'
  <2>1. ASSUME NEW n \in Nodes, ~connected[n] PROVE inbox'[n] = <<>>
    <3>1. inbox[n] = <<>> /\ inbox'[n] = Taint(inbox[n]) BY <1>d, <2>1 DEF Flow, Unannounced
    <3> QED BY <3>1, TaintAll
  <2> QED BY <1>d, <2>1
<1>1. ASSUME NEW w \in Workers, NEW n \in Nodes, Begin(w, n) PROVE Flow'
  <2>1. Point(w)' BY <1>1, BeginFacts DEF Flow
  <2>2. Quiet' BY <1>1, <1>c, BeginFacts DEF nodeVars
  <2> QED BY <1>1, <2>1, <2>2, <1>a, BeginFacts DEF Flow
<1>2. ASSUME NEW w \in Workers, Copy(w) PROVE Flow'
  <2>1. Point(w)' BY <1>2, CopyFacts, Ended
  <2>2. Quiet' BY <1>2, <1>c, <1>d, CopyFacts DEF nodeVars
  <2> QED BY <1>2, <2>1, <2>2, <1>a, CopyFacts DEF Flow
<1>3. ASSUME NEW w \in Workers, Persist(w) PROVE Flow'
  <2>1. Point(w)' 
    <3>1. op[w] \in {"none", "set", "multi", "del", "clear"} BY DEF Types
    <3> QED BY <1>3, <3>1, PersistFacts DEF locals, Flow
  <2>2. Quiet' BY <1>3, <1>c, PersistFacts DEF nodeVars
  <2> QED BY <1>3, <2>1, <2>2, <1>a, PersistFacts DEF Flow
<1>4. ASSUME NEW w \in Workers, Sync(w) PROVE Flow'
  <2>1. Point(w)' BY <1>4, SyncFacts, Ended DEF locals, Flow
  <2>2. Quiet' BY <1>4, <1>c, <1>d, SyncFacts
  <2> QED BY <1>4, <2>1, <2>2, <1>a, SyncFacts DEF Flow
<1>5. ASSUME NEW w \in Workers, Publish(w) PROVE Flow'
  <2>1. Point(w)' BY <1>5, PublishFacts, Ended
  <2>2. Quiet' BY <1>5, PublishFacts DEF nodeVars, Flow
  <2> QED BY <1>5, <2>1, <2>2, <1>a, PublishFacts DEF Flow
<1>6. ASSUME NEW n \in Nodes, Receive(n) PROVE Flow'
  <2>1. connected[n] BY <1>6 DEF Receive, Flow
  <2>2. Quiet' BY <1>6, <2>1 DEF Receive, Flow, Types
  <2> QED BY <1>6, <1>b, <2>2 DEF Receive, locals, Flow
<1>7. ASSUME NEW n \in Nodes, Boot(n) \/ Register(n) \/ Load(n) \/ Stop(n) PROVE Flow'
  BY <1>7, <1>b, <1>c DEF Boot, Register, Load, Stop, locals, Flow
<1>8. ASSUME NEW n \in Nodes, Connect(n) PROVE Flow'
  <2>1. Quiet' BY <1>8 DEF Connect, Flow, Types
  <2> QED BY <1>8, <1>b, <2>1 DEF Connect, locals, Flow
<1>9. ASSUME NEW n \in Nodes, Disconnect(n) PROVE Flow'
  <2>1. Quiet' BY <1>9 DEF Disconnect, Flow, Types
  <2> QED BY <1>9, <1>b, <2>1 DEF Disconnect, locals, Flow
<1>10. ASSUME NEW n \in Nodes, Crash(n) PROVE Flow'
  <2>1. ASSUME NEW x \in Workers PROVE Point(x)' BY <1>10, CrashFacts DEF Flow
  <2>2. ASSUME NEW k \in Nodes, ~connected'[k] PROVE inbox'[k] = <<>>
    <3>1. CASE k = n BY <1>10, <3>1, CrashFacts
    <3>2. CASE k # n
      <4>1. inbox[k] = <<>> BY <1>10, <2>2, <3>2, CrashFacts DEF Flow
      <4>2. inbox'[k] = inbox[k] \/ inbox'[k] = Taint(inbox[k]) BY <1>10, <3>2, CrashFacts
      <4> QED BY <4>1, <4>2, TaintAll
    <3> QED BY <3>1, <3>2
  <2> QED BY <2>1, <2>2 DEF Flow
<1> QED BY <1>1, <1>2, <1>3, <1>4, <1>5, <1>6, <1>7, <1>8, <1>9, <1>10 DEF Next, Step

-----------------------------------------------------------------------------
(* The promise to the writes that do not overlap. *)

Quiet == Alone /\ OwnFirst /\ Agree

\* What a step leaves alone at a node, and of a goroutine.
LEMMA SameNode ==
  ASSUME NEW n \in Nodes, inbox'[n] = inbox[n]
  PROVE  /\ Foreign(n)' = Foreign(n) /\ Newest(n)' = Newest(n)
         /\ (view'[n] = view[n] /\ stale'[n] = stale[n] /\ reg'[n] = reg[n] /\ store' = store) =>
              (Shows(n) => Shows(n)')
  BY DEF Foreign, Newest, Shows

LEMMA NothingComes ==
  ASSUME NEW n \in Nodes, inbox'[n] = <<>> PROVE Foreign(n)' = {}
<1>1. <<>> \in Seq(Msgs) /\ Len(<<>>) = 0 BY EmptySeq
<1>2. DOMAIN inbox'[n] = {} BY <1>1, LenProperties
<1> QED BY <1>2 DEF Foreign

\* A write that nobody is told of leaves stale copies behind, and nothing else.
LEMMA UnannouncedFacts ==
  ASSUME Types, OwnFirst, Unannounced, reg' = reg
  PROVE  OwnFirst' /\ \A n \in Nodes : Shows(n)' /\ Foreign(n)' = Foreign(n)
<1>1. ASSUME NEW n \in Nodes
      PROVE  /\ Foreign(n)' = Foreign(n) /\ (reg[n] = "loaded" => stale'[n])
             /\ Foreign(n) # {} => Newest(n)'.tainted /\ Newest(n)'.from # n
  <2>1. inbox'[n] = Taint(inbox[n]) /\ (reg[n] = "loaded" => stale'[n]) BY DEF Unannounced
  <2> QED BY <2>1, TaintAll DEF OwnFirst
<1> QED BY <1>1 DEF OwnFirst, Shows

LEMMA BeginKeeps ==
  ASSUME Types, Quiet, NEW w \in Workers, NEW n \in Nodes, Begin(w, n), ~overlapped'
  PROVE  Quiet'
<1>1. Active = {} /\ Foreign(n) = {} /\ reg[n] # "loading" BY BeginFacts
<1>2. reg[n] \in {"none", "loaded"} BY <1>1, BeginFacts DEF Types
<1>3. Active' = {w} BY <1>1, BeginFacts DEF Active, Others
<1>4. \A k \in Nodes : Foreign(k)' = Foreign(k) /\ Newest(k)' = Newest(k)
  BY BeginFacts, SameNode
<1>5. \A k \in Nodes : Shows(k) BY <1>1 DEF Quiet, Agree, Active, Persisted
<1>6. \A k \in Nodes : Shows(k)' BY <1>5, BeginFacts, SameNode DEF nodeVars
<1>7. Alone' BY <1>1, <1>2, <1>3, <1>4, BeginFacts DEF Alone, nodeVars
<1>8. OwnFirst' BY <1>4 DEF Quiet, OwnFirst
<1>9. Carries(w)' BY BeginFacts DEF Carries
<1> QED BY <1>3, <1>6, <1>7, <1>8, <1>9 DEF Quiet, Agree

\* The only write under way.
LEMMA Lonely ==
  ASSUME Types, Quiet, NEW w \in Workers, pc[w] # "idle", node[w] \in Nodes
  PROVE  /\ \A x \in Workers \ {w} : pc[x] = "idle" /\ ~Persisted(x)
         /\ Foreign(node[w]) = {} /\ reg[node[w]] \in {"none", "loaded"} /\ Carries(w)
         /\ Monitors(node[w]) => reg[node[w]] = "loaded"
         /\ ~Persisted(w) => \A n \in Nodes : Shows(n)
         /\ Others(w) => Active' \subseteq {w}
<1>1. \A x \in Workers \ {w} : pc[x] = "idle" BY DEF Quiet, Alone, Active
<1>2. w \in Active BY DEF Active
<1>3. \A x \in Workers \ {w} : ~Persisted(x) BY <1>1 DEF Persisted
<1>4. Others(w) => Active' \subseteq {w} BY <1>1 DEF Others, Active
<1> QED BY <1>1, <1>2, <1>3, <1>4 DEF Quiet, Alone, Agree, Monitors

LEMMA CopyKeeps ==
  ASSUME Types, Flow, Quiet, NEW w \in Workers, Copy(w) PROVE Quiet'
<1> DEFINE n == node[w]
<1>1. /\ pc[w] = "copy" /\ n \in Nodes /\ op[w] \in {"set", "multi", "del"} /\ Others(w)
      /\ UNCHANGED <<store, nodeVars, overlapped>>
  BY CopyFacts
<1>2. /\ Foreign(n) = {} /\ reg[n] \in {"none", "loaded"} /\ Carries(w)
      /\ Active' \subseteq {w}
      /\ Monitors(n) => reg[n] = "loaded"
      /\ op[w] = "set" => \A k \in Nodes : Shows(k)
  BY <1>1, Lonely DEF Persisted
<1>3. ASSUME UNCHANGED <<stale, inbox>>
      PROVE  /\ OwnFirst' /\ \A k \in Nodes : Foreign(k)' = Foreign(k)
             /\ op[w] = "set" => \A k \in Nodes : Shows(k)'
  <2>1. \A k \in Nodes : Foreign(k)' = Foreign(k) /\ Newest(k)' = Newest(k)
    BY <1>3, SameNode
  <2>2. OwnFirst' BY <2>1 DEF Quiet, OwnFirst
  <2> QED BY <1>1, <1>2, <1>3, <2>1, <2>2, SameNode DEF nodeVars
<1>4. ASSUME Finish(w), IF op[w] = "set" THEN UNCHANGED <<stale, inbox>> ELSE Unannounced
      PROVE  Quiet'
  <2>1. /\ Finish(w) /\ (op[w] \in {"multi", "del"} => Unannounced)
        /\ op[w] = "set" => UNCHANGED <<stale, inbox>>
    BY <1>4
  <2>2. Active' = {} BY <1>2, <2>1, Ended DEF Active
  <2>3. Alone' BY <2>2 DEF Alone
  <2>4. OwnFirst' /\ \A k \in Nodes : Shows(k)'
    <3>1. CASE op[w] \in {"multi", "del"} BY <1>1, <2>1, <3>1, UnannouncedFacts DEF Quiet, nodeVars
    <3>2. CASE op[w] = "set" BY <1>3, <2>1, <3>2
    <3> QED BY <1>1, <3>1, <3>2
  <2> QED BY <2>2, <2>3, <2>4 DEF Quiet, Agree
<1>5. ASSUME Monitors(n), copy'[w] = Changed(w, view[n]), tainted'[w] = stale[n],
             pc'[w] = IF op[w] = "set" THEN "persist" ELSE "sync",
             op'[w] = op[w], node'[w] = n, id'[w] = id[w], UNCHANGED <<stale, inbox>>
      PROVE  Quiet'
  <2>1. /\ copy'[w] = Changed(w, view[n]) /\ tainted'[w] = stale[n]
        /\ pc'[w] = IF op[w] = "set" THEN "persist" ELSE "sync"
        /\ op'[w] = op[w] /\ node'[w] = n /\ id'[w] = id[w] /\ UNCHANGED <<stale, inbox>>
    BY <1>5
  <2>2. reg[n] = "loaded" /\ reg' = reg BY <1>1, <1>2, <1>5 DEF nodeVars
  <2>3. Alone' BY <1>1, <1>2, <1>3, <2>1, <2>2 DEF Alone
  <2>4. Carries(w)'
    <3>1. CASE op[w] = "set"
      <4>1. ~stale[n] => view[n] = store BY <1>2, <2>2, <1>1, <3>1 DEF Shows
      <4> QED BY <1>1, <2>1, <3>1, <4>1 DEF Carries, Changed
    <3>2. CASE op[w] \in {"multi", "del"}
      <4>1. ~stale[n] => Changed(w, view[n]) = store BY <1>1, <1>2, <2>2, <3>2 DEF Carries, Changed
      <4> QED BY <1>1, <2>1, <3>2, <4>1 DEF Carries, Changed
    <3> QED BY <1>1, <3>1, <3>2
  <2>5. op[w] \in {"multi", "del"} => Persisted(w)' BY <1>1, <2>1 DEF Persisted
  <2> QED BY <1>1, <1>2, <1>3, <2>1, <2>3, <2>4, <2>5 DEF Quiet, Agree
<1> QED BY <1>4, <1>5, CopyFacts

LEMMA PersistKeeps ==
  ASSUME Types, Flow, Quiet, NEW w \in Workers, Persist(w) PROVE Quiet'
<1> DEFINE n == node[w]
<1>1. /\ pc[w] = "persist" /\ Others(w) /\ pc'[w] = IF op[w] \in {"multi", "del"} THEN "copy" ELSE "sync"
      /\ store' = IF op[w] = "clear" THEN {} ELSE Changed(w, store)
      /\ UNCHANGED <<nodeVars, inbox, locals, stale, overlapped>>
      /\ n \in Nodes /\ op[w] \in {"set", "multi", "del", "clear"}
  BY PersistFacts DEF Flow, Types
<1>2. /\ Foreign(n) = {} /\ reg[n] \in {"none", "loaded"} /\ Carries(w)
      /\ Active' \subseteq {w} /\ (op[w] \notin {"multi", "del"} => Shows(n))
  BY <1>1, Lonely DEF Persisted
<1>3. Shows(n) BY <1>1, Lonely DEF Persisted
<1>4. \A k \in Nodes : Foreign(k)' = Foreign(k) /\ Newest(k)' = Newest(k)
  BY <1>1, SameNode
<1>5. OwnFirst' BY <1>4 DEF Quiet, OwnFirst
<1>6. Alone' BY <1>1, <1>2, <1>4 DEF Alone, locals, nodeVars
<1>7. Persisted(w)' BY <1>1 DEF Persisted, locals
<1>8. Carries(w)'
  <2>1. CASE op[w] \in {"multi", "del"}
    <3>1. (reg[n] = "loaded" /\ ~stale[n]) => view[n] = store BY <1>2, <1>3 DEF Shows
    <3> QED BY <1>1, <2>1, <3>1 DEF Carries, Changed, locals, nodeVars
  <2>2. CASE op[w] = "set" BY <1>1, <1>2, <2>2 DEF Carries, Changed, locals, nodeVars
  <2>3. CASE op[w] = "clear" BY <1>1, <2>3 DEF Carries, Changed, Flow, locals, nodeVars
  <2> QED BY <1>1, <2>1, <2>2, <2>3
<1> QED BY <1>2, <1>5, <1>6, <1>7, <1>8 DEF Quiet, Agree

LEMMA SyncKeeps ==
  ASSUME Types, Flow, Quiet, NEW w \in Workers, Sync(w) PROVE Quiet'
<1> DEFINE n == node[w]
<1>1. /\ pc[w] = "sync" /\ n \in Nodes /\ Others(w)
      /\ UNCHANGED <<store, reg, connected, overlapped>>
  BY SyncFacts
<1>2. /\ Foreign(n) = {} /\ reg[n] \in {"none", "loaded"} /\ Carries(w) /\ Active' \subseteq {w}
      /\ Monitors(n) => reg[n] = "loaded"
  BY <1>1, Lonely
<1>3. CASE ~Monitors(n)
  <2>1. Finish(w) /\ Unannounced BY <1>3, SyncFacts
  <2>2. Active' = {} BY <1>2, <2>1, Ended DEF Active
  <2>3. OwnFirst' /\ \A k \in Nodes : Shows(k)' BY <1>1, <2>1, UnannouncedFacts DEF Quiet
  <2> QED BY <2>2, <2>3 DEF Quiet, Alone, Agree
<1>4. CASE Monitors(n)
  <2>1. /\ pc'[w] = "publish" /\ UNCHANGED <<locals, inbox>>
        /\ view'[n] = copy[w] /\ stale'[n] = tainted[w]
    BY <1>1, <1>4, SyncFacts DEF Types
  <2>2. \A k \in Nodes : Foreign(k)' = Foreign(k) /\ Newest(k)' = Newest(k)
    BY <2>1, SameNode
  <2>3. OwnFirst' BY <2>2 DEF Quiet, OwnFirst
  <2>4. Alone' BY <1>1, <1>2, <2>1, <2>2 DEF Alone, locals
  <2>5. Persisted(w)' BY <2>1 DEF Persisted
  <2>6. ~tainted[w] => copy[w] = store BY <1>1, <1>2 DEF Carries, Changed
  <2>7. Carries(w)' BY <1>1, <2>1, <2>6 DEF Carries, Changed, locals
  <2> QED BY <1>2, <2>3, <2>4, <2>5, <2>7 DEF Quiet, Agree
<1> QED BY <1>3, <1>4

LEMMA PublishKeeps ==
  ASSUME Types, Flow, Quiet, NEW w \in Workers, Publish(w) PROVE Quiet'
<1> DEFINE n == node[w]
<1>1. /\ pc[w] = "publish" /\ n \in Nodes /\ Diff(w) \in Msgs /\ Finish(w) /\ Others(w)
      /\ UNCHANGED <<store, nodeVars, overlapped>>
      /\ Diff(w).from = n /\ Diff(w).map = copy[w] /\ Diff(w).tainted = tainted[w]
  BY PublishFacts DEF Diff
<1>2. Foreign(n) = {} /\ Carries(w) /\ Active' \subseteq {w} BY <1>1, Lonely
<1>3. Active' = {} BY <1>1, <1>2, Ended DEF Active
<1>4. ASSUME NEW k \in Nodes
      PROVE  Shows(k)' /\ (Foreign(k)' # {} => Newest(k)'.from # k)
  <2>1. /\ inbox'[k] = IF connected[k] THEN Append(inbox[k], Diff(w)) ELSE inbox[k]
        /\ stale'[k] = (stale[k] \/ (k # n /\ ~connected[k] /\ reg[k] = "loaded"))
        /\ stale[k] \in BOOLEAN
    BY PublishFacts DEF Types
  <2>2. CASE k = n
    <3>1. Foreign(k)' = {}
      <4>1. CASE connected[k] BY <1>1, <1>2, <2>1, <2>2, <4>1, PutLast
      <4>2. CASE ~connected[k] BY <1>2, <2>1, <2>2, <4>2, SameNode
      <4> QED BY <4>1, <4>2
    <3>2. (reg[k] = "loaded" /\ ~stale[k]) => view[k] = store
      BY <1>1, <1>2, <2>2 DEF Carries, Changed
    <3> QED BY <1>1, <2>1, <2>2, <3>1, <3>2 DEF Shows, nodeVars
  <2>3. CASE k # n /\ connected[k]
    <3>1. Foreign(k)' # {} /\ Newest(k)' = Diff(w) BY <1>1, <2>1, <2>3, PutLast
    <3>2. ~tainted[w] => copy[w] = store BY <1>1, <1>2 DEF Carries, Changed
    <3> QED BY <1>1, <2>3, <3>1, <3>2 DEF Shows
  <2>4. CASE k # n /\ ~connected[k]
    <3>1. inbox'[k] = <<>> BY <2>1, <2>4 DEF Flow
    <3>2. Foreign(k)' = {} BY <3>1, NothingComes
    <3> QED BY <1>1, <2>1, <2>4, <3>2 DEF Shows, nodeVars
  <2> QED BY <2>2, <2>3, <2>4
<1> QED BY <1>3, <1>4 DEF Quiet, Alone, OwnFirst, Agree

LEMMA ReceiveKeeps ==
  ASSUME Types, Flow, Quiet, NEW n \in Nodes, Receive(n) PROVE Quiet'
<1> DEFINE m == Head(inbox[n])
<1>1. /\ inbox[n] # <<>> /\ inbox'[n] = Tail(inbox[n])
      /\ \A k \in Nodes \ {n} :
           inbox'[k] = inbox[k] /\ view'[k] = view[k] /\ stale'[k] = stale[k]
      /\ UNCHANGED <<store, reg, pc, op, node, id, copy, tainted>>
  BY DEF Receive, Types, locals
<1>2. \/ m.from # n /\ Monitors(n) /\ view'[n] = m.map /\ stale'[n] = m.tainted
      \/ (m.from = n \/ ~Monitors(n)) /\ view'[n] = view[n] /\ stale'[n] = stale[n]
  BY DEF Receive, Types
<1>3. /\ Foreign(n) = {} => Foreign(n)' = {} /\ m.from = n
      /\ (Foreign(n) # {} /\ Newest(n).from # n) =>
            \/ Foreign(n)' # {} /\ Newest(n)' = Newest(n)
            \/ Foreign(n)' = {} /\ m = Newest(n)
  BY <1>1, TakeFirst
<1> HIDE DEF m
<1>4. \A k \in Nodes \ {n} :
        Foreign(k)' = Foreign(k) /\ Newest(k)' = Newest(k) /\ (Shows(k) => Shows(k)')
  BY <1>1, SameNode
<1>5. OwnFirst' BY <1>3, <1>4 DEF Quiet, OwnFirst
<1>6. Active' = Active BY <1>1 DEF Active
<1>7. \A w \in Active : node[w] \in Nodes /\ Foreign(node[w]) = {} BY DEF Quiet, Alone, Active, Flow
<1>8. Alone' 
  <2>1. \A w \in Active : Foreign(node[w])' = {} BY <1>1, <1>3, <1>4, <1>7
  <2> QED BY <1>1, <1>6, <2>1 DEF Quiet, Alone
<1>9. ASSUME NEW w \in Active PROVE Carries(w)'
  <2>1. view'[node[w]] = view[node[w]] /\ stale'[node[w]] = stale[node[w]]
    BY <1>1, <1>2, <1>3, <1>7
  <2>2. Carries(w) BY DEF Quiet, Agree
  <2> QED BY <1>1, <2>1, <2>2 DEF Carries, Changed
<1>10. ASSUME Shows(n) PROVE Shows(n)'
  <2>1. CASE Foreign(n) = {} BY <1>1, <1>2, <1>3, <1>10, <2>1 DEF Shows
  <2>2. CASE Foreign(n) # {} /\ Foreign(n)' # {}
    <3>1. Newest(n)' = Newest(n) BY <1>3, <2>2 DEF Quiet, OwnFirst
    <3> QED BY <1>1, <1>10, <2>2, <3>1 DEF Shows
  <2>3. CASE Foreign(n) # {} /\ Foreign(n)' = {}
    <3>1. m = Newest(n) /\ m.from # n BY <1>3, <2>3 DEF Quiet, OwnFirst
    <3>2. ~m.tainted => m.map = store BY <1>10, <2>3, <3>1 DEF Shows
    <3>3. reg[n] = "loaded" => Monitors(n) BY DEF Monitors
    <3> QED BY <1>1, <1>2, <2>3, <3>1, <3>2, <3>3 DEF Shows
  <2> QED BY <2>1, <2>2, <2>3
<1>11. ASSUME \A w \in Workers : ~Persisted(w)' PROVE \A k \in Nodes : Shows(k)'
  <2>1. \A k \in Nodes : Shows(k) BY <1>1, <1>11 DEF Quiet, Agree, Persisted
  <2> QED BY <1>4, <1>10, <2>1
<1> QED BY <1>5, <1>6, <1>8, <1>9, <1>11 DEF Quiet, Agree

\* The steps of a node that leave the writes and the messages alone.
LEMMA NodeKeeps ==
  ASSUME Types, Flow, Quiet, NEW n \in Nodes,
         Boot(n) \/ Connect(n) \/ Register(n) \/ Load(n) \/ Stop(n), ~overlapped'
  PROVE  Quiet'
<1>1. /\ UNCHANGED <<store, inbox, pc, op, node, id, copy, tainted>>
      /\ \A k \in Nodes \ {n} :
           reg'[k] = reg[k] /\ view'[k] = view[k] /\ stale'[k] = stale[k]
  BY DEF Boot, Connect, Register, Load, Stop, Types, locals
<1>2. \/ /\ reg[n] \in {"down", "none"} /\ reg'[n] \in {"none", "loading"}
         /\ view'[n] = view[n] /\ stale'[n] = stale[n]
      \/ reg'[n] = reg[n] /\ view'[n] = view[n] /\ stale'[n] = stale[n]
      \/ reg[n] = "loading" /\ reg'[n] = "loaded" /\ view'[n] = store
      \/ reg[n] = "loaded" /\ reg'[n] = "none"
  BY DEF Boot, Connect, Register, Load, Stop, Types
<1>3. \A k \in Nodes : Foreign(k)' = Foreign(k) /\ Newest(k)' = Newest(k)
  BY <1>1, SameNode
<1>4. OwnFirst' BY <1>3 DEF Quiet, OwnFirst
<1>5. Active' = Active BY <1>1 DEF Active
<1>6. ASSUME NEW w \in Active
      PROVE  /\ node[w] \in Nodes /\ Foreign(node[w]) = {} /\ reg[node[w]] \in {"none", "loaded"}
             /\ Carries(w) /\ (node[w] = n => ~Register(n))
  <2>1. node[w] = n => ~Register(n) BY DEF Register, Active
  <2> QED BY <2>1 DEF Quiet, Alone, Agree, Active, Flow
<1>7. ASSUME NEW w \in Active PROVE reg'[node[w]] \in {"none", "loaded"} /\ Carries(w)'
  <2>1. CASE node[w] # n BY <1>1, <1>6, <2>1 DEF Carries, Changed
  <2>2. CASE node[w] = n
    <3>1. \/ reg'[n] = reg[n] /\ view'[n] = view[n] /\ stale'[n] = stale[n]
          \/ reg'[n] = "none"
      BY <1>6, <2>2 DEF Boot, Connect, Load, Stop, Types
    <3> QED BY <1>1, <1>6, <2>2, <3>1 DEF Carries, Changed
  <2> QED BY <2>1, <2>2
<1>8. Alone' BY <1>1, <1>3, <1>5, <1>6, <1>7 DEF Quiet, Alone
<1>9. ASSUME NEW k \in Nodes, Shows(k) PROVE Shows(k)'
  <2>1. CASE k # n BY <1>1, <1>9, <2>1, SameNode
  <2>2. CASE k = n BY <1>1, <1>2, <1>3, <1>9, <2>2 DEF Shows
  <2> QED BY <2>1, <2>2
<1>10. ASSUME \A w \in Workers : ~Persisted(w)' PROVE \A k \in Nodes : Shows(k)'
  BY <1>1, <1>9, <1>10 DEF Quiet, Agree, Persisted
<1> QED BY <1>4, <1>5, <1>7, <1>8, <1>10 DEF Quiet, Agree

LEMMA DisconnectKeeps ==
  ASSUME Types, Flow, Quiet, NEW n \in Nodes, Disconnect(n) PROVE Quiet'
<1>1. /\ inbox'[n] = <<>> /\ \A k \in Nodes \ {n} : inbox'[k] = inbox[k] /\ stale'[k] = stale[k]
      /\ IF Foreign(n) = {} THEN stale'[n] = stale[n] ELSE reg[n] = "loaded" => stale'[n]
      /\ UNCHANGED <<store, reg, view, pc, op, node, id, copy, tainted>>
  <2>1. /\ inbox'[n] = <<>> /\ \A k \in Nodes \ {n} : inbox'[k] = inbox[k]
        /\ UNCHANGED <<store, reg, view, pc, op, node, id, copy, tainted>>
    BY DEF Disconnect, Types, locals
  <2>2. CASE Foreign(n) = {} BY <2>1, <2>2 DEF Disconnect
  <2>3. CASE Foreign(n) # {}
    <3>1. \A k \in Nodes : stale'[k] = (stale[k] \/ (k \in {n} /\ reg[k] = "loaded"))
      BY <2>3 DEF Disconnect, Missed
    <3>2. \A k \in Nodes : stale[k] \in BOOLEAN BY DEF Types
    <3>3. ASSUME NEW k \in Nodes \ {n} PROVE stale'[k] = stale[k] BY <3>1, <3>2
    <3>4. reg[n] = "loaded" => stale'[n] BY <3>1
    <3> QED BY <2>1, <2>3, <3>3, <3>4
  <2> QED BY <2>2, <2>3
<1>2. Foreign(n)' = {} BY <1>1, NothingComes
<1>3. \A k \in Nodes \ {n} :
        Foreign(k)' = Foreign(k) /\ Newest(k)' = Newest(k) /\ (Shows(k) => Shows(k)')
  BY <1>1, SameNode
<1>4. OwnFirst' BY <1>2, <1>3 DEF Quiet, OwnFirst
<1>5. Active' = Active BY <1>1 DEF Active
<1>6. ASSUME NEW w \in Active
      PROVE  node[w] \in Nodes /\ Foreign(node[w]) = {} /\ Carries(w)
  BY DEF Quiet, Alone, Agree, Active, Flow
<1>7. \A w \in Active : Foreign(node[w])' = {} BY <1>1, <1>2, <1>3, <1>6
<1>8. Alone' BY <1>1, <1>5, <1>7 DEF Quiet, Alone
<1>9. ASSUME NEW w \in Active PROVE Carries(w)'
  <2>1. stale'[node[w]] = stale[node[w]] BY <1>1, <1>6
  <2> QED BY <1>1, <1>6, <2>1 DEF Carries, Changed
<1>10. Shows(n) => Shows(n)' BY <1>1, <1>2 DEF Shows
<1>11. ASSUME \A w \in Workers : ~Persisted(w)' PROVE \A k \in Nodes : Shows(k)'
  BY <1>1, <1>3, <1>10, <1>11 DEF Quiet, Agree, Persisted
<1> QED BY <1>4, <1>5, <1>8, <1>9, <1>11 DEF Quiet, Agree

LEMMA CrashKeeps ==
  ASSUME Types, Flow, Quiet, NEW n \in Nodes, Crash(n) PROVE Quiet'
<1> DEFINE silent == \E w \in Active : node[w] = n /\ Persisted(w)
<1>1. /\ reg'[n] = "down" /\ inbox'[n] = <<>> /\ store' = store
      /\ \A k \in Nodes \ {n} :
           /\ reg'[k] = reg[k] /\ view'[k] = view[k]
           /\ IF silent THEN inbox'[k] = Taint(inbox[k]) /\ stale'[k] = (stale[k] \/ reg[k] = "loaded")
                        ELSE inbox'[k] = inbox[k] /\ stale'[k] = stale[k]
  BY CrashFacts
<1>2. Foreign(n)' = {} BY <1>1, NothingComes
<1>3. ASSUME NEW k \in Nodes \ {n}
      PROVE  /\ Foreign(k)' = Foreign(k) /\ (Foreign(k) # {} => Newest(k)'.from = Newest(k).from)
             /\ silent => Shows(k)'
             /\ Shows(k) => Shows(k)'
  <2>1. CASE silent
    <3>1. inbox'[k] = Taint(inbox[k]) /\ (reg'[k] = "loaded" => stale'[k]) BY <1>1, <2>1
    <3>2. /\ Foreign(k)' = Foreign(k)
          /\ Foreign(k) # {} => Newest(k)'.tainted /\ Newest(k)'.from = Newest(k).from
      BY <3>1, TaintAll
    <3>3. Shows(k)' BY <3>1, <3>2 DEF Shows
    <3> QED BY <3>2, <3>3
  <2>2. CASE ~silent
    <3>1. inbox'[k] = inbox[k] /\ stale'[k] = stale[k] BY <1>1, <2>2
    <3> QED BY <1>1, <2>2, <3>1, SameNode
  <2> QED BY <2>1, <2>2
<1>4. OwnFirst' BY <1>2, <1>3 DEF Quiet, OwnFirst
<1>5. ASSUME NEW w \in Workers
      PROVE  \/ pc[w] # "idle" /\ node[w] = n /\ pc'[w] = "idle" /\ w \notin Active' /\ ~Persisted(w)'
             \/ /\ pc[w] = "idle" \/ node[w] # n
                /\ pc'[w] = pc[w] /\ op'[w] = op[w] /\ node'[w] = node[w]
                /\ id'[w] = id[w] /\ copy'[w] = copy[w] /\ tainted'[w] = tainted[w]
                /\ (w \in Active <=> w \in Active') /\ (Persisted(w) <=> Persisted(w)')
  BY CrashFacts DEF Active, Persisted
<1>6. ASSUME NEW w \in Active'
      PROVE  /\ w \in Active /\ node[w] \in Nodes \ {n} /\ node'[w] = node[w]
             /\ Foreign(node[w])' = {} /\ reg'[node[w]] \in {"none", "loaded"} /\ Carries(w)'
  <2>1. /\ w \in Workers /\ w \in Active /\ node[w] # n
        /\ pc'[w] = pc[w] /\ op'[w] = op[w] /\ node'[w] = node[w]
        /\ id'[w] = id[w] /\ copy'[w] = copy[w] /\ tainted'[w] = tainted[w]
    BY <1>5 DEF Active
  <2>2. /\ node[w] \in Nodes \ {n} /\ Foreign(node[w]) = {} /\ Carries(w)
        /\ reg[node[w]] \in {"none", "loaded"}
    BY <2>1 DEF Quiet, Alone, Agree, Active, Flow
  <2>3. ~silent
    <3>1. \A x \in Active : x = w BY <2>1 DEF Quiet, Alone
    <3> QED BY <2>1, <3>1
  <2>4. /\ reg'[node[w]] = reg[node[w]] /\ view'[node[w]] = view[node[w]]
        /\ stale'[node[w]] = stale[node[w]] /\ Foreign(node[w])' = {}
    BY <1>1, <1>3, <2>1, <2>2, <2>3
  <2>5. Carries(w)' BY <1>1, <2>1, <2>2, <2>4 DEF Carries, Changed
  <2> QED BY <2>1, <2>2, <2>4, <2>5
<1>7. Alone' BY <1>6 DEF Quiet, Alone
<1>8. ASSUME \A w \in Workers : ~Persisted(w)' PROVE \A k \in Nodes : Shows(k)'
  <2>1. Shows(n)' BY <1>1, <1>2 DEF Shows
  <2>2. ASSUME NEW k \in Nodes \ {n} PROVE Shows(k)'
    <3>1. CASE silent BY <1>3, <3>1
    <3>2. CASE ~silent
      <4>1. \A w \in Workers : ~Persisted(w)
        <5>1. ASSUME NEW w \in Workers, Persisted(w) PROVE FALSE
          <6>1. w \in Active BY <5>1 DEF Persisted, Active
          <6> QED BY <1>5, <1>8, <3>2, <5>1, <6>1
        <5> QED BY <5>1
      <4> QED BY <1>3, <4>1 DEF Quiet, Agree
    <3> QED BY <3>1, <3>2
  <2> QED BY <2>1, <2>2
<1> QED BY <1>4, <1>6, <1>7, <1>8 DEF Quiet, Agree

LEMMA PromiseStep ==
  ASSUME Types, Flow, Promise, Next PROVE Promise'
<1> SUFFICES ASSUME ~overlapped' PROVE Quiet'
  BY DEF Promise, Quiet
<1>1. ~overlapped
  BY DEF Next, Step, Begin, Copy, Persist, Sync, Publish, Receive, Boot, Connect, Register,
         Load, Stop, Disconnect, Crash
<1>2. Quiet BY <1>1 DEF Promise, Quiet
<1> QED BY <1>2, BeginKeeps, CopyKeeps, PersistKeeps, SyncKeeps, PublishKeeps, ReceiveKeeps,
           NodeKeeps, DisconnectKeeps, CrashKeeps
        DEF Next, Step

-----------------------------------------------------------------------------
(* Publications and writes. *)

LEMMA ActiveFinite ==
  IsFiniteSet(Active) /\ Cardinality(Active) \in Nat
  BY GlobalSyncAssumption, FS_Subset, FS_CardinalityType DEF Active

LEMMA CountedStep ==
  ASSUME Types, Flow, Counted, Next PROVE Counted'
<1>1. /\ published \in Nat /\ writes \in Nat /\ Cardinality(Active) \in Nat
      /\ published + Cardinality(Active) <= writes /\ IsFiniteSet(Active)
  BY GlobalSyncAssumption, ActiveFinite DEF Types, Counted
<1>2. ASSUME Active' \subseteq Active, UNCHANGED <<published, writes>> PROVE Counted'
  <2>1. Cardinality(Active') \in Nat /\ Cardinality(Active') <= Cardinality(Active)
    BY <1>1, <1>2, FS_Subset, FS_CardinalityType
  <2> QED BY <1>1, <1>2, <2>1 DEF Counted
<1>3. ASSUME NEW w \in Workers, pc[w] # "idle", Others(w) PROVE Active' \subseteq Active
  BY <1>3 DEF Active, Others
<1>4. ASSUME NEW w \in Workers, NEW n \in Nodes, Begin(w, n) PROVE Counted'
  <2>1. w \notin Active /\ Active' = Active \cup {w}
    BY <1>4, BeginFacts DEF Active, Others
  <2>2. Cardinality(Active') = Cardinality(Active) + 1 BY <1>1, <2>1, FS_AddElement
  <2>3. writes' = writes + 1 /\ published' = published BY <1>4, BeginFacts
  <2> QED BY <1>1, <2>2, <2>3 DEF Counted
<1>5. ASSUME NEW w \in Workers, Publish(w) PROVE Counted'
  <2>1. w \in Active /\ Active' = Active \ {w}
    BY <1>5, PublishFacts, Ended DEF Active, Others
  <2>2. Cardinality(Active') = Cardinality(Active) - 1 BY <1>1, <2>1, FS_RemoveElement
  <2>3. writes' = writes /\ published' = published + 1 BY <1>5, PublishFacts
  <2> QED BY <1>1, <2>2, <2>3 DEF Counted
<1>6. ASSUME NEW w \in Workers, Copy(w) \/ Persist(w) \/ Sync(w) PROVE Counted'
  BY <1>2, <1>3, <1>6, CopyFacts, PersistFacts, SyncFacts
<1>7. ASSUME NEW n \in Nodes, Crash(n) PROVE Counted'
  BY <1>2, <1>7, CrashFacts DEF Active
<1>8. ASSUME NEW n \in Nodes,
             Receive(n) \/ Boot(n) \/ Connect(n) \/ Register(n) \/ Load(n) \/ Stop(n) \/ Disconnect(n)
      PROVE  Counted'
  BY <1>2, <1>8
     DEF Receive, Boot, Connect, Register, Load, Stop, Disconnect, Active
<1> QED BY <1>4, <1>5, <1>6, <1>7, <1>8 DEF Next, Step

-----------------------------------------------------------------------------
(* The theorems. *)

LEMMA InvInit == Init => Inv
<1> SUFFICES ASSUME Init PROVE Inv
  OBVIOUS
<1> USE GlobalSyncAssumption
<1>1. Types
  <2>1. <<>> \in Seq(Msgs) BY EmptySeq
  <2>2. /\ store = {} /\ writes = 0 /\ faults = 0 /\ published = 0 /\ overlapped = FALSE
        /\ reg = [n \in Nodes |-> "down"] /\ view = [n \in Nodes |-> {}]
        /\ connected = [n \in Nodes |-> FALSE] /\ inbox = [n \in Nodes |-> <<>>]
        /\ stale = [n \in Nodes |-> FALSE]
    BY DEF Init
  <2>3. /\ pc = [w \in Workers |-> "idle"] /\ op = [w \in Workers |-> "none"]
        /\ node = [w \in Workers |-> NoNode] /\ id = [w \in Workers |-> 0]
        /\ copy = [w \in Workers |-> {}] /\ tainted = [w \in Workers |-> FALSE]
    BY DEF Init
  <2>4. /\ pc \in [Workers -> {"idle", "copy", "persist", "sync", "publish"}]
        /\ op \in [Workers -> {"none", "set", "multi", "del", "clear"}]
        /\ node \in [Workers -> Nodes \cup {NoNode}] /\ id \in [Workers -> 0..MaxWrites]
        /\ copy \in [Workers -> SUBSET Nat] /\ tainted \in [Workers -> BOOLEAN]
    BY <2>3
  <2>5. /\ reg \in [Nodes -> {"down", "none", "loading", "loaded"}]
        /\ view \in [Nodes -> SUBSET Nat] /\ connected \in [Nodes -> BOOLEAN]
        /\ inbox \in [Nodes -> Seq(Msgs)] /\ stale \in [Nodes -> BOOLEAN]
    BY <2>1, <2>2
  <2>6. writes \in 0..MaxWrites /\ faults \in 0..MaxFaults BY <2>2
  <2> QED BY <2>2, <2>4, <2>5, <2>6 DEF Types
<1>2. Flow BY DEF Init, Flow
<1>3. Active = {} BY DEF Init, Active
<1>4. \A n \in Nodes : Foreign(n) = {}
  <2>1. \A n \in Nodes : inbox[n] = <<>> BY DEF Init
  <2> QED BY <1>1, <2>1, InboxFacts
<1>5. \A n \in Nodes : Shows(n) BY <1>4 DEF Init, Shows
<1>6. Promise BY <1>3, <1>4, <1>5 DEF Promise, Alone, OwnFirst, Agree
<1>7. Counted BY <1>3, FS_EmptySet DEF Init, Counted
<1> QED BY <1>1, <1>2, <1>6, <1>7 DEF Inv

LEMMA InvStep == Inv /\ [Next]_vars => Inv'
<1> SUFFICES ASSUME Inv, [Next]_vars PROVE Inv'
  OBVIOUS
<1>1. CASE Next BY <1>1, TypesStep, FlowStep, PromiseStep, CountedStep DEF Inv
<1>2. CASE UNCHANGED vars
  <2>1. Types' BY <1>2 DEF Inv, Types, vars, nodeVars, locals
  <2>2. Flow' BY <1>2 DEF Inv, Flow, vars, nodeVars, locals
  <2>3. Promise'
    <3>1. /\ Active' = Active /\ UNCHANGED <<store, reg, node, pc, overlapped>>
          /\ \A n \in Nodes : Foreign(n)' = Foreign(n) /\ Newest(n)' = Newest(n)
          /\ \A w \in Workers : (Persisted(w) <=> Persisted(w)')
      <4>1. UNCHANGED <<store, reg, node, pc, op, inbox, overlapped>>
        BY <1>2 DEF vars, nodeVars, locals
      <4>2. Active' = Active BY <4>1 DEF Active
      <4>3. \A n \in Nodes : Foreign(n)' = Foreign(n) /\ Newest(n)' = Newest(n)
        BY <4>1, SameNode
      <4>4. \A w \in Workers : (Persisted(w) <=> Persisted(w)') BY <4>1 DEF Persisted
      <4> QED BY <4>1, <4>2, <4>3, <4>4
    <3>2. Alone => Alone'
      <4>1. \A w \in Active : node[w] \in Nodes BY DEF Inv, Flow, Active
      <4> QED BY <3>1, <4>1 DEF Alone
    <3>3. OwnFirst => OwnFirst' BY <3>1 DEF OwnFirst
    <3>4. ASSUME NEW w \in Workers, Carries(w) PROVE Carries(w)'
      BY <1>2, <3>4 DEF Carries, Changed, vars, nodeVars, locals
    <3>5. ASSUME NEW n \in Nodes, Shows(n) PROVE Shows(n)'
      BY <1>2, <3>1, <3>5 DEF Shows, vars, nodeVars
    <3>6. Agree => Agree' BY <3>1, <3>4, <3>5 DEF Agree, Active
    <3> QED BY <3>1, <3>2, <3>3, <3>6 DEF Inv, Promise
  <2>4. Counted' BY <1>2 DEF Inv, Counted, Active, vars, nodeVars, locals
  <2> QED BY <2>1, <2>2, <2>3, <2>4 DEF Inv
<1> QED BY <1>1, <1>2

\* The invariant of the synchronisation, for any nodes, goroutines and bounds:
\* types, one write at a time as long as nothing has overlapped, and who shows or
\* carries what Redis stores at each step of a write.
THEOREM GlobalSyncInv == Spec => []Inv
<1> QED BY InvInit, InvStep, PTL DEF Spec

\* When no write is under way and nothing is on its way to a node, the node shows
\* what Redis stores, unless writes have overlapped, or it has missed a message or
\* was given the copy of a node that had (Registry.Sync, subscribeGlobalSync).
THEOREM NodesShowWhatIsStored == Spec => []ShowsWhatIsStored
<1>1. Inv => ShowsWhatIsStored
  <2> SUFFICES ASSUME Inv, NEW n \in Nodes, Active = {}, reg[n] = "loaded", Foreign(n) = {},
                      ~stale[n], ~overlapped
               PROVE  view[n] = store
    BY DEF ShowsWhatIsStored
  <2>1. \A w \in Workers : ~Persisted(w) BY DEF Active, Persisted
  <2>2. Shows(n) BY <2>1 DEF Inv, Promise, Agree
  <2> QED BY <2>2 DEF Shows
<1> QED BY <1>1, GlobalSyncInv, PTL

\* A write is published at most once, however many nodes there are: what a node
\* takes from zruvix:global_sync it does not publish again (Registry.Sync and
\* subscribeGlobalSync).
THEOREM WritesAreNotEchoed == Spec => []NoEcho
<1>1. Inv => NoEcho
  <2> SUFFICES ASSUME Inv PROVE NoEcho
    OBVIOUS
  <2> DEFINE Publishing == {w \in Workers : pc[w] = "publish"}
  <2>1. Publishing \subseteq Active BY DEF Active
  <2>2. /\ IsFiniteSet(Publishing) /\ Cardinality(Publishing) \in Nat
        /\ Cardinality(Publishing) <= Cardinality(Active)
    BY <2>1, ActiveFinite, FS_Subset, FS_CardinalityType
  <2>3. published \in Nat /\ writes \in Nat /\ published + Cardinality(Active) <= writes
    BY GlobalSyncAssumption DEF Inv, Types, Counted
  <2> HIDE DEF Publishing
  <2>4. published + Cardinality(Publishing) <= writes BY <2>2, <2>3, ActiveFinite
  <2> QED BY <2>4 DEF NoEcho, Publishing
<1> QED BY <1>1, GlobalSyncInv, PTL
=============================================================================
