---------------------------- MODULE SocketProofs ----------------------------
(***************************************************************************)
(* Socket, for every set of connections and publishers, every capacity of    *)
(* the channel and every number of updates: no send on a closed channel, the *)
(* channel itself loses nothing, and what a client receives is a Feed.       *)
(*                                                                           *)
(* The invariant has four parts: TypeOK, Shape (what the writer holds),      *)
(* ClosedFirst (the flag guards the channel) and InOrder (what is on its way *)
(* to a connection lies between what it has and what it has been told).      *)
(***************************************************************************)
EXTENDS Socket, TLAPS, SequenceTheorems

\* The writer holds one message while it writes, and none otherwise; only an
\* update that exists is fanned out.
Shape ==
  /\ \A c \in Conns : IF writer[c] = "write" THEN \E m \in Messages : out[c] = <<m>>
                                            ELSE out[c] = <<>>
  /\ \A p \in Publishers : list[p] # {} => sent[p] > 0

\* A channel that is closed has its flag set.
ClosedFirst == (\A c \in Conns : ~chanOpen[c] => closed[c]) /\ ~panicked

\* What is on its way to c.
Pending(c) == out[c] \o queue[c]

\* The newest update of each publisher that SendEvent has been called with for c
\* or that c was not a subscriber of.
Told(c) == [p \in Publishers |-> IF c \in list[p] THEN sent[p] - 1 ELSE sent[p]]

\* The updates in s lie above lo and up to hi, and rise for each publisher.
Rising(s, lo, hi) ==
  /\ \A i \in 1..Len(s) : s[i].from \in Publishers =>
       lo[s[i].from] < s[i].n /\ s[i].n <= hi[s[i].from]
  /\ \A i, j \in 1..Len(s) :
       i < j /\ s[i].from = s[j].from /\ s[i].from \in Publishers => s[i].n < s[j].n

InOrder ==
  \A c \in Conns :
    /\ \A p \in Publishers : last[c][p] <= Told(c)[p]
    /\ Rising(Pending(c), last[c], Told(c))

Inv == TypeOK /\ Shape /\ ClosedFirst /\ OnlyOverflowLoses /\ InOrder

-----------------------------------------------------------------------------
(* Sequences of messages. *)

LEMMA MessageFacts ==
  /\ ServerMsg \in Messages /\ ServerMsg.from \notin Publishers
  /\ \A m \in Messages : m.n \in Nat /\ (m.from \in Publishers \/ m.from = "server")
  /\ \A p \in Publishers, k \in 1..MaxUpdates : [from |-> p, n |-> k] \in Messages
  BY SocketAssumption DEF Messages, ServerMsg

\* Joining what the writer holds and the channel: the three ways it changes.
LEMMA JoinAppend ==
  ASSUME NEW o \in Seq(Messages), NEW q \in Seq(Messages), NEW m \in Messages
  PROVE  o \o Append(q, m) = Append(o \o q, m) /\ o \o q \in Seq(Messages)
<1>1. <<m>> \in Seq(Messages) OBVIOUS
<1>2. o \o q \in Seq(Messages) BY ConcatProperties
<1>3. Append(q, m) = q \o <<m>> /\ Append(o \o q, m) = (o \o q) \o <<m>>
  BY <1>2, AppendIsConcat
<1>4. (o \o q) \o <<m>> = o \o (q \o <<m>>) BY <1>1, ConcatAssociative
<1> QED BY <1>2, <1>3, <1>4

LEMMA JoinEmpty ==
  ASSUME NEW q \in Seq(Messages) PROVE <<>> \o q = q
  BY ConcatEmptySeq

LEMMA JoinTake ==
  ASSUME NEW q \in Seq(Messages), q # <<>>
  PROVE  <<Head(q)>> \o Tail(q) = q
<1> DEFINE h == <<Head(q)>>
<1>1. /\ Head(q) \in Messages /\ Tail(q) \in Seq(Messages)
      /\ Len(Tail(q)) = Len(q) - 1 /\ Len(q) \in Nat \ {0}
      /\ \A i \in 1..Len(Tail(q)) : Tail(q)[i] = q[i + 1]
  BY HeadTailProperties, EmptySeq
<1>2. h \in Seq(Messages) /\ Len(h) = 1 /\ h[1] = q[1] BY <1>1
<1>3. /\ h \o Tail(q) \in Seq(Messages)
      /\ Len(h \o Tail(q)) = 1 + Len(Tail(q))
      /\ \A i \in 1..1 + Len(Tail(q)) :
           (h \o Tail(q))[i] = IF i <= 1 THEN h[i] ELSE Tail(q)[i - 1]
  BY <1>1, <1>2, ConcatProperties
<1>4. Len(h \o Tail(q)) = Len(q) BY <1>1, <1>3
<1>5. ASSUME NEW i \in 1..Len(h \o Tail(q)) PROVE (h \o Tail(q))[i] = q[i]
  <2>1. CASE i = 1 BY <2>1, <1>1, <1>2, <1>3
  <2>2. CASE i # 1
    <3>1. i - 1 \in 1..Len(Tail(q)) /\ (i - 1) + 1 = i BY <2>2, <1>1, <1>3
    <3>2. Tail(q)[i - 1] = q[i] BY <3>1, <1>1
    <3> QED BY <2>2, <3>2, <1>1, <1>3
  <2> QED BY <2>1, <2>2
<1> QED BY <1>3, <1>4, <1>5, SeqEqual

LEMMA JoinWritten ==
  ASSUME NEW q \in Seq(Messages), NEW m \in Messages
  PROVE  /\ <<m>> \o q \in Seq(Messages) /\ <<m>> \o q # <<>>
         /\ Head(<<m>> \o q) = m /\ Tail(<<m>> \o q) = q
<1> DEFINE s == <<m>> \o q
<1>1. <<m>> \in Seq(Messages) /\ Len(<<m>>) = 1 /\ <<m>>[1] = m OBVIOUS
<1>2. /\ s \in Seq(Messages) /\ Len(s) = 1 + Len(q) /\ Len(q) \in Nat
      /\ \A i \in 1..1 + Len(q) : s[i] = IF i <= 1 THEN <<m>>[i] ELSE q[i - 1]
  BY <1>1, ConcatProperties, LenProperties
<1>3. s # <<>> BY <1>2, EmptySeq
<1>4. s[1] = m BY <1>1, <1>2
<1>5. /\ Tail(s) \in Seq(Messages) /\ Len(Tail(s)) = Len(q)
      /\ \A i \in 1..Len(Tail(s)) : Tail(s)[i] = s[i + 1]
  BY <1>2, <1>3, HeadTailProperties
<1>6. ASSUME NEW i \in 1..Len(Tail(s)) PROVE Tail(s)[i] = q[i]
  <2>1. i + 1 \in 1..1 + Len(q) /\ ~(i + 1 <= 1) /\ (i + 1) - 1 = i BY <1>2, <1>5
  <2> QED BY <2>1, <1>2, <1>5
<1>7. Tail(s) = q BY <1>5, <1>6, SeqEqual
<1> QED BY <1>2, <1>3, <1>4, <1>7

\* Rising is kept when more has been told, ...
LEMMA RisingWider ==
  ASSUME NEW s \in Seq(Messages), NEW lo \in [Publishers -> Nat],
         NEW hi \in [Publishers -> Nat], NEW top \in [Publishers -> Nat],
         Rising(s, lo, hi), \A p \in Publishers : hi[p] <= top[p]
  PROVE  Rising(s, lo, top)
<1>1. \A i \in 1..Len(s) : s[i] \in Messages BY ElementOfSeq
<1> QED BY <1>1, MessageFacts DEF Rising

\* ... when a message of the server or a newer update is put behind, ...
LEMMA RisingAppend ==
  ASSUME NEW s \in Seq(Messages), NEW lo \in [Publishers -> Nat],
         NEW hi \in [Publishers -> Nat], Rising(s, lo, hi), NEW m \in Messages,
         m.from \in Publishers =>
           /\ lo[m.from] < m.n /\ m.n <= hi[m.from]
           /\ \A i \in 1..Len(s) : s[i].from = m.from => s[i].n < m.n
  PROVE  Rising(Append(s, m), lo, hi)
<1> DEFINE t == Append(s, m)
<1>1. /\ Len(t) = Len(s) + 1 /\ Len(s) \in Nat
      /\ \A i \in 1..Len(s) : t[i] = s[i] /\ t[Len(s) + 1] = m
  BY AppendProperties, LenProperties
<1>2. t[Len(s) + 1] = m BY AppendProperties
<1>3. ASSUME NEW i \in 1..Len(t), t[i].from \in Publishers
      PROVE  lo[t[i].from] < t[i].n /\ t[i].n <= hi[t[i].from]
  <2>1. CASE i \in 1..Len(s) BY <2>1, <1>1, <1>3 DEF Rising
  <2>2. CASE i = Len(s) + 1 BY <2>2, <1>2, <1>3
  <2> QED BY <2>1, <2>2, <1>1
<1>4. ASSUME NEW i \in 1..Len(t), NEW j \in 1..Len(t),
             i < j, t[i].from = t[j].from, t[i].from \in Publishers
      PROVE  t[i].n < t[j].n
  <2>1. i \in 1..Len(s) BY <1>1, <1>4
  <2>2. CASE j \in 1..Len(s) BY <2>1, <2>2, <1>1, <1>4 DEF Rising
  <2>3. CASE j = Len(s) + 1 BY <2>1, <2>3, <1>1, <1>2, <1>4
  <2> QED BY <2>2, <2>3, <1>1
<1> QED BY <1>3, <1>4 DEF Rising

\* ... and when the first message has been received.
LEMMA RisingTail ==
  ASSUME NEW q \in Seq(Messages), NEW m \in Messages,
         NEW lo \in [Publishers -> Nat], NEW hi \in [Publishers -> Nat],
         Rising(<<m>> \o q, lo, hi)
  PROVE  /\ m.from \in Publishers => lo[m.from] < m.n /\ m.n <= hi[m.from]
         /\ Rising(q, lo, hi)
         /\ Rising(q, IF m.from = "server" THEN lo ELSE [lo EXCEPT ![m.from] = m.n], hi)
<1> DEFINE s == <<m>> \o q
           up == IF m.from = "server" THEN lo ELSE [lo EXCEPT ![m.from] = m.n]
<1>1. <<m>> \in Seq(Messages) /\ Len(<<m>>) = 1 /\ <<m>>[1] = m OBVIOUS
<1>2. /\ Len(s) = 1 + Len(q) /\ Len(q) \in Nat
      /\ \A i \in 1..1 + Len(q) : s[i] = IF i <= 1 THEN <<m>>[i] ELSE q[i - 1]
  BY <1>1, ConcatProperties, LenProperties
<1>3. s[1] = m /\ 1 \in 1..Len(s) BY <1>1, <1>2
<1>4. ASSUME NEW i \in 1..Len(q) PROVE i + 1 \in 1..Len(s) /\ s[i + 1] = q[i]
  <2>1. i + 1 \in 1..1 + Len(q) /\ ~(i + 1 <= 1) /\ (i + 1) - 1 = i BY <1>2
  <2> QED BY <2>1, <1>2
<1>5. m.from \in Publishers => lo[m.from] < m.n /\ m.n <= hi[m.from]
  BY <1>3 DEF Rising
<1>6. ASSUME NEW i \in 1..Len(q), q[i].from \in Publishers
      PROVE  /\ lo[q[i].from] < q[i].n /\ up[q[i].from] < q[i].n
             /\ q[i].n <= hi[q[i].from]
  <2>1. s[i + 1].from = q[i].from /\ s[i + 1].n = q[i].n /\ i + 1 \in 1..Len(s) BY <1>4
  <2>2. lo[q[i].from] < q[i].n /\ q[i].n <= hi[q[i].from] BY <2>1, <1>6 DEF Rising
  <2>3. ASSUME q[i].from = m.from PROVE m.n < q[i].n
    <3>1. 1 < i + 1 /\ s[1].from = s[i + 1].from /\ s[1].from \in Publishers
      BY <2>1, <2>3, <1>3, <1>6
    <3>2. s[1].n < s[i + 1].n BY <3>1, <2>1, <1>3 DEF Rising
    <3> QED BY <3>2, <2>1, <1>3
  <2> QED BY <2>2, <2>3, <1>6, MessageFacts
<1>7. ASSUME NEW i \in 1..Len(q), NEW j \in 1..Len(q),
             i < j, q[i].from = q[j].from, q[i].from \in Publishers
      PROVE  q[i].n < q[j].n
  <2>1. i + 1 \in 1..Len(s) /\ j + 1 \in 1..Len(s) /\ i + 1 < j + 1 BY <1>4, <1>7, <1>2
  <2>2. s[i + 1] = q[i] /\ s[j + 1] = q[j] BY <1>4
  <2> QED BY <2>1, <2>2, <1>7 DEF Rising
<1> QED BY <1>5, <1>6, <1>7 DEF Rising
-----------------------------------------------------------------------------
(* The parts of the invariant, step by step. *)

LEMMA InitInv == Init => Inv
<1> SUFFICES ASSUME Init PROVE Inv OBVIOUS
<1> USE SocketAssumption DEF Init
<1>1. <<>> \in Seq(Messages) /\ Len(<<>>) = 0 /\ <<>> \o <<>> = <<>>
  BY EmptySeq, ConcatEmptySeq
<1>2. TypeOK
  <2>1. 0 \in 0..MaxUpdates /\ 0 <= Cap OBVIOUS
  <2>2. queue \in [Conns -> Seq(Messages)] /\ \A c \in Conns : Len(queue[c]) <= Cap
    BY <1>1, <2>1
  <2>3. out \in [Conns -> Seq(Messages)] /\ due \in [Conns -> Seq(Messages)] BY <1>1
  <2>4. last \in [Conns -> [Publishers -> 0..MaxUpdates]] BY <2>1
  <2>5. sent \in [Publishers -> 0..MaxUpdates] BY <2>1
  <2> QED BY <2>2, <2>3, <2>4, <2>5 DEF TypeOK
<1>3. Shape /\ ClosedFirst BY DEF Shape, ClosedFirst
<1>4. OnlyOverflowLoses BY <1>1 DEF OnlyOverflowLoses
<1>5. ASSUME NEW c \in Conns
      PROVE  /\ \A p \in Publishers : last[c][p] <= Told(c)[p]
             /\ Rising(Pending(c), last[c], Told(c))
  <2>1. Pending(c) = <<>> BY <1>1 DEF Pending
  <2>2. 1..Len(Pending(c)) = {} BY <2>1, <1>1
  <2>3. Rising(Pending(c), last[c], Told(c)) BY <2>2 DEF Rising
  <2> QED BY <2>3 DEF Told
<1> QED BY <1>2, <1>3, <1>4, <1>5 DEF Inv, InOrder

\* What a call of SendEvent does: the flag decides, a full channel drops.
LEMMA SendEventFacts ==
  ASSUME TypeOK, Shape, ClosedFirst, NEW c \in Conns, NEW m \in Messages, SendEvent(c, m)
  PROVE  /\ UNCHANGED <<closed, chanOpen, panicked>>
         /\ queue' \in [Conns -> Seq(Messages)] /\ \A d \in Conns : Len(queue'[d]) <= Cap
         /\ due' \in [Conns -> Seq(Messages)] /\ full' \in [Conns -> BOOLEAN]
         /\ \A d \in Conns \ {c} :
              queue'[d] = queue[d] /\ due'[d] = due[d] /\ full'[d] = full[d]
         /\ \/ queue'[c] = queue[c] /\ due'[c] = due[c] /\ full'[c] = full[c]
            \/ queue'[c] = queue[c] /\ full'[c]
            \/ /\ queue'[c] = Append(queue[c], m) /\ full'[c] = full[c]
               /\ (open[c] /\ ~full[c]) => due'[c] = Append(due[c], m)
<1> USE DEF TypeOK
<1>1. CASE closed[c] BY <1>1 DEF SendEvent
<1>2. CASE ~closed[c]
  <2>1. chanOpen[c] /\ Enqueue(c, m) /\ UNCHANGED <<closed, chanOpen>>
    BY <1>2 DEF SendEvent, ClosedFirst
  <2>2. CASE Len(queue[c]) < Cap
    <3>1. /\ queue' = [queue EXCEPT ![c] = Append(queue[c], m)]
          /\ due' = [due EXCEPT ![c] = IF full[c] \/ ~open[c] THEN <<>>
                                      ELSE Append(due[c], m)]
          /\ UNCHANGED <<full, panicked>>
      BY <2>1, <2>2, SocketAssumption, LenProperties DEF Enqueue
    <3>2. Append(queue[c], m) \in Seq(Messages) /\ Len(Append(queue[c], m)) <= Cap
      BY <2>2, SocketAssumption, AppendProperties, LenProperties
    <3>3. Append(due[c], m) \in Seq(Messages) /\ <<>> \in Seq(Messages)
      BY AppendProperties, EmptySeq
    <3> QED BY <2>1, <3>1, <3>2, <3>3
  <2>3. CASE ~(Len(queue[c]) < Cap)
    <3>1. /\ full' = [full EXCEPT ![c] = TRUE] /\ due' = [due EXCEPT ![c] = <<>>]
          /\ UNCHANGED <<queue, panicked>>
      BY <2>1, <2>3 DEF Enqueue
    <3>2. <<>> \in Seq(Messages) BY EmptySeq
    <3> QED BY <2>1, <3>1, <3>2
  <2> QED BY <2>2, <2>3
<1> QED BY <1>1, <1>2

\* What a fan-out hands to SendEvent is an update.
LEMMA UpdateIsMessage ==
  ASSUME TypeOK, Shape, NEW p \in Publishers, list[p] # {}
  PROVE  [from |-> p, n |-> sent[p]] \in Messages
<1>1. sent[p] \in 0..MaxUpdates /\ sent[p] > 0 BY DEF TypeOK, Shape
<1>2. sent[p] \in 1..MaxUpdates BY <1>1, SocketAssumption
<1> QED BY <1>2, MessageFacts

LEMMA TypeStep ==
  ASSUME TypeOK, Shape, ClosedFirst, Next PROVE TypeOK'
<1> USE SocketAssumption DEF TypeOK
<1>1. ASSUME NEW p \in Publishers, Publish(p) PROVE TypeOK'
  BY <1>1 DEF Publish, channel, peer
<1>2. ASSUME NEW p \in Publishers, Tell(p) PROVE TypeOK'
  <2>1. PICK c \in list[p] : /\ SendEvent(c, [from |-> p, n |-> sent[p]])
                             /\ list' = [list EXCEPT ![p] = list[p] \ {c}]
    BY <1>2 DEF Tell
  <2>2. c \in Conns OBVIOUS
  <2>3. [from |-> p, n |-> sent[p]] \in Messages BY UpdateIsMessage
  <2>4. /\ UNCHANGED <<closed, chanOpen, panicked>>
        /\ queue' \in [Conns -> Seq(Messages)] /\ \A d \in Conns : Len(queue'[d]) <= Cap
        /\ due' \in [Conns -> Seq(Messages)] /\ full' \in [Conns -> BOOLEAN]
    BY <2>1, <2>2, <2>3, SendEventFacts
  <2> QED BY <1>2, <2>1, <2>4 DEF Tell, peer
<1>3. ASSUME NEW c \in Conns, Hello(c) \/ InitState(c) PROVE TypeOK'
  <2>1. SendEvent(c, ServerMsg) /\ Goto(c, "read") /\ UNCHANGED <<fan, writer, out, peer>>
    BY <1>3 DEF Hello, InitState
  <2>2. /\ UNCHANGED <<closed, chanOpen, panicked>>
        /\ queue' \in [Conns -> Seq(Messages)] /\ \A d \in Conns : Len(queue'[d]) <= Cap
        /\ due' \in [Conns -> Seq(Messages)] /\ full' \in [Conns -> BOOLEAN]
    BY <2>1, MessageFacts, SendEventFacts
  <2> QED BY <2>1, <2>2 DEF Goto, fan, peer
<1>4. ASSUME NEW c \in Conns, \/ Initialize(c) \/ AddSubscriber(c) \/ Unsubscribe(c)
                              \/ BadMessage(c) \/ ReadFails(c) \/ Leave(c)
                              \/ CloseNow(c) \/ GoAway(c)
      PROVE  TypeOK'
  <2> USE DEF Goto, fan, channel, peer
  <2>1. CASE Initialize(c) BY <2>1 DEF Initialize
  <2>2. CASE AddSubscriber(c) BY <2>2 DEF AddSubscriber
  <2>3. CASE Unsubscribe(c) BY <2>3 DEF Unsubscribe
  <2>4. CASE BadMessage(c) BY <2>4 DEF BadMessage
  <2>5. CASE ReadFails(c) BY <2>5 DEF ReadFails
  <2>6. CASE Leave(c) BY <2>6 DEF Leave
  <2>7. CASE CloseNow(c) BY <2>7 DEF CloseNow
  <2>8. CASE GoAway(c) BY <2>8 DEF GoAway
  <2> QED BY <1>4, <2>1, <2>2, <2>3, <2>4, <2>5, <2>6, <2>7, <2>8
<1>5. ASSUME NEW c \in Conns, Cleanup(c) PROVE TypeOK'
  BY <1>5 DEF Cleanup, Goto, fan, peer
<1>6. ASSUME NEW c \in Conns, Take(c) PROVE TypeOK'
  <2>1. /\ Head(queue[c]) \in Messages /\ Tail(queue[c]) \in Seq(Messages)
        /\ Len(Tail(queue[c])) <= Cap
    BY <1>6, HeadTailProperties, LenProperties DEF Take
  <2>2. <<Head(queue[c])>> \in Seq(Messages) BY <2>1
  <2> QED BY <1>6, <2>1, <2>2 DEF Take, fan, peer
<1>7. ASSUME NEW c \in Conns, Written(c) PROVE TypeOK'
  <2>1. PICK m \in Messages : out[c] = <<m>> BY <1>7 DEF Written, Shape
  <2>2. out[c][1] = m /\ (m.from = "server" \/ m.from \in Publishers)
    BY <2>1, MessageFacts
  <2>3. m.from \in Publishers => m.n \in 0..MaxUpdates BY DEF Messages
  <2>4. last' \in [Conns -> [Publishers -> 0..MaxUpdates]]
    BY <1>7, <2>2, <2>3 DEF Written
  <2>5. due' \in [Conns -> Seq(Messages)]
    <3>1. due[c] # <<>> => Tail(due[c]) \in Seq(Messages) BY HeadTailProperties
    <3> QED BY <1>7, <3>1 DEF Written
  <2>6. out' \in [Conns -> Seq(Messages)] BY <1>7, EmptySeq DEF Written
  <2> QED BY <1>7, <2>4, <2>5, <2>6 DEF Written, fan
<1>8. ASSUME NEW c \in Conns, WriterEnds(c) PROVE TypeOK'
  BY <1>8, EmptySeq DEF WriterEnds, fan, channel, peer
<1> QED BY <1>1, <1>2, <1>3, <1>4, <1>5, <1>6, <1>7, <1>8 DEF Next, Proceed, Write

LEMMA ShapeStep ==
  ASSUME TypeOK, Shape, Next PROVE Shape'
<1> USE DEF Shape
<1>1. ASSUME NEW p \in Publishers, Publish(p) PROVE Shape'
  BY <1>1, SocketAssumption DEF Publish, TypeOK
<1>2. ASSUME NEW p \in Publishers, Tell(p) PROVE Shape'
  BY <1>2 DEF Tell, TypeOK
<1>3. ASSUME NEW c \in Conns, Take(c) PROVE Shape'
  <2>1. Head(queue[c]) \in Messages BY <1>3, HeadTailProperties DEF Take, TypeOK
  <2> QED BY <1>3, <2>1 DEF Take, TypeOK, fan
<1>4. ASSUME NEW c \in Conns, Written(c) PROVE Shape'
  BY <1>4 DEF Written, TypeOK, fan
<1>5. ASSUME NEW c \in Conns, WriterEnds(c) PROVE Shape'
  BY <1>5 DEF WriterEnds, TypeOK, fan
<1>6. ASSUME UNCHANGED <<sent, list, writer, out>> PROVE Shape'
  BY <1>6
<1>7. ASSUME NEW c \in Conns, \/ Initialize(c) \/ Unsubscribe(c) \/ BadMessage(c)
                              \/ Proceed(c) \/ GoAway(c)
      PROVE  UNCHANGED <<sent, list, writer, out>>
  BY <1>7 DEF Proceed, Hello, Initialize, AddSubscriber, InitState, Unsubscribe,
              BadMessage, ReadFails, Cleanup, Leave, CloseNow, GoAway, fan
<1> QED BY <1>1, <1>2, <1>3, <1>4, <1>5, <1>6, <1>7 DEF Next, Write

LEMMA ClosedFirstStep ==
  ASSUME TypeOK, Shape, ClosedFirst, Next PROVE ClosedFirst'
<1> USE DEF ClosedFirst
<1>1. ASSUME NEW p \in Publishers, Tell(p) PROVE ClosedFirst'
  <2>1. PICK c \in list[p] : SendEvent(c, [from |-> p, n |-> sent[p]])
    BY <1>1 DEF Tell
  <2>2. c \in Conns BY DEF TypeOK
  <2> QED BY <2>1, <2>2, UpdateIsMessage, SendEventFacts
<1>2. ASSUME NEW c \in Conns, Hello(c) \/ InitState(c) PROVE ClosedFirst'
  <2>1. SendEvent(c, ServerMsg) BY <1>2 DEF Hello, InitState
  <2> QED BY <2>1, MessageFacts, SendEventFacts
<1>3. ASSUME NEW c \in Conns, Cleanup(c) PROVE ClosedFirst'
  BY <1>3 DEF Cleanup, TypeOK
<1>4. ASSUME UNCHANGED <<closed, chanOpen, panicked>> PROVE ClosedFirst'
  BY <1>4
<1>5. ASSUME NEW p \in Publishers, Publish(p) PROVE UNCHANGED <<closed, chanOpen, panicked>>
  BY <1>5 DEF Publish, channel
<1>6. ASSUME NEW c \in Conns, \/ Initialize(c) \/ Unsubscribe(c) \/ BadMessage(c)
                              \/ AddSubscriber(c) \/ ReadFails(c) \/ Leave(c)
                              \/ CloseNow(c) \/ GoAway(c) \/ Write(c) \/ Written(c)
      PROVE  UNCHANGED <<closed, chanOpen, panicked>>
  BY <1>6 DEF Initialize, AddSubscriber, Unsubscribe, BadMessage, ReadFails, Leave,
              CloseNow, GoAway, Write, Take, WriterEnds, Written, channel
<1> QED BY <1>1, <1>2, <1>3, <1>4, <1>5, <1>6 DEF Next, Proceed

\* How what is on its way to a connection changes: a message is put behind, the
\* first one is received, or nothing happens to it.
LEMMA PendingStep ==
  ASSUME TypeOK, Shape, ClosedFirst, NEW c \in Conns,
         UNCHANGED out, NEW m \in Messages, NEW d \in Conns, SendEvent(d, m)
  PROVE  \/ /\ Pending(c)' = Pending(c)
            /\ full'[c] \/ (full'[c] = full[c] /\ due'[c] = due[c])
         \/ /\ c = d /\ Pending(c)' = Append(Pending(c), m) /\ full'[c] = full[c]
            /\ (open[c] /\ ~full[c]) => due'[c] = Append(due[c], m)
<1>1. out[c] \in Seq(Messages) /\ queue[c] \in Seq(Messages) BY DEF TypeOK
<1>2. CASE c # d BY <1>2, SendEventFacts DEF Pending
<1>3. CASE c = d /\ queue'[c] = queue[c]
  <2>1. \/ due'[c] = due[c] /\ full'[c] = full[c]
        \/ full'[c]
        \/ queue'[c] = Append(queue[c], m)
    BY <1>3, SendEventFacts
  <2>2. queue'[c] # Append(queue[c], m)
    BY <1>1, <1>3, AppendProperties, LenProperties
  <2> QED BY <1>3, <2>1, <2>2 DEF Pending
<1>4. CASE c = d /\ queue'[c] # queue[c]
  <2>1. /\ queue'[c] = Append(queue[c], m) /\ full'[c] = full[c]
        /\ (open[c] /\ ~full[c]) => due'[c] = Append(due[c], m)
    BY <1>4, SendEventFacts
  <2>2. out[c] \o Append(queue[c], m) = Append(out[c] \o queue[c], m)
    BY <1>1, JoinAppend
  <2>3. Pending(c)' = Append(Pending(c), m) BY <2>1, <2>2 DEF Pending
  <2> QED BY <1>4, <2>1, <2>3
<1> QED BY <1>2, <1>3, <1>4

\* The writer's own steps: what it holds joins the channel, or is lost with the
\* socket.
LEMMA WriterStep ==
  ASSUME TypeOK, Shape, NEW c \in Conns, NEW d \in Conns, Write(d)
  PROVE  \/ Pending(c)' = Pending(c)
         \/ /\ ~open[c] /\ Pending(c)' = queue[c]
            /\ \E m \in Messages : Pending(c) = <<m>> \o queue[c]
<1>1. queue[c] \in Seq(Messages) BY DEF TypeOK
<1>2. CASE c # d BY <1>2 DEF Write, Take, WriterEnds, Pending, TypeOK, channel
<1>3. CASE c = d /\ Take(d)
  <2>1. out[c] = <<>> BY <1>3 DEF Take, Shape
  <2>2. out'[c] = <<Head(queue[c])>> /\ queue'[c] = Tail(queue[c]) /\ queue[c] # <<>>
    BY <1>3 DEF Take, TypeOK
  <2>3. out'[c] \o queue'[c] = queue[c] BY <1>1, <2>2, JoinTake
  <2>4. out[c] \o queue[c] = queue[c] BY <1>1, <2>1, JoinEmpty
  <2> QED BY <2>3, <2>4 DEF Pending
<1>4. CASE c = d /\ WriterEnds(d)
  <2>1. out'[c] = <<>> /\ queue' = queue BY <1>4 DEF WriterEnds, TypeOK, channel
  <2>2. Pending(c)' = queue[c] BY <1>1, <2>1, JoinEmpty DEF Pending
  <2>3. CASE writer[c] = "wait"
    <3>1. out[c] = <<>> BY <2>3 DEF Shape
    <3> QED BY <3>1, <2>1 DEF Pending
  <2>4. CASE writer[c] = "write" /\ ~open[c]
    <3>1. \E m \in Messages : out[c] = <<m>> BY <2>4 DEF Shape
    <3> QED BY <3>1, <2>2, <2>4 DEF Pending
  <2> QED BY <1>4, <2>3, <2>4 DEF WriterEnds
<1> QED BY <1>2, <1>3, <1>4 DEF Write

LEMMA OverflowStep ==
  ASSUME TypeOK, Shape, ClosedFirst, OnlyOverflowLoses, Next
  PROVE  OnlyOverflowLoses'
<1> SUFFICES ASSUME NEW c \in Conns, open'[c], ~full'[c]
             PROVE  Pending(c)' = due'[c]
  BY DEF OnlyOverflowLoses, Pending
<1>1. (open[c] /\ ~full[c]) => Pending(c) = due[c] BY DEF OnlyOverflowLoses, Pending
<1>2. ASSUME NEW m \in Messages, NEW d \in Conns, SendEvent(d, m), UNCHANGED <<out, open>>
      PROVE  Pending(c)' = due'[c]
  <2>1. open[c] BY <1>2
  <2>2. CASE /\ Pending(c)' = Pending(c)
             /\ full'[c] \/ (full'[c] = full[c] /\ due'[c] = due[c])
    BY <1>1, <2>1, <2>2
  <2>3. CASE /\ Pending(c)' = Append(Pending(c), m) /\ full'[c] = full[c]
             /\ (open[c] /\ ~full[c]) => due'[c] = Append(due[c], m)
    BY <1>1, <2>1, <2>3
  <2> QED BY <1>2, <2>2, <2>3, PendingStep
<1>3. ASSUME NEW p \in Publishers, Tell(p) PROVE Pending(c)' = due'[c]
  <2>1. PICK d \in list[p] : SendEvent(d, [from |-> p, n |-> sent[p]])
    BY <1>3 DEF Tell
  <2>2. d \in Conns BY DEF TypeOK
  <2>3. [from |-> p, n |-> sent[p]] \in Messages BY UpdateIsMessage
  <2> QED BY <1>2, <1>3, <2>1, <2>2, <2>3 DEF Tell, peer
<1>4. ASSUME NEW d \in Conns, Hello(d) \/ InitState(d) PROVE Pending(c)' = due'[c]
  BY <1>2, <1>4, MessageFacts DEF Hello, InitState, peer
<1>5. ASSUME NEW d \in Conns, Write(d) PROVE Pending(c)' = due'[c]
  <2>1. UNCHANGED <<open, full, due>> BY <1>5 DEF Write, Take, WriterEnds, channel, peer
  <2> QED BY <1>1, <1>5, <2>1, WriterStep
<1>6. ASSUME NEW d \in Conns, Written(d) PROVE Pending(c)' = due'[c]
  <2>1. UNCHANGED <<open, full, queue>> BY <1>6 DEF Written
  <2>2. CASE c # d BY <1>1, <1>6, <2>1, <2>2 DEF Written, Pending, TypeOK
  <2>3. CASE c = d
    <3>1. PICK m \in Messages : out[c] = <<m>> BY <1>6, <2>3 DEF Written, Shape
    <3>2. queue[c] \in Seq(Messages) BY DEF TypeOK
    <3>3. due[c] = <<m>> \o queue[c] BY <1>1, <2>1, <3>1 DEF Pending
    <3>4. due[c] # <<>> /\ Tail(due[c]) = queue[c] BY <3>2, <3>3, JoinWritten
    <3>5. due'[c] = queue[c] BY <1>6, <2>3, <3>4 DEF Written, TypeOK
    <3>6. out'[c] = <<>> BY <1>6, <2>3 DEF Written, TypeOK
    <3> QED BY <2>1, <3>2, <3>5, <3>6, JoinEmpty DEF Pending
  <2> QED BY <2>2, <2>3
<1>7. ASSUME UNCHANGED <<out, queue, full, due>>, open'[c] => open[c]
      PROVE  Pending(c)' = due'[c]
  BY <1>1, <1>7 DEF Pending
<1>8. ASSUME NEW p \in Publishers, Publish(p) PROVE Pending(c)' = due'[c]
  BY <1>7, <1>8 DEF Publish, channel, peer
<1>9. ASSUME NEW d \in Conns, \/ Initialize(d) \/ AddSubscriber(d) \/ Unsubscribe(d)
                              \/ ReadFails(d) \/ Cleanup(d) \/ Leave(d)
      PROVE  Pending(c)' = due'[c]
  BY <1>7, <1>9 DEF Initialize, AddSubscriber, Unsubscribe, ReadFails, Cleanup, Leave,
                    channel, peer
<1>10. ASSUME NEW d \in Conns, BadMessage(d) \/ CloseNow(d) \/ GoAway(d)
       PROVE  Pending(c)' = due'[c]
  <2>1. open'[c] => open[c] BY <1>10 DEF BadMessage, CloseNow, GoAway, TypeOK
  <2> QED BY <1>7, <1>10, <2>1 DEF BadMessage, CloseNow, GoAway, channel
<1> QED BY <1>3, <1>4, <1>5, <1>6, <1>8, <1>9, <1>10 DEF Next, Proceed

LEMMA ToldType ==
  ASSUME TypeOK, Shape, NEW c \in Conns
  PROVE  Told(c) \in [Publishers -> Nat] /\ last[c] \in [Publishers -> Nat]
<1>1. ASSUME NEW p \in Publishers
      PROVE  (IF c \in list[p] THEN sent[p] - 1 ELSE sent[p]) \in Nat
  <2>1. sent[p] \in Nat BY SocketAssumption DEF TypeOK
  <2>2. c \in list[p] => sent[p] > 0 BY DEF Shape
  <2> QED BY <2>1, <2>2
<1>2. last[c] \in [Publishers -> Nat] BY SocketAssumption DEF TypeOK
<1> QED BY <1>1, <1>2 DEF Told

\* The two facts of InOrder about one connection.
InOrderOf(c) ==
  /\ \A p \in Publishers : last[c][p] <= Told(c)[p]
  /\ Rising(Pending(c), last[c], Told(c))

LEMMA InOrderStep ==
  ASSUME TypeOK, TypeOK', Shape, Shape', ClosedFirst, InOrder, Next
  PROVE  InOrder'
<1> SUFFICES ASSUME NEW c \in Conns PROVE InOrderOf(c)' BY DEF InOrder, InOrderOf
<1> DEFINE lo == last[c]
           hi == Told(c)
<1>1. InOrderOf(c) BY DEF InOrder, InOrderOf
<1>2. hi \in [Publishers -> Nat] /\ lo \in [Publishers -> Nat] BY ToldType
<1>3. hi' \in [Publishers -> Nat] /\ lo' \in [Publishers -> Nat]
  <2>1. ASSUME NEW p \in Publishers
        PROVE  (IF c \in list'[p] THEN sent'[p] - 1 ELSE sent'[p]) \in Nat
    <3>1. sent'[p] \in Nat BY SocketAssumption DEF TypeOK
    <3>2. c \in list'[p] => sent'[p] > 0 BY DEF Shape
    <3> QED BY <3>1, <3>2
  <2>2. last'[c] \in [Publishers -> Nat] BY SocketAssumption DEF TypeOK
  <2> QED BY <2>1, <2>2 DEF Told
<1>4. Pending(c) \in Seq(Messages) BY ConcatProperties DEF Pending, TypeOK
<1> HIDE DEF lo, hi
<1>5. ASSUME lo' = lo, \A p \in Publishers : hi[p] <= hi'[p],
             Pending(c)' = Pending(c)
      PROVE  InOrderOf(c)'
  <2>1. Rising(Pending(c), lo, hi) BY <1>1 DEF InOrderOf, lo, hi
  <2>2. Rising(Pending(c), lo, hi') BY <1>2, <1>3, <1>4, <1>5, <2>1, RisingWider
  <2>3. \A p \in Publishers : lo[p] <= hi'[p] BY <1>1, <1>2, <1>3, <1>5 DEF InOrderOf, lo, hi
  <2> QED BY <1>5, <2>2, <2>3 DEF InOrderOf, lo, hi
<1>6. ASSUME NEW m \in Messages, lo' = lo, \A p \in Publishers : hi[p] <= hi'[p],
             Pending(c)' = Append(Pending(c), m),
             m.from \in Publishers => m.n = hi'[m.from] /\ hi[m.from] < m.n
      PROVE  InOrderOf(c)'
  <2>1. Rising(Pending(c), lo, hi) BY <1>1 DEF InOrderOf, lo, hi
  <2>2. Rising(Pending(c), lo, hi') BY <1>2, <1>3, <1>4, <1>6, <2>1, RisingWider
  <2>3. \A p \in Publishers : lo[p] <= hi[p] BY <1>1 DEF InOrderOf, lo, hi
  <2>4. ASSUME m.from \in Publishers
        PROVE  /\ lo[m.from] < m.n /\ m.n <= hi'[m.from]
               /\ \A i \in 1..Len(Pending(c)) :
                    Pending(c)[i].from = m.from => Pending(c)[i].n < m.n
    <3>1. m.n \in Nat /\ lo[m.from] \in Nat /\ hi[m.from] \in Nat
      BY <1>2, <2>4, MessageFacts
    <3>2. lo[m.from] < m.n /\ m.n <= hi'[m.from] BY <1>6, <2>3, <2>4, <3>1
    <3>3. ASSUME NEW i \in 1..Len(Pending(c)), Pending(c)[i].from = m.from
          PROVE  Pending(c)[i].n < m.n
      <4>1. Pending(c)[i] \in Messages BY <1>4, ElementOfSeq
      <4>2. Pending(c)[i].n \in Nat BY <4>1, MessageFacts
      <4>3. Pending(c)[i].n <= hi[m.from] BY <2>1, <2>4, <3>3 DEF Rising
      <4> QED BY <1>6, <2>4, <3>1, <4>2, <4>3
    <3> QED BY <3>2, <3>3
  <2>5. Rising(Append(Pending(c), m), lo, hi')
    BY <1>2, <1>3, <1>4, <2>2, <2>4, RisingAppend
  <2>6. \A p \in Publishers : lo[p] <= hi'[p] BY <1>2, <1>3, <1>6, <2>3
  <2> QED BY <1>6, <2>5, <2>6 DEF InOrderOf, lo, hi
<1>7. ASSUME NEW p \in Publishers, Publish(p) PROVE InOrderOf(c)'
  <2>1. lo' = lo /\ Pending(c)' = Pending(c)
    BY <1>7 DEF Publish, channel, peer, lo, Pending
  <2>2. \A q \in Publishers : hi[q] <= hi'[q]
    BY <1>7, SocketAssumption DEF Publish, TypeOK, hi, Told
  <2> QED BY <1>5, <2>1, <2>2
<1>8. ASSUME NEW p \in Publishers, Tell(p) PROVE InOrderOf(c)'
  <2> DEFINE m == [from |-> p, n |-> sent[p]]
  <2>1. PICK d \in list[p] : /\ SendEvent(d, m)
                             /\ list' = [list EXCEPT ![p] = list[p] \ {d}]
                             /\ UNCHANGED <<sent, out, last>>
    BY <1>8 DEF Tell, peer
  <2>2. d \in Conns /\ list[p] # {} /\ m \in Messages BY UpdateIsMessage DEF TypeOK
  <2>3. lo' = lo BY <2>1 DEF lo
  <2>4. ASSUME NEW q \in Publishers PROVE hi[q] <= hi'[q]
    <3>1. sent[q] \in Nat BY SocketAssumption DEF TypeOK
    <3>2. c \in list'[q] => c \in list[q] BY <2>1 DEF TypeOK
    <3>3. /\ hi[q] = IF c \in list[q] THEN sent[q] - 1 ELSE sent[q]
          /\ hi'[q] = IF c \in list'[q] THEN sent[q] - 1 ELSE sent[q]
      BY <2>1 DEF hi, Told
    <3> QED BY <3>1, <3>2, <3>3
  <2>5. c = d => m.n = hi'[p] /\ hi[p] < m.n
    BY <2>1, <2>2, SocketAssumption DEF TypeOK, hi, Told
  <2>6. CASE Pending(c)' = Pending(c) BY <1>5, <2>3, <2>4, <2>6
  <2>7. CASE c = d /\ Pending(c)' = Append(Pending(c), m)
    <3>1. m.from = p OBVIOUS
    <3> HIDE DEF m
    <3> QED BY <1>6, <2>2, <2>3, <2>4, <2>5, <2>7, <3>1
  <2> QED BY <2>1, <2>2, <2>6, <2>7, PendingStep
<1>9. ASSUME UNCHANGED <<sent, list, last>>, Pending(c)' = Pending(c) PROVE InOrderOf(c)'
  <2>1. lo' = lo /\ hi' = hi BY <1>9 DEF lo, hi, Told
  <2>2. \A q \in Publishers : hi[q] <= hi'[q] BY <1>2, <2>1
  <2> QED BY <1>5, <1>9, <2>1, <2>2
<1>10. ASSUME NEW d \in Conns, Hello(d) \/ InitState(d) PROVE InOrderOf(c)'
  <2>1. SendEvent(d, ServerMsg) /\ UNCHANGED <<sent, list, out, last>>
    BY <1>10 DEF Hello, InitState, fan, peer
  <2>2. lo' = lo /\ hi' = hi BY <2>1 DEF lo, hi, Told
  <2>3. \A q \in Publishers : hi[q] <= hi'[q] BY <1>2, <2>2
  <2>4. CASE Pending(c)' = Pending(c) BY <1>5, <2>2, <2>3, <2>4
  <2>5. CASE Pending(c)' = Append(Pending(c), ServerMsg)
    BY <1>6, <2>2, <2>3, <2>5, MessageFacts
  <2> QED BY <2>1, <2>4, <2>5, MessageFacts, PendingStep
<1>11. ASSUME NEW d \in Conns, Write(d) PROVE InOrderOf(c)'
  <2>1. UNCHANGED <<sent, list, last>> BY <1>11 DEF Write, Take, WriterEnds, fan, peer
  <2>2. CASE Pending(c)' = Pending(c) BY <1>9, <2>1, <2>2
  <2>3. CASE /\ Pending(c)' = queue[c]
             /\ \E m \in Messages : Pending(c) = <<m>> \o queue[c]
    <3>1. PICK m \in Messages : Pending(c) = <<m>> \o queue[c] BY <2>3
    <3>2. queue[c] \in Seq(Messages) BY DEF TypeOK
    <3>3. Rising(<<m>> \o queue[c], lo, hi) BY <1>1, <3>1 DEF InOrderOf, lo, hi
    <3>4. Rising(queue[c], lo, hi) BY <1>2, <3>2, <3>3, RisingTail
    <3>5. lo' = lo /\ hi' = hi BY <2>1 DEF lo, hi, Told
    <3> QED BY <1>1, <2>3, <3>4, <3>5 DEF InOrderOf, lo, hi
  <2> QED BY <1>11, <2>2, <2>3, WriterStep
<1>12. ASSUME NEW d \in Conns, Written(d) PROVE InOrderOf(c)'
  <2>1. UNCHANGED <<sent, list, queue>> BY <1>12 DEF Written, fan
  <2>2. CASE c # d
    <3>1. lo' = lo /\ hi' = hi /\ Pending(c)' = Pending(c)
      <4>1. PICK m \in Messages : out[d] = <<m>> BY <1>12 DEF Written, Shape
      <4>2. last'[c] = last[c] /\ out'[c] = out[c] BY <1>12, <2>2 DEF Written, TypeOK
      <4> QED BY <2>1, <4>2 DEF lo, hi, Told, Pending
    <3>2. \A q \in Publishers : hi[q] <= hi'[q] BY <1>2, <3>1
    <3> QED BY <1>5, <3>1, <3>2
  <2>3. CASE c = d
    <3>1. PICK m \in Messages : out[c] = <<m>> BY <1>12, <2>3 DEF Written, Shape
    <3>2. queue[c] \in Seq(Messages) BY DEF TypeOK
    <3>3. Rising(<<m>> \o queue[c], lo, hi) BY <1>1, <3>1 DEF InOrderOf, Pending, lo, hi
    <3>4. /\ m.from \in Publishers => lo[m.from] < m.n /\ m.n <= hi[m.from]
          /\ Rising(queue[c], IF m.from = "server" THEN lo
                              ELSE [lo EXCEPT ![m.from] = m.n], hi)
      BY <1>2, <3>2, <3>3, RisingTail
    <3>5. lo' = IF m.from = "server" THEN lo ELSE [lo EXCEPT ![m.from] = m.n]
      BY <1>12, <2>3, <3>1 DEF Written, TypeOK, lo
    <3>6. hi' = hi BY <2>1 DEF hi, Told
    <3>7. Pending(c)' = queue[c]
      <4>1. out'[c] = <<>> BY <1>12, <2>3 DEF Written, TypeOK
      <4> QED BY <2>1, <3>2, <4>1, JoinEmpty DEF Pending
    <3>8. \A p \in Publishers : lo'[p] <= hi'[p]
      <4>1. \A p \in Publishers : lo[p] <= hi[p] BY <1>1 DEF InOrderOf, lo, hi
      <4> QED BY <1>2, <3>4, <3>5, <3>6, <4>1, MessageFacts
    <3> QED BY <3>4, <3>5, <3>6, <3>7, <3>8 DEF InOrderOf, lo, hi
  <2> QED BY <2>2, <2>3
<1>13. ASSUME NEW d \in Conns, \/ Initialize(d) \/ AddSubscriber(d) \/ Unsubscribe(d)
                               \/ BadMessage(d) \/ ReadFails(d) \/ Cleanup(d)
                               \/ Leave(d) \/ CloseNow(d) \/ GoAway(d)
       PROVE  InOrderOf(c)'
  <2>1. UNCHANGED <<sent, list, last, out, queue>>
    BY <1>13 DEF Initialize, AddSubscriber, Unsubscribe, BadMessage, ReadFails, Cleanup,
                 Leave, CloseNow, GoAway, fan, channel, peer
  <2> QED BY <1>9, <2>1 DEF Pending
<1> QED BY <1>7, <1>8, <1>10, <1>11, <1>12, <1>13 DEF Next, Proceed

-----------------------------------------------------------------------------
(* The theorems. *)

LEMMA InvStep == Inv /\ [Next]_vars => Inv'
<1> SUFFICES ASSUME Inv, [Next]_vars PROVE Inv' OBVIOUS
<1> USE DEF Inv
<1>1. CASE Next
  BY <1>1, TypeStep, ShapeStep, ClosedFirstStep, OverflowStep, InOrderStep
<1>2. CASE UNCHANGED vars
  <2> USE <1>2 DEF vars, fan, channel, peer
  <2>1. TypeOK' BY DEF TypeOK
  <2>2. Shape' /\ ClosedFirst' BY DEF Shape, ClosedFirst
  <2>3. OnlyOverflowLoses' BY DEF OnlyOverflowLoses
  <2>4. InOrder'
    <3>1. \A c \in Conns : Pending(c)' = Pending(c) /\ Told(c)' = Told(c) BY DEF Pending, Told
    <3>2. last' = last OBVIOUS
    <3>3. SUFFICES ASSUME NEW c \in Conns PROVE InOrderOf(c)' BY DEF InOrder, InOrderOf
    <3>4. InOrderOf(c) BY DEF InOrder, InOrderOf
    <3> QED BY <3>1, <3>2, <3>4 DEF InOrderOf, Rising
  <2> QED BY <2>1, <2>2, <2>3, <2>4
<1> QED BY <1>1, <1>2

THEOREM SocketInv == Spec => []Inv
<1>1. Init => Inv BY InitInv
<1>2. Inv /\ [Next]_vars => Inv' BY InvStep
<1> QED BY <1>1, <1>2, PTL DEF Spec

\* The state keeps its types, and no channel ever holds more than its capacity.
THEOREM SocketTypes == Spec => []TypeOK
<1>1. Inv => TypeOK BY DEF Inv
<1> QED BY <1>1, SocketInv, PTL

\* However the fan-out's copied lists and the cleanups interleave, SendEvent
\* never sends on a closed channel, which would end the process.
THEOREM NeverSendsOnClosed == Spec => []NoSendOnClosed
<1>1. Inv => NoSendOnClosed BY DEF Inv, ClosedFirst, NoSendOnClosed
<1> QED BY <1>1, SocketInv, PTL

\* Only a full channel or a closed socket loses a message: otherwise what was
\* handed to SendEvent and not yet received is with the writer or in the channel,
\* once each and in order.
THEOREM LosesOnlyOnOverflow == Spec => []OnlyOverflowLoses
<1>1. Inv => OnlyOverflowLoses BY DEF Inv
<1> QED BY <1>1, SocketInv, PTL

\* Every step of the server is one of Feed, or nothing a client could tell: a
\* merge publishes, a finished write delivers an update newer than all before.
LEMMA StepIsFeed == Inv /\ [Next]_vars => [F!Next]_<<sent, last>>
<1> SUFFICES ASSUME Inv, Next PROVE F!Next \/ UNCHANGED <<sent, last>>
  BY DEF vars, fan, peer
<1> USE DEF Inv
<1>1. ASSUME NEW p \in Publishers, Publish(p) PROVE F!Next
  BY <1>1 DEF Publish, peer, F!Next, F!Publish
<1>2. ASSUME NEW c \in Conns, Written(c) PROVE F!Next \/ UNCHANGED <<sent, last>>
  <2>1. PICK m \in Messages : out[c] = <<m>> BY <1>2 DEF Written, Shape
  <2>2. queue[c] \in Seq(Messages) BY DEF TypeOK
  <2>3. Rising(<<m>> \o queue[c], last[c], Told(c)) BY <2>1 DEF InOrder, Pending
  <2>4. Told(c) \in [Publishers -> Nat] /\ last[c] \in [Publishers -> Nat] BY ToldType
  <2>5. m.from \in Publishers => last[c][m.from] < m.n /\ m.n <= Told(c)[m.from]
    BY <2>2, <2>3, <2>4, RisingTail
  <2>6. out[c][1] = m /\ sent' = sent BY <1>2, <2>1 DEF Written, fan
  <2>7. CASE m.from = "server" BY <1>2, <2>6, <2>7 DEF Written
  <2>8. CASE m.from \in Publishers
    <3>1. m.n \in last[c][m.from] + 1 .. sent[m.from]
      BY <2>4, <2>5, <2>8, MessageFacts, SocketAssumption DEF Told, TypeOK
    <3>2. last' = [last EXCEPT ![c][m.from] = m.n]
      BY <1>2, <2>6, <2>8, SocketAssumption DEF Written
    <3>3. F!Receive(c, m.from) BY <2>6, <3>1, <3>2 DEF F!Receive
    <3> QED BY <2>8, <3>3 DEF F!Next
  <2> QED BY <2>7, <2>8, MessageFacts
<1>3. ASSUME NEW p \in Publishers, Tell(p) PROVE UNCHANGED <<sent, last>>
  BY <1>3 DEF Tell, peer
<1>4. ASSUME NEW c \in Conns, \/ Proceed(c) \/ Initialize(c) \/ Unsubscribe(c)
                              \/ BadMessage(c) \/ Write(c) \/ GoAway(c)
      PROVE  UNCHANGED <<sent, last>>
  BY <1>4 DEF Proceed, Hello, Initialize, AddSubscriber, InitState, Unsubscribe, BadMessage,
              ReadFails, Cleanup, Leave, CloseNow, Write, Take, WriterEnds, GoAway, fan, peer
<1> QED BY <1>1, <1>2, <1>3, <1>4 DEF Next

\* Behind slow readers, full channels, cleanups and concurrent publishers, what
\* each client receives is a Feed: of each publisher only newer updates, once.
THEOREM SocketIsFeed == Spec => FeedSpec
<1>1. Init => F!Init BY DEF Init, F!Init
<1>2. Inv /\ [Next]_vars => [F!Next]_<<sent, last>> BY StepIsFeed
<1> QED BY <1>1, <1>2, SocketInv, PTL DEF Spec, FeedSpec, F!Spec
=============================================================================
