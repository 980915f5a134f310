---------------------------- MODULE GatewayProofs ----------------------------
(***************************************************************************)
(* Gateway, for every set of users and every bound: the client loses and    *)
(* repeats no event of a session, has at most one heartbeat unanswered,     *)
(* monitors exactly the members once it has caught up, and asks for a new   *)
(* session only when one was lost.                                          *)
(*                                                                          *)
(* The invariant has one part for each: Lines is what a connection looks    *)
(* like before and after HELLO, Heart where the only heartbeat in flight    *)
(* may be, Order how the numbers on the wire continue the events handled,   *)
(* and Guild what is still to come for each user.  Bounds, on top of it,    *)
(* counts the sessions and the events still to be expected.                 *)
(***************************************************************************)
EXTENDS Gateway, TLAPS, FiniteSetTheorems, SequenceTheorems

Ops == ToClient \cup ToDiscord \cup {"none"}
AnyMessage == [op : Ops, n : Nat, sid : Nat, users : SUBSET Users]
AnyEvent == [kind : {"ready", "create", "chunk", "add", "remove", "other"},
             users : SUBSET Users]

\* TypeOK without its bounds, which take counting: they are proved last.
Types ==
  /\ phase \in {"dial", "read", "handle"} /\ got \in AnyMessage
  /\ sid \in Nat /\ url \in BOOLEAN /\ seq \in Nat /\ hasSeq \in BOOLEAN
  /\ monitored \subseteq Users /\ members \subseteq Users /\ gap \subseteq Users
  /\ hb \in {"off", "wait", "closed"} /\ ack \in BOOLEAN /\ ackCh \in 0..1
  /\ timer \in {"fired", "running"} /\ link \in {"down", "up", "cut"}
  /\ wire \in Seq(AnyMessage) /\ out \in Seq(AnyMessage)
  /\ session \in Nat /\ valid \in BOOLEAN /\ attached \in BOOLEAN /\ hostDead \in BOOLEAN
  /\ log \in Seq(AnyEvent) /\ changes \in Nat /\ losses \in Nat
  /\ done \in Seq(Nat) /\ missed \in BOOLEAN

None(q, op) == \A i \in 1..Len(q) : q[i].op # op
OneAtMost(q, op) == \A i, j \in 1..Len(q) : (q[i].op = op /\ q[j].op = op) => i = j

\* A connection before and after its HELLO is handled.
Lines ==
  /\ phase = "dial" => link = "down" /\ wire = <<>> /\ out = <<>> /\ hb = "off" /\ ~attached
  /\ phase # "handle" => got = Plain("none")
  /\ (phase # "dial" /\ hb = "off") =>
       /\ out = <<>> /\ ~attached
       /\ \/ phase = "read" /\ wire = <<Plain("hello")>>
          \/ phase = "handle" /\ got.op = "hello" /\ wire = <<>>
  /\ hb # "off" => None(wire, "hello") /\ got.op # "hello"
  /\ attached => valid

\* Where the unanswered heartbeat, or its ACK, may be.
Heart ==
  /\ hb = "off" => ack
  /\ ack => None(out, "beat") /\ None(wire, "ack") /\ got.op # "ack" /\ ackCh = 0
  /\ OneAtMost(out, "beat") /\ OneAtMost(wire, "ack")
  /\ ~None(out, "beat") => None(wire, "ack") /\ got.op # "ack" /\ ackCh = 0
  /\ ~None(wire, "ack") => got.op # "ack" /\ ackCh = 0
  /\ got.op = "ack" => ackCh = 0

\* The numbers on a wire go from first + 1 upwards, without a gap, to last at most.
Ordered(q, first, last) ==
  \A i \in 1..Len(q) : q[i].op = "dispatch" =>
    /\ first < q[i].n /\ q[i].n <= last
    /\ q[i].n = first + 1 \/ \E j \in 1..(i - 1) : q[j].op = "dispatch" /\ q[j].n + 1 = q[i].n
    /\ \A j \in 1..(i - 1) : q[j].op = "dispatch" => q[j].n < q[i].n

Reaches(q, first, last) ==
  first = last \/ \E i \in 1..Len(q) : q[i].op = "dispatch" /\ q[i].n = last

\* The events handled, and the one being handled.
Taken == Len(done) + (IF got.op = "dispatch" THEN 1 ELSE 0)

\* The handshake is the first message to Discord; no event comes before it.
Handshake ==
  \A i \in 1..Len(out) : out[i].op \in {"identify", "resume"} =>
    /\ i = 1 /\ ~attached /\ None(wire, "dispatch") /\ got.op # "dispatch"
    /\ out[i].op = "identify" => sid = 0
    /\ out[i].op = "resume" => sid # 0 /\ out[i].sid = sid /\ out[i].n = Len(done)

\* What the client keeps of the session.
Resumable == url = (sid # 0) /\ sid \in {0, session} /\ (session = 0 => ~valid /\ log = <<>>)

Numbers ==
  /\ sid # 0 => hasSeq /\ seq = Taken
  /\ got.op = "dispatch" => got.n = Taken /\ hasSeq /\ seq = Taken

\* What is still on the wire.
Stretch ==
  /\ Taken <= Len(log) /\ Ordered(wire, Taken, Len(log))
  /\ attached => Reaches(wire, Taken, Len(log))

Order == Handshake /\ Resumable /\ Numbers /\ Stretch

\* The events of the session that are not handled yet, and what they hold for u.
Pending == (Len(done) + 1)..Len(log)
Removed(u, i) == log[i].kind = "remove" /\ u \in log[i].users
Listed(u, i) == log[i].kind \in {"create", "chunk"} /\ u \in log[i].users

\* Who is monitored, or will be, is a member, or will be removed.
NoStranger ==
  /\ \A u \in monitored \ (members \cup gap) : \E i \in Pending : Removed(u, i)
  /\ \A i \in Pending : \A u \in Users \ members :
       Listed(u, i) => \E j \in Pending : j > i /\ Removed(u, j)

Asked(q, u) == \E i \in Requests(q) : u \in q[i].users

\* A member is monitored, or what starts their presence is on its way.
Coming(u) ==
  \/ u \in monitored /\ \A i \in Pending : ~Removed(u, i)
  \/ \E i \in Pending : /\ log[i].kind = "chunk" /\ u \in log[i].users
                        /\ \A j \in Pending : j > i => ~Removed(u, j)
  \/ \E i \in Pending : log[i].kind = "create" \/ (log[i].kind = "add" /\ u \in log[i].users)
  \/ Asked(out, u)

Guild == valid => NoStranger /\ (missed \/ \A u \in members : Coming(u))

Inv == Types /\ Lines /\ Heart /\ Order /\ Guild

-----------------------------------------------------------------------------
(* Sequences of messages. *)

LEMMA SeqFacts ==
  ASSUME NEW S, NEW q \in Seq(S)
  PROVE  /\ Len(q) \in Nat /\ (Len(q) = 0 <=> q = <<>>)
         /\ \A i \in 1..Len(q) : q[i] \in S
  BY LenProperties, EmptySeq, ElementOfSeq

LEMMA NumberFacts ==
  ASSUME NEW q \in Seq(AnyMessage) PROVE \A i \in 1..Len(q) : q[i].n \in Nat
<1>1. \A i \in 1..Len(q) : q[i] \in AnyMessage BY ElementOfSeq
<1>2. \A m \in AnyMessage : m.n \in Nat BY DEF AnyMessage
<1> QED BY <1>1, <1>2

LEMMA ConcatFacts ==
  ASSUME NEW S, NEW q \in Seq(S), NEW r \in Seq(S)
  PROVE  /\ Len(q) \in Nat /\ Len(r) \in Nat /\ q \o r \in Seq(S)
         /\ Len(q \o r) = Len(q) + Len(r) /\ \A i \in 1..Len(q) : (q \o r)[i] = q[i]
         /\ \A i \in 1..Len(q \o r) : i > Len(q) => (q \o r)[i] = r[i - Len(q)]
<1>1. Len(q) \in Nat /\ Len(r) \in Nat BY LenProperties
<1>2. /\ q \o r \in Seq(S) /\ Len(q \o r) = Len(q) + Len(r)
      /\ \A i \in 1..(Len(q) + Len(r)) : (q \o r)[i] = IF i <= Len(q) THEN q[i] ELSE r[i - Len(q)]
  BY ConcatProperties
<1> QED BY <1>1, <1>2

LEMMA EmptyFacts ==
  ASSUME NEW op
  PROVE  /\ Len(<<>>) = 0 /\ None(<<>>, op) /\ OneAtMost(<<>>, op)
         /\ Requests(<<>>) = {}
<1>1. Len(<<>>) = 0 BY EmptySeq
<1>2. 1..0 = {} OBVIOUS
<1> QED BY <1>1, <1>2 DEF None, OneAtMost, Requests

\* A message is sent: it comes last.
LEMMA SentFacts ==
  ASSUME NEW S, NEW q \in Seq(S), NEW m \in S
  PROVE  /\ Append(q, m) \in Seq(S) /\ Len(Append(q, m)) = Len(q) + 1
         /\ \A i \in 1..Len(q) : Append(q, m)[i] = q[i]
         /\ Append(q, m)[Len(q) + 1] = m
         /\ 1..Len(Append(q, m)) = 1..Len(q) \cup {Len(q) + 1}
<1>1. Len(q) \in Nat BY LenProperties
<1>2. /\ Append(q, m) \in Seq(S) /\ Len(Append(q, m)) = Len(q) + 1
      /\ \A i \in 1..Len(q) : Append(q, m)[i] = q[i]
      /\ Append(q, m)[Len(q) + 1] = m
  BY AppendProperties
<1>3. 1..(Len(q) + 1) = 1..Len(q) \cup {Len(q) + 1} BY <1>1
<1> QED BY <1>2, <1>3

\* The first message is taken.
LEMMA TakenFacts ==
  ASSUME NEW S, NEW q \in Seq(S), q # <<>>
  PROVE  /\ Tail(q) \in Seq(S) /\ Head(q) \in S /\ Head(q) = q[1]
         /\ Len(q) \in Nat /\ Len(q) > 0 /\ Len(Tail(q)) = Len(q) - 1
         /\ \A i \in 1..Len(Tail(q)) : i + 1 \in 1..Len(q) /\ Tail(q)[i] = q[i + 1]
<1>1. Len(q) \in Nat /\ Len(q) > 0 BY LenProperties, EmptySeq
<1>2. /\ Tail(q) \in Seq(S) /\ Head(q) \in S /\ Head(q) = q[1] /\ Len(Tail(q)) = Len(q) - 1
      /\ \A i \in 1..Len(Tail(q)) : Tail(q)[i] = q[i + 1]
  BY <1>1, HeadTailProperties
<1>3. \A i \in 1..(Len(q) - 1) : i + 1 \in 1..Len(q) BY <1>1
<1> QED BY <1>1, <1>2, <1>3

LEMMA SentKinds ==
  ASSUME NEW q \in Seq(AnyMessage), NEW m \in AnyMessage, NEW op
  PROVE  /\ m.op # op => (None(Append(q, m), op) <=> None(q, op))
         /\ m.op # op => (OneAtMost(Append(q, m), op) <=> OneAtMost(q, op))
         /\ None(q, op) => OneAtMost(Append(q, m), op)
<1> DEFINE a == Append(q, m)
<1>1. /\ Len(q) \in Nat /\ Len(a) = Len(q) + 1 /\ a[Len(q) + 1] = m
      /\ \A i \in 1..Len(q) : a[i] = q[i]
      /\ 1..Len(a) = 1..Len(q) \cup {Len(q) + 1}
  BY SentFacts, SeqFacts
<1> HIDE DEF a
<1>2. m.op # op => (None(a, op) <=> None(q, op)) BY <1>1 DEF None
<1>3. m.op # op => (OneAtMost(a, op) <=> OneAtMost(q, op)) BY <1>1 DEF OneAtMost
<1>4. None(q, op) => OneAtMost(a, op) BY <1>1 DEF OneAtMost, None
<1> QED BY <1>2, <1>3, <1>4 DEF a

LEMMA TakenKinds ==
  ASSUME NEW q \in Seq(AnyMessage), q # <<>>, NEW op
  PROVE  /\ None(q, op) => None(Tail(q), op) /\ Head(q).op # op
         /\ Head(q).op # op => (None(q, op) <=> None(Tail(q), op))
         /\ OneAtMost(q, op) => OneAtMost(Tail(q), op)
         /\ (OneAtMost(q, op) /\ Head(q).op = op) => None(Tail(q), op)
<1> DEFINE t == Tail(q)
           h == Head(q)
<1>1. /\ h = q[1] /\ Len(q) \in Nat /\ Len(q) > 0 /\ Len(t) = Len(q) - 1
      /\ \A i \in 1..Len(t) : i + 1 \in 1..Len(q) /\ t[i] = q[i + 1]
  BY TakenFacts
<1> HIDE DEF t, h
<1>2. 1 \in 1..Len(q) BY <1>1
<1>3. None(q, op) => None(t, op) /\ h.op # op BY <1>1, <1>2 DEF None
<1>4. ASSUME h.op # op, None(t, op) PROVE None(q, op)
  <2>1. SUFFICES ASSUME NEW i \in 1..Len(q), i # 1 PROVE q[i].op # op
    BY <1>1, <1>4 DEF None
  <2>2. i - 1 \in 1..Len(t) /\ (i - 1) + 1 = i BY <1>1, <2>1
  <2>3. t[i - 1] = q[i] BY <1>1, <2>2
  <2> QED BY <1>4, <2>2, <2>3 DEF None
<1>5. OneAtMost(q, op) => OneAtMost(t, op)
  <2>1. ASSUME OneAtMost(q, op), NEW i \in 1..Len(t), NEW j \in 1..Len(t),
               t[i].op = op, t[j].op = op
        PROVE  i = j
    <3>1. i + 1 = j + 1 BY <1>1, <2>1 DEF OneAtMost
    <3> QED BY <3>1
  <2> QED BY <2>1 DEF OneAtMost
<1>6. ASSUME OneAtMost(q, op), h.op = op, NEW i \in 1..Len(t) PROVE t[i].op # op
  <2>1. i + 1 \in 1..Len(q) /\ t[i] = q[i + 1] /\ i + 1 # 1 BY <1>1
  <2> QED BY <1>1, <1>2, <1>6, <2>1 DEF OneAtMost
<1>7. (OneAtMost(q, op) /\ h.op = op) => None(t, op) BY <1>6 DEF None
<1> QED BY <1>3, <1>4, <1>5, <1>7 DEF t, h

\* Messages of other kinds follow.
LEMMA MoreKinds ==
  ASSUME NEW q \in Seq(AnyMessage), NEW r \in Seq(AnyMessage), NEW op, None(r, op)
  PROVE  /\ None(q \o r, op) <=> None(q, op)
         /\ OneAtMost(q, op) => OneAtMost(q \o r, op)
<1> DEFINE c == q \o r
<1>1. Len(q) \in Nat /\ Len(r) \in Nat BY LenProperties
<1>2. /\ Len(c) = Len(q) + Len(r) /\ \A i \in 1..Len(q) : c[i] = q[i]
      /\ \A i \in 1..Len(c) : i > Len(q) => c[i] = r[i - Len(q)]
  BY ConcatFacts
<1> HIDE DEF c
<1>3. \A i \in 1..Len(c) : i \in 1..Len(q) \/ (i > Len(q) /\ i - Len(q) \in 1..Len(r))
  BY <1>1, <1>2
<1>4. \A i \in 1..Len(q) : i \in 1..Len(c) BY <1>1, <1>2
<1>5. \A i \in 1..Len(c) : c[i].op = op => i \in 1..Len(q) /\ c[i] = q[i]
  BY <1>2, <1>3 DEF None
<1>6. None(c, op) <=> None(q, op) BY <1>2, <1>4, <1>5 DEF None
<1>7. OneAtMost(q, op) => OneAtMost(c, op) BY <1>5 DEF OneAtMost
<1> QED BY <1>6, <1>7 DEF c

-----------------------------------------------------------------------------
(* The order of the events on a wire. *)

LEMMA OrderedEmpty ==
  ASSUME NEW first \in Nat, NEW last \in Nat PROVE Ordered(<<>>, first, last)
<1>1. 1..Len(<<>>) = {} BY EmptySeq
<1> QED BY <1>1 DEF Ordered

LEMMA OrderedNone ==
  ASSUME NEW q \in Seq(AnyMessage), NEW first \in Nat, NEW last \in Nat, None(q, "dispatch")
  PROVE  Ordered(q, first, last)
  BY DEF Ordered, None

\* Discord's log grows while the client is not attached.
LEMMA OrderedLater ==
  ASSUME NEW q \in Seq(AnyMessage), NEW first \in Nat, NEW last \in Nat,
         Ordered(q, first, last)
  PROVE  Ordered(q, first, last + 1)
<1>1. \A i \in 1..Len(q) : q[i].n \in Nat BY NumberFacts
<1>2. \A k \in Nat : k <= last => k <= last + 1 OBVIOUS
<1> QED BY <1>1, <1>2 DEF Ordered

\* A message that is no event, and the next event.
LEMMA OrderedPlain ==
  ASSUME NEW q \in Seq(AnyMessage), NEW m \in AnyMessage, m.op # "dispatch",
         NEW first \in Nat, NEW last \in Nat, Ordered(q, first, last)
  PROVE  /\ Ordered(Append(q, m), first, last)
         /\ Reaches(q, first, last) => Reaches(Append(q, m), first, last)
<1> DEFINE a == Append(q, m)
<1>1. /\ Len(q) \in Nat /\ Len(a) = Len(q) + 1 /\ a[Len(q) + 1] = m
      /\ \A i \in 1..Len(q) : a[i] = q[i]
      /\ 1..Len(a) = 1..Len(q) \cup {Len(q) + 1}
  BY SentFacts, SeqFacts
<1> HIDE DEF a
<1>2. ASSUME NEW i \in 1..Len(a), a[i].op = "dispatch"
      PROVE  i \in 1..Len(q) /\ a[i] = q[i] /\ \A j \in 1..(i - 1) : a[j] = q[j] /\ j \in 1..Len(q)
  BY <1>1, <1>2
<1>3. Ordered(a, first, last)
  <2>1. SUFFICES ASSUME NEW i \in 1..Len(a), a[i].op = "dispatch"
        PROVE  /\ first < a[i].n /\ a[i].n <= last
               /\ \/ a[i].n = first + 1
                  \/ \E j \in 1..(i - 1) : a[j].op = "dispatch" /\ a[j].n + 1 = a[i].n
               /\ \A j \in 1..(i - 1) : a[j].op = "dispatch" => a[j].n < a[i].n
    BY DEF Ordered
  <2>2. i \in 1..Len(q) /\ a[i] = q[i] /\ \A j \in 1..(i - 1) : a[j] = q[j] BY <1>2, <2>1
  <2> QED BY <2>1, <2>2 DEF Ordered
<1>4. Reaches(q, first, last) => Reaches(a, first, last) BY <1>1 DEF Reaches
<1> QED BY <1>3, <1>4 DEF a

LEMMA OrderedNext ==
  ASSUME NEW q \in Seq(AnyMessage), NEW first \in Nat, NEW last \in Nat,
         NEW m \in AnyMessage, m.op = "dispatch", m.n = last + 1,
         Ordered(q, first, last), Reaches(q, first, last), first <= last
  PROVE  Ordered(Append(q, m), first, last + 1) /\ Reaches(Append(q, m), first, last + 1)
<1> DEFINE a == Append(q, m)
<1>1. /\ Len(q) \in Nat /\ Len(a) = Len(q) + 1 /\ a[Len(q) + 1] = m
      /\ \A i \in 1..Len(q) : a[i] = q[i] /\ q[i] \in AnyMessage
      /\ 1..Len(a) = 1..Len(q) \cup {Len(q) + 1}
  BY SentFacts, SeqFacts
<1> HIDE DEF a
<1>2. \A i \in 1..Len(q) : q[i].n \in Nat BY <1>1 DEF AnyMessage
<1>3. ASSUME NEW i \in 1..Len(a), a[i].op = "dispatch"
      PROVE  /\ first < a[i].n /\ a[i].n <= last + 1
             /\ \/ a[i].n = first + 1
                \/ \E j \in 1..(i - 1) : a[j].op = "dispatch" /\ a[j].n + 1 = a[i].n
             /\ \A j \in 1..(i - 1) : a[j].op = "dispatch" => a[j].n < a[i].n
  <2>1. CASE i \in 1..Len(q)
    <3>1. a[i] = q[i] /\ \A j \in 1..(i - 1) : j \in 1..Len(q) /\ a[j] = q[j]
      BY <1>1, <2>1
    <3>2. /\ first < q[i].n /\ q[i].n <= last
          /\ \/ q[i].n = first + 1
             \/ \E j \in 1..(i - 1) : q[j].op = "dispatch" /\ q[j].n + 1 = q[i].n
          /\ \A j \in 1..(i - 1) : q[j].op = "dispatch" => q[j].n < q[i].n
      BY <1>3, <2>1, <3>1 DEF Ordered
    <3>3. q[i].n <= last + 1 BY <1>2, <2>1, <3>2
    <3> QED BY <3>1, <3>2, <3>3
  <2>2. CASE i = Len(q) + 1
    <3>1. a[i].n = last + 1 /\ i - 1 = Len(q) BY <1>1, <2>2
    <3>2. \A j \in 1..(i - 1) : a[j] = q[j] BY <1>1, <3>1
    <3>3. \A j \in 1..(i - 1) : a[j].op = "dispatch" => a[j].n < last + 1
      BY <1>2, <3>1, <3>2 DEF Ordered
    <3>4. \/ last + 1 = first + 1
          \/ \E j \in 1..(i - 1) : a[j].op = "dispatch" /\ a[j].n + 1 = last + 1
      BY <3>1, <3>2 DEF Reaches
    <3> QED BY <3>1, <3>3, <3>4
  <2> QED BY <1>1, <2>1, <2>2
<1>4. Ordered(a, first, last + 1) BY <1>3 DEF Ordered
<1>5. Len(q) + 1 \in 1..Len(a) BY <1>1
<1>6. Reaches(a, first, last + 1) BY <1>1, <1>5 DEF Reaches
<1> QED BY <1>4, <1>6 DEF a

\* What is read next continues what was handled.
LEMMA OrderedTaken ==
  ASSUME NEW q \in Seq(AnyMessage), q # <<>>, NEW first \in Nat, NEW last \in Nat,
         Ordered(q, first, last)
  PROVE  /\ Head(q).op = "dispatch" =>
              /\ Head(q).n = first + 1 /\ first + 1 <= last
              /\ Ordered(Tail(q), first + 1, last)
              /\ Reaches(q, first, last) => Reaches(Tail(q), first + 1, last)
         /\ Head(q).op # "dispatch" =>
              /\ Ordered(Tail(q), first, last)
              /\ Reaches(q, first, last) => Reaches(Tail(q), first, last)
<1> DEFINE t == Tail(q)
           h == Head(q)
<1>1. /\ h = q[1] /\ Len(q) \in Nat /\ Len(q) > 0 /\ Len(t) = Len(q) - 1
      /\ \A i \in 1..Len(t) : i + 1 \in 1..Len(q) /\ t[i] = q[i + 1]
  BY TakenFacts
<1>2. \A i \in 1..Len(q) : q[i].n \in Nat BY NumberFacts
<1> HIDE DEF t, h
<1>3. 1 \in 1..Len(q) /\ 1..(1 - 1) = {} BY <1>1
<1>4. h.op = "dispatch" => h.n = first + 1 /\ first + 1 <= last
  BY <1>1, <1>3 DEF Ordered
<1>5. ASSUME NEW i \in 1..Len(t), t[i].op = "dispatch"
      PROVE  /\ t[i].n \in Nat /\ first < t[i].n /\ t[i].n <= last
             /\ h.op = "dispatch" => h.n < t[i].n
             /\ \A j \in 1..(i - 1) : t[j].op = "dispatch" => t[j].n < t[i].n
             /\ \/ t[i].n = first + 1
                \/ h.op = "dispatch" /\ h.n + 1 = t[i].n
                \/ \E j \in 1..(i - 1) : t[j].op = "dispatch" /\ t[j].n + 1 = t[i].n
  <2>1. i + 1 \in 1..Len(q) /\ t[i] = q[i + 1] /\ 1 \in 1..((i + 1) - 1) BY <1>1
  <2>2. /\ q[i + 1].n \in Nat /\ first < q[i + 1].n /\ q[i + 1].n <= last
        /\ \A j \in 1..((i + 1) - 1) : q[j].op = "dispatch" => q[j].n < q[i + 1].n
        /\ \/ q[i + 1].n = first + 1
           \/ \E j \in 1..((i + 1) - 1) : q[j].op = "dispatch" /\ q[j].n + 1 = q[i + 1].n
    BY <1>2, <1>5, <2>1 DEF Ordered
  <2>3. \A j \in 1..(i - 1) : j + 1 \in 1..((i + 1) - 1) /\ t[j] = q[j + 1]
    BY <1>1
  <2>4. ASSUME NEW j \in 1..((i + 1) - 1), j # 1, q[j].op = "dispatch", q[j].n + 1 = q[i + 1].n
        PROVE  \E k \in 1..(i - 1) : t[k].op = "dispatch" /\ t[k].n + 1 = t[i].n
    <3>1. j - 1 \in 1..(i - 1) /\ (j - 1) + 1 = j BY <1>1, <2>4
    <3>2. t[j - 1] = q[j] BY <2>3, <3>1
    <3> QED BY <2>1, <2>4, <3>1, <3>2
  <2>5. h.op = "dispatch" => h.n < t[i].n BY <1>1, <2>1, <2>2
  <2>6. \A j \in 1..(i - 1) : t[j].op = "dispatch" => t[j].n < t[i].n BY <2>1, <2>2, <2>3
  <2>7. \/ t[i].n = first + 1
        \/ h.op = "dispatch" /\ h.n + 1 = t[i].n
        \/ \E j \in 1..(i - 1) : t[j].op = "dispatch" /\ t[j].n + 1 = t[i].n
    BY <1>1, <2>1, <2>2, <2>4
  <2> QED BY <2>1, <2>2, <2>5, <2>6, <2>7
<1>6. ASSUME h.op = "dispatch" PROVE Ordered(t, first + 1, last)
  <2>1. SUFFICES ASSUME NEW i \in 1..Len(t), t[i].op = "dispatch"
        PROVE  /\ first + 1 < t[i].n /\ t[i].n <= last
               /\ \/ t[i].n = (first + 1) + 1
                  \/ \E j \in 1..(i - 1) : t[j].op = "dispatch" /\ t[j].n + 1 = t[i].n
               /\ \A j \in 1..(i - 1) : t[j].op = "dispatch" => t[j].n < t[i].n
    BY DEF Ordered
  <2>2. h.n = first + 1 /\ h.n < t[i].n BY <1>4, <1>5, <1>6, <2>1
  <2>3. t[i].n # first + 1 BY <1>5, <2>1, <2>2
  <2> QED BY <1>5, <2>1, <2>2, <2>3
<1>7. ASSUME h.op # "dispatch" PROVE Ordered(t, first, last) BY <1>5, <1>7 DEF Ordered
<1>8. ASSUME NEW i \in 1..Len(q), q[i].op = "dispatch", q[i].n = last
      PROVE  \/ h.op = "dispatch" /\ h.n = last
             \/ \E k \in 1..Len(t) : t[k].op = "dispatch" /\ t[k].n = last
  <2>1. CASE i = 1 BY <1>1, <1>8, <2>1
  <2>2. CASE i # 1
    <3>1. i - 1 \in 1..Len(t) /\ (i - 1) + 1 = i BY <1>1, <2>2
    <3>2. t[i - 1] = q[i] BY <1>1, <3>1
    <3> QED BY <1>8, <3>1, <3>2
  <2> QED BY <2>1, <2>2
<1>9. ASSUME h.op = "dispatch", Reaches(q, first, last) PROVE Reaches(t, first + 1, last)
  <2>1. first # last BY <1>4, <1>9
  <2> QED BY <1>4, <1>8, <1>9, <2>1 DEF Reaches
<1>10. ASSUME h.op # "dispatch", Reaches(q, first, last) PROVE Reaches(t, first, last)
  BY <1>8, <1>10 DEF Reaches
<1> QED BY <1>4, <1>6, <1>7, <1>9, <1>10 DEF t, h

\* A replay of the events from first + 1 to last.
LEMMA OrderedReplay ==
  ASSUME NEW q \in Seq(AnyMessage), None(q, "dispatch"), NEW first \in Nat, NEW last \in Nat,
         first <= last, NEW r \in Seq(AnyMessage), Len(r) = last - first,
         \A i \in 1..Len(r) : r[i].op = "dispatch" /\ r[i].n = first + i
  PROVE  Ordered(q \o r, first, last) /\ Reaches(q \o r, first, last)
<1> DEFINE c == q \o r
<1>1. Len(q) \in Nat /\ Len(r) \in Nat BY LenProperties
<1>2. /\ Len(c) = Len(q) + Len(r) /\ \A i \in 1..Len(q) : c[i] = q[i]
      /\ \A i \in 1..Len(c) : i > Len(q) => c[i] = r[i - Len(q)]
  BY ConcatFacts
<1> HIDE DEF c
<1>3. ASSUME NEW i \in 1..Len(c), c[i].op = "dispatch"
      PROVE  /\ i > Len(q) /\ i - Len(q) \in 1..Len(r) /\ c[i].n = first + (i - Len(q))
  <2>1. i > Len(q) BY <1>1, <1>2, <1>3 DEF None
  <2>2. i - Len(q) \in 1..Len(r) BY <1>1, <1>2, <2>1
  <2> QED BY <1>2, <2>1, <2>2
<1>4. ASSUME NEW k \in 1..Len(r)
      PROVE  Len(q) + k \in 1..Len(c) /\ c[Len(q) + k].op = "dispatch" /\ c[Len(q) + k].n = first + k
  <2>1. Len(q) + k \in 1..Len(c) /\ Len(q) + k > Len(q) /\ (Len(q) + k) - Len(q) = k
    BY <1>1, <1>2
  <2> QED BY <1>2, <2>1
<1>5. ASSUME NEW i \in 1..Len(c), c[i].op = "dispatch"
      PROVE  /\ first < c[i].n /\ c[i].n <= last
             /\ \/ c[i].n = first + 1
                \/ \E j \in 1..(i - 1) : c[j].op = "dispatch" /\ c[j].n + 1 = c[i].n
             /\ \A j \in 1..(i - 1) : c[j].op = "dispatch" => c[j].n < c[i].n
  <2> DEFINE k == i - Len(q)
  <2>1. k \in 1..Len(r) /\ c[i].n = first + k /\ i = Len(q) + k BY <1>1, <1>3, <1>5
  <2>2. first < c[i].n /\ c[i].n <= last BY <1>1, <2>1
  <2>3. c[i].n = first + 1 \/ \E j \in 1..(i - 1) : c[j].op = "dispatch" /\ c[j].n + 1 = c[i].n
    <3>1. CASE k = 1 BY <2>1, <3>1
    <3>2. CASE k # 1
      <4>1. k - 1 \in 1..Len(r) /\ Len(q) + (k - 1) \in 1..(i - 1) BY <1>1, <2>1, <3>2
      <4>2. c[Len(q) + (k - 1)].op = "dispatch" /\ c[Len(q) + (k - 1)].n = first + (k - 1)
        BY <1>4, <4>1
      <4>3. (first + (k - 1)) + 1 = first + k BY <2>1
      <4> QED BY <2>1, <4>1, <4>2, <4>3
    <3> QED BY <3>1, <3>2
  <2>4. ASSUME NEW j \in 1..(i - 1), c[j].op = "dispatch" PROVE c[j].n < c[i].n
    <3>1. j \in 1..Len(c) BY <1>1, <1>2
    <3>2. c[j].n = first + (j - Len(q)) /\ j < i BY <1>3, <2>4, <3>1
    <3> QED BY <1>1, <2>1, <3>2
  <2> QED BY <2>2, <2>3, <2>4
<1>6. Ordered(c, first, last) BY <1>5 DEF Ordered
<1>7. Reaches(c, first, last)
  <2>1. CASE Len(r) = 0 BY <2>1 DEF Reaches
  <2>2. CASE Len(r) # 0
    <3>1. Len(r) \in 1..Len(r) /\ first + Len(r) = last BY <1>1, <2>2
    <3> QED BY <1>4, <3>1 DEF Reaches
  <2> QED BY <2>1, <2>2
<1> QED BY <1>6, <1>7 DEF c

-----------------------------------------------------------------------------
(* Member requests. *)

LEMMA AskedSent ==
  ASSUME NEW q \in Seq(AnyMessage), NEW m \in AnyMessage, NEW u
  PROVE  /\ Asked(q, u) => Asked(Append(q, m), u)
         /\ (m.op = "request" /\ u \in m.users) => Asked(Append(q, m), u)
<1> DEFINE a == Append(q, m)
<1>1. /\ Len(q) \in Nat /\ Len(a) = Len(q) + 1 /\ a[Len(q) + 1] = m
      /\ \A i \in 1..Len(q) : a[i] = q[i]
      /\ 1..Len(a) = 1..Len(q) \cup {Len(q) + 1}
  BY SentFacts, SeqFacts
<1> HIDE DEF a
<1>2. Asked(q, u) => Asked(a, u) BY <1>1 DEF Asked, Requests
<1>3. (m.op = "request" /\ u \in m.users) => Asked(a, u)
  <2>1. Len(q) + 1 \in 1..Len(a) BY <1>1
  <2> QED BY <1>1, <2>1 DEF Asked, Requests
<1> QED BY <1>2, <1>3 DEF a

LEMMA AskedTaken ==
  ASSUME NEW q \in Seq(AnyMessage), q # <<>>, NEW u, Asked(q, u)
  PROVE  Asked(Tail(q), u) \/ (Head(q).op = "request" /\ u \in Head(q).users)
<1> DEFINE t == Tail(q)
<1>1. /\ Head(q) = q[1] /\ Len(q) \in Nat /\ Len(q) > 0 /\ Len(t) = Len(q) - 1
      /\ \A i \in 1..Len(t) : i + 1 \in 1..Len(q) /\ t[i] = q[i + 1]
  BY TakenFacts
<1> HIDE DEF t
<1>2. PICK i \in 1..Len(q) : q[i].op = "request" /\ u \in q[i].users BY DEF Asked, Requests
<1>3. CASE i = 1 BY <1>1, <1>2, <1>3
<1>4. CASE i # 1
  <2>1. i - 1 \in 1..Len(t) /\ (i - 1) + 1 = i BY <1>1, <1>4
  <2>2. t[i - 1] = q[i] BY <1>1, <2>1
  <2>3. i - 1 \in Requests(t) BY <1>2, <2>1, <2>2 DEF Requests
  <2>4. Asked(t, u) BY <1>2, <2>2, <2>3 DEF Asked
  <2> QED BY <2>4 DEF t
<1> QED BY <1>3, <1>4

LEMMA AskedNone ==
  ASSUME NEW q, Requests(q) = {}, NEW u PROVE ~Asked(q, u)
  BY DEF Asked

-----------------------------------------------------------------------------
(* What the actions are made of. *)

LEMMA MessageTypes ==
  /\ Plain("none") \in AnyMessage /\ Plain("hello") \in AnyMessage /\ Plain("ack") \in AnyMessage
  /\ Plain("reconnect") \in AnyMessage /\ Plain("invalid") \in AnyMessage
  /\ Plain("beat") \in AnyMessage /\ Plain("identify") \in AnyMessage
  /\ \A n \in Nat : Dispatch(n) \in AnyMessage
  /\ \A n, s \in Nat : Msg("resume", n, s, {}) \in AnyMessage
  /\ \A us \in SUBSET Users : Msg("request", 0, 0, us) \in AnyMessage
  BY DEF Plain, Dispatch, Msg, AnyMessage, Ops, ToClient, ToDiscord

LEMMA MessageParts ==
  /\ \A op : Plain(op).op = op
  /\ \A n : Dispatch(n).op = "dispatch" /\ Dispatch(n).n = n
  /\ \A op, n, s, us : /\ Msg(op, n, s, us).op = op /\ Msg(op, n, s, us).n = n
                       /\ Msg(op, n, s, us).sid = s /\ Msg(op, n, s, us).users = us
  BY DEF Plain, Dispatch, Msg

LEMMA SendFacts ==
  ASSUME Types, NEW m \in AnyMessage, Send(m)
  PROVE  /\ link = "up" => out' = Append(out, m) /\ missed' = missed
         /\ link # "up" => out' = out /\ missed' = (missed \/ m.op = "request")
         /\ out' \in Seq(AnyMessage) /\ missed' \in BOOLEAN
<1>1. Append(out, m) \in Seq(AnyMessage) BY SentFacts DEF Types
<1> QED BY <1>1 DEF Send, Types

LEMMA EmitFacts ==
  ASSUME Types, Lines, NEW e \in AnyEvent, Emit(e)
  PROVE  /\ valid => /\ log' = Append(log, e)
                     /\ wire' = IF attached THEN Append(wire, Dispatch(Len(log) + 1)) ELSE wire
         /\ ~valid => log' = log /\ wire' = wire
         /\ log' \in Seq(AnyEvent) /\ wire' \in Seq(AnyMessage)
         /\ Len(log) \in Nat /\ Dispatch(Len(log) + 1) \in AnyMessage
         /\ Len(log') = IF valid THEN Len(log) + 1 ELSE Len(log)
<1>1. Len(log) \in Nat BY LenProperties DEF Types
<1>2. Dispatch(Len(log) + 1) \in AnyMessage BY <1>1, MessageTypes
<1>3. Append(wire, Dispatch(Len(log) + 1)) \in Seq(AnyMessage) BY <1>2, SentFacts DEF Types
<1>4. Append(log, e) \in Seq(AnyEvent) /\ Len(Append(log, e)) = Len(log) + 1
  BY SentFacts DEF Types
<1> QED BY <1>1, <1>2, <1>3, <1>4 DEF Emit, Types

LEMMA HangupFacts ==
  ASSUME Hangup
  PROVE  /\ phase' = "dial" /\ got' = Plain("none") /\ hb' = "off" /\ ack' = TRUE /\ ackCh' = 0
         /\ timer' = "running" /\ link' = "down" /\ wire' = <<>> /\ out' = <<>>
         /\ attached' = FALSE /\ missed' = (missed \/ Requests(out) # {})
         /\ UNCHANGED <<session, valid, log, members, hostDead>>
  BY DEF Hangup

\* The event that is handled.
LEMMA EventFacts ==
  ASSUME Types, Order, Handling("dispatch")
  PROVE  /\ got.n = Len(done) + 1 /\ got.n \in 1..Len(log) /\ log[got.n] \in AnyEvent
         /\ EventUsers \in SUBSET Users /\ log[got.n].kind \in {"ready", "create", "chunk", "add", "remove", "other"}
         /\ Len(done) \in Nat /\ Len(log) \in Nat /\ got.n \in Nat
<1>1. Len(done) \in Nat /\ Len(log) \in Nat BY LenProperties DEF Types
<1>2. got.n = Len(done) + 1 /\ got.n \in 1..Len(log)
  BY <1>1 DEF Handling, Order, Numbers, Stretch, Taken
<1>3. log[got.n] \in AnyEvent BY <1>2, ElementOfSeq DEF Types
<1> QED BY <1>1, <1>2, <1>3 DEF EventUsers, AnyEvent

\* The message that Discord receives.
LEMMA ReceivedFacts ==
  ASSUME Types, NEW op, Receives(op)
  PROVE  /\ link = "up" /\ out # <<>> /\ Head(out).op = op /\ out' = Tail(out)
         /\ out' \in Seq(AnyMessage) /\ Head(out) \in AnyMessage /\ Head(out) = out[1]
         /\ Head(out).n \in Nat /\ Head(out).sid \in Nat /\ Head(out).users \in SUBSET Users
         /\ 1 \in 1..Len(out)
<1>1. link = "up" /\ out # <<>> /\ Head(out).op = op /\ out' = Tail(out) BY DEF Receives
<1>2. /\ Tail(out) \in Seq(AnyMessage) /\ Head(out) \in AnyMessage /\ Head(out) = out[1]
      /\ Len(out) \in Nat /\ Len(out) > 0
  BY <1>1, TakenFacts DEF Types
<1> QED BY <1>1, <1>2 DEF AnyMessage

\* The answer to HELLO.
Greeting == IF sid # 0 /\ url THEN Msg("resume", IF hasSeq THEN seq ELSE 0, sid, {})
                              ELSE Plain("identify")

LEMMA GreetingFacts ==
  ASSUME Types
  PROVE  /\ Greeting \in AnyMessage /\ (OnHello => Send(Greeting))
         /\ \/ sid # 0 /\ url /\ Greeting.op = "resume" /\ Greeting.sid = sid
               /\ Greeting.n = IF hasSeq THEN seq ELSE 0
            \/ (sid = 0 \/ ~url) /\ Greeting.op = "identify"
<1>1. (IF hasSeq THEN seq ELSE 0) \in Nat /\ sid \in Nat BY DEF Types
<1>2. OnHello => Send(Greeting) BY DEF OnHello, Greeting
<1>3. CASE sid # 0 /\ url BY <1>1, <1>2, <1>3, MessageTypes, MessageParts DEF Greeting
<1>4. CASE ~(sid # 0 /\ url) BY <1>2, <1>4, MessageTypes, MessageParts DEF Greeting
<1> QED BY <1>3, <1>4

\* The messages of a replay, and of a new session.
Replay(first, last) == [i \in 1..(last - first) |-> Dispatch(first + i)]

LEMMA ReplayFacts ==
  ASSUME NEW first \in Nat, NEW last \in Nat
  PROVE  /\ Replay(first, last) \in Seq(AnyMessage)
         /\ first <= last => Len(Replay(first, last)) = last - first
         /\ \A i \in 1..Len(Replay(first, last)) :
              Replay(first, last)[i].op = "dispatch" /\ Replay(first, last)[i].n = first + i
<1> DEFINE r == Replay(first, last)
<1>1. CASE first <= last
  <2>1. last - first \in Nat BY <1>1
  <2>2. \A i \in 1..(last - first) : first + i \in Nat OBVIOUS
  <2>3. \A i \in 1..(last - first) : Dispatch(first + i) \in AnyMessage BY <2>2, MessageTypes
  <2>4. r \in [1..(last - first) -> AnyMessage] BY <2>3 DEF Replay
  <2>5. r \in Seq(AnyMessage) BY <2>1, <2>4, SeqDef
  <2>6. Len(r) = last - first
    <3>1. Len(r) \in Nat /\ DOMAIN r = 1..Len(r) /\ DOMAIN r = 1..(last - first)
      BY <2>4, <2>5, LenProperties
    <3> QED BY <2>1, <3>1
  <2>7. \A i \in 1..Len(r) : r[i].op = "dispatch" /\ r[i].n = first + i
    BY <2>6, MessageParts DEF Replay
  <2> QED BY <1>1, <2>5, <2>6, <2>7
<1>2. CASE ~(first <= last)
  <2>1. 1..(last - first) = {} BY <1>2
  <2>2. r = <<>> BY <2>1 DEF Replay
  <2>3. 1..Len(<<>>) = {} BY EmptySeq
  <2> QED BY <1>2, <2>2, <2>3, EmptySeq
<1> QED BY <1>1, <1>2

LEMMA StartFacts ==
  /\ <<Dispatch(1), Dispatch(2)>> \in Seq(AnyMessage) /\ Len(<<Dispatch(1), Dispatch(2)>>) = 2
  /\ \A i \in 1..2 : /\ <<Dispatch(1), Dispatch(2)>>[i].op = "dispatch"
                     /\ <<Dispatch(1), Dispatch(2)>>[i].n = i
<1>1. Dispatch(1) \in AnyMessage /\ Dispatch(2) \in AnyMessage BY MessageTypes
<1>2. \A i \in 1..2 : i = 1 \/ i = 2 OBVIOUS
<1> QED BY <1>1, <1>2, MessageParts

-----------------------------------------------------------------------------
(* Types. *)

LEMMA HangupTypes ==
  ASSUME Types, Hangup
  PROVE  /\ phase' \in {"dial", "read", "handle"} /\ got' \in AnyMessage
         /\ hb' \in {"off", "wait", "closed"} /\ ack' \in BOOLEAN /\ ackCh' \in 0..1
         /\ timer' \in {"fired", "running"} /\ link' \in {"down", "up", "cut"}
         /\ wire' \in Seq(AnyMessage) /\ out' \in Seq(AnyMessage)
         /\ attached' \in BOOLEAN /\ missed' \in BOOLEAN
         /\ UNCHANGED <<session, valid, log, members, hostDead>>
<1>1. <<>> \in Seq(AnyMessage) BY EmptySeq
<1> QED BY <1>1, HangupFacts, MessageTypes DEF Types

LEMMA TypesStep ==
  ASSUME Types, Lines, Order, Next PROVE Types'
<1> USE DEF reader, sessionVars, heart, net, service, counters, ghosts
<1>0. Len(log) \in Nat /\ Len(done) \in Nat BY LenProperties DEF Types
<1>1. CASE Dial
  <2>1. <<Plain("hello")>> \in Seq(AnyMessage) BY MessageTypes
  <2> QED BY <1>1, <2>1 DEF Dial, Types
<1>2. CASE DialFails BY <1>2 DEF DialFails, vars, Types
<1>3. CASE Read
  <2>1. wire # <<>> BY <1>3 DEF Read
  <2>2. Head(wire) \in AnyMessage /\ Tail(wire) \in Seq(AnyMessage) BY <2>1, TakenFacts DEF Types
  <2>3. got' \in AnyMessage /\ got'.n \in Nat BY <1>3, <2>2 DEF Read, AnyMessage
  <2> QED BY <1>3, <2>2, <2>3 DEF Read, Types
<1>4. CASE ReadError BY <1>4, HangupTypes DEF ReadError, Types
<1>5. CASE OnReconnect BY <1>5, HangupTypes DEF OnReconnect, Types
<1>6. CASE OnInvalid BY <1>6, HangupTypes DEF OnInvalid, Types
<1>7. CASE OnHello
  <2>1. PICK m \in AnyMessage : Send(m)
    BY <1>7, MessageTypes DEF OnHello, Types
  <2>2. out' \in Seq(AnyMessage) /\ missed' \in BOOLEAN BY <2>1, SendFacts
  <2> QED BY <1>7, <2>2, MessageTypes DEF OnHello, Handled, Types
<1>8. CASE OnAck BY <1>8, MessageTypes DEF OnAck, Handled, Types
<1>9. CASE OnDispatch
  <2>0. Handling("dispatch") BY <1>9 DEF OnDispatch, OnReady, OnGuildCreate, OnChunk, OnMemberAdd,
                                     OnMemberRemove, OnOther, Handles
  <2>1. EventUsers \in SUBSET Users /\ got.n \in Nat BY <2>0, EventFacts
  <2>2. Append(done, got.n) \in Seq(Nat) BY <2>1, AppendProperties DEF Types
  <2>3. /\ phase' = "read" /\ got' = Plain("none") /\ done' = Append(done, got.n)
        /\ UNCHANGED <<seq, hasSeq, heart, link, wire, service, counters>>
    BY <1>9 DEF OnDispatch, OnReady, OnGuildCreate, OnChunk, OnMemberAdd,
                OnMemberRemove, OnOther, Handles, Handled
  <2>4. out' \in Seq(AnyMessage) /\ missed' \in BOOLEAN
    <3>1. CASE OnGuildCreate BY <3>1, SendFacts, MessageTypes DEF OnGuildCreate
    <3>2. CASE OnMemberAdd BY <2>1, <3>2, SendFacts, MessageTypes DEF OnMemberAdd
    <3>3. CASE ~OnGuildCreate /\ ~OnMemberAdd
      BY <1>9, <3>3 DEF OnDispatch, OnReady, OnChunk, OnMemberRemove, OnOther, Types
    <3> QED BY <3>1, <3>2, <3>3
  <2>5. monitored' \subseteq Users /\ gap' \subseteq Users /\ sid' \in Nat /\ url' \in BOOLEAN
    BY <1>9, <2>1 DEF OnDispatch, OnReady, OnGuildCreate, OnChunk, OnMemberAdd,
                      OnMemberRemove, OnOther, Types
  <2> QED BY <2>2, <2>3, <2>4, <2>5, MessageTypes DEF Types
<1>10. CASE TakeAck BY <1>10 DEF TakeAck, Types
<1>11. CASE Beat
  <2>1. out' \in Seq(AnyMessage) /\ missed' \in BOOLEAN
    BY <1>11, SendFacts, MessageTypes DEF Beat
  <2> QED BY <1>11, <2>1 DEF Beat, Types
<1>12. CASE Stale BY <1>12 DEF Stale, Types
<1>13. CASE Tick
  <2>1. timer' = "fired" /\ losses' \in Nat BY <1>13 DEF Tick, Types
  <2>2. UNCHANGED <<reader, sessionVars, monitored, hb, ack, ackCh, net, service, changes, ghosts>>
    BY <1>13 DEF Tick
  <2> QED BY <2>1, <2>2 DEF Types
<1>14. CASE Acknowledge
  <2>1. out' \in Seq(AnyMessage) BY <1>14, ReceivedFacts DEF Acknowledge
  <2>2. wire' \in Seq(AnyMessage) BY <1>14, MessageTypes, SentFacts DEF Acknowledge, Types
  <2> QED BY <1>14, <2>1, <2>2 DEF Acknowledge, Types
<1>15. CASE Identified
  <2>1. out' \in Seq(AnyMessage) BY <1>15, ReceivedFacts DEF Identified
  <2>2. wire' \in Seq(AnyMessage)
    BY <1>15, StartFacts, ConcatFacts DEF Identified, Types
  <2>3. PICK S \in SUBSET members : log' = <<Event("ready", {}), Event("create", S)>>
    BY <1>15 DEF Identified
  <2>4. Event("ready", {}) \in AnyEvent /\ Event("create", S) \in AnyEvent
    BY DEF Event, AnyEvent, Types
  <2>5. log' \in Seq(AnyEvent) BY <2>3, <2>4
  <2>6. done' = <<>> /\ <<>> \in Seq(Nat) BY <1>15, EmptySeq DEF Identified
  <2>7. /\ session' = session + 1 /\ valid' = TRUE /\ attached' = TRUE
        /\ missed' = FALSE /\ gap' = monitored \ members
        /\ UNCHANGED <<reader, sessionVars, monitored, heart, link, members, hostDead, counters>>
    BY <1>15 DEF Identified
  <2>8. done' \in Seq(Nat) BY <2>6
  <2>9. session' \in Nat
    <3>1. session' = session + 1 BY <2>7
    <3> QED BY <3>1 DEF Types
  <2>10. missed' \in BOOLEAN /\ gap' \subseteq Users BY <2>7 DEF Types
  <2>11. /\ valid' = TRUE /\ attached' = TRUE
         /\ UNCHANGED <<reader, sessionVars, monitored, heart, link, members, hostDead, counters>>
    BY <2>7
  <2> QED BY <2>1, <2>2, <2>5, <2>8, <2>9, <2>10, <2>11 DEF Types
<1>16. CASE Resumed
  <2>1. out' \in Seq(AnyMessage) /\ Head(out).n \in Nat
    BY <1>16, ReceivedFacts DEF Resumed
  <2>2. wire' \in Seq(AnyMessage) /\ attached' \in BOOLEAN
    <3>1. CASE valid /\ Head(out).sid = session
      <4>1. Replay(Head(out).n, Len(log)) \in Seq(AnyMessage) BY <1>0, <2>1, ReplayFacts
      <4>2. wire' = wire \o Replay(Head(out).n, Len(log)) BY <1>16, <3>1 DEF Resumed, Replay
      <4>3. wire' \in Seq(AnyMessage) BY <4>1, <4>2, ConcatFacts DEF Types
      <4> QED BY <1>16, <3>1, <4>3 DEF Resumed
    <3>2. CASE ~(valid /\ Head(out).sid = session)
      <4>1. wire' = Append(wire, Plain("invalid")) /\ attached' = attached
        BY <1>16, <3>2 DEF Resumed
      <4> QED BY <4>1, MessageTypes, SentFacts DEF Types
    <3> QED BY <3>1, <3>2
  <2> QED BY <1>16, <2>1, <2>2 DEF Resumed, Types
<1>17. CASE Requested
  <2>1. out' \in Seq(AnyMessage) /\ Head(out).users \in SUBSET Users
    BY <1>17, ReceivedFacts DEF Requested
  <2>2. Event("chunk", Head(out).users \cap members) \in AnyEvent
    BY <2>1 DEF Event, AnyEvent, Types
  <2>3. log' \in Seq(AnyEvent) /\ wire' \in Seq(AnyMessage) BY <1>17, <2>2, EmitFacts DEF Requested
  <2>4. UNCHANGED <<reader, sessionVars, monitored, heart, link, session, valid, attached, members,
                    hostDead, counters, ghosts>>
    BY <1>17 DEF Requested
  <2> QED BY <2>1, <2>3, <2>4 DEF Types
<1>18. CASE Cut
  <2>1. losses' \in Nat
    <3>1. losses' = losses + 1 BY <1>18 DEF Cut
    <3> QED BY <3>1 DEF Types
  <2>2. /\ link' = "cut" /\ attached' = FALSE
        /\ UNCHANGED <<reader, sessionVars, monitored, heart, wire, out, session, valid, log, members,
                       hostDead, changes, ghosts>>
    BY <1>18 DEF Cut
  <2> QED BY <2>1, <2>2 DEF Types
<1>19. CASE AskReconnect
  <2>1. wire' \in Seq(AnyMessage) BY <1>19, MessageTypes, SentFacts DEF AskReconnect, Types
  <2> QED BY <1>19, <2>1 DEF AskReconnect, Types
<1>20. CASE Invalidate
  <2>1. Append(wire, Plain("invalid")) \in Seq(AnyMessage) BY MessageTypes, SentFacts DEF Types
  <2>2. wire' \in Seq(AnyMessage) BY <1>20, <2>1 DEF Invalidate, Types
  <2>3. losses' \in Nat
    <3>1. losses' = losses + 1 BY <1>20 DEF Invalidate
    <3> QED BY <3>1 DEF Types
  <2>4. /\ valid' = FALSE /\ attached' = FALSE
        /\ UNCHANGED <<reader, sessionVars, monitored, heart, link, out, session, log, members,
                       hostDead, changes, ghosts>>
    BY <1>20 DEF Invalidate
  <2> QED BY <2>2, <2>3, <2>4 DEF Types
<1>21. CASE HostDies BY <1>21 DEF HostDies, Types
<1>22. ASSUME NEW u \in Users, GuildChange(u) PROVE Types'
  <2>1. /\ Event("add", {u}) \in AnyEvent /\ Event("remove", {u}) \in AnyEvent
        /\ Event("other", {u}) \in AnyEvent
    BY DEF Event, AnyEvent
  <2>2. log' \in Seq(AnyEvent) /\ wire' \in Seq(AnyMessage)
    BY <1>22, <2>1, EmitFacts DEF GuildChange
  <2>3. members' \subseteq Users BY <1>22 DEF GuildChange, Types
  <2> QED BY <1>22, <2>2, <2>3 DEF GuildChange, Types
<1> QED BY <1>1, <1>2, <1>3, <1>4, <1>5, <1>6, <1>7, <1>8, <1>9, <1>10, <1>11, <1>12, <1>13,
           <1>14, <1>15, <1>16, <1>17, <1>18, <1>19, <1>20, <1>21, <1>22
        DEF Next, Reader, Service

-----------------------------------------------------------------------------
(* Connections. *)

\* What a wire can get from Discord: no HELLO, and no ACK but one for a beat.
LEMMA WireGrows ==
  ASSUME Types, Lines, Order,
         \/ Acknowledge \/ Identified \/ Resumed \/ Requested
         \/ AskReconnect \/ Invalidate \/ \E u \in Users : GuildChange(u),
         NEW op \in {"hello", "ack"}, op = "ack" => ~Acknowledge
  PROVE  /\ None(wire, op) => None(wire', op)
         /\ OneAtMost(wire, op) => OneAtMost(wire', op)
         /\ wire' # wire => hb # "off" /\ phase # "dial"
<1> DEFINE Goal == /\ None(wire, op) => None(wire', op)
                   /\ OneAtMost(wire, op) => OneAtMost(wire', op)
                   /\ wire' # wire => hb # "off" /\ phase # "dial"
<1>0. /\ out # <<>> => hb # "off" /\ phase # "dial"
      /\ attached => hb # "off" /\ phase # "dial"
  BY DEF Lines
<1>1. ASSUME NEW m \in AnyMessage, m.op # op, wire' = Append(wire, m),
             out # <<>> \/ attached
      PROVE  Goal
  BY <1>0, <1>1, SentKinds DEF Types
<1>2. ASSUME NEW r \in Seq(AnyMessage), None(r, op), wire' = wire \o r, out # <<>>
      PROVE  Goal
  BY <1>0, <1>2, MoreKinds DEF Types
<1>3. ASSUME wire' = wire PROVE Goal BY <1>3
<1>4. /\ Plain("ack") \in AnyMessage /\ (Acknowledge => Plain("ack").op # op)
      /\ Plain("reconnect") \in AnyMessage /\ Plain("reconnect").op # op
      /\ Plain("invalid") \in AnyMessage /\ Plain("invalid").op # op
  BY MessageTypes, MessageParts
<1>5. ASSUME NEW e \in AnyEvent, Emit(e) PROVE Goal
  <2>1. /\ Dispatch(Len(log) + 1) \in AnyMessage /\ Dispatch(Len(log) + 1).op # op
        /\ wire' = wire \/ (attached /\ wire' = Append(wire, Dispatch(Len(log) + 1)))
    BY <1>5, EmitFacts, MessageParts
  <2> QED BY <1>1, <1>3, <2>1
<1> SUFFICES Goal OBVIOUS
<1> HIDE DEF Goal
<1>6. CASE Acknowledge BY <1>1, <1>4, <1>6 DEF Acknowledge, Receives
<1>7. CASE Identified
  <2>1. None(<<Dispatch(1), Dispatch(2)>>, op) BY StartFacts DEF None
  <2> QED BY <1>2, <1>7, <2>1, StartFacts DEF Identified, Receives
<1>8. CASE Resumed
  <2>1. CASE valid /\ Head(out).sid = session
    <3> DEFINE r == Replay(Head(out).n, Len(log))
    <3>1. Head(out).n \in Nat /\ Len(log) \in Nat /\ out # <<>>
      BY <1>8, ReceivedFacts, LenProperties DEF Resumed, Types
    <3>2. r \in Seq(AnyMessage) /\ \A i \in 1..Len(r) : r[i].op = "dispatch"
      BY <3>1, ReplayFacts
    <3>3. wire' = wire \o r BY <1>8, <2>1 DEF Resumed, Replay
    <3> HIDE DEF r
    <3>4. None(r, op) BY <3>2 DEF None
    <3> QED BY <1>2, <3>1, <3>2, <3>3, <3>4
  <2>2. CASE ~(valid /\ Head(out).sid = session)
    BY <1>1, <1>4, <1>8, <2>2 DEF Resumed, Receives
  <2> QED BY <2>1, <2>2
<1>9. CASE Requested
  <2>1. Event("chunk", Head(out).users \cap members) \in AnyEvent
    BY <1>9, ReceivedFacts DEF Requested, Event, AnyEvent
  <2> QED BY <1>5, <1>9, <2>1 DEF Requested
<1>10. CASE AskReconnect BY <1>1, <1>4, <1>10 DEF AskReconnect
<1>11. CASE Invalidate BY <1>1, <1>3, <1>4, <1>11 DEF Invalidate
<1>12. ASSUME NEW u \in Users, GuildChange(u) PROVE Goal
  <2>1. /\ Event("add", {u}) \in AnyEvent /\ Event("remove", {u}) \in AnyEvent
        /\ Event("other", {u}) \in AnyEvent
    BY DEF Event, AnyEvent
  <2> QED BY <1>5, <1>12, <2>1 DEF GuildChange
<1> QED BY <1>6, <1>7, <1>8, <1>9, <1>10, <1>11, <1>12

LEMMA LinesStep ==
  ASSUME Types, Lines, Order, Next PROVE Lines'
<1> USE DEF reader, sessionVars, heart, net, service, counters, ghosts
<1>a. ASSUME Hangup PROVE Lines' BY <1>a, HangupFacts DEF Lines
<1>b. ASSUME UNCHANGED <<phase, got, hb, link>>, hb # "off", phase # "dial",
             None(wire, "hello") => None(wire', "hello"), attached' => valid'
      PROVE  Lines'
  BY <1>b DEF Lines
<1>c. ASSUME UNCHANGED <<phase, got, hb, link, wire, out, attached, valid>> PROVE Lines'
  BY <1>c DEF Lines
<1>d. ASSUME phase = "handle", hb # "off", phase' = "read", got' = Plain("none"),
             UNCHANGED <<hb, link, wire, attached, valid>>
      PROVE  Lines'
  <2>1. Plain("none").op # "hello" BY MessageParts
  <2> QED BY <1>d, <2>1 DEF Lines
<1>e. /\ out # <<>> => hb # "off" /\ phase # "dial"
      /\ attached => hb # "off" /\ phase # "dial"
      /\ hb # "off" => phase # "dial"
      /\ (phase = "handle" /\ got.op # "hello") => hb # "off"
  BY DEF Lines
<1>1. CASE Dial
  <2>1. hb = "off" /\ out = <<>> /\ ~attached /\ got = Plain("none") BY <1>1 DEF Dial, Lines
  <2> QED BY <1>1, <2>1 DEF Dial, Lines
<1>2. CASE DialFails BY <1>2, <1>c DEF DialFails, vars
<1>3. CASE Read
  <2>1. /\ phase = "read" /\ phase' = "handle" /\ wire # <<>>
        /\ got' = Head(wire) /\ wire' = Tail(wire)
        /\ UNCHANGED <<hb, link, out, attached, valid>>
    BY <1>3 DEF Read
  <2>2. CASE hb = "off"
    <3>1. wire = <<Plain("hello")>> /\ out = <<>> /\ ~attached BY <2>1, <2>2 DEF Lines
    <3>2. got' = Plain("hello") /\ wire' = <<>> BY <2>1, <3>1
    <3> QED BY <2>1, <2>2, <3>1, <3>2, MessageParts DEF Lines
  <2>3. CASE hb # "off"
    <3>1. None(Tail(wire), "hello") /\ Head(wire).op # "hello"
      BY <2>1, <2>3, TakenKinds DEF Lines, Types
    <3> QED BY <2>1, <2>3, <3>1 DEF Lines
  <2> QED BY <2>2, <2>3
<1>4. CASE ReadError \/ OnReconnect \/ OnInvalid
  BY <1>4, <1>a DEF ReadError, OnReconnect, OnInvalid
<1>5. CASE OnHello
  <2>1. hb = "off" /\ wire = <<>> /\ out = <<>> /\ ~attached
    BY <1>5 DEF OnHello, Handling, Lines
  <2>2. phase' = "read" /\ got' = Plain("none") /\ hb' = "wait"
        /\ UNCHANGED <<link, wire, attached, valid>>
    BY <1>5 DEF OnHello, Handled
  <2>3. None(<<>>, "hello") /\ Plain("none").op # "hello" BY EmptyFacts, MessageParts
  <2> QED BY <2>1, <2>2, <2>3 DEF Lines
<1>6. CASE OnAck BY <1>6, <1>d, <1>e DEF OnAck, Handling, Handled
<1>7. CASE OnDispatch
  BY <1>7, <1>d, <1>e DEF OnDispatch, OnReady, OnGuildCreate, OnChunk, OnMemberAdd,
     OnMemberRemove, OnOther, Handles, Handling, Handled
<1>8. CASE TakeAck \/ Tick \/ HostDies BY <1>8, <1>c DEF TakeAck, Tick, HostDies
<1>9. CASE Beat BY <1>9, <1>b, <1>e DEF Beat, Lines
<1>10. CASE Stale
  <2>1. /\ hb = "wait" /\ hb' = "closed" /\ link' = "cut" /\ attached' = FALSE
        /\ UNCHANGED <<phase, got, wire, out, valid>>
    BY <1>10 DEF Stale
  <2> QED BY <1>e, <2>1 DEF Lines
<1>11. CASE Cut
  <2>1. /\ link = "up" /\ link' = "cut" /\ attached' = FALSE
        /\ UNCHANGED <<phase, got, hb, wire, out, valid>>
    BY <1>11 DEF Cut
  <2> QED BY <1>e, <2>1 DEF Lines
<1>12. CASE Service
  <2>1. out # <<>> /\ UNCHANGED <<phase, got, hb, link>> /\ (attached' => valid')
    BY <1>12 DEF Service, Acknowledge, Identified, Resumed, Requested, Receives, Lines
  <2>2. None(wire, "hello") => None(wire', "hello") BY <1>12, WireGrows DEF Service
  <2> QED BY <1>b, <1>e, <2>1, <2>2
<1>13. CASE AskReconnect \/ Invalidate \/ \E u \in Users : GuildChange(u)
  <2>1. UNCHANGED <<phase, got, hb, link, out>> /\ (attached' => attached /\ valid')
    <3>1. CASE AskReconnect BY <3>1 DEF AskReconnect, Lines
    <3>2. CASE Invalidate BY <3>2 DEF Invalidate, Lines
    <3>3. ASSUME NEW u \in Users, GuildChange(u)
          PROVE  UNCHANGED <<phase, got, hb, link, out>> /\ (attached' => attached /\ valid')
      <4>1. UNCHANGED <<phase, got, hb, link, out, attached, valid>> BY <3>3 DEF GuildChange
      <4> QED BY <4>1 DEF Lines
    <3> QED BY <1>13, <3>1, <3>2, <3>3
  <2>2. CASE wire' = wire BY <2>1, <2>2 DEF Lines
  <2>3. CASE wire' # wire BY <1>13, <1>b, <2>1, <2>3, WireGrows
  <2> QED BY <2>2, <2>3
<1> QED BY <1>1, <1>2, <1>3, <1>4, <1>5, <1>6, <1>7, <1>8, <1>9, <1>10, <1>11, <1>12, <1>13
        DEF Next, Reader, Service

-----------------------------------------------------------------------------
(* The heartbeat. *)

\* A step that puts no heartbeat and no ACK on its way.
LEMMA HeartKept ==
  ASSUME Heart, UNCHANGED <<ack, ackCh>>, hb' = "off" => hb = "off",
         None(out, "beat") => None(out', "beat"),
         OneAtMost(out, "beat") => OneAtMost(out', "beat"),
         None(wire, "ack") => None(wire', "ack"),
         OneAtMost(wire, "ack") => OneAtMost(wire', "ack"),
         got'.op = "ack" => got.op = "ack"
  PROVE  Heart'
  BY DEF Heart

LEMMA HeartStep ==
  ASSUME Types, Lines, Order, Heart, Next PROVE Heart'
<1> USE DEF reader, sessionVars, heart, net, service, counters, ghosts
<1>a. ASSUME Hangup PROVE Heart'
  <2>1. /\ None(<<>>, "beat") /\ None(<<>>, "ack") /\ OneAtMost(<<>>, "beat")
        /\ OneAtMost(<<>>, "ack") /\ Plain("none").op # "ack"
    BY EmptyFacts, MessageParts
  <2> QED BY <1>a, <2>1, HangupFacts DEF Heart
<1>b. ASSUME UNCHANGED <<ack, ackCh, hb, wire>>, got' = got \/ got' = Plain("none"),
             NEW m \in AnyMessage, m.op # "beat", Send(m)
      PROVE  Heart'
  <2>1. out' = out \/ out' = Append(out, m) BY <1>b, SendFacts
  <2>2. /\ None(out, "beat") => None(out', "beat")
        /\ OneAtMost(out, "beat") => OneAtMost(out', "beat")
    <3>1. out \in Seq(AnyMessage) BY DEF Types
    <3>2. CASE out' = out BY <3>2
    <3>3. CASE out' = Append(out, m) BY <1>b, <3>1, <3>3, SentKinds
    <3> QED BY <2>1, <3>2, <3>3
  <2>3. got'.op = "ack" => got.op = "ack" BY <1>b, MessageParts
  <2> QED BY <1>b, <2>2, <2>3, HeartKept
<1>c. ASSUME UNCHANGED <<ack, ackCh, wire, out>>, hb' = "off" => hb = "off",
             got' = got \/ got' = Plain("none")
      PROVE  Heart'
  <2>1. got'.op = "ack" => got.op = "ack" BY <1>c, MessageParts
  <2> QED BY <1>c, <2>1, HeartKept
<1>1. CASE Dial
  <2>1. wire' = <<Plain("hello")>> /\ UNCHANGED <<ack, ackCh, out, got, hb>> BY <1>1 DEF Dial
  <2>2. Plain("hello").op # "ack" /\ Plain("hello") \in AnyMessage
    BY MessageParts, MessageTypes
  <2>3. None(<<Plain("hello")>>, "ack") BY <2>2 DEF None
  <2>4. OneAtMost(<<Plain("hello")>>, "ack") BY <2>2 DEF OneAtMost
  <2> QED BY <2>1, <2>3, <2>4, HeartKept
<1>2. CASE DialFails BY <1>2, <1>c DEF DialFails, vars
<1>3. CASE Read
  <2>1. /\ wire # <<>> /\ got' = Head(wire) /\ wire' = Tail(wire) /\ phase # "handle"
        /\ UNCHANGED <<ack, ackCh, out, hb>>
    BY <1>3 DEF Read
  <2>2. got.op # "ack" BY <2>1, MessageParts DEF Lines
  <2>3. CASE Head(wire).op = "ack"
    <3>1. ~None(wire, "ack") /\ None(wire', "ack") /\ OneAtMost(wire', "ack")
      BY <2>1, <2>3, TakenKinds DEF Heart, Types
    <3>2. ~ack /\ ackCh = 0 /\ None(out, "beat") BY <3>1 DEF Heart
    <3> QED BY <2>1, <3>1, <3>2 DEF Heart
  <2>4. CASE Head(wire).op # "ack"
    <3>1. /\ None(wire, "ack") => None(wire', "ack")
          /\ OneAtMost(wire, "ack") => OneAtMost(wire', "ack")
      BY <2>1, TakenKinds DEF Types
    <3> QED BY <2>1, <2>4, <3>1, HeartKept
  <2> QED BY <2>3, <2>4
<1>4. CASE ReadError \/ OnReconnect \/ OnInvalid
  BY <1>4, <1>a DEF ReadError, OnReconnect, OnInvalid
<1>5. CASE OnHello
  <2>1. hb = "off" /\ ack /\ got.op = "hello" BY <1>5 DEF OnHello, Handling, Lines, Heart
  <2>2. PICK m \in AnyMessage : m.op # "beat" /\ Send(m)
    BY <1>5, GreetingFacts
  <2>3. out' = out \/ out' = Append(out, m) BY <2>2, SendFacts
  <2>4. None(out', "beat")
    <3>1. None(out, "beat") /\ out \in Seq(AnyMessage) BY <2>1 DEF Heart, Types
    <3>2. None(Append(out, m), "beat") BY <2>2, <3>1, SentKinds
    <3>3. CASE out' = out BY <3>1, <3>3
    <3>4. CASE out' = Append(out, m) BY <3>2, <3>4
    <3> QED BY <2>3, <3>3, <3>4
  <2>5. None(wire, "ack") /\ ackCh = 0 /\ OneAtMost(wire, "ack") BY <2>1 DEF Heart
  <2>6. OneAtMost(out', "beat") BY <2>4 DEF None, OneAtMost
  <2>7. hb' = "wait" /\ ack' = TRUE /\ got' = Plain("none") /\ UNCHANGED <<ackCh, wire>>
    BY <1>5 DEF OnHello, Handled
  <2>8. got'.op # "ack" BY <2>7, MessageParts
  <2> QED BY <2>4, <2>5, <2>6, <2>7, <2>8 DEF Heart
<1>6. CASE OnAck
  <2>1. /\ got.op = "ack" /\ ackCh' = 1 /\ got' = Plain("none") /\ UNCHANGED <<ack, hb, out, wire>>
    BY <1>6 DEF OnAck, Handling, Handled
  <2>2. got'.op # "ack" BY <2>1, MessageParts
  <2>3. ~ack /\ None(out, "beat") /\ None(wire, "ack") BY <2>1 DEF Heart
  <2> QED BY <2>1, <2>2, <2>3 DEF Heart
<1>7. CASE OnDispatch
  <2>1. got' = Plain("none") /\ UNCHANGED <<ack, ackCh, hb, wire>>
    BY <1>7 DEF OnDispatch, OnReady, OnGuildCreate, OnChunk, OnMemberAdd, OnMemberRemove, OnOther,
                Handles, Handled
  <2>2. \/ out' = out
        \/ \E us \in SUBSET Users : Send(Msg("request", 0, 0, us))
    <3>1. CASE OnGuildCreate BY <3>1 DEF OnGuildCreate
    <3>2. CASE OnMemberAdd
      <4>1. EventUsers \in SUBSET Users BY <3>2, EventFacts DEF OnMemberAdd, Handles
      <4> QED BY <3>2, <4>1 DEF OnMemberAdd
    <3> QED BY <1>7, <3>1, <3>2 DEF OnDispatch, OnReady, OnChunk, OnMemberRemove, OnOther
  <2> QED BY <1>b, <1>c, <2>1, <2>2, MessageTypes, MessageParts
<1>8. CASE TakeAck
  <2>1. ackCh = 1 /\ ackCh' = 0 /\ ack' = TRUE /\ UNCHANGED <<got, hb, out, wire>>
    BY <1>8 DEF TakeAck
  <2>2. None(out, "beat") /\ None(wire, "ack") /\ got.op # "ack" BY <2>1 DEF Heart
  <2> QED BY <2>1, <2>2 DEF Heart
<1>9. CASE Tick \/ HostDies \/ Stale \/ Cut BY <1>9, <1>c DEF Tick, HostDies, Stale, Cut
<1>10. CASE Beat
  <2>1. /\ ack /\ ack' = FALSE /\ hb = "wait" /\ Send(Plain("beat"))
        /\ UNCHANGED <<ackCh, got, hb, wire>>
    BY <1>10 DEF Beat
  <2>2. out' = out \/ out' = Append(out, Plain("beat")) BY <2>1, SendFacts, MessageTypes
  <2>3. /\ None(out, "beat") /\ OneAtMost(out, "beat") /\ None(wire, "ack")
        /\ OneAtMost(wire, "ack") /\ got.op # "ack" /\ ackCh = 0
    BY <2>1 DEF Heart
  <2>4. OneAtMost(out', "beat") BY <2>2, <2>3, SentKinds, MessageTypes DEF Types
  <2> QED BY <2>1, <2>3, <2>4 DEF Heart
<1>11. CASE Acknowledge
  <2>1. /\ out # <<>> /\ Head(out).op = "beat" /\ out' = Tail(out)
        /\ wire' = Append(wire, Plain("ack")) /\ UNCHANGED <<ack, ackCh, got, hb>>
    BY <1>11 DEF Acknowledge, Receives
  <2>2. ~None(out, "beat") /\ None(out', "beat") /\ OneAtMost(out', "beat")
    BY <2>1, TakenKinds DEF Heart, Types
  <2>3. ~ack /\ None(wire, "ack") /\ got.op # "ack" /\ ackCh = 0 BY <2>2 DEF Heart
  <2>4. OneAtMost(wire', "ack") BY <2>1, <2>3, SentKinds, MessageTypes DEF Types
  <2> QED BY <2>1, <2>2, <2>3, <2>4 DEF Heart
<1>12. CASE Identified \/ Resumed \/ Requested
  <2>1. out # <<>> /\ out' = Tail(out) /\ UNCHANGED <<ack, ackCh, got, hb>> /\ Head(out).op # "beat"
    BY <1>12 DEF Identified, Resumed, Requested, Receives
  <2>2. /\ None(out, "beat") => None(out', "beat")
        /\ OneAtMost(out, "beat") => OneAtMost(out', "beat")
    BY <2>1, TakenKinds DEF Types
  <2>3. ~Acknowledge BY <2>1 DEF Acknowledge, Receives
  <2>4. /\ None(wire, "ack") => None(wire', "ack")
        /\ OneAtMost(wire, "ack") => OneAtMost(wire', "ack")
    BY <1>12, <2>3, WireGrows
  <2> QED BY <2>1, <2>2, <2>4, HeartKept
<1>13. CASE AskReconnect \/ Invalidate \/ \E u \in Users : GuildChange(u)
  <2>1. UNCHANGED <<ack, ackCh, got, hb, out>>
    BY <1>13 DEF AskReconnect, Invalidate, GuildChange
  <2>2. ~Acknowledge
    <3>1. Acknowledge => out' # out
      <4>1. ASSUME Acknowledge PROVE out' # out
        <5>1. out # <<>> /\ out' = Tail(out) BY <4>1 DEF Acknowledge, Receives
        <5>2. Len(out') = Len(out) - 1 /\ Len(out) \in Nat BY <5>1, TakenFacts DEF Types
        <5> QED BY <5>2
      <4> QED BY <4>1
    <3> QED BY <2>1, <3>1
  <2>3. /\ None(wire, "ack") => None(wire', "ack")
        /\ OneAtMost(wire, "ack") => OneAtMost(wire', "ack")
    BY <1>13, <2>2, WireGrows
  <2> QED BY <2>1, <2>3, HeartKept
<1> QED BY <1>1, <1>2, <1>3, <1>4, <1>5, <1>6, <1>7, <1>8, <1>9, <1>10, <1>11, <1>12, <1>13
        DEF Next, Reader, Service

-----------------------------------------------------------------------------
(* The order of the events. *)

LEMMA HandshakeGone ==
  ASSUME Types, Handshake, out # <<>>, out' = Tail(out) PROVE Handshake'
<1>1. /\ Len(out) \in Nat /\ Len(Tail(out)) = Len(out) - 1
      /\ \A i \in 1..Len(Tail(out)) : i + 1 \in 1..Len(out) /\ Tail(out)[i] = out[i + 1]
  BY TakenFacts DEF Types
<1>2. ASSUME NEW i \in 1..Len(Tail(out)) PROVE Tail(out)[i].op \notin {"identify", "resume"}
  <2>1. i + 1 \in 1..Len(out) /\ Tail(out)[i] = out[i + 1] /\ i + 1 # 1 BY <1>1
  <2> QED BY <2>1 DEF Handshake
<1> QED BY <1>2 DEF Handshake

LEMMA HandshakeKept ==
  ASSUME Types, Handshake,
         out' = out \/ \E m \in AnyMessage : /\ m.op \notin {"identify", "resume"}
                                             /\ out' = Append(out, m),
         attached' => attached, (~attached /\ None(wire, "dispatch")) => None(wire', "dispatch"),
         got'.op = "dispatch" => got.op = "dispatch", UNCHANGED <<sid, done>>
  PROVE  Handshake'
<1>1. ASSUME NEW i \in 1..Len(out'), out'[i].op \in {"identify", "resume"}
      PROVE  i \in 1..Len(out) /\ out'[i] = out[i]
  <2>1. CASE out' = out BY <1>1, <2>1
  <2>2. ASSUME NEW m \in AnyMessage, m.op \notin {"identify", "resume"}, out' = Append(out, m)
        PROVE  i \in 1..Len(out) /\ out'[i] = out[i]
    <3>1. /\ out'[Len(out) + 1] = m /\ 1..Len(out') = 1..Len(out) \cup {Len(out) + 1}
          /\ \A j \in 1..Len(out) : out'[j] = out[j]
      BY <2>2, SentFacts DEF Types
    <3> QED BY <1>1, <2>2, <3>1
  <2> QED BY <2>1, <2>2
<1> QED BY <1>1 DEF Handshake

LEMMA HandshakeNone ==
  ASSUME out' = <<>> PROVE Handshake'
<1>1. 1..Len(<<>>) = {} BY EmptySeq
<1> QED BY <1>1 DEF Handshake

LEMMA TakenType ==
  ASSUME Types
  PROVE  Len(done) \in Nat /\ Taken \in Nat /\ Len(log) \in Nat
  BY LenProperties DEF Types, Taken

\* Discord emits an event, or says something else.
LEMMA OrderEmit ==
  ASSUME Types, Lines, Order, NEW e \in AnyEvent, Emit(e), UNCHANGED <<got, done, attached>>
  PROVE  /\ Taken' = Taken /\ Taken' <= Len(log') /\ Ordered(wire', Taken', Len(log'))
         /\ attached' => Reaches(wire', Taken', Len(log'))
         /\ (~attached /\ None(wire, "dispatch")) => None(wire', "dispatch")
         /\ valid \/ log' = log
<1>1. Taken' = Taken /\ Taken \in Nat /\ Len(log) \in Nat BY TakenType DEF Taken
<1>2. /\ valid => /\ log' = Append(log, e)
                  /\ wire' = IF attached THEN Append(wire, Dispatch(Len(log) + 1)) ELSE wire
      /\ ~valid => log' = log /\ wire' = wire
      /\ Dispatch(Len(log) + 1) \in AnyMessage
      /\ Len(log') = IF valid THEN Len(log) + 1 ELSE Len(log)
  BY EmitFacts
<1>3. Taken <= Len(log) /\ Ordered(wire, Taken, Len(log)) /\ wire \in Seq(AnyMessage)
  BY DEF Order, Stretch, Types
<1>4. CASE ~valid
  <2>1. ~attached BY <1>4 DEF Lines
  <2> QED BY <1>1, <1>2, <1>3, <1>4, <2>1
<1>5. CASE valid /\ ~attached
  <2>1. Ordered(wire, Taken, Len(log) + 1) BY <1>1, <1>3, OrderedLater
  <2>2. wire' = wire /\ Len(log') = Len(log) + 1 BY <1>2, <1>5
  <2> QED BY <1>1, <1>3, <1>5, <2>1, <2>2
<1>6. CASE valid /\ attached
  <2> DEFINE m == Dispatch(Len(log) + 1)
  <2>1. m \in AnyMessage /\ m.op = "dispatch" /\ m.n = Len(log) + 1 BY <1>2, MessageParts
  <2>2. Reaches(wire, Taken, Len(log)) BY <1>6 DEF Order, Stretch
  <2>3. wire' = Append(wire, m) /\ Len(log') = Len(log) + 1 BY <1>2, <1>6
  <2> HIDE DEF m
  <2>4. /\ Ordered(Append(wire, m), Taken, Len(log) + 1)
        /\ Reaches(Append(wire, m), Taken, Len(log) + 1)
    BY <1>1, <1>3, <2>1, <2>2, OrderedNext
  <2> QED BY <1>1, <1>3, <1>6, <2>3, <2>4
<1> QED BY <1>4, <1>5, <1>6

LEMMA OrderPlain ==
  ASSUME Types, Order, NEW m \in AnyMessage, m.op # "dispatch", wire' = Append(wire, m),
         UNCHANGED <<got, done, log>>
  PROVE  /\ Taken' = Taken /\ Taken' <= Len(log') /\ Ordered(wire', Taken', Len(log'))
         /\ Reaches(wire, Taken, Len(log)) => Reaches(wire', Taken', Len(log'))
         /\ None(wire, "dispatch") => None(wire', "dispatch")
<1>1. Taken' = Taken /\ Taken \in Nat /\ Len(log) \in Nat BY TakenType DEF Taken
<1>2. Taken <= Len(log) /\ Ordered(wire, Taken, Len(log)) /\ wire \in Seq(AnyMessage)
  BY DEF Order, Stretch, Types
<1>3. /\ Ordered(Append(wire, m), Taken, Len(log))
      /\ Reaches(wire, Taken, Len(log)) => Reaches(Append(wire, m), Taken, Len(log))
  BY <1>1, <1>2, OrderedPlain
<1>4. None(wire, "dispatch") => None(Append(wire, m), "dispatch") BY <1>2, SentKinds
<1> QED BY <1>1, <1>2, <1>3, <1>4

LEMMA OrderStep ==
  ASSUME Types, Lines, Order, Next PROVE Order'
<1> USE DEF reader, sessionVars, heart, net, service, counters, ghosts
<1>0. /\ Taken \in Nat /\ Len(log) \in Nat /\ Len(done) \in Nat
      /\ wire \in Seq(AnyMessage) /\ out \in Seq(AnyMessage)
      /\ Handshake /\ Resumable /\ Numbers /\ Stretch
      /\ got.op # "dispatch" => Taken = Len(done)
  BY TakenType DEF Types, Order, Taken
<1>a. ASSUME UNCHANGED <<got, done, log, wire>>, attached' => attached PROVE Stretch' /\ Taken' = Taken
  BY <1>0, <1>a DEF Stretch, Taken
<1>b. ASSUME UNCHANGED <<sid, url, session, valid, log>> PROVE Resumable'
  BY <1>0, <1>b DEF Resumable
<1>c. ASSUME UNCHANGED <<sid, hasSeq, seq>>, Taken' = Taken, got' = got \/ got'.op # "dispatch"
      PROVE Numbers'
  BY <1>0, <1>c DEF Numbers
<1>d. Plain("none").op # "dispatch" /\ Plain("hello").op # "dispatch" BY MessageParts
<1>e. ASSUME Hangup, UNCHANGED <<done>>, got.op # "dispatch",
             \/ UNCHANGED <<sid, url, hasSeq, seq>>
             \/ sid' = 0 /\ url' = FALSE
      PROVE  Order'
  <2>1. /\ got' = Plain("none") /\ wire' = <<>> /\ out' = <<>> /\ attached' = FALSE
        /\ UNCHANGED <<session, valid, log>>
    BY <1>e, HangupFacts
  <2>2. got'.op # "dispatch" BY <1>d, <2>1
  <2>3. Taken' = Taken BY <1>e, <2>2 DEF Taken
  <2>4. Ordered(<<>>, Taken, Len(log)) BY <1>0, OrderedEmpty
  <2>5. Stretch' BY <1>0, <2>1, <2>3, <2>4 DEF Stretch
  <2>6. Resumable' BY <1>0, <1>e, <2>1 DEF Resumable
  <2>7. Numbers' BY <1>0, <1>e, <2>2, <2>3 DEF Numbers
  <2> QED BY <2>1, <2>5, <2>6, <2>7, HandshakeNone DEF Order
<1>1. CASE Dial
  <2>1. /\ wire' = <<Plain("hello")>> /\ out' = out /\ out = <<>> /\ ~attached
        /\ UNCHANGED <<got, sid, url, seq, hasSeq, session, valid, log, done, attached>>
    BY <1>1 DEF Dial, Lines
  <2>2. None(<<Plain("hello")>>, "dispatch") BY <1>d DEF None
  <2>3. <<Plain("hello")>> \in Seq(AnyMessage) BY MessageTypes
  <2>4. Ordered(wire', Taken, Len(log)) BY <1>0, <2>1, <2>2, <2>3, OrderedNone
  <2>5. Taken' = Taken BY <2>1 DEF Taken
  <2>6. Stretch' BY <1>0, <2>1, <2>4, <2>5 DEF Stretch
  <2> QED BY <1>b, <1>c, <2>1, <2>5, <2>6, HandshakeNone DEF Order
<1>2. CASE DialFails \/ TakeAck \/ Tick \/ HostDies
  <2>1. UNCHANGED <<got, sid, url, seq, hasSeq, session, valid, log, done, attached, wire, out>>
    BY <1>2 DEF DialFails, TakeAck, Tick, HostDies, vars
  <2> QED BY <1>0, <1>a, <1>b, <1>c, <2>1, HandshakeKept DEF Order
<1>3. CASE Read
  <2>1. /\ wire # <<>> /\ got' = Head(wire) /\ wire' = Tail(wire) /\ got.op # "dispatch"
        /\ UNCHANGED <<sid, url, session, valid, log, done, attached, out>>
        /\ IF Head(wire).op = "dispatch" THEN seq' = Head(wire).n /\ hasSeq' = TRUE
                                         ELSE UNCHANGED <<seq, hasSeq>>
    BY <1>3, <1>d DEF Read, Lines
  <2>2. Resumable' BY <1>b, <2>1
  <2>3. CASE Head(wire).op = "dispatch"
    <3>1. /\ Head(wire).n = Taken + 1 /\ Taken + 1 <= Len(log)
          /\ Ordered(Tail(wire), Taken + 1, Len(log))
          /\ Reaches(wire, Taken, Len(log)) => Reaches(Tail(wire), Taken + 1, Len(log))
      BY <1>0, <2>1, <2>3, OrderedTaken DEF Stretch
    <3>2. Taken' = Taken + 1 BY <1>0, <2>1, <2>3 DEF Taken
    <3>3. Numbers' BY <2>1, <2>3, <3>1, <3>2 DEF Numbers
    <3>4. Stretch' BY <1>0, <2>1, <3>1, <3>2 DEF Stretch
    <3>5. ~None(wire, "dispatch") BY <1>0, <2>1, <2>3, TakenKinds
    <3>6. Handshake' BY <1>0, <2>1, <3>5 DEF Handshake
    <3> QED BY <2>2, <3>3, <3>4, <3>6 DEF Order
  <2>4. CASE Head(wire).op # "dispatch"
    <3>1. /\ Ordered(Tail(wire), Taken, Len(log))
          /\ Reaches(wire, Taken, Len(log)) => Reaches(Tail(wire), Taken, Len(log))
      BY <1>0, <2>1, <2>4, OrderedTaken DEF Stretch
    <3>2. Taken' = Taken BY <2>1, <2>4 DEF Taken
    <3>3. Numbers' BY <1>c, <2>1, <2>4, <3>2
    <3>4. Stretch' BY <1>0, <2>1, <3>1, <3>2 DEF Stretch
    <3>5. None(wire, "dispatch") => None(wire', "dispatch") BY <1>0, <2>1, TakenKinds
    <3>6. Handshake' BY <1>0, <2>1, <2>4, <3>5, HandshakeKept
    <3> QED BY <2>2, <3>3, <3>4, <3>6 DEF Order
  <2> QED BY <2>3, <2>4
<1>4. CASE ReadError
  <2>1. Hangup /\ phase = "read" /\ UNCHANGED <<sid, url, hasSeq, seq, done>> BY <1>4 DEF ReadError
  <2>2. got.op # "dispatch" BY <1>d, <2>1 DEF Lines
  <2> QED BY <1>e, <2>1, <2>2
<1>5. CASE OnReconnect BY <1>5, <1>e DEF OnReconnect, Handling
<1>6. CASE OnInvalid BY <1>6, <1>e DEF OnInvalid, Handling
<1>7. CASE OnHello
  <2>1. got.op = "hello" /\ wire = <<>> /\ out = <<>> /\ ~attached
    BY <1>7 DEF OnHello, Handling, Lines
  <2>2. /\ Send(Greeting) /\ Greeting \in AnyMessage
        /\ \/ sid # 0 /\ Greeting.op = "resume" /\ Greeting.sid = sid
              /\ Greeting.n = IF hasSeq THEN seq ELSE 0
           \/ sid = 0 /\ Greeting.op = "identify"
    BY <1>0, <1>7, GreetingFacts DEF Resumable
  <2>3. /\ got' = Plain("none")
        /\ UNCHANGED <<sid, url, seq, hasSeq, session, valid, log, done, attached, wire>>
    BY <1>7 DEF OnHello, Handled
  <2>4. got'.op # "dispatch" /\ Taken = Len(done) /\ Taken' = Taken
    BY <1>0, <1>d, <2>1, <2>3 DEF Taken
  <2>5. Stretch'
    BY <1>0, <2>3, <2>4 DEF Stretch
  <2>6. sid # 0 => Greeting.n = Len(done)
    BY <1>0, <2>2, <2>4 DEF Numbers
  <2>7. out' = <<>> \/ out' = Append(<<>>, Greeting) BY <2>1, <2>2, SendFacts
  <2>8. None(wire', "dispatch") /\ ~attached' BY <2>1, <2>3, EmptyFacts
  <2>9. Handshake'
    <3>1. CASE out' = <<>> BY <3>1, HandshakeNone
    <3>2. CASE out' = Append(<<>>, Greeting)
      <4>1. out' = <<Greeting>> /\ Len(out') = 1 /\ out'[1] = Greeting BY <3>2
      <4>2. \A i \in 1..Len(out') : i = 1 BY <4>1
      <4> QED BY <2>2, <2>3, <2>4, <2>6, <2>8, <4>1, <4>2 DEF Handshake
    <3> QED BY <2>7, <3>1, <3>2
  <2> QED BY <1>b, <1>c, <2>3, <2>4, <2>5, <2>9 DEF Order
<1>8. CASE OnAck
  <2>1. /\ got.op = "ack" /\ got' = Plain("none")
        /\ UNCHANGED <<sid, url, seq, hasSeq, session, valid, log, done, attached, wire, out>>
    BY <1>8 DEF OnAck, Handling, Handled
  <2>2. got'.op # "dispatch" /\ Taken' = Taken BY <1>d, <2>1 DEF Taken
  <2>3. Stretch' BY <1>0, <2>1, <2>2 DEF Stretch
  <2>4. Handshake' BY <1>0, <2>1, <2>2, HandshakeKept
  <2> QED BY <1>b, <1>c, <2>1, <2>2, <2>3, <2>4 DEF Order
<1>9. CASE OnDispatch
  <2>1. /\ got.op = "dispatch" /\ Handling("dispatch") /\ got' = Plain("none")
        /\ done' = Append(done, got.n)
        /\ UNCHANGED <<seq, hasSeq, session, valid, log, attached, wire>>
    BY <1>9 DEF OnDispatch, OnReady, OnGuildCreate, OnChunk, OnMemberAdd, OnMemberRemove, OnOther,
                Handles, Handling, Handled
  <2>2. got.n \in Nat /\ got.n \in 1..Len(log) BY <2>1, EventFacts
  <2>3. Len(done') = Len(done) + 1 BY <2>1, <2>2, AppendProperties DEF Types
  <2>4. got'.op # "dispatch" /\ Taken' = Taken BY <1>0, <1>d, <2>1, <2>3 DEF Taken
  <2>5. Stretch' BY <1>0, <2>1, <2>4 DEF Stretch
  <2>6. \/ UNCHANGED <<sid, url>>
        \/ sid' = session /\ url' = TRUE
    BY <1>9 DEF OnDispatch, OnReady, OnGuildCreate, OnChunk, OnMemberAdd, OnMemberRemove, OnOther
  <2>7. session # 0
    <3>1. log # <<>> BY <1>0, <2>2, EmptySeq
    <3> QED BY <1>0, <3>1 DEF Resumable
  <2>8. Resumable' BY <1>0, <2>1, <2>6, <2>7 DEF Resumable
  <2>9. Numbers' BY <1>0, <2>1, <2>4 DEF Numbers
  <2>10. \/ out' = out
         \/ \E us \in SUBSET Users : out' = Append(out, Msg("request", 0, 0, us))
    <3>1. CASE OnGuildCreate BY <3>1, SendFacts, MessageTypes DEF OnGuildCreate
    <3>2. CASE OnMemberAdd
      <4>1. EventUsers \in SUBSET Users BY <2>1, EventFacts
      <4>2. Msg("request", 0, 0, EventUsers) \in AnyMessage BY <4>1, MessageTypes
      <4> QED BY <3>2, <4>1, <4>2, SendFacts DEF OnMemberAdd
    <3> QED BY <1>9, <3>1, <3>2 DEF OnDispatch, OnReady, OnChunk, OnMemberRemove, OnOther
  <2>11. \A i \in 1..Len(out) : out[i].op \notin {"identify", "resume"}
    BY <1>0, <2>1 DEF Handshake
  <2>12. Handshake'
    <3>1. CASE out' = out BY <2>11, <3>1 DEF Handshake
    <3>2. ASSUME NEW us \in SUBSET Users, out' = Append(out, Msg("request", 0, 0, us))
          PROVE  Handshake'
      <4>1. Msg("request", 0, 0, us) \in AnyMessage /\ Msg("request", 0, 0, us).op = "request"
        BY MessageTypes, MessageParts
      <4>2. /\ out'[Len(out) + 1].op = "request" /\ 1..Len(out') = 1..Len(out) \cup {Len(out) + 1}
            /\ \A j \in 1..Len(out) : out'[j] = out[j]
        BY <1>0, <3>2, <4>1, SentFacts
      <4> QED BY <2>11, <4>2 DEF Handshake
    <3> QED BY <2>10, <3>1, <3>2
  <2> QED BY <2>5, <2>8, <2>9, <2>12 DEF Order
<1>10. CASE Beat
  <2>1. /\ Send(Plain("beat"))
        /\ UNCHANGED <<got, sid, url, seq, hasSeq, session, valid, log, done, attached, wire>>
    BY <1>10 DEF Beat
  <2>2. out' = out \/ out' = Append(out, Plain("beat")) BY <2>1, SendFacts, MessageTypes
  <2>3. Plain("beat") \in AnyMessage /\ Plain("beat").op \notin {"identify", "resume"}
    BY MessageTypes, MessageParts
  <2>4. Handshake' BY <1>0, <2>1, <2>2, <2>3, HandshakeKept
  <2> QED BY <1>a, <1>b, <1>c, <2>1, <2>4 DEF Order
<1>11. CASE Stale \/ Cut
  <2>1. /\ attached' = FALSE
        /\ UNCHANGED <<got, sid, url, seq, hasSeq, session, valid, log, done, wire, out>>
    BY <1>11 DEF Stale, Cut
  <2>2. Handshake' BY <1>0, <2>1, HandshakeKept
  <2> QED BY <1>a, <1>b, <1>c, <2>1, <2>2 DEF Order
<1>12. CASE Acknowledge
  <2>1. /\ out # <<>> /\ out' = Tail(out) /\ wire' = Append(wire, Plain("ack"))
        /\ UNCHANGED <<got, sid, url, seq, hasSeq, session, valid, log, done, attached>>
    BY <1>12 DEF Acknowledge, Receives
  <2>2. Plain("ack") \in AnyMessage /\ Plain("ack").op # "dispatch" BY MessageTypes, MessageParts
  <2>3. /\ Taken' = Taken /\ Taken' <= Len(log') /\ Ordered(wire', Taken', Len(log'))
        /\ Reaches(wire, Taken, Len(log)) => Reaches(wire', Taken', Len(log'))
    BY <2>1, <2>2, OrderPlain
  <2>4. Stretch' BY <1>0, <2>1, <2>3 DEF Stretch
  <2>5. Handshake' BY <1>0, <2>1, HandshakeGone
  <2> QED BY <1>b, <1>c, <2>1, <2>3, <2>4, <2>5 DEF Order
<1>13. CASE Identified
  <2>1. Receives("identify") /\ UNCHANGED <<got, sid, url, seq, hasSeq>> BY <1>13 DEF Identified
  <2>2. /\ session' = session + 1 /\ valid' = TRUE /\ attached' = TRUE /\ done' = <<>>
        /\ wire' = wire \o <<Dispatch(1), Dispatch(2)>>
        /\ \E S : log' = <<Event("ready", {}), Event("create", S)>>
    BY <1>13 DEF Identified
  <2>3. /\ out # <<>> /\ out' = Tail(out) /\ out[1].op = "identify" /\ 1 \in 1..Len(out)
    BY <2>1, ReceivedFacts
  <2>4. sid = 0 /\ None(wire, "dispatch") /\ got.op # "dispatch" BY <1>0, <2>3 DEF Handshake
  <2>5. Len(log') = 2 /\ Len(done') = 0 BY <2>2
  <2>6. Taken' = 0 BY <2>1, <2>4, <2>5 DEF Taken
  <2>7. /\ Ordered(wire \o <<Dispatch(1), Dispatch(2)>>, 0, 2)
        /\ Reaches(wire \o <<Dispatch(1), Dispatch(2)>>, 0, 2)
    <3> DEFINE r == <<Dispatch(1), Dispatch(2)>>
    <3>1. r \in Seq(AnyMessage) /\ Len(r) = 2 - 0 BY StartFacts
    <3>2. \A i \in 1..Len(r) : r[i].op = "dispatch" /\ r[i].n = 0 + i BY StartFacts
    <3> HIDE DEF r
    <3>3. ASSUME NEW first \in Nat, NEW last \in Nat, first = 0, last = 2
          PROVE  Ordered(wire \o r, first, last) /\ Reaches(wire \o r, first, last)
      <4>1. first <= last /\ Len(r) = last - first BY <3>1, <3>3
      <4>2. \A i \in 1..Len(r) : r[i].op = "dispatch" /\ r[i].n = first + i BY <3>2, <3>3
      <4> QED BY <1>0, <2>4, <3>1, <4>1, <4>2, OrderedReplay
    <3> QED BY <3>3 DEF r
  <2>8. Stretch' BY <2>2, <2>5, <2>6, <2>7 DEF Stretch
  <2>9. session' # 0
    <3>1. session \in Nat BY DEF Types
    <3> QED BY <2>2, <3>1
  <2>10. Resumable' BY <1>0, <2>1, <2>4, <2>9 DEF Resumable
  <2>11. Numbers' BY <2>1, <2>4 DEF Numbers
  <2> QED BY <1>0, <2>3, <2>8, <2>10, <2>11, HandshakeGone DEF Order
<1>14. CASE Resumed
  <2>1. /\ Receives("resume")
        /\ UNCHANGED <<got, sid, url, seq, hasSeq, session, valid, log, done>>
    BY <1>14 DEF Resumed
  <2>2. /\ out # <<>> /\ out' = Tail(out) /\ Head(out) = out[1] /\ out[1].op = "resume"
        /\ 1 \in 1..Len(out)
    BY <2>1, ReceivedFacts
  <2>3. /\ ~attached /\ None(wire, "dispatch") /\ got.op # "dispatch"
        /\ sid # 0 /\ Head(out).sid = sid /\ Head(out).n = Taken
    BY <1>0, <2>2 DEF Handshake
  <2>4. Taken' = Taken BY <2>1 DEF Taken
  <2>5. Stretch'
    <3>1. CASE valid /\ Head(out).sid = session
      <4>1. wire' = wire \o Replay(Taken, Len(log)) BY <1>14, <2>3, <3>1 DEF Resumed, Replay
      <4>2. /\ Ordered(wire \o Replay(Taken, Len(log)), Taken, Len(log))
            /\ Reaches(wire \o Replay(Taken, Len(log)), Taken, Len(log))
        BY <1>0, <2>3, ReplayFacts, OrderedReplay DEF Stretch
      <4> QED BY <1>0, <2>1, <2>4, <4>1, <4>2 DEF Stretch
    <3>2. CASE ~(valid /\ Head(out).sid = session)
      <4>1. wire' = Append(wire, Plain("invalid")) /\ attached' = attached
        BY <1>14, <3>2 DEF Resumed
      <4>2. Plain("invalid") \in AnyMessage /\ Plain("invalid").op # "dispatch"
        BY MessageTypes, MessageParts
      <4>3. Taken' <= Len(log') /\ Ordered(wire', Taken', Len(log'))
        BY <2>1, <4>1, <4>2, OrderPlain
      <4> QED BY <2>3, <4>1, <4>3 DEF Stretch
    <3> QED BY <3>1, <3>2
  <2> QED BY <1>0, <1>b, <1>c, <2>1, <2>2, <2>4, <2>5, HandshakeGone DEF Order
<1>15. CASE Requested
  <2>1. Event("chunk", Head(out).users \cap members) \in AnyEvent
    BY <1>15, ReceivedFacts DEF Requested, Event, AnyEvent
  <2>2. /\ Emit(Event("chunk", Head(out).users \cap members)) /\ out # <<>> /\ out' = Tail(out)
        /\ UNCHANGED <<got, sid, url, seq, hasSeq, session, valid, done, attached>>
    BY <1>15 DEF Requested, Receives
  <2>3. /\ Taken' = Taken /\ Taken' <= Len(log') /\ Ordered(wire', Taken', Len(log'))
        /\ attached' => Reaches(wire', Taken', Len(log'))
        /\ valid \/ log' = log
    BY <2>1, <2>2, OrderEmit
  <2>4. Stretch' BY <2>3 DEF Stretch
  <2>5. Resumable' BY <1>0, <2>2, <2>3 DEF Resumable
  <2> QED BY <1>0, <1>c, <2>2, <2>3, <2>4, <2>5, HandshakeGone DEF Order
<1>16. ASSUME NEW u \in Users, GuildChange(u) PROVE Order'
  <2>1. /\ Event("add", {u}) \in AnyEvent /\ Event("remove", {u}) \in AnyEvent
        /\ Event("other", {u}) \in AnyEvent
    BY DEF Event, AnyEvent
  <2>2. /\ \E e \in AnyEvent : Emit(e)
        /\ UNCHANGED <<got, sid, url, seq, hasSeq, session, valid, done, attached, out>>
    BY <1>16, <2>1 DEF GuildChange
  <2>3. /\ Taken' = Taken /\ Taken' <= Len(log') /\ Ordered(wire', Taken', Len(log'))
        /\ attached' => Reaches(wire', Taken', Len(log'))
        /\ (~attached /\ None(wire, "dispatch")) => None(wire', "dispatch")
        /\ valid \/ log' = log
    BY <2>2, OrderEmit
  <2>4. Stretch' BY <2>3 DEF Stretch
  <2>5. Resumable' BY <1>0, <2>2, <2>3 DEF Resumable
  <2>6. Handshake' BY <1>0, <2>2, <2>3, HandshakeKept
  <2> QED BY <1>c, <2>2, <2>3, <2>4, <2>5, <2>6 DEF Order
<1>17. CASE AskReconnect
  <2>1. /\ wire' = Append(wire, Plain("reconnect"))
        /\ UNCHANGED <<got, sid, url, seq, hasSeq, session, valid, log, done, attached, out>>
    BY <1>17 DEF AskReconnect
  <2>2. Plain("reconnect") \in AnyMessage /\ Plain("reconnect").op # "dispatch"
    BY MessageTypes, MessageParts
  <2>3. /\ Taken' = Taken /\ Taken' <= Len(log') /\ Ordered(wire', Taken', Len(log'))
        /\ Reaches(wire, Taken, Len(log)) => Reaches(wire', Taken', Len(log'))
        /\ None(wire, "dispatch") => None(wire', "dispatch")
    BY <2>1, <2>2, OrderPlain
  <2>4. Stretch' BY <1>0, <2>1, <2>3 DEF Stretch
  <2>5. Handshake' BY <1>0, <2>1, <2>3, HandshakeKept
  <2> QED BY <1>b, <1>c, <2>1, <2>3, <2>4, <2>5 DEF Order
<1>18. CASE Invalidate
  <2>1. /\ valid /\ attached' = FALSE /\ valid' = FALSE
        /\ wire' = IF attached THEN Append(wire, Plain("invalid")) ELSE wire
        /\ UNCHANGED <<got, sid, url, seq, hasSeq, session, log, done, out>>
    BY <1>18 DEF Invalidate
  <2>2. Plain("invalid") \in AnyMessage /\ Plain("invalid").op # "dispatch"
    BY MessageTypes, MessageParts
  <2>3. /\ Taken' = Taken /\ Taken' <= Len(log') /\ Ordered(wire', Taken', Len(log'))
        /\ None(wire, "dispatch") => None(wire', "dispatch")
    <3>1. CASE attached BY <2>1, <2>2, <3>1, OrderPlain
    <3>2. CASE ~attached BY <1>0, <2>1, <3>2 DEF Stretch, Taken
    <3> QED BY <3>1, <3>2
  <2>4. Stretch' BY <2>1, <2>3 DEF Stretch
  <2>5. Handshake' BY <1>0, <2>1, <2>3, HandshakeKept
  <2>6. Resumable' BY <1>0, <2>1 DEF Resumable
  <2> QED BY <1>c, <2>1, <2>3, <2>4, <2>5, <2>6 DEF Order
<1> QED BY <1>1, <1>2, <1>3, <1>4, <1>5, <1>6, <1>7, <1>8, <1>9, <1>10, <1>11, <1>12, <1>13,
           <1>14, <1>15, <1>16, <1>17, <1>18
        DEF Next, Reader, Service

-----------------------------------------------------------------------------
(* Who is monitored. *)

\* Only the messages change.
LEMMA GuildKept ==
  ASSUME Guild, UNCHANGED <<monitored, members, gap, log, done>>, valid' => valid,
         missed => missed',
         missed' \/ \A u \in members : Asked(out, u) => Asked(out', u)
  PROVE  Guild'
<1> SUFFICES ASSUME valid' PROVE NoStranger' /\ (missed' \/ \A u \in members' : Coming(u)')
  BY DEF Guild
<1>1. NoStranger /\ (missed \/ \A u \in members : Coming(u)) BY DEF Guild
<1>2. Pending' = Pending BY DEF Pending
<1>3. NoStranger' BY <1>1, <1>2 DEF NoStranger, Removed, Listed
<1>4. ASSUME ~missed', NEW u \in members' PROVE Coming(u)'
  <2>1. Coming(u) /\ (Asked(out, u) => Asked(out', u)) BY <1>1, <1>4
  <2> QED BY <1>2, <2>1 DEF Coming, Removed
<1> QED BY <1>3, <1>4

\* Discord emits an event: it tells of the members who come and go.
LEMMA GuildEmit ==
  ASSUME Types, Order, Guild, valid, NEW e \in AnyEvent, log' = Append(log, e),
         UNCHANGED <<done, monitored, gap, missed>>,
         \A u \in members \ members' : e.kind = "remove" /\ u \in e.users,
         \A u \in members' \ members : e.kind = "add" /\ u \in e.users,
         e.kind = "remove" => e.users \cap members' = {},
         e.kind \in {"create", "chunk"} => e.users \subseteq members',
         \A u \in members' : Asked(out, u) => Asked(out', u) \/ (e.kind = "chunk" /\ u \in e.users)
  PROVE  Guild'
<1> SUFFICES ASSUME NEW n \in Nat, n = Len(log) + 1 PROVE Guild' BY TakenType
<1>1. NoStranger /\ (missed \/ \A u \in members : Coming(u)) BY DEF Guild
<1>2. Len(log) \in Nat /\ Len(done) \in Nat /\ Len(done) <= Len(log)
  BY TakenType DEF Order, Stretch, Taken
<1>3. /\ Len(log') = n /\ log'[n] = e
      /\ \A i \in 1..Len(log) : log'[i] = log[i]
  BY AppendProperties DEF Types
<1>4. \A i \in Pending : i \in 1..Len(log) /\ n > i BY <1>2 DEF Pending
<1>5. Pending' = Pending \cup {n} BY <1>2, <1>3 DEF Pending
<1>6. \A i \in Pending : log'[i] = log[i] BY <1>3, <1>4
<1>7. ~(n > n) /\ \A i \in Pending : ~(i > n) BY <1>2, <1>4
<1>8. /\ \A u, i : i \in Pending => (Removed(u, i)' <=> Removed(u, i))
      /\ \A u, i : i \in Pending => (Listed(u, i)' <=> Listed(u, i))
  BY <1>6 DEF Removed, Listed
<1>9. /\ \A u : Removed(u, n)' <=> (e.kind = "remove" /\ u \in e.users)
      /\ \A u : Listed(u, n)' <=> (e.kind \in {"create", "chunk"} /\ u \in e.users)
  BY <1>3 DEF Removed, Listed
<1>10. NoStranger'
  <2>1. ASSUME NEW u \in monitored', u \notin members' \cup gap'
        PROVE  \E i \in Pending' : Removed(u, i)'
    <3>1. CASE u \in members BY <1>5, <1>9, <2>1, <3>1
    <3>2. CASE u \notin members
      <4>1. PICK i \in Pending : Removed(u, i) BY <1>1, <2>1, <3>2 DEF NoStranger
      <4> QED BY <1>5, <1>8, <4>1
    <3> QED BY <3>1, <3>2
  <2>2. ASSUME NEW i \in Pending', NEW u \in Users \ members', Listed(u, i)'
        PROVE  \E j \in Pending' : j > i /\ Removed(u, j)'
    <3>1. i \in Pending BY <1>5, <1>9, <2>2
    <3>2. CASE u \in members BY <1>4, <1>5, <1>9, <2>2, <3>1, <3>2
    <3>3. CASE u \notin members
      <4>1. PICK j \in Pending : j > i /\ Removed(u, j)
        BY <1>1, <1>8, <2>2, <3>1, <3>3 DEF NoStranger
      <4> QED BY <1>5, <1>8, <4>1
    <3> QED BY <3>2, <3>3
  <2> QED BY <2>1, <2>2 DEF NoStranger
<1>11. ASSUME ~missed', NEW u \in members' PROVE Coming(u)'
  <2>1. ~Removed(u, n)' BY <1>9, <1>11
  <2>2. CASE u \notin members
    <3>1. n \in Pending' /\ log'[n].kind = "add" /\ u \in log'[n].users
      BY <1>3, <1>5, <1>11, <2>2
    <3> QED BY <3>1 DEF Coming
  <2>3. CASE u \in members
    <3>1. Coming(u) BY <1>1, <1>11, <2>3
    <3>2. CASE u \in monitored /\ \A i \in Pending : ~Removed(u, i)
      BY <1>5, <1>8, <2>1, <3>2 DEF Coming
    <3>3. ASSUME NEW i \in Pending, log[i].kind = "chunk", u \in log[i].users,
                 \A j \in Pending : j > i => ~Removed(u, j)
          PROVE  Coming(u)'
      <4>1. i \in Pending' /\ log'[i].kind = "chunk" /\ u \in log'[i].users BY <1>5, <1>6, <3>3
      <4>2. \A j \in Pending' : j > i => ~Removed(u, j)' BY <1>5, <1>8, <2>1, <3>3
      <4> QED BY <4>1, <4>2 DEF Coming
    <3>4. ASSUME NEW i \in Pending,
                 log[i].kind = "create" \/ (log[i].kind = "add" /\ u \in log[i].users)
          PROVE  Coming(u)'
      <4>1. i \in Pending' /\ log'[i] = log[i] BY <1>5, <1>6, <3>4
      <4> QED BY <3>4, <4>1 DEF Coming
    <3>5. CASE Asked(out, u)
      <4>1. CASE Asked(out', u) BY <4>1 DEF Coming
      <4>2. CASE e.kind = "chunk" /\ u \in e.users
        <5>1. n \in Pending' /\ log'[n].kind = "chunk" /\ u \in log'[n].users BY <1>3, <1>5, <4>2
        <5>2. \A j \in Pending' : ~(j > n) BY <1>5, <1>7
        <5> QED BY <5>1, <5>2 DEF Coming
      <4> QED BY <1>11, <3>5, <4>1, <4>2
    <3> QED BY <3>1, <3>2, <3>3, <3>4, <3>5 DEF Coming
  <2> QED BY <2>2, <2>3
<1> QED BY <1>10, <1>11 DEF Guild

\* The client handles the next event: it does with the users what it says.
LEMMA GuildTake ==
  ASSUME Types, Order, Guild, Handling("dispatch"), done' = Append(done, got.n),
         UNCHANGED <<log, members, valid>>, missed => missed',
         \A u \in monitored' : u \in monitored \/ Listed(u, got.n),
         \A u \in monitored : u \in monitored' \/ Removed(u, got.n),
         \A u \in monitored' : ~Removed(u, got.n),
         \A u \in gap : u \in gap' \/ Removed(u, got.n),
         \A u \in EventUsers : log[got.n].kind = "chunk" => u \in monitored',
         \A u \in Users : Asked(out, u) => Asked(out', u),
         log[got.n].kind = "create" => missed' \/ \A u \in Users : Asked(out', u),
         log[got.n].kind = "add" => missed' \/ \A u \in EventUsers : Asked(out', u)
  PROVE  Guild'
<1> DEFINE n == got.n
<1> SUFFICES ASSUME valid' PROVE NoStranger' /\ (missed' \/ \A u \in members' : Coming(u)')
  BY DEF Guild
<1>1. NoStranger /\ (missed \/ \A u \in members : Coming(u)) BY DEF Guild
<1>2. n = Len(done) + 1 /\ n \in 1..Len(log) /\ Len(done) \in Nat /\ Len(log) \in Nat /\ n \in Nat
  BY EventFacts
<1>3. Len(done') = Len(done) + 1 BY <1>2, AppendProperties DEF Types
<1>4. /\ Pending = Pending' \cup {n} /\ \A i \in Pending' : i > n
      /\ \A i \in Pending : \A j \in Pending : j > i => j \in Pending'
  BY <1>2, <1>3 DEF Pending
<1>5. \A u, i : (Removed(u, i)' <=> Removed(u, i)) /\ (Listed(u, i)' <=> Listed(u, i))
  BY DEF Removed, Listed
<1>6. monitored' \subseteq Users
  <2>1. log[n].users \in SUBSET Users BY EventFacts DEF EventUsers
  <2> QED BY <2>1 DEF Types, Listed
<1>u. EventUsers = log[n].users BY DEF EventUsers
<1> HIDE DEF n
<1>7. NoStranger'
  <2>1. ASSUME NEW u \in monitored', u \notin members' \cup gap'
        PROVE  \E i \in Pending' : Removed(u, i)'
    <3>1. ~Removed(u, n) BY <2>1 DEF n
    <3>2. CASE Listed(u, n)
      <4>1. PICK j \in Pending : j > n /\ Removed(u, j)
        BY <1>1, <1>4, <1>6, <2>1, <3>2 DEF NoStranger
      <4> QED BY <1>4, <1>5, <4>1
    <3>3. CASE ~Listed(u, n)
      <4>1. u \in monitored /\ u \notin gap BY <2>1, <3>1, <3>3 DEF n
      <4>2. PICK i \in Pending : Removed(u, i) BY <1>1, <2>1, <4>1 DEF NoStranger
      <4> QED BY <1>4, <1>5, <3>1, <4>2
    <3> QED BY <3>2, <3>3
  <2>2. ASSUME NEW i \in Pending', NEW u \in Users \ members', Listed(u, i)'
        PROVE  \E j \in Pending' : j > i /\ Removed(u, j)'
    <3>1. PICK j \in Pending : j > i /\ Removed(u, j) BY <1>1, <1>4, <1>5, <2>2 DEF NoStranger
    <3>2. j \in Pending' BY <1>4, <2>2, <3>1
    <3> QED BY <1>5, <3>1, <3>2
  <2> QED BY <2>1, <2>2 DEF NoStranger
<1>8. ASSUME ~missed', NEW u \in members' PROVE Coming(u)'
  <2>1. Coming(u) /\ u \in Users BY <1>1, <1>8 DEF Types
  <2>2. CASE u \in monitored /\ \A i \in Pending : ~Removed(u, i)
    <3>1. u \in monitored' BY <1>4, <2>2 DEF n
    <3> QED BY <1>4, <1>5, <2>2, <3>1 DEF Coming
  <2>3. ASSUME NEW i \in Pending, log[i].kind = "chunk", u \in log[i].users,
               \A j \in Pending : j > i => ~Removed(u, j)
        PROVE  Coming(u)'
    <3>1. CASE i = n
      <4>1. u \in monitored' BY <1>u, <2>3, <3>1 DEF n
      <4>2. \A j \in Pending' : ~Removed(u, j)' BY <1>4, <1>5, <2>3, <3>1
      <4> QED BY <4>1, <4>2 DEF Coming
    <3>2. CASE i # n
      <4>1. i \in Pending' BY <1>4, <3>2
      <4>2. \A j \in Pending' : j > i => ~Removed(u, j)' BY <1>4, <1>5, <2>3
      <4> QED BY <2>3, <4>1, <4>2 DEF Coming
    <3> QED BY <3>1, <3>2
  <2>4. ASSUME NEW i \in Pending,
               log[i].kind = "create" \/ (log[i].kind = "add" /\ u \in log[i].users)
        PROVE  Coming(u)'
    <3>1. CASE i = n
      <4>1. Asked(out', u) BY <1>8, <1>u, <2>1, <2>4, <3>1 DEF n
      <4> QED BY <4>1 DEF Coming
    <3>2. CASE i # n
      <4>1. i \in Pending' BY <1>4, <3>2
      <4> QED BY <2>4, <4>1 DEF Coming
    <3> QED BY <3>1, <3>2
  <2>5. CASE Asked(out, u)
    <3>1. Asked(out', u) BY <2>1, <2>5
    <3> QED BY <3>1 DEF Coming
  <2> QED BY <2>1, <2>2, <2>3, <2>4, <2>5 DEF Coming
<1> QED BY <1>7, <1>8

LEMMA GuildStep ==
  ASSUME Types, Lines, Order, Guild, Next PROVE Guild'
<1> USE DEF reader, sessionVars, heart, net, service, counters, ghosts
<1>0. out \in Seq(AnyMessage) /\ members \subseteq Users BY DEF Types
<1>a. ASSUME NEW op, Receives(op), op # "request", UNCHANGED <<monitored, members, gap, log, done>>,
             valid' => valid, UNCHANGED missed
      PROVE  Guild'
  <2>1. out # <<>> /\ Head(out).op # "request" /\ out' = Tail(out) BY <1>a DEF Receives
  <2>2. \A u \in members : Asked(out, u) => Asked(out', u) BY <1>0, <2>1, AskedTaken
  <2> QED BY <1>a, <2>2, GuildKept
<1>b. ASSUME NEW m \in AnyMessage, Send(m)
      PROVE  /\ (missed => missed') /\ \A u : Asked(out, u) => Asked(out', u)
             /\ m.op = "request" => missed' \/ \A u \in m.users : Asked(out', u)
  <2>1. CASE link = "up"
    <3>1. out' = Append(out, m) /\ missed' = missed BY <1>b, <2>1, SendFacts
    <3> QED BY <1>0, <1>b, <3>1, AskedSent
  <2>2. CASE link # "up" BY <1>b, <2>2, SendFacts
  <2> QED BY <2>1, <2>2
<1>c. ASSUME Hangup, UNCHANGED <<monitored, gap, done>> PROVE Guild'
  <2>1. /\ missed' = (missed \/ Requests(out) # {})
        /\ UNCHANGED <<session, valid, log, members, hostDead>>
    BY <1>c, HangupFacts
  <2>2. missed' \/ \A u \in members : ~Asked(out, u) BY <2>1, AskedNone
  <2> QED BY <1>c, <2>1, <2>2, GuildKept
<1>1. CASE Dial \/ DialFails \/ Read \/ OnAck \/ TakeAck \/ Stale \/ Tick \/ Cut \/ AskReconnect
           \/ HostDies \/ Invalidate
  <2>1. UNCHANGED <<monitored, members, gap, log, done, out, missed>>
    BY <1>1 DEF Dial, DialFails, vars, Read, OnAck, TakeAck, Stale, Tick, Cut, AskReconnect,
                HostDies, Invalidate
  <2>2. valid' => valid
    BY <1>1 DEF Dial, DialFails, vars, Read, OnAck, TakeAck, Stale, Tick, Cut, AskReconnect,
                HostDies, Invalidate
  <2> QED BY <2>1, <2>2, GuildKept
<1>2. CASE ReadError \/ OnReconnect \/ OnInvalid
  BY <1>2, <1>c DEF ReadError, OnReconnect, OnInvalid
<1>3. CASE OnHello \/ Beat
  <2>1. PICK m \in AnyMessage : Send(m) BY <1>3, GreetingFacts, MessageTypes DEF Beat
  <2>2. UNCHANGED <<monitored, members, gap, log, done, valid>> BY <1>3 DEF OnHello, Beat
  <2>3. (missed => missed') /\ \A u : Asked(out, u) => Asked(out', u) BY <1>b, <2>1
  <2> QED BY <2>2, <2>3, GuildKept
<1>4. CASE OnDispatch
  <2>1. /\ Handling("dispatch") /\ done' = Append(done, got.n) /\ UNCHANGED <<log, members, valid>>
    BY <1>4 DEF OnDispatch, OnReady, OnGuildCreate, OnChunk, OnMemberAdd, OnMemberRemove, OnOther,
                Handles
  <2>2. EventUsers \in SUBSET Users BY <2>1, EventFacts
  <2>3. CASE OnReady \/ OnOther
    <3>1. /\ log[got.n].kind \in {"ready", "other"} /\ UNCHANGED <<monitored, gap, out, missed>>
      BY <2>3 DEF OnReady, OnOther, Handles
    <3> QED BY <2>1, <3>1, GuildTake DEF Removed, Listed
  <2>4. CASE OnGuildCreate
    <3>1. /\ log[got.n].kind = "create" /\ monitored' = monitored \cup EventUsers /\ gap' = gap
          /\ Send(Msg("request", 0, 0, Users))
      BY <2>4 DEF OnGuildCreate, Handles
    <3>2. /\ Msg("request", 0, 0, Users) \in AnyMessage
          /\ Msg("request", 0, 0, Users).op = "request" /\ Msg("request", 0, 0, Users).users = Users
      BY MessageTypes, MessageParts
    <3>3. /\ (missed => missed') /\ \A u : Asked(out, u) => Asked(out', u)
          /\ missed' \/ \A u \in Users : Asked(out', u)
      BY <1>b, <3>1, <3>2
    <3>4. /\ \A u \in monitored' : u \in monitored \/ Listed(u, got.n)
          /\ \A u \in monitored : u \in monitored'
          /\ \A u : ~Removed(u, got.n)
          /\ log[got.n].kind \notin {"chunk", "add"}
      BY <3>1 DEF Removed, Listed, EventUsers
    <3> QED BY <2>1, <3>1, <3>3, <3>4, GuildTake
  <2>5. CASE OnChunk
    <3>1. /\ log[got.n].kind = "chunk" /\ monitored' = monitored \cup EventUsers
          /\ UNCHANGED <<gap, out, missed>>
      BY <2>5 DEF OnChunk, Handles
    <3> QED BY <2>1, <3>1, GuildTake DEF Removed, Listed, EventUsers
  <2>6. CASE OnMemberAdd
    <3>1. /\ log[got.n].kind = "add" /\ UNCHANGED <<monitored, gap>>
          /\ Send(Msg("request", 0, 0, EventUsers))
      BY <2>6 DEF OnMemberAdd, Handles
    <3>2. /\ Msg("request", 0, 0, EventUsers) \in AnyMessage
          /\ Msg("request", 0, 0, EventUsers).op = "request"
          /\ Msg("request", 0, 0, EventUsers).users = EventUsers
      BY <2>2, MessageTypes, MessageParts
    <3>3. /\ (missed => missed') /\ \A u : Asked(out, u) => Asked(out', u)
          /\ missed' \/ \A u \in EventUsers : Asked(out', u)
      BY <1>b, <3>1, <3>2
    <3>4. (\A u : ~Removed(u, got.n)) /\ log[got.n].kind \notin {"chunk", "create"}
      BY <3>1 DEF Removed
    <3> QED BY <2>1, <3>1, <3>3, <3>4, GuildTake
  <2>7. CASE OnMemberRemove
    <3>1. /\ log[got.n].kind = "remove" /\ monitored' = monitored \ EventUsers
          /\ gap' = gap \ EventUsers /\ UNCHANGED <<out, missed>>
      BY <2>7 DEF OnMemberRemove, Handles
    <3> QED BY <2>1, <3>1, GuildTake DEF Removed, Listed, EventUsers
  <2> QED BY <1>4, <2>3, <2>4, <2>5, <2>6, <2>7 DEF OnDispatch
<1>5. CASE Acknowledge
  <2>1. UNCHANGED <<monitored, members, gap, log, done, valid, missed>> BY <1>5 DEF Acknowledge
  <2> QED BY <1>5, <1>a, <2>1 DEF Acknowledge
<1>6. CASE Resumed
  <2>1. UNCHANGED <<monitored, members, gap, log, done, valid, missed>> BY <1>6 DEF Resumed
  <2> QED BY <1>6, <1>a, <2>1 DEF Resumed
<1>7. CASE Identified
  <2>1. PICK S \in SUBSET members : log' = <<Event("ready", {}), Event("create", S)>>
    BY <1>7 DEF Identified
  <2>2. /\ done' = <<>> /\ gap' = monitored \ members /\ UNCHANGED <<monitored, members>>
    BY <1>7 DEF Identified
  <2>3. /\ Len(log') = 2 /\ Len(done') = 0 /\ log'[1].kind = "ready"
        /\ log'[2].kind = "create" /\ log'[2].users = S
    BY <2>1, <2>2 DEF Event
  <2>4. Pending' = {1, 2} BY <2>3 DEF Pending
  <2>5. NoStranger'
    <3>1. \A i \in Pending' : \A u \in Users \ members' : ~Listed(u, i)'
      BY <2>1, <2>2, <2>3, <2>4 DEF Listed
    <3> QED BY <2>2, <3>1 DEF NoStranger
  <2>6. \A u : Coming(u)' BY <2>3, <2>4 DEF Coming
  <2> QED BY <2>5, <2>6 DEF Guild
<1>8. CASE Requested
  <2> DEFINE us == Head(out).users \cap members
             e == Event("chunk", us)
  <2>1. /\ Head(out) \in AnyMessage /\ out # <<>> /\ out' = Tail(out) /\ us \in SUBSET Users
    BY <1>8, ReceivedFacts DEF Requested
  <2>2. e \in AnyEvent /\ e.kind = "chunk" /\ e.users = us BY <2>1 DEF Event, AnyEvent
  <2>3. /\ Emit(e) /\ UNCHANGED <<done, monitored, gap, missed, members, valid>>
    BY <1>8 DEF Requested
  <2>4. ASSUME NEW u \in members' PROVE Asked(out, u) => Asked(out', u) \/ u \in e.users
    BY <1>0, <2>1, <2>2, <2>3, <2>4, AskedTaken
  <2> HIDE DEF us, e
  <2>5. CASE valid
    <3>1. log' = Append(log, e) BY <2>2, <2>3, <2>5, EmitFacts
    <3>2. e.users \subseteq members' BY <2>2, <2>3 DEF us
    <3> QED BY <2>2, <2>3, <2>4, <2>5, <3>1, <3>2, GuildEmit
  <2>6. CASE ~valid BY <2>3, <2>6 DEF Guild
  <2> QED BY <2>5, <2>6
<1>9. ASSUME NEW w \in Users, GuildChange(w) PROVE Guild'
  <2>1. /\ Event("add", {w}) \in AnyEvent /\ Event("add", {w}).kind = "add"
        /\ Event("add", {w}).users = {w}
        /\ Event("remove", {w}) \in AnyEvent /\ Event("remove", {w}).kind = "remove"
        /\ Event("remove", {w}).users = {w}
        /\ Event("other", {w}) \in AnyEvent /\ Event("other", {w}).kind = "other"
    BY DEF Event, AnyEvent
  <2>2. UNCHANGED <<done, monitored, gap, missed, out, valid>> BY <1>9 DEF GuildChange
  <2>3. CASE valid
    <3>1. CASE w \notin members /\ members' = members \cup {w} /\ Emit(Event("add", {w}))
      <4>1. log' = Append(log, Event("add", {w})) BY <2>1, <2>3, <3>1, EmitFacts
      <4> QED BY <2>1, <2>2, <2>3, <3>1, <4>1, GuildEmit
    <3>2. CASE w \in members /\ members' = members \ {w} /\ Emit(Event("remove", {w}))
      <4>1. log' = Append(log, Event("remove", {w})) BY <2>1, <2>3, <3>2, EmitFacts
      <4> QED BY <2>1, <2>2, <2>3, <3>2, <4>1, GuildEmit
    <3>3. CASE members' = members /\ Emit(Event("other", {w}))
      <4>1. log' = Append(log, Event("other", {w})) BY <2>1, <2>3, <3>3, EmitFacts
      <4> QED BY <2>1, <2>2, <2>3, <3>3, <4>1, GuildEmit
    <3> QED BY <1>9, <3>1, <3>2, <3>3 DEF GuildChange
  <2>4. CASE ~valid BY <2>2, <2>4 DEF Guild
  <2> QED BY <2>3, <2>4
<1> QED BY <1>1, <1>2, <1>3, <1>4, <1>5, <1>6, <1>7, <1>8, <1>9 DEF Next, Reader, Service
-----------------------------------------------------------------------------
(* The invariant. *)

LEMMA InvInit == Init => Inv
<1> SUFFICES ASSUME Init PROVE Inv OBVIOUS
<1>1. /\ <<>> \in Seq(AnyMessage) /\ <<>> \in Seq(AnyEvent) /\ <<>> \in Seq(Nat) /\ Len(<<>>) = 0
      /\ Requests(<<>>) = {} /\ \A op : None(<<>>, op) /\ OneAtMost(<<>>, op)
  BY EmptySeq, EmptyFacts
<1>2. Plain("none") \in AnyMessage /\ Plain("none").op = "none" BY MessageTypes, MessageParts
<1>3. Types
  <2>1. 0 \in Nat /\ 0 \in 0..1 OBVIOUS
  <2>2. /\ url \in BOOLEAN /\ hasSeq \in BOOLEAN /\ ack \in BOOLEAN /\ valid \in BOOLEAN
        /\ attached \in BOOLEAN /\ hostDead \in BOOLEAN /\ missed \in BOOLEAN
    BY DEF Init
  <2>3. /\ sid \in Nat /\ seq \in Nat /\ ackCh \in 0..1 /\ session \in Nat /\ changes \in Nat
        /\ losses \in Nat
    BY <2>1 DEF Init
  <2>4. /\ phase = "dial" /\ hb = "off" /\ timer = "running" /\ link = "down"
        /\ got = Plain("none") /\ wire = <<>> /\ out = <<>> /\ log = <<>> /\ done = <<>>
        /\ monitored = {} /\ gap = {} /\ members \subseteq Users
    BY DEF Init
  <2> QED BY <1>1, <1>2, <2>2, <2>3, <2>4 DEF Types
<1>4. Lines BY DEF Init, Lines
<1>5. Heart BY <1>1, <1>2 DEF Init, Heart
<1>6. Order
  <2>1. Taken = 0 BY <1>1, <1>2 DEF Init, Taken
  <2>2. Ordered(wire, 0, 0) BY OrderedEmpty DEF Init
  <2>3. Stretch BY <1>1, <2>1, <2>2 DEF Init, Stretch
  <2>4. Handshake
    <3>1. 1..Len(out) = {} BY <1>1 DEF Init
    <3> QED BY <3>1 DEF Handshake
  <2>5. Resumable /\ Numbers BY <1>2 DEF Init, Resumable, Numbers
  <2> QED BY <2>3, <2>4, <2>5 DEF Order
<1>7. Guild BY DEF Init, Guild
<1> QED BY <1>3, <1>4, <1>5, <1>6, <1>7 DEF Inv

LEMMA InvStep == Inv /\ [Next]_vars => Inv'
<1> SUFFICES ASSUME Inv, [Next]_vars PROVE Inv' OBVIOUS
<1>1. CASE Next
  BY <1>1, TypesStep, LinesStep, HeartStep, OrderStep, GuildStep DEF Inv
<1>2. CASE UNCHANGED vars
  <2> USE <1>2 DEF vars, reader, sessionVars, heart, net, service, counters, ghosts
  <2>1. Types' BY DEF Inv, Types
  <2>2. Lines' BY DEF Inv, Lines
  <2>3. Heart' BY DEF Inv, Heart
  <2>4. Order' BY DEF Inv, Order, Handshake, Resumable, Numbers, Stretch, Taken
  <2>5. Guild' BY GuildKept DEF Inv
  <2> QED BY <2>1, <2>2, <2>3, <2>4, <2>5 DEF Inv
<1> QED BY <1>1, <1>2

\* The inductive invariant holds on every run of the client against Discord.
THEOREM GatewayInv == Spec => []Inv
<1>1. Init => Inv BY InvInit
<1>2. Inv /\ [Next]_vars => Inv' BY InvStep
<1> QED BY <1>1, <1>2, PTL DEF Spec

-----------------------------------------------------------------------------
(* What the client promises. *)

\* Events are handled once and in order.
LEMMA StepIsStream == Inv /\ [Next]_vars => [Stream!Next]_<<session, Len(log), done>>
<1> SUFFICES ASSUME Inv, Next
             PROVE  Stream!Next \/ UNCHANGED <<session, Len(log), done>>
  BY DEF vars, service, ghosts
<1> USE DEF reader, sessionVars, heart, net, service, counters, ghosts
<1>0. Types /\ Lines /\ Order /\ Len(log) \in Nat BY TakenType DEF Inv
<1>1. CASE Dial \/ DialFails \/ Read \/ OnHello \/ OnAck \/ TakeAck \/ Beat \/ Stale \/ Tick \/ Cut
           \/ AskReconnect \/ HostDies \/ Invalidate \/ Acknowledge \/ Resumed
  BY <1>1 DEF Dial, DialFails, vars, Read, OnHello, OnAck, TakeAck, Beat, Stale, Tick, Cut,
              AskReconnect, HostDies, Invalidate, Acknowledge, Resumed
<1>2. CASE ReadError \/ OnReconnect \/ OnInvalid
  BY <1>2 DEF ReadError, OnReconnect, OnInvalid, Hangup
<1>3. CASE OnDispatch
  <2>1. /\ Handling("dispatch") /\ done' = Append(done, got.n) /\ UNCHANGED <<session, log>>
    BY <1>3 DEF OnDispatch, OnReady, OnGuildCreate, OnChunk, OnMemberAdd, OnMemberRemove, OnOther,
                Handles
  <2>2. got.n = Len(done) + 1 /\ got.n \in 1..Len(log) /\ Len(done) \in Nat
    BY <1>0, <2>1, EventFacts
  <2>3. Len(done) < Len(log) BY <1>0, <2>2
  <2> QED BY <2>1, <2>2, <2>3 DEF Stream!Next, Stream!Deliver
<1>4. CASE Identified
  <2>1. session' = session + 1 /\ done' = <<>> /\ Len(log') = 2 BY <1>4 DEF Identified
  <2> QED BY <2>1 DEF Stream!Next, Stream!NewSession
<1>5. ASSUME NEW e \in AnyEvent, Emit(e), UNCHANGED <<session, done>>
      PROVE  Stream!Next \/ UNCHANGED <<session, Len(log), done>>
  <2>1. Len(log') = IF valid THEN Len(log) + 1 ELSE Len(log) BY <1>0, <1>5, EmitFacts
  <2>2. Len(log') > Len(log) \/ Len(log') = Len(log) BY <1>0, <2>1
  <2> QED BY <1>5, <2>2 DEF Stream!Next, Stream!Emit
<1>6. CASE Requested
  <2>1. Event("chunk", Head(out).users \cap members) \in AnyEvent
    BY <1>0, <1>6, ReceivedFacts DEF Requested, Event, AnyEvent
  <2> QED BY <1>5, <1>6, <2>1 DEF Requested
<1>7. ASSUME NEW u \in Users, GuildChange(u)
      PROVE  Stream!Next \/ UNCHANGED <<session, Len(log), done>>
  <2>1. /\ Event("add", {u}) \in AnyEvent /\ Event("remove", {u}) \in AnyEvent
        /\ Event("other", {u}) \in AnyEvent
    BY DEF Event, AnyEvent
  <2> QED BY <1>5, <1>7, <2>1 DEF GuildChange
<1> QED BY <1>1, <1>2, <1>3, <1>4, <1>5, <1>6, <1>7 DEF Next, Reader, Service

\* Through every cut, reconnect, replay and refused resume, the handlers see the
\* events of each session once and in order: what Run keeps of a session is what
\* it needs to go on exactly where it stopped.
THEOREM GatewayIsStream == Spec => StreamSpec
<1>1. Init => Stream!Init
  <2>1. Len(<<>>) = 0 BY EmptySeq
  <2> QED BY <2>1 DEF Init, Stream!Init
<1>2. Inv /\ [Next]_vars => [Stream!Next]_<<session, Len(log), done>> BY StepIsStream
<1> QED BY <1>1, <1>2, GatewayInv, PTL DEF Spec, StreamSpec, Stream!Spec

LEMMA CountFacts ==
  ASSUME NEW q \in Seq(AnyMessage), NEW op
  PROVE  LET C == Cardinality({i \in 1..Len(q) : q[i].op = op})
         IN  /\ None(q, op) => C = 0
             /\ OneAtMost(q, op) => C \in {0, 1}
<1> DEFINE S == {i \in 1..Len(q) : q[i].op = op}
<1>1. None(q, op) => S = {} BY DEF None
<1>2. OneAtMost(q, op) => S = {} \/ \E i : S = {i} BY DEF OneAtMost
<1>3. Cardinality({}) = 0 /\ \A i : Cardinality({i}) = 1 BY FS_EmptySet, FS_Singleton
<1> HIDE DEF S
<1>4. None(q, op) => Cardinality(S) = 0 BY <1>1, <1>3
<1>5. OneAtMost(q, op) => Cardinality(S) \in {0, 1} BY <1>2, <1>3
<1> QED BY <1>4, <1>5 DEF S

\* However the ACKs, the beats and the reads of a connection interleave, there is
\* at most one heartbeat that is sent and not yet accounted for.  So the ACK the
\* heartbeat goroutine takes is that of its last beat, and the reader never
\* drops one because ackCh is full.
THEOREM OneHeartbeatOnly == Spec => []OneBeatInFlight
<1>1. ASSUME Inv PROVE OneBeatInFlight
  <2> DEFINE A == Cardinality({i \in 1..Len(wire) : wire[i].op = "ack"})
             B == Cardinality({i \in 1..Len(out) : out[i].op = "beat"})
             G == IF got.op = "ack" THEN 1 ELSE 0
  <2>1. wire \in Seq(AnyMessage) /\ out \in Seq(AnyMessage) /\ ackCh \in 0..1
    BY <1>1 DEF Inv, Types
  <2>2. OneAtMost(out, "beat") /\ OneAtMost(wire, "ack") BY <1>1 DEF Inv, Heart
  <2>3. /\ A \in {0, 1} /\ (None(wire, "ack") => A = 0)
        /\ B \in {0, 1} /\ (None(out, "beat") => B = 0)
        /\ G \in {0, 1} /\ (got.op # "ack" => G = 0)
    BY <2>1, <2>2, CountFacts
  <2>4. Acks = A + G + ackCh /\ Beats = B BY DEF Acks, Beats
  <2> HIDE DEF A, B, G
  <2>5. /\ (B # 0 => A = 0 /\ G = 0 /\ ackCh = 0) /\ (A # 0 => G = 0 /\ ackCh = 0)
        /\ (G # 0 => ackCh = 0)
    BY <1>1, <2>3 DEF Inv, Heart
  <2>6. B + (A + G + ackCh) <= 1 BY <2>1, <2>3, <2>5
  <2>7. ack => B = 0 /\ A = 0 /\ G = 0 /\ ackCh = 0 BY <1>1, <2>3 DEF Inv, Heart
  <2>8. B = 0 /\ A = 0 /\ G = 0 /\ ackCh = 0 => B + (A + G + ackCh) = 0 OBVIOUS
  <2> QED BY <2>4, <2>6, <2>7, <2>8 DEF OneBeatInFlight
<1> QED BY <1>1, GatewayInv, PTL

\* A client that has handled every event, with no member request unanswered,
\* monitors every member of the guild, unless a request was lost with its
\* connection, and nobody else, unless they left between two sessions.
THEOREM MembersAreMonitored == Spec => []MembersMonitored
<1>1. ASSUME Inv PROVE MembersMonitored
  <2> SUFFICES ASSUME CaughtUp, Requests(out) = {}
               PROVE  (missed \/ members \subseteq monitored) /\ monitored \subseteq members \cup gap
    BY DEF MembersMonitored
  <2>1. valid /\ Len(done) = Len(log) /\ Len(log) \in Nat
    BY <1>1, TakenType DEF CaughtUp, Inv, Lines
  <2>2. Pending = {} BY <2>1 DEF Pending
  <2>3. NoStranger /\ (missed \/ \A u \in members : Coming(u)) BY <1>1, <2>1 DEF Inv, Guild
  <2>4. \A u : Coming(u) => u \in monitored BY <2>2, AskedNone DEF Coming
  <2>5. monitored \subseteq members \cup gap BY <2>2, <2>3 DEF NoStranger
  <2> QED BY <2>3, <2>4, <2>5
<1> QED BY <1>1, GatewayInv, PTL

-----------------------------------------------------------------------------
(* The bounds.  A session is created only when an earlier one was lost, and   *)
(* an event is appended only for a change of the guild or for a request that *)
(* such a change, or the session's one GUILD_CREATE, gave rise to.            *)

\* What Discord sends, and what the client sends.
FromDiscord == {Plain(op) : op \in ToClient \ {"dispatch"}} \cup {Dispatch(n) : n \in Nat}
FromClient == {Plain("beat"), Plain("identify")}
              \cup {Msg("resume", n, s, {}) : n, s \in Nat}
              \cup {Msg("request", 0, 0, us) : us \in SUBSET Users}

Shapes ==
  /\ got \in FromDiscord \cup {Plain("none")}
  /\ wire \in Seq(FromDiscord) /\ out \in Seq(FromClient)
  /\ losses <= MaxLosses /\ changes <= MaxGuild
  /\ seq <= MaxLog /\ done \in Seq(1..MaxLog)

\* Until the handshake is received, Discord has only acknowledged heartbeats and
\* the client has asked for nobody.
Opening ==
  (\E i \in 1..Len(out) : out[i].op \in {"identify", "resume"}) =>
    /\ None(wire, "invalid") /\ None(wire, "reconnect") /\ None(out, "request")
    /\ got.op \notin {"invalid", "reconnect"}

\* A client without a session that is being served gets READY before it is asked
\* to reconnect.
Readied ==
  /\ valid => Len(log) > 0
  /\ Len(log) > 0 => log[1].kind = "ready"
  /\ attached => link = "up"
  /\ (sid = 0 /\ attached) =>
       /\ done = <<>> /\ got.op # "reconnect"
       /\ got.op # "dispatch" =>
            \A i \in 1..Len(wire) : wire[i].op = "reconnect" =>
              \E j \in 1..(i - 1) : wire[j].op = "dispatch"

Refused == (got.op = "invalid" \/ ~None(wire, "invalid")) => ~valid

\* A beat whose ACK is late: the next case of the select closes the socket.
Overdue == hb = "wait" /\ timer = "fired" /\ ~ack /\ link = "up"

\* The sessions that may still be created before anything else goes wrong.
Owed == IF sid = 0 THEN (IF attached THEN 0 ELSE 1) + (IF Overdue THEN 1 ELSE 0)
                   ELSE (IF valid THEN 0 ELSE 1)

Paid == session + Owed <= losses + 1

\* The events whose handler will ask for members.
Asking == {i \in Pending : log[i].kind \in {"create", "add"}}

Fits == Len(log) + Cardinality(Asking) + Cardinality(Requests(out)) <= 3 + 2 * changes

Bounds == Shapes /\ Opening /\ Readied /\ Refused /\ Paid /\ Fits

-----------------------------------------------------------------------------
(* Counting. *)

LEMMA RequestCount ==
  ASSUME NEW q \in Seq(AnyMessage)
  PROVE  IsFiniteSet(Requests(q)) /\ Cardinality(Requests(q)) \in Nat
<1>1. Len(q) \in Nat BY LenProperties
<1>2. IsFiniteSet(1..Len(q)) BY <1>1, FS_Interval
<1>3. Requests(q) \in SUBSET (1..Len(q)) BY DEF Requests
<1>4. IsFiniteSet(Requests(q)) BY <1>2, <1>3, FS_Subset
<1> QED BY <1>4, FS_CardinalityType

LEMMA RequestSent ==
  ASSUME NEW q \in Seq(AnyMessage), NEW m \in AnyMessage
  PROVE  /\ m.op # "request" => Requests(Append(q, m)) = Requests(q)
         /\ Cardinality(Requests(Append(q, m))) <= Cardinality(Requests(q)) + 1
<1> DEFINE a == Append(q, m)
<1>1. /\ Len(q) \in Nat /\ a[Len(q) + 1] = m /\ \A i \in 1..Len(q) : a[i] = q[i]
      /\ 1..Len(a) = 1..Len(q) \cup {Len(q) + 1}
  BY SentFacts, SeqFacts
<1> HIDE DEF a
<1>2. m.op # "request" => Requests(a) = Requests(q) BY <1>1 DEF Requests
<1>3. m.op = "request" => Requests(a) = Requests(q) \cup {Len(q) + 1} BY <1>1 DEF Requests
<1>4. /\ IsFiniteSet(Requests(q)) /\ Cardinality(Requests(q)) \in Nat BY RequestCount
<1>5. Cardinality(Requests(q) \cup {Len(q) + 1}) <= Cardinality(Requests(q)) + 1
  <2>1. /\ Cardinality(Requests(q) \cup {Len(q) + 1}) =
              IF Len(q) + 1 \in Requests(q) THEN Cardinality(Requests(q))
                                            ELSE Cardinality(Requests(q)) + 1
    BY <1>4, FS_AddElement
  <2> QED BY <1>4, <2>1
<1>6. Cardinality(Requests(q)) <= Cardinality(Requests(q)) + 1 BY <1>4
<1>7. Cardinality(Requests(a)) <= Cardinality(Requests(q)) + 1
  <2>1. CASE m.op = "request" BY <1>3, <1>5, <2>1
  <2>2. CASE m.op # "request" BY <1>2, <1>6, <2>2
  <2> QED BY <2>1, <2>2
<1> QED BY <1>2, <1>7 DEF a

LEMMA RequestTaken ==
  ASSUME NEW q \in Seq(AnyMessage), q # <<>>
  PROVE  /\ Cardinality(Requests(Tail(q))) <= Cardinality(Requests(q))
         /\ Head(q).op = "request" =>
              Cardinality(Requests(Tail(q))) + 1 <= Cardinality(Requests(q))
<1> DEFINE t == Tail(q)
           R == Requests(q) \ {1}
           f == [i \in Requests(t) |-> i + 1]
<1>1. /\ Head(q) = q[1] /\ Len(q) \in Nat /\ Len(q) > 0 /\ Len(t) = Len(q) - 1
      /\ \A i \in 1..Len(t) : i + 1 \in 1..Len(q) /\ t[i] = q[i + 1]
      /\ t \in Seq(AnyMessage)
  BY TakenFacts
<1> HIDE DEF t
<1>2. f \in Injection(Requests(t), R)
  <2>1. \A i \in Requests(t) : i + 1 \in R BY <1>1 DEF Requests
  <2>2. f \in [Requests(t) -> R] BY <2>1
  <2>3. \A i, j \in Requests(t) : i + 1 = j + 1 => i = j BY <1>1 DEF Requests
  <2>4. IsInjective(f) BY <2>3 DEF IsInjective
  <2> QED BY <2>2, <2>4 DEF Injection
<1>3. IsFiniteSet(Requests(q)) /\ Cardinality(Requests(q)) \in Nat BY RequestCount
<1>4. /\ IsFiniteSet(R)
      /\ Cardinality(R) = IF 1 \in Requests(q) THEN Cardinality(Requests(q)) - 1
                                               ELSE Cardinality(Requests(q))
  BY <1>3, FS_RemoveElement
<1> HIDE DEF R, f
<1>5. Cardinality(Requests(t)) <= Cardinality(R) BY <1>2, <1>4, FS_Injection
<1>6. Cardinality(Requests(t)) \in Nat BY <1>1, RequestCount
<1>7. Head(q).op = "request" => 1 \in Requests(q) BY <1>1 DEF Requests
<1> QED BY <1>3, <1>4, <1>5, <1>6, <1>7 DEF t

LEMMA AskingCount == ASSUME Types PROVE IsFiniteSet(Asking) /\ Cardinality(Asking) \in Nat
<1>1. Len(log) \in Nat /\ Len(done) \in Nat BY TakenType
<1>2. IsFiniteSet(1..Len(log)) BY <1>1, FS_Interval
<1>3. Asking \in SUBSET (1..Len(log)) BY <1>1 DEF Asking, Pending
<1>4. IsFiniteSet(Asking) BY <1>2, <1>3, FS_Subset
<1> QED BY <1>4, FS_CardinalityType

LEMMA LogFits ==
  ASSUME Types, Fits, changes <= MaxGuild
  PROVE  Len(log) \in Nat /\ Len(log) <= MaxLog
<1>1. /\ Len(log) \in Nat /\ Cardinality(Asking) \in Nat /\ Cardinality(Requests(out)) \in Nat
      /\ changes \in Nat /\ MaxGuild \in Nat
  BY TakenType, AskingCount, RequestCount, GatewayAssumption DEF Types
<1> QED BY <1>1 DEF Fits, MaxLog

LEMMA SeqOf ==
  ASSUME NEW S, NEW T, NEW q \in Seq(S), \A i \in 1..Len(q) : q[i] \in T
  PROVE  q \in Seq(T)
<1>1. Len(q) \in Nat /\ DOMAIN q = 1..Len(q) BY LenProperties
<1>2. q = [i \in 1..Len(q) |-> q[i]] BY <1>1, LenProperties
<1>3. q \in [1..Len(q) -> T] BY <1>2
<1> QED BY <1>1, <1>3, SeqDef

-----------------------------------------------------------------------------
(* What is on the wire, and in what order. *)

LEMMA WordFacts ==
  /\ \A op \in ToClient \ {"dispatch"} : Plain(op) \in FromDiscord
  /\ \A n \in Nat : Dispatch(n) \in FromDiscord
  /\ Plain("beat") \in FromClient /\ Plain("identify") \in FromClient
  /\ \A n, s \in Nat : Msg("resume", n, s, {}) \in FromClient
  /\ \A us \in SUBSET Users : Msg("request", 0, 0, us) \in FromClient
  BY DEF FromDiscord, FromClient

LEMMA WordParts ==
  /\ \A m \in FromDiscord : /\ m.op \in ToClient /\ m.n \in Nat /\ m.sid = 0 /\ m.users = {}
                            /\ m.op # "dispatch" => m.n = 0
                            /\ m = Msg(m.op, m.n, m.sid, m.users)
  /\ \A m \in FromClient : /\ m.op \in ToDiscord /\ m.n \in Nat /\ m.sid \in Nat
                           /\ m.users \in SUBSET Users
                           /\ m.op # "resume" => m.n = 0 /\ m.sid = 0
                           /\ m = Msg(m.op, m.n, m.sid, m.users)
<1>1. ASSUME NEW m \in FromDiscord
      PROVE  /\ m.op \in ToClient /\ m.n \in Nat /\ m.sid = 0 /\ m.users = {}
             /\ m.op # "dispatch" => m.n = 0
             /\ m = Msg(m.op, m.n, m.sid, m.users)
  <2>1. CASE \E op \in ToClient \ {"dispatch"} : m = Plain(op) BY <2>1 DEF Plain, Msg
  <2>2. CASE \E n \in Nat : m = Dispatch(n) BY <2>2 DEF Dispatch, Msg, ToClient
  <2> QED BY <2>1, <2>2 DEF FromDiscord
<1>2. ASSUME NEW m \in FromClient
      PROVE  /\ m.op \in ToDiscord /\ m.n \in Nat /\ m.sid \in Nat
             /\ m.users \in SUBSET Users
             /\ m.op # "resume" => m.n = 0 /\ m.sid = 0
             /\ m = Msg(m.op, m.n, m.sid, m.users)
  BY DEF FromClient, Plain, Msg, ToDiscord
<1> QED BY <1>1, <1>2

\* What Discord appends to the log: only an event that is not READY, and only
\* to a session it keeps.
Appends(e) == e.kind # "ready" /\ Emit(e)

LEMMA EventKinds ==
  ASSUME Types, Requested \/ \E u \in Users : GuildChange(u)
  PROVE  /\ \E e \in AnyEvent : Appends(e)
         /\ UNCHANGED <<phase, got, sid, url, seq, hasSeq, hb, ack, ackCh, timer, link, session,
                        valid, attached, done, losses>>
<1> USE DEF reader, sessionVars, heart, net, service, counters, ghosts
<1>1. CASE Requested
  <2>1. Event("chunk", Head(out).users \cap members) \in AnyEvent
    BY <1>1, ReceivedFacts DEF Requested, Event, AnyEvent
  <2>2. Event("chunk", Head(out).users \cap members).kind # "ready" BY DEF Event
  <2>3. Emit(Event("chunk", Head(out).users \cap members)) BY <1>1 DEF Requested
  <2>4. UNCHANGED <<reader, sessionVars, monitored, heart, link, session, valid, attached, members,
                    hostDead, counters, ghosts>>
    BY <1>1 DEF Requested
  <2> QED BY <2>1, <2>2, <2>3, <2>4 DEF Appends
<1>2. ASSUME NEW u \in Users, GuildChange(u)
      PROVE  /\ \E e \in AnyEvent : Appends(e)
             /\ UNCHANGED <<phase, got, sid, url, seq, hasSeq, hb, ack, ackCh, timer, link, session,
                            valid, attached, done, losses>>
  <2>1. \A k \in {"add", "remove", "other"} :
          Event(k, {u}) \in AnyEvent /\ Event(k, {u}).kind # "ready"
    BY DEF Event, AnyEvent
  <2>2. \E k \in {"add", "remove", "other"} : Emit(Event(k, {u})) BY <1>2 DEF GuildChange
  <2>3. UNCHANGED <<reader, sessionVars, monitored, heart, link, out, session, valid, attached,
                    hostDead, losses, ghosts>>
    BY <1>2 DEF GuildChange
  <2> QED BY <2>1, <2>2, <2>3 DEF Appends
<1> QED BY <1>1, <1>2

LEMMA ShapesStep == ASSUME Inv, Inv', Shapes, Fits, Next PROVE Shapes'
<1> USE DEF reader, sessionVars, heart, net, service, counters, ghosts
<1>0. /\ Types /\ Lines /\ Order /\ wire \in Seq(FromDiscord) /\ out \in Seq(FromClient)
      /\ got \in FromDiscord \cup {Plain("none")}
  BY DEF Inv, Shapes
<1>1. got' \in FromDiscord \cup {Plain("none")}
  <2>1. CASE Read
    <3>1. wire # <<>> /\ got' = Head(wire) BY <2>1 DEF Read
    <3> QED BY <1>0, <3>1, TakenFacts
  <2>2. CASE ReadError \/ OnReconnect \/ OnInvalid \/ OnHello \/ OnAck \/ OnDispatch
    BY <2>2 DEF ReadError, OnReconnect, OnInvalid, Hangup, OnHello, OnAck, Handled, OnDispatch,
                OnReady, OnGuildCreate, OnChunk, OnMemberAdd, OnMemberRemove, OnOther, Handles
  <2>3. CASE Dial \/ DialFails \/ TakeAck \/ Beat \/ Stale \/ Tick \/ Acknowledge \/ Identified
             \/ Resumed \/ Cut \/ AskReconnect \/ Invalidate \/ HostDies
    BY <1>0, <2>3 DEF Dial, DialFails, vars, TakeAck, Beat, Stale, Tick, Acknowledge, Identified,
                      Resumed, Cut, AskReconnect, Invalidate, HostDies
  <2>4. CASE Requested \/ \E u \in Users : GuildChange(u) BY <1>0, <2>4, EventKinds
  <2> QED BY <2>1, <2>2, <2>3, <2>4 DEF Next, Reader, Service
<1>2. wire' \in Seq(FromDiscord)
  <2>a. /\ Plain("hello") \in FromDiscord /\ Plain("ack") \in FromDiscord
        /\ Plain("reconnect") \in FromDiscord /\ Plain("invalid") \in FromDiscord
    BY WordFacts DEF ToClient
  <2>b. \A m \in FromDiscord : Append(wire, m) \in Seq(FromDiscord) BY <1>0, SentFacts
  <2>1. CASE Dial
    <3>1. <<Plain("hello")>> \in Seq(FromDiscord) BY <2>a
    <3> QED BY <2>1, <3>1 DEF Dial
  <2>2. CASE Read
    <3>1. wire # <<>> /\ wire' = Tail(wire) BY <2>2 DEF Read
    <3> QED BY <1>0, <3>1, TakenFacts
  <2>3. CASE ReadError \/ OnReconnect \/ OnInvalid
    <3>1. wire' = <<>> BY <2>3 DEF ReadError, OnReconnect, OnInvalid, Hangup
    <3> QED BY <3>1, EmptySeq
  <2>4. CASE DialFails \/ OnHello \/ OnAck \/ OnDispatch \/ TakeAck \/ Beat \/ Stale \/ Tick \/ Cut
             \/ HostDies
    BY <1>0, <2>4 DEF DialFails, vars, OnHello, OnAck, OnDispatch, OnReady, OnGuildCreate, OnChunk,
                      OnMemberAdd, OnMemberRemove, OnOther, TakeAck, Beat, Stale, Tick, Cut, HostDies
  <2>5. CASE Acknowledge \/ AskReconnect \/ Invalidate
    BY <1>0, <2>5, <2>a, <2>b DEF Acknowledge, AskReconnect, Invalidate
  <2>6. CASE Identified
    <3>1. Dispatch(1) \in FromDiscord /\ Dispatch(2) \in FromDiscord BY WordFacts
    <3>2. <<Dispatch(1), Dispatch(2)>> \in Seq(FromDiscord) BY <3>1
    <3>3. wire' = wire \o <<Dispatch(1), Dispatch(2)>> BY <2>6 DEF Identified
    <3> QED BY <1>0, <3>2, <3>3, ConcatFacts
  <2>7. CASE Resumed
    <3>1. CASE valid /\ Head(out).sid = session
      <4> DEFINE first == Head(out).n
                 r == Replay(first, Len(log))
      <4>1. first \in Nat /\ Len(log) \in Nat BY <1>0, <2>7, ReceivedFacts, TakenType DEF Resumed
      <4>2. wire' = wire \o r BY <2>7, <3>1 DEF Resumed, Replay
      <4>3. r \in Seq(AnyMessage) BY <4>1, ReplayFacts
      <4>4. Len(r) \in Nat /\ DOMAIN r = 1..Len(r) BY <4>3, LenProperties
      <4> HIDE DEF first
      <4>5. \A i \in 1..Len(r) : r[i] = Dispatch(first + i) /\ first + i \in Nat
        <5>1. \A i \in DOMAIN r : r[i] = Dispatch(first + i) BY DEF Replay
        <5> QED BY <4>1, <4>4, <5>1
      <4>6. \A i \in 1..Len(r) : r[i] \in FromDiscord BY <4>5, WordFacts
      <4> HIDE DEF r
      <4>8. r \in Seq(FromDiscord)
        <5>1. r = [i \in 1..Len(r) |-> r[i]] BY <4>3, <4>4, LenProperties
        <5>2. r \in [1..Len(r) -> FromDiscord] BY <4>6, <5>1
        <5> QED BY <4>4, <5>2, SeqDef
      <4> QED BY <1>0, <4>2, <4>8, ConcatFacts
    <3>2. CASE ~(valid /\ Head(out).sid = session)
      BY <2>7, <2>a, <2>b, <3>2 DEF Resumed
    <3> QED BY <3>1, <3>2
  <2>8. CASE Requested \/ \E u \in Users : GuildChange(u)
    <3>1. PICK e \in AnyEvent : Emit(e) BY <1>0, <2>8, EventKinds DEF Appends
    <3>2. wire' = wire \/ wire' = Append(wire, Dispatch(Len(log) + 1)) BY <1>0, <3>1, EmitFacts
    <3>3. Dispatch(Len(log) + 1) \in FromDiscord BY <1>0, TakenType, WordFacts
    <3> QED BY <1>0, <2>b, <3>2, <3>3
  <2> QED BY <2>1, <2>2, <2>3, <2>4, <2>5, <2>6, <2>7, <2>8 DEF Next, Reader, Service
<1>3. out' \in Seq(FromClient)
  <2>1. ASSUME NEW m \in FromClient, Send(m) PROVE out' \in Seq(FromClient)
    <3>1. Append(out, m) \in Seq(FromClient) BY <1>0, SentFacts
    <3>2. out' = Append(out, m) \/ out' = out BY <2>1 DEF Send
    <3> QED BY <1>0, <3>1, <3>2
  <2>2. CASE OnHello
    <3>1. Greeting \in FromClient
      <4>1. (IF hasSeq THEN seq ELSE 0) \in Nat /\ sid \in Nat BY <1>0 DEF Types
      <4> QED BY <4>1, WordFacts DEF Greeting
    <3> QED BY <1>0, <2>1, <2>2, <3>1, GreetingFacts
  <2>3. CASE Beat BY <2>1, <2>3, WordFacts DEF Beat
  <2>4. CASE OnGuildCreate
    <3>1. Msg("request", 0, 0, Users) \in FromClient BY WordFacts
    <3> QED BY <2>1, <2>4, <3>1 DEF OnGuildCreate
  <2>5. CASE OnMemberAdd
    <3>1. EventUsers \in SUBSET Users BY <1>0, <2>5, EventFacts DEF OnMemberAdd, Handles
    <3>2. Msg("request", 0, 0, EventUsers) \in FromClient BY <3>1, WordFacts
    <3> QED BY <2>1, <2>5, <3>2 DEF OnMemberAdd
  <2>6. CASE ReadError \/ OnReconnect \/ OnInvalid
    <3>1. out' = <<>> BY <2>6 DEF ReadError, OnReconnect, OnInvalid, Hangup
    <3> QED BY <3>1, EmptySeq
  <2>7. CASE Service
    <3>1. out # <<>> /\ out' = Tail(out)
      BY <2>7 DEF Service, Acknowledge, Identified, Resumed, Requested, Receives
    <3> QED BY <1>0, <3>1, TakenFacts
  <2>8. CASE Dial \/ DialFails \/ Read \/ OnAck \/ OnReady \/ OnChunk \/ OnMemberRemove \/ OnOther
             \/ TakeAck \/ Stale \/ Tick \/ Cut \/ AskReconnect \/ Invalidate \/ HostDies
             \/ \E u \in Users : GuildChange(u)
    BY <1>0, <2>8 DEF Dial, DialFails, vars, Read, OnAck, OnReady, OnChunk, OnMemberRemove, OnOther,
                      TakeAck, Stale, Tick, Cut, AskReconnect, Invalidate, HostDies, GuildChange
  <2> QED BY <2>2, <2>3, <2>4, <2>5, <2>6, <2>7, <2>8 DEF Next, Reader, OnDispatch
<1>4. losses' <= MaxLosses /\ changes' <= MaxGuild
  <2>1. losses \in Nat /\ changes \in Nat /\ losses <= MaxLosses /\ changes <= MaxGuild
    BY <1>0 DEF Types, Shapes
  <2>2. MaxLosses \in Nat /\ MaxGuild \in Nat BY GatewayAssumption
  <2>3. \/ losses' = losses \/ (losses < MaxLosses /\ losses' = losses + 1)
    BY DEF Next, Dial, DialFails, vars, Reader, Read, OnHello, OnAck, OnReconnect, OnInvalid, OnDispatch,
           OnReady, OnGuildCreate, OnChunk, OnMemberAdd, OnMemberRemove, OnOther, ReadError, TakeAck,
           Beat, Stale, Tick, Service, Acknowledge, Identified, Resumed, Requested, Cut, AskReconnect,
           Invalidate, HostDies, GuildChange
  <2>4. \/ changes' = changes \/ (changes < MaxGuild /\ changes' = changes + 1)
    BY DEF Next, Dial, DialFails, vars, Reader, Read, OnHello, OnAck, OnReconnect, OnInvalid, OnDispatch,
           OnReady, OnGuildCreate, OnChunk, OnMemberAdd, OnMemberRemove, OnOther, ReadError, TakeAck,
           Beat, Stale, Tick, Service, Acknowledge, Identified, Resumed, Requested, Cut, AskReconnect,
           Invalidate, HostDies, GuildChange
  <2> QED BY <2>1, <2>2, <2>3, <2>4
<1>5. Len(log) \in Nat /\ Len(log) <= MaxLog BY <1>0, LogFits DEF Shapes
<1>6. seq' <= MaxLog
  <2>1. CASE Read /\ got'.op = "dispatch"
    <3>1. seq' = Taken' /\ Taken' <= Len(log) /\ Taken' \in Nat
      <4>1. seq' = got'.n /\ log' = log BY <2>1 DEF Read
      <4>2. got'.n = Taken' /\ Taken' <= Len(log') BY <2>1 DEF Inv, Order, Numbers, Stretch
      <4>3. seq' \in Nat BY DEF Inv, Types
      <4> QED BY <4>1, <4>2, <4>3
    <3>2. MaxLog \in Nat BY GatewayAssumption DEF MaxLog
    <3> QED BY <1>5, <3>1, <3>2
  <2>2. CASE seq' = seq BY <2>2 DEF Shapes
  <2>3. seq' = seq \/ (Read /\ got'.op = "dispatch")
    BY <1>0, EventKinds
       DEF Next, Dial, DialFails, vars, Reader, Read, OnHello, OnAck, OnReconnect, OnInvalid, OnDispatch,
           OnReady, OnGuildCreate, OnChunk, OnMemberAdd, OnMemberRemove, OnOther, ReadError, TakeAck,
           Beat, Stale, Tick, Service, Acknowledge, Identified, Resumed, Cut, AskReconnect,
           Invalidate, HostDies
  <2> QED BY <2>1, <2>2, <2>3
<1>7. done' \in Seq(1..MaxLog)
  <2>1. CASE OnDispatch
    <3>1. Handling("dispatch") /\ done' = Append(done, got.n)
      BY <2>1 DEF OnDispatch, OnReady, OnGuildCreate, OnChunk, OnMemberAdd, OnMemberRemove, OnOther,
                  Handles
    <3>2. got.n \in 1..Len(log) /\ got.n \in Nat BY <1>0, <3>1, EventFacts
    <3>3. MaxLog \in Nat BY GatewayAssumption DEF MaxLog
    <3>4. got.n \in 1..MaxLog BY <1>5, <3>2, <3>3
    <3> QED BY <3>1, <3>4, SentFacts DEF Shapes
  <2>2. CASE Identified BY <2>2, EmptySeq DEF Identified
  <2>3. CASE ~OnDispatch /\ ~Identified
    <3>1. done' = done
      BY <1>0, <2>3, EventKinds
         DEF Next, Dial, DialFails, vars, Reader, Read, OnHello, OnAck, OnReconnect, OnInvalid,
             ReadError, TakeAck, Beat, Stale, Tick, Service, Acknowledge, Resumed, Cut,
             AskReconnect, Invalidate, HostDies
    <3> QED BY <3>1 DEF Shapes
  <2> QED BY <2>1, <2>2, <2>3
<1> QED BY <1>1, <1>2, <1>3, <1>4, <1>6, <1>7 DEF Shapes

\* The handshake, while Discord has not received it.
Pledged(q) == \E i \in 1..Len(q) : q[i].op \in {"identify", "resume"}

LEMMA OpeningStep ==
  ASSUME Inv, Opening, Next PROVE Opening'
<1> USE DEF reader, sessionVars, heart, net, service, counters, ghosts
<1>0. /\ Types /\ Lines /\ Order /\ Handshake /\ wire \in Seq(AnyMessage) /\ out \in Seq(AnyMessage)
      /\ Len(out) \in Nat
  BY SeqFacts DEF Inv, Order, Types
<1>a. Pledged(out) => /\ None(wire, "invalid") /\ None(wire, "reconnect") /\ None(out, "request")
                      /\ got.op \notin {"invalid", "reconnect"} /\ ~attached
                      /\ got.op # "dispatch"
  BY <1>0 DEF Pledged, Opening, Handshake
<1>b. ASSUME Pledged(out') =>
               /\ None(wire', "invalid") /\ None(wire', "reconnect") /\ None(out', "request")
               /\ got'.op \notin {"invalid", "reconnect"}
      PROVE  Opening'
  BY <1>b DEF Opening, Pledged
<1>1. CASE ReadError \/ OnReconnect \/ OnInvalid
  <2>1. out' = <<>> BY <1>1 DEF ReadError, OnReconnect, OnInvalid, Hangup
  <2>2. 1..Len(<<>>) = {} BY EmptySeq
  <2> QED BY <1>b, <2>1, <2>2 DEF Pledged
<1>2. CASE Service
  <2>1. out # <<>> /\ out' = Tail(out)
    BY <1>2 DEF Service, Acknowledge, Identified, Resumed, Requested, Receives
  <2>2. CASE Head(out).op \in {"identify", "resume"}
    <3>1. Handshake' /\ Len(out') \in Nat /\ Len(out') = Len(out) - 1
          /\ \A i \in 1..Len(out') : i + 1 \in 1..Len(out) /\ out'[i] = out[i + 1]
      BY <1>0, <2>1, HandshakeGone, TakenFacts
    <3>2. \A i \in 1..Len(out') : i + 1 # 1 BY <3>1
    <3>3. ~Pledged(out') BY <1>0, <3>1, <3>2 DEF Pledged, Handshake
    <3> QED BY <1>b, <3>3
  <2>3. CASE Head(out).op \notin {"identify", "resume"}
    <3>1. /\ Len(out') \in Nat /\ Len(out') = Len(out) - 1 /\ Head(out) = out[1]
          /\ \A i \in 1..Len(out') : i + 1 \in 1..Len(out) /\ out'[i] = out[i + 1]
      BY <1>0, <2>1, TakenFacts
    <3>2. \A i \in 1..Len(out') : i + 1 # 1 BY <3>1
    <3>3. ~Pledged(out') BY <1>0, <3>1, <3>2 DEF Pledged, Handshake
    <3> QED BY <1>b, <3>3
  <2> QED BY <2>2, <2>3
<1>3. CASE OnHello
  <2>1. wire = <<>> /\ out = <<>> /\ got'.op = "none" /\ wire' = wire
    BY <1>0, <1>3, MessageParts DEF OnHello, Handling, Handled, Lines
  <2>2. None(<<>>, "invalid") /\ None(<<>>, "reconnect") /\ None(<<>>, "request") BY EmptyFacts
  <2>3. out' = out \/ out' = Append(out, Greeting) BY <1>0, <1>3, GreetingFacts, SendFacts
  <2>4. Greeting \in AnyMessage /\ Greeting.op # "request" BY <1>0, GreetingFacts
  <2>5. None(out', "request")
    <3>1. None(out, "request") BY <2>1, <2>2
    <3>2. None(Append(out, Greeting), "request") BY <1>0, <2>4, <3>1, SentKinds
    <3> QED BY <2>3, <3>1, <3>2
  <2> QED BY <1>b, <2>1, <2>2, <2>5
<1>4. CASE Beat
  <2>1. /\ Plain("beat") \in AnyMessage /\ Plain("beat").op = "beat"
        /\ out' = out \/ out' = Append(out, Plain("beat"))
    BY <1>0, <1>4, MessageTypes, MessageParts, SendFacts DEF Beat
  <2>2. wire' = wire /\ got' = got BY <1>4 DEF Beat
  <2>3. Pledged(out') => Pledged(out)
    <3>1. CASE out' = out BY <3>1
    <3>2. CASE out' = Append(out, Plain("beat"))
      <4>1. /\ out'[Len(out) + 1] = Plain("beat") /\ \A i \in 1..Len(out) : out'[i] = out[i]
            /\ 1..Len(out') = 1..Len(out) \cup {Len(out) + 1}
        BY <1>0, <2>1, <3>2, SentFacts
      <4> QED BY <2>1, <4>1 DEF Pledged
    <3> QED BY <2>1, <3>1, <3>2
  <2>4. None(out, "request") => None(out', "request")
    <3>1. Plain("beat").op # "request" BY <2>1
    <3>2. None(out, "request") => None(Append(out, Plain("beat")), "request")
      BY <1>0, <2>1, <3>1, SentKinds
    <3> QED BY <2>1, <3>2
  <2> QED BY <1>a, <1>b, <2>2, <2>3, <2>4
<1>5. CASE OnDispatch
  <2>1. got.op = "dispatch" /\ wire' = wire /\ got'.op = "none"
    BY <1>5, MessageParts DEF OnDispatch, OnReady, OnGuildCreate, OnChunk, OnMemberAdd,
       OnMemberRemove, OnOther, Handles, Handled, Handling
  <2>2. \E m \in AnyMessage : m.op = "request" /\ (out' = out \/ out' = Append(out, m))
    <3>1. EventUsers \in SUBSET Users
      BY <1>0, <1>5, EventFacts DEF OnDispatch, OnReady, OnGuildCreate, OnChunk, OnMemberAdd,
         OnMemberRemove, OnOther, Handles
    <3>2. \A us \in SUBSET Users : /\ Msg("request", 0, 0, us) \in AnyMessage
                                   /\ Msg("request", 0, 0, us).op = "request"
      BY MessageTypes, MessageParts
    <3>3. CASE OnGuildCreate BY <1>0, <3>2, <3>3, SendFacts DEF OnGuildCreate
    <3>4. CASE OnMemberAdd BY <1>0, <3>1, <3>2, <3>4, SendFacts DEF OnMemberAdd
    <3>5. CASE OnReady \/ OnChunk \/ OnMemberRemove \/ OnOther
      BY <3>2, <3>5 DEF OnReady, OnChunk, OnMemberRemove, OnOther
    <3> QED BY <1>5, <3>3, <3>4, <3>5 DEF OnDispatch
  <2>3. ~Pledged(out) BY <1>a, <2>1
  <2>4. ~Pledged(out')
    <3>1. PICK m \in AnyMessage : m.op = "request" /\ (out' = out \/ out' = Append(out, m)) BY <2>2
    <3>2. CASE out' = out BY <2>3, <3>2
    <3>3. CASE out' = Append(out, m)
      <4>1. /\ out'[Len(out) + 1] = m /\ \A i \in 1..Len(out) : out'[i] = out[i]
            /\ 1..Len(out') = 1..Len(out) \cup {Len(out) + 1}
        BY <1>0, <3>3, SentFacts
      <4> QED BY <2>3, <3>1, <4>1 DEF Pledged
    <3> QED BY <3>1, <3>2, <3>3
  <2> QED BY <1>b, <2>4
<1>6. CASE Read
  <2>1. wire # <<>> /\ got' = Head(wire) /\ wire' = Tail(wire) /\ out' = out BY <1>6 DEF Read
  <2>2. /\ None(wire, "invalid") => None(wire', "invalid") /\ got'.op # "invalid"
        /\ None(wire, "reconnect") => None(wire', "reconnect") /\ got'.op # "reconnect"
    BY <1>0, <2>1, TakenKinds
  <2> QED BY <1>a, <1>b, <2>1, <2>2
<1>7. CASE OnAck \/ DialFails \/ TakeAck \/ Stale \/ Tick \/ Cut \/ HostDies
  <2>1. wire' = wire /\ out' = out /\ (got' = got \/ got' = Plain("none"))
    BY <1>7 DEF OnAck, Handled, DialFails, vars, TakeAck, Stale, Tick, Cut, HostDies
  <2>2. Plain("none").op = "none" BY MessageParts
  <2> QED BY <1>a, <1>b, <2>1, <2>2
<1>8. CASE Dial
  <2>1. out' = <<>> BY <1>0, <1>8 DEF Dial, Lines
  <2>2. 1..Len(<<>>) = {} BY EmptySeq
  <2> QED BY <1>b, <2>1, <2>2 DEF Pledged
<1>9. CASE AskReconnect \/ Invalidate
  <2>1. out' = out /\ got' = got /\ (wire' = wire \/ attached)
    BY <1>9 DEF AskReconnect, Invalidate
  <2> QED BY <1>a, <1>b, <2>1
<1>10. ASSUME NEW u \in Users, GuildChange(u) PROVE Opening'
  <2>1. PICK e \in AnyEvent : Emit(e) BY <1>0, <1>10, EventKinds DEF Appends
  <2>2. wire' = wire \/ attached BY <1>0, <2>1, EmitFacts
  <2>3. out' = out /\ got' = got BY <1>10 DEF GuildChange
  <2> QED BY <1>a, <1>b, <2>2, <2>3
<1> QED BY <1>1, <1>2, <1>3, <1>4, <1>5, <1>6, <1>7, <1>8, <1>9, <1>10 DEF Next, Reader, Service

LEMMA RefusedStep ==
  ASSUME Inv, Opening, Refused, Next PROVE Refused'
<1> USE DEF reader, sessionVars, heart, net, service, counters, ghosts
<1>0. /\ Types /\ Lines /\ Order /\ Handshake /\ wire \in Seq(AnyMessage) /\ out \in Seq(AnyMessage)
  BY DEF Inv, Order, Types
<1>a. ASSUME NEW m \in AnyMessage, m.op # "invalid", wire' = Append(wire, m), UNCHANGED <<got, valid>>
      PROVE  Refused'
  BY <1>0, <1>a, SentKinds DEF Refused
<1>b. ASSUME wire' = wire, got' = got \/ got' = Plain("none"), UNCHANGED valid PROVE Refused'
  <2>1. Plain("none").op = "none" BY MessageParts
  <2> QED BY <1>b, <2>1 DEF Refused
<1>1. CASE ReadError \/ OnReconnect \/ OnInvalid
  <2>1. wire' = <<>> /\ got' = Plain("none") BY <1>1 DEF ReadError, OnReconnect, OnInvalid, Hangup
  <2> QED BY <2>1, EmptyFacts, MessageParts DEF Refused
<1>2. CASE Dial
  <2>1. wire' = <<Plain("hello")>> /\ got' = Plain("none") BY <1>0, <1>2 DEF Dial, Lines
  <2>2. None(wire', "invalid") BY <2>1, MessageParts DEF None
  <2> QED BY <2>1, <2>2, MessageParts DEF Refused
<1>3. CASE Read
  <2>1. wire # <<>> /\ got' = Head(wire) /\ wire' = Tail(wire) /\ valid' = valid BY <1>3 DEF Read
  <2>2. None(wire, "invalid") => None(wire', "invalid") /\ got'.op # "invalid"
    BY <1>0, <2>1, TakenKinds
  <2> QED BY <2>1, <2>2 DEF Refused
<1>4. CASE DialFails \/ OnHello \/ OnAck \/ OnDispatch \/ TakeAck \/ Beat \/ Stale \/ Tick \/ Cut
           \/ HostDies
  BY <1>4, <1>b DEF DialFails, vars, OnHello, OnAck, Handled, OnDispatch, OnReady, OnGuildCreate,
     OnChunk, OnMemberAdd, OnMemberRemove, OnOther, Handles, TakeAck, Beat, Stale, Tick, Cut, HostDies
<1>5. CASE Acknowledge \/ AskReconnect
  <2>1. /\ Plain("ack") \in AnyMessage /\ Plain("ack").op # "invalid"
        /\ Plain("reconnect") \in AnyMessage /\ Plain("reconnect").op # "invalid"
    BY MessageTypes, MessageParts
  <2> QED BY <1>5, <1>a, <2>1 DEF Acknowledge, AskReconnect
<1>6. CASE Identified
  <2>1. 1 \in 1..Len(out) /\ out[1].op = "identify" BY <1>0, <1>6, ReceivedFacts DEF Identified
  <2>2. None(wire, "invalid") /\ got.op # "invalid" BY <2>1 DEF Opening
  <2>3. None(<<Dispatch(1), Dispatch(2)>>, "invalid") BY StartFacts DEF None
  <2>4. wire' = wire \o <<Dispatch(1), Dispatch(2)>> /\ got' = got BY <1>6 DEF Identified
  <2>5. None(wire', "invalid") BY <1>0, <2>2, <2>3, <2>4, StartFacts, MoreKinds
  <2> QED BY <2>2, <2>4, <2>5 DEF Refused
<1>7. CASE Resumed
  <2>1. CASE valid /\ Head(out).sid = session
    <3> DEFINE r == Replay(Head(out).n, Len(log))
    <3>1. Head(out).n \in Nat /\ Len(log) \in Nat BY <1>0, <1>7, ReceivedFacts, TakenType DEF Resumed
    <3>2. r \in Seq(AnyMessage) /\ \A i \in 1..Len(r) : r[i].op = "dispatch" BY <3>1, ReplayFacts
    <3>3. wire' = wire \o r /\ got' = got /\ valid' = valid BY <1>7, <2>1 DEF Resumed, Replay
    <3> HIDE DEF r
    <3>4. None(r, "invalid") BY <3>2 DEF None
    <3>5. None(wire, "invalid") => None(wire', "invalid") BY <1>0, <3>2, <3>3, <3>4, MoreKinds
    <3> QED BY <3>3, <3>5 DEF Refused
  <2>2. CASE ~valid BY <1>7, <2>2 DEF Resumed, Refused
  <2>3. CASE valid /\ Head(out).sid # session
    <3>1. 1 \in 1..Len(out) /\ Head(out) = out[1] /\ out[1].op = "resume"
      BY <1>0, <1>7, ReceivedFacts DEF Resumed
    <3>2. sid # 0 /\ Head(out).sid = sid BY <1>0, <3>1 DEF Handshake
    <3> QED BY <1>0, <2>3, <3>2 DEF Order, Resumable
  <2> QED BY <2>1, <2>2, <2>3
<1>8. CASE Invalidate BY <1>8 DEF Invalidate, Refused
<1>9. CASE Requested \/ \E u \in Users : GuildChange(u)
  <2>1. PICK e \in AnyEvent : Emit(e) BY <1>0, <1>9, EventKinds DEF Appends
  <2>2. got' = got /\ valid' = valid BY <1>0, <1>9, EventKinds
  <2>3. /\ wire' = wire \/ wire' = Append(wire, Dispatch(Len(log) + 1))
        /\ Dispatch(Len(log) + 1) \in AnyMessage /\ Dispatch(Len(log) + 1).op # "invalid"
    BY <1>0, <2>1, EmitFacts, MessageParts
  <2> QED BY <1>a, <1>b, <2>2, <2>3
<1> QED BY <1>1, <1>2, <1>3, <1>4, <1>5, <1>6, <1>7, <1>8, <1>9 DEF Next, Reader, Service

\* READY comes first: what is put on the wire of a client that has no session
\* comes after an event, or is no request to reconnect.
Prompt(q) ==
  \A i \in 1..Len(q) : q[i].op = "reconnect" => \E j \in 1..(i - 1) : q[j].op = "dispatch"

LEMMA PromptSent ==
  ASSUME NEW q \in Seq(AnyMessage), NEW m \in AnyMessage, Prompt(q),
         m.op = "reconnect" => ~None(q, "dispatch")
  PROVE  Prompt(Append(q, m))
<1> DEFINE a == Append(q, m)
<1>1. /\ Len(q) \in Nat /\ Len(a) = Len(q) + 1 /\ a[Len(q) + 1] = m
      /\ \A i \in 1..Len(q) : a[i] = q[i]
      /\ 1..Len(a) = 1..Len(q) \cup {Len(q) + 1}
  BY SentFacts, SeqFacts
<1> HIDE DEF a
<1>2. ASSUME NEW i \in 1..Len(q), a[i].op = "reconnect"
      PROVE  \E j \in 1..(i - 1) : a[j].op = "dispatch"
  <2>1. PICK j \in 1..(i - 1) : q[j].op = "dispatch" BY <1>1, <1>2 DEF Prompt
  <2>2. j \in 1..Len(q) BY <1>1
  <2> QED BY <1>1, <2>1, <2>2
<1>3. ASSUME m.op = "reconnect" PROVE \E j \in 1..((Len(q) + 1) - 1) : a[j].op = "dispatch"
  <2>1. PICK j \in 1..Len(q) : q[j].op = "dispatch" BY <1>3 DEF None
  <2>2. j \in 1..((Len(q) + 1) - 1) BY <1>1
  <2> QED BY <1>1, <2>1, <2>2
<1>4. \A i \in 1..Len(a) : i \in 1..Len(q) \/ i = Len(q) + 1 BY <1>1
<1> QED BY <1>1, <1>2, <1>3, <1>4 DEF Prompt, a

LEMMA PromptTaken ==
  ASSUME NEW q \in Seq(AnyMessage), q # <<>>, Prompt(q)
  PROVE  Head(q).op # "reconnect" /\ (Head(q).op # "dispatch" => Prompt(Tail(q)))
<1> DEFINE t == Tail(q)
<1>1. /\ Head(q) = q[1] /\ Len(q) \in Nat /\ Len(q) > 0 /\ Len(t) = Len(q) - 1
      /\ \A i \in 1..Len(t) : i + 1 \in 1..Len(q) /\ t[i] = q[i + 1]
  BY TakenFacts
<1> HIDE DEF t
<1>2. 1 \in 1..Len(q) /\ 1..(1 - 1) = {} BY <1>1
<1>3. Head(q).op # "reconnect" BY <1>1, <1>2 DEF Prompt
<1>4. ASSUME Head(q).op # "dispatch", NEW i \in 1..Len(t), t[i].op = "reconnect"
      PROVE  \E j \in 1..(i - 1) : t[j].op = "dispatch"
  <2>1. i + 1 \in 1..Len(q) /\ t[i] = q[i + 1] BY <1>1
  <2>2. PICK j \in 1..((i + 1) - 1) : q[j].op = "dispatch" BY <1>4, <2>1 DEF Prompt
  <2>3. j # 1 BY <1>1, <1>4, <2>2
  <2>4. j - 1 \in 1..(i - 1) /\ j - 1 \in 1..Len(t) /\ (j - 1) + 1 = j BY <1>1, <2>3
  <2>5. t[j - 1] = q[j] BY <1>1, <2>4
  <2> QED BY <2>2, <2>4, <2>5
<1> QED BY <1>3, <1>4 DEF Prompt, t

LEMMA PromptNone ==
  ASSUME NEW q, None(q, "reconnect") PROVE Prompt(q)
  BY DEF Prompt, None

\* Readied, in the parts that a step may disturb.
Begun == (valid => Len(log) > 0) /\ (Len(log) > 0 => log[1].kind = "ready")
Served ==
  /\ attached => link = "up"
  /\ (sid = 0 /\ attached) =>
       /\ done = <<>> /\ got.op # "reconnect"
       /\ got.op # "dispatch" => Prompt(wire)

LEMMA ReadiedParts == (Readied <=> Begun /\ Served) /\ (Readied' <=> Begun' /\ Served')
  BY DEF Readied, Begun, Served, Prompt

LEMMA BegunStep ==
  ASSUME Inv, Begun, Next PROVE Begun'
<1> USE DEF reader, sessionVars, heart, net, service, counters, ghosts
<1>0. Types /\ Lines /\ log \in Seq(AnyEvent) /\ Len(log) \in Nat BY TakenType DEF Inv, Types
<1>1. CASE Dial \/ DialFails \/ Read \/ OnHello \/ OnAck \/ OnDispatch \/ ReadError \/ OnReconnect
           \/ OnInvalid \/ TakeAck \/ Beat \/ Stale \/ Tick \/ Acknowledge \/ Resumed \/ Cut
           \/ AskReconnect \/ Invalidate \/ HostDies
  <2>1. log' = log /\ (valid' => valid)
    BY <1>1 DEF Dial, DialFails, vars, Read, OnHello, OnAck, OnReconnect, OnInvalid, OnDispatch,
                OnReady, OnGuildCreate, OnChunk, OnMemberAdd, OnMemberRemove, OnOther, ReadError,
                Hangup, TakeAck, Beat, Stale, Tick, Acknowledge, Resumed, Cut, AskReconnect,
                Invalidate, HostDies
  <2> QED BY <2>1 DEF Begun
<1>2. CASE Identified
  <2>1. PICK S : log' = <<Event("ready", {}), Event("create", S)>> BY <1>2 DEF Identified
  <2>2. Len(log') = 2 /\ log'[1].kind = "ready" BY <2>1 DEF Event
  <2> QED BY <2>2 DEF Begun
<1>3. CASE Requested \/ \E u \in Users : GuildChange(u)
  <2>1. PICK e \in AnyEvent : Emit(e) BY <1>0, <1>3, EventKinds DEF Appends
  <2>2. valid' = valid BY <1>0, <1>3, EventKinds
  <2>3. CASE valid
    <3>1. log' = Append(log, e) BY <1>0, <2>1, <2>3, EmitFacts
    <3>2. Len(log') = Len(log) + 1 /\ \A i \in 1..Len(log) : log'[i] = log[i]
      BY <1>0, <3>1, SentFacts
    <3>3. 1 \in 1..Len(log) BY <1>0, <2>3 DEF Begun
    <3> QED BY <1>0, <2>3, <3>2, <3>3 DEF Begun
  <2>4. CASE ~valid
    <3>1. log' = log BY <1>0, <2>1, <2>4, EmitFacts
    <3> QED BY <2>2, <3>1 DEF Begun
  <2> QED BY <2>3, <2>4
<1> QED BY <1>1, <1>2, <1>3 DEF Next, Reader, Service

LEMMA ServedStep ==
  ASSUME Inv, Opening, Begun, Served, Next PROVE Served'
<1> USE DEF reader, sessionVars, heart, net, service, counters, ghosts
<1>0. /\ Types /\ Lines /\ Order /\ Handshake /\ wire \in Seq(AnyMessage) /\ out \in Seq(AnyMessage)
      /\ Len(log) \in Nat /\ Plain("none").op = "none"
  BY TakenType, MessageParts DEF Inv, Order, Types
<1>a. ASSUME ~attached' PROVE Served' BY <1>a DEF Served
<1>b. ASSUME UNCHANGED <<sid, attached, link, done, wire>>,
             got' = got \/ (got' = Plain("none") /\ got.op # "dispatch")
      PROVE  Served'
  BY <1>0, <1>b DEF Served
<1>c. ASSUME NEW m \in AnyMessage, wire' = Append(wire, m), UNCHANGED <<sid, attached, link, done, got>>,
             m.op = "reconnect" => (attached /\ (sid = 0 /\ got.op # "dispatch" => ~None(wire, "dispatch")))
      PROVE  Served'
  <2>1. (sid = 0 /\ attached /\ got.op # "dispatch") => Prompt(wire')
    BY <1>0, <1>c, PromptSent DEF Served
  <2> QED BY <1>c, <2>1 DEF Served
<1>1. CASE ReadError \/ OnReconnect \/ OnInvalid
  BY <1>1, <1>a DEF ReadError, OnReconnect, OnInvalid, Hangup
<1>2. CASE Stale \/ Cut \/ Invalidate BY <1>2, <1>a DEF Stale, Cut, Invalidate
<1>3. CASE Dial \/ OnHello
  <2>1. ~attached /\ attached' = attached BY <1>0, <1>3 DEF Dial, OnHello, Lines, Handling
  <2> QED BY <1>a, <2>1
<1>4. CASE DialFails \/ OnAck \/ TakeAck \/ Beat \/ Tick \/ HostDies
  BY <1>4, <1>b DEF DialFails, vars, OnAck, Handling, Handled, TakeAck, Beat, Tick, HostDies
<1>5. CASE OnDispatch
  <2>1. /\ Handling("dispatch") /\ got.op = "dispatch" /\ UNCHANGED <<wire, attached, link, log>>
        /\ done' = Append(done, got.n)
    BY <1>5 DEF OnDispatch, OnReady, OnGuildCreate, OnChunk, OnMemberAdd, OnMemberRemove, OnOther,
                Handles, Handling
  <2>2. ASSUME sid' = 0, attached PROVE FALSE
    <3>1. session # 0 BY <1>0, <2>2 DEF Lines, Order, Resumable
    <3>2. ~OnReady BY <2>2, <3>1 DEF OnReady
    <3>3. sid = 0 /\ log[got.n].kind # "ready"
      BY <1>5, <2>2, <3>2 DEF OnDispatch, OnGuildCreate, OnChunk, OnMemberAdd, OnMemberRemove,
                              OnOther, Handles
    <3>4. done = <<>> BY <2>2, <3>3 DEF Served
    <3>5. got.n = Len(done) + 1 /\ got.n \in 1..Len(log) BY <1>0, <2>1, EventFacts
    <3>6. got.n = 1 BY <3>4, <3>5, EmptySeq
    <3> QED BY <1>0, <3>3, <3>5, <3>6 DEF Begun
  <2> QED BY <2>1, <2>2 DEF Served
<1>6. CASE Read
  <2>1. /\ wire # <<>> /\ got' = Head(wire) /\ wire' = Tail(wire) /\ phase = "read"
        /\ UNCHANGED <<sid, attached, link, done>>
    BY <1>6 DEF Read
  <2>2. got.op # "dispatch" BY <1>0, <2>1 DEF Lines
  <2>3. Prompt(wire) => got'.op # "reconnect" /\ (got'.op # "dispatch" => Prompt(wire'))
    BY <1>0, <2>1, PromptTaken
  <2> QED BY <2>1, <2>2, <2>3 DEF Served
<1>7. CASE Acknowledge
  <2>1. Plain("ack") \in AnyMessage /\ Plain("ack").op # "reconnect" BY MessageTypes, MessageParts
  <2> QED BY <1>7, <1>c, <2>1 DEF Acknowledge
<1>8. CASE AskReconnect
  <2>1. Plain("reconnect") \in AnyMessage /\ attached BY <1>8, MessageTypes DEF AskReconnect
  <2>2. ASSUME sid = 0, got.op # "dispatch" PROVE ~None(wire, "dispatch")
    <3>1. done = <<>> /\ Len(done) = 0 BY <2>1, <2>2, EmptySeq DEF Served
    <3>2. Taken = 0 BY <2>2, <3>1 DEF Taken
    <3>3. Len(log) > 0 BY <1>0, <2>1 DEF Lines, Begun
    <3>4. Reaches(wire, 0, Len(log)) BY <1>0, <2>1, <3>2 DEF Order, Stretch
    <3> QED BY <1>0, <3>3, <3>4 DEF Reaches, None
  <2> QED BY <1>8, <1>c, <2>1, <2>2 DEF AskReconnect
<1>9. CASE Identified
  <2>1. /\ wire' = wire \o <<Dispatch(1), Dispatch(2)>> /\ got' = got /\ link' = link
        /\ done' = <<>> /\ sid' = sid /\ link = "up"
    BY <1>9 DEF Identified, Receives
  <2>2. 1 \in 1..Len(out) /\ out[1].op = "identify" BY <1>0, <1>9, ReceivedFacts DEF Identified
  <2>3. None(wire, "reconnect") /\ got.op # "reconnect" BY <2>2 DEF Opening
  <2>4. None(<<Dispatch(1), Dispatch(2)>>, "reconnect") BY StartFacts DEF None
  <2>5. None(wire', "reconnect") BY <1>0, <2>1, <2>3, <2>4, StartFacts, MoreKinds
  <2>6. Prompt(wire') BY <2>5, PromptNone
  <2> QED BY <2>1, <2>3, <2>6 DEF Served
<1>10. CASE Resumed
  <2>1. 1 \in 1..Len(out) /\ out[1].op = "resume" BY <1>0, <1>10, ReceivedFacts DEF Resumed
  <2>2. sid # 0 BY <1>0, <2>1 DEF Handshake
  <2>3. sid' = sid /\ link' = link /\ link = "up" BY <1>10 DEF Resumed, Receives
  <2> QED BY <2>2, <2>3 DEF Served
<1>11. CASE Requested \/ \E u \in Users : GuildChange(u)
  <2>1. PICK e \in AnyEvent : Emit(e) BY <1>0, <1>11, EventKinds DEF Appends
  <2>2. UNCHANGED <<sid, attached, link, done, got>> BY <1>0, <1>11, EventKinds
  <2>3. /\ wire' = wire \/ wire' = Append(wire, Dispatch(Len(log) + 1))
        /\ Dispatch(Len(log) + 1) \in AnyMessage /\ Dispatch(Len(log) + 1).op # "reconnect"
    BY <1>0, <2>1, EmitFacts, MessageParts
  <2>4. CASE wire' = wire BY <1>b, <2>2, <2>4
  <2>5. CASE wire' = Append(wire, Dispatch(Len(log) + 1)) BY <1>c, <2>2, <2>3, <2>5
  <2> QED BY <2>3, <2>4, <2>5
<1> QED BY <1>1, <1>2, <1>3, <1>4, <1>5, <1>6, <1>7, <1>8, <1>9, <1>10, <1>11
        DEF Next, Reader, Service

LEMMA ReadiedStep ==
  ASSUME Inv, Opening, Readied, Next PROVE Readied'
  BY ReadiedParts, BegunStep, ServedStep

-----------------------------------------------------------------------------
(* Sessions and events. *)

\* A step that may cost a session is one more loss, and a new session is paid for
\* by an earlier loss.
LEMMA PaidStep ==
  ASSUME Inv, Refused, Readied, Paid, Next PROVE Paid'
<1> USE DEF reader, sessionVars, heart, net, service, counters, ghosts
<1>0. /\ Types /\ Lines /\ Order /\ Handshake /\ session \in Nat /\ losses \in Nat
      /\ attached => valid /\ link = "up"
      /\ Owed \in {0, 1, 2} /\ Owed' \in {0, 1, 2}
  BY DEF Inv, Order, Types, Lines, Readied, Owed
<1>p. /\ session + Owed <= losses + 1 /\ Owed \in Nat /\ Owed' \in Nat
      /\ Paid' <=> session' + Owed' <= losses' + 1
  <2>1. Owed \in Nat /\ Owed' \in Nat BY DEF Owed
  <2> QED BY <2>1 DEF Paid
<1>a. ASSUME session' = session, losses' = losses, Owed' <= Owed PROVE Paid'
  <2>1. \A s, l, o, p \in Nat : s + o <= l + 1 /\ p <= o => s + p <= l + 1 OBVIOUS
  <2>2. session + Owed' <= losses + 1 BY <1>0, <1>a, <1>p, <2>1
  <2> QED BY <1>a, <1>p, <2>2
<1>b. ASSUME session' = session, losses' = losses + 1, Owed' <= Owed + 1 PROVE Paid'
  <2>1. \A s, l, o, p \in Nat : s + o <= l + 1 /\ p <= o + 1 => s + p <= (l + 1) + 1 OBVIOUS
  <2>2. session + Owed' <= (losses + 1) + 1 BY <1>0, <1>b, <1>p, <2>1
  <2> QED BY <1>b, <1>p, <2>2
<1>c. ASSUME UNCHANGED <<session, losses, sid, attached, valid>>, Overdue' => Overdue PROVE Paid'
  <2>1. Owed' <= Owed BY <1>c DEF Owed
  <2> QED BY <1>a, <1>c, <2>1
<1>1. CASE Dial \/ OnHello \/ TakeAck \/ Beat
  <2>1. ~Overdue' BY <1>0, <1>1 DEF Dial, OnHello, TakeAck, Beat, Overdue, Lines
  <2> QED BY <1>1, <1>c, <2>1 DEF Dial, OnHello, TakeAck, Beat
<1>2. CASE DialFails \/ Read \/ OnAck \/ Acknowledge
  <2>1. Overdue' = Overdue BY <1>2 DEF DialFails, vars, Read, OnAck, Acknowledge, Overdue
  <2> QED BY <1>2, <1>c, <2>1 DEF DialFails, vars, Read, OnAck, Acknowledge
<1>3. CASE AskReconnect \/ HostDies
  <2>1. Overdue' = Overdue BY <1>3 DEF AskReconnect, HostDies, Overdue
  <2>2. UNCHANGED <<session, sid, attached, valid>> /\ losses' = losses + 1
    BY <1>3 DEF AskReconnect, HostDies
  <2>3. Owed' <= Owed + 1 BY <2>1, <2>2 DEF Owed
  <2> QED BY <1>b, <2>2, <2>3
<1>4. CASE Requested \/ \E u \in Users : GuildChange(u)
  <2>1. UNCHANGED <<hb, timer, ack, link, session, losses, sid, attached, valid>>
    BY <1>0, <1>4, EventKinds
  <2>2. Overdue' = Overdue BY <2>1 DEF Overdue
  <2> QED BY <1>c, <2>1, <2>2
<1>5. CASE Tick
  <2>1. UNCHANGED <<hb, ack, link, session, sid, attached, valid>> BY <1>5 DEF Tick
  <2>2. CASE ~ack /\ link = "up"
    <3>1. losses' = losses + 1 BY <1>5, <2>2 DEF Tick
    <3>2. Owed' <= Owed + 1 BY <2>1 DEF Owed
    <3> QED BY <1>b, <2>1, <3>1, <3>2
  <2>3. CASE ~(~ack /\ link = "up")
    <3>1. losses' = losses BY <1>5, <2>3 DEF Tick
    <3>2. ~Overdue' BY <2>1, <2>3 DEF Overdue
    <3> QED BY <1>c, <2>1, <3>1, <3>2
  <2> QED BY <2>2, <2>3
<1>6. CASE Cut
  <2>1. /\ UNCHANGED <<session, sid, valid>> /\ losses' = losses + 1 /\ ~attached' /\ ~Overdue'
    BY <1>6 DEF Cut, Overdue
  <2>2. Owed' <= Owed + 1 BY <2>1 DEF Owed
  <2> QED BY <1>b, <2>1, <2>2
<1>7. CASE Stale
  <2>1. /\ UNCHANGED <<session, sid, valid, losses>> /\ ~attached' /\ ~Overdue'
        /\ hb = "wait" /\ timer = "fired" /\ ~ack
    BY <1>7 DEF Stale, Overdue
  <2>2. attached => Overdue BY <1>0, <2>1 DEF Overdue
  <2>3. Owed' <= Owed BY <2>1, <2>2 DEF Owed
  <2> QED BY <1>a, <2>1, <2>3
<1>8. CASE Invalidate
  <2>1. /\ UNCHANGED <<session, sid>> /\ losses' = losses + 1 /\ ~attached' /\ Overdue' = Overdue
    BY <1>8 DEF Invalidate, Overdue
  <2>2. Owed' <= Owed + 1 BY <2>1 DEF Owed
  <2> QED BY <1>b, <2>1, <2>2
<1>9. CASE ReadError \/ OnReconnect
  <2>1. Hangup /\ UNCHANGED <<sid, losses>> BY <1>9 DEF ReadError, OnReconnect
  <2>2. UNCHANGED <<session, valid>> /\ ~attached' /\ ~Overdue' BY <2>1, HangupFacts DEF Overdue
  <2>3. sid = 0 => ~attached
    <3>1. CASE ReadError
      <4>1. link # "up" BY <3>1 DEF ReadError
      <4> QED BY <1>0, <4>1
    <3>2. CASE OnReconnect BY <3>2 DEF OnReconnect, Handling, Readied
    <3> QED BY <1>9, <3>1, <3>2
  <2>4. Owed' <= Owed BY <2>1, <2>2, <2>3 DEF Owed
  <2> QED BY <1>a, <2>1, <2>2, <2>4
<1>10. CASE OnInvalid
  <2>1. Hangup /\ losses' = losses /\ got.op = "invalid" BY <1>10 DEF OnInvalid, Handling
  <2>2. session' = session /\ ~Overdue' BY <2>1, HangupFacts DEF Overdue
  <2>3. ~valid /\ ~attached BY <1>0, <2>1 DEF Refused
  <2>4. Owed' <= Owed BY <2>2, <2>3 DEF Owed
  <2> QED BY <1>a, <2>1, <2>2, <2>4
<1>11. CASE OnDispatch
  <2>1. UNCHANGED <<hb, timer, ack, link, session, losses, attached, valid>>
    BY <1>11 DEF OnDispatch, OnReady, OnGuildCreate, OnChunk, OnMemberAdd, OnMemberRemove, OnOther
  <2>2. Overdue' = Overdue BY <2>1 DEF Overdue
  <2>3. CASE OnReady
    <3>1. got.n \in 1..Len(log) /\ sid' = session
      BY <1>0, <2>3, EventFacts DEF OnReady, Handles
    <3>2. session # 0
      <4>1. 1..Len(<<>>) = {} BY EmptySeq
      <4> QED BY <1>0, <3>1, <4>1 DEF Order, Resumable
    <3>3. Owed' <= Owed BY <1>0, <2>1, <3>1, <3>2 DEF Owed
    <3> QED BY <1>a, <2>1, <3>3
  <2>4. CASE ~OnReady
    <3>1. sid' = sid
      BY <1>11, <2>4 DEF OnDispatch, OnGuildCreate, OnChunk, OnMemberAdd, OnMemberRemove, OnOther
    <3> QED BY <1>c, <2>1, <2>2, <3>1
  <2> QED BY <2>3, <2>4
<1>12. CASE Identified
  <2>1. 1 \in 1..Len(out) /\ out[1].op = "identify" BY <1>0, <1>12, ReceivedFacts DEF Identified
  <2>2. sid = 0 /\ ~attached BY <1>0, <2>1 DEF Handshake
  <2>3. /\ session' = session + 1 /\ attached' = TRUE
        /\ UNCHANGED <<hb, timer, ack, link, losses, sid>>
    BY <1>12 DEF Identified
  <2>4. Overdue' = Overdue BY <2>3 DEF Overdue
  <2>5. Owed' + 1 = Owed BY <2>2, <2>3, <2>4 DEF Owed
  <2>6. \A s, l, o, p \in Nat : s + o <= l + 1 /\ p + 1 = o => (s + 1) + p <= l + 1 OBVIOUS
  <2>7. (session + 1) + Owed' <= losses + 1 BY <1>0, <1>p, <2>5, <2>6
  <2> QED BY <1>p, <2>3, <2>7
<1>13. CASE Resumed
  <2>1. 1 \in 1..Len(out) /\ out[1].op = "resume" BY <1>0, <1>13, ReceivedFacts DEF Resumed
  <2>2. sid # 0 BY <1>0, <2>1 DEF Handshake
  <2>3. UNCHANGED <<session, valid, losses, sid>> BY <1>13 DEF Resumed
  <2>4. Owed' <= Owed BY <2>2, <2>3 DEF Owed
  <2> QED BY <1>a, <2>3, <2>4
<1> QED BY <1>1, <1>2, <1>3, <1>4, <1>5, <1>6, <1>7, <1>8, <1>9, <1>10, <1>11, <1>12, <1>13
        DEF Next, Reader, Service

\* A request is answered with one event, and asked for by one; a change of the
\* guild is one event, which asks at most once.
LEMMA FitsStep ==
  ASSUME Inv, Opening, Fits, Next PROVE Fits'
<1> USE DEF reader, sessionVars, heart, net, service, counters, ghosts
<1> DEFINE A == Cardinality(Asking)
           R == Cardinality(Requests(out))
<1>0. /\ Types /\ Lines /\ Order /\ out \in Seq(AnyMessage) /\ out' \in Seq(AnyMessage)
      /\ Types' /\ changes \in Nat /\ Len(log) \in Nat /\ Len(done) \in Nat
  <2>1. Types /\ Lines /\ Order BY DEF Inv
  <2>2. Types' BY <2>1, TypesStep
  <2> QED BY <2>1, <2>2, TakenType DEF Types
<1>1. /\ IsFiniteSet(Asking) /\ A \in Nat /\ R \in Nat
      /\ Cardinality(Requests(out')) \in Nat
      /\ Len(log) + A + R <= 3 + 2 * changes
  BY <1>0, AskingCount, RequestCount DEF Fits
<1>u. /\ Fits' <=> Len(log') + Cardinality(Asking') + Cardinality(Requests(out')) <= 3 + 2 * changes'
  BY DEF Fits, Requests
<1> HIDE DEF A, R
<1>a. ASSUME UNCHANGED <<log, done, changes>>, Cardinality(Requests(out')) <= R PROVE Fits'
  <2>1. Asking' = Asking BY <1>a DEF Asking, Pending
  <2> QED BY <1>0, <1>1, <1>a, <1>u, <2>1 DEF A
<1>b. ASSUME NEW m \in AnyMessage, Send(m)
      PROVE  /\ m.op # "request" => Cardinality(Requests(out')) <= R
             /\ Cardinality(Requests(out')) <= R + 1
  <2>1. out' = out \/ out' = Append(out, m) BY <1>0, <1>b, SendFacts
  <2>2. CASE out' = out BY <1>1, <2>2 DEF R
  <2>3. CASE out' = Append(out, m) BY <1>0, <1>1, <2>3, RequestSent DEF R
  <2> QED BY <2>1, <2>2, <2>3
<1>2. CASE Dial \/ DialFails \/ Read \/ OnAck \/ TakeAck \/ Stale \/ Tick \/ Cut \/ AskReconnect
           \/ Invalidate \/ HostDies
  <2>1. UNCHANGED <<log, done, changes, out>>
    BY <1>2 DEF Dial, DialFails, vars, Read, OnAck, TakeAck, Stale, Tick, Cut, AskReconnect,
                Invalidate, HostDies
  <2> QED BY <1>1, <1>a, <2>1 DEF R
<1>3. CASE ReadError \/ OnReconnect \/ OnInvalid
  <2>1. UNCHANGED <<log, done, changes>> /\ out' = <<>>
    BY <1>3 DEF ReadError, OnReconnect, OnInvalid, Hangup
  <2>2. Cardinality(Requests(out')) = 0 BY <2>1, EmptyFacts, FS_EmptySet
  <2> QED BY <1>1, <1>a, <2>1, <2>2
<1>4. CASE OnHello \/ Beat
  <2>1. UNCHANGED <<log, done, changes>> BY <1>4 DEF OnHello, Beat
  <2>2. \E m \in AnyMessage : m.op # "request" /\ Send(m)
    <3>1. CASE OnHello BY <1>0, <3>1, GreetingFacts
    <3>2. CASE Beat BY <3>2, MessageTypes, MessageParts DEF Beat
    <3> QED BY <1>4, <3>1, <3>2
  <2> QED BY <1>a, <1>b, <2>1, <2>2
<1>5. CASE Acknowledge \/ Resumed
  <2>1. UNCHANGED <<log, done, changes>> /\ out # <<>> /\ out' = Tail(out)
    BY <1>5 DEF Acknowledge, Resumed, Receives
  <2> QED BY <1>0, <1>a, <2>1, RequestTaken DEF R
<1>6. CASE Identified
  <2>1. out # <<>> /\ out' = Tail(out) /\ 1 \in 1..Len(out) /\ out[1].op = "identify"
    BY <1>0, <1>6, ReceivedFacts DEF Identified
  <2>2. Requests(out) = {} BY <2>1 DEF Opening, None, Requests
  <2>3. Cardinality(Requests(out')) = 0
    <3>1. Cardinality(Requests(out)) = 0 BY <2>2, FS_EmptySet
    <3>2. Cardinality(Requests(out')) <= Cardinality(Requests(out)) BY <1>0, <2>1, RequestTaken
    <3> QED BY <1>1, <3>1, <3>2
  <2>4. PICK S : log' = <<Event("ready", {}), Event("create", S)>> BY <1>6 DEF Identified
  <2>5. Len(log') = 2 /\ log'[1].kind = "ready" BY <2>4 DEF Event
  <2>6. Len(done') = 0 /\ changes' = changes BY <1>6, EmptySeq DEF Identified
  <2>7. Asking' \subseteq {2}
    <3>1. Pending' = {1, 2} BY <2>5, <2>6 DEF Pending
    <3> QED BY <2>5, <3>1 DEF Asking
  <2>8. Cardinality(Asking') \in Nat /\ Cardinality(Asking') <= 1
    <3>1. IsFiniteSet({2}) /\ Cardinality({2}) = 1 BY FS_Singleton
    <3>2. IsFiniteSet(Asking') /\ Cardinality(Asking') <= Cardinality({2})
      BY <2>7, <3>1, FS_Subset
    <3> QED BY <3>1, <3>2, FS_CardinalityType
  <2> QED BY <1>0, <1>u, <2>3, <2>5, <2>6, <2>8
<1>7. CASE Requested
  <2> DEFINE e == Event("chunk", Head(out).users \cap members)
  <2>1. /\ out # <<>> /\ out' = Tail(out) /\ Head(out).op = "request"
        /\ e \in AnyEvent /\ e.kind = "chunk" /\ Emit(e) /\ UNCHANGED <<done, changes>>
    BY <1>0, <1>7, ReceivedFacts DEF Requested, Event, AnyEvent
  <2> HIDE DEF e
  <2>2. Cardinality(Requests(out')) + 1 <= R BY <1>0, <2>1, RequestTaken DEF R
  <2>3. Len(log') \in {Len(log), Len(log) + 1} /\ Asking' = Asking
    <3>1. CASE ~valid
      <4>1. log' = log BY <1>0, <2>1, <3>1, EmitFacts
      <4> QED BY <2>1, <4>1 DEF Asking, Pending
    <3>2. CASE valid
      <4>1. log' = Append(log, e) BY <1>0, <2>1, <3>2, EmitFacts
      <4>2. /\ Len(log') = Len(log) + 1 /\ log'[Len(log) + 1] = e
            /\ \A i \in 1..Len(log) : log'[i] = log[i]
        BY <1>0, <4>1, SentFacts DEF Types
      <4>3. \A i : i \in Pending' <=> i \in Pending \/ (i = Len(log) + 1 /\ Len(done) <= Len(log))
        BY <1>0, <2>1, <4>2 DEF Pending
      <4>4. \A i \in Pending : log'[i] = log[i] BY <1>0, <4>2 DEF Pending
      <4> QED BY <2>1, <4>2, <4>3, <4>4 DEF Asking
    <3> QED BY <3>1, <3>2
  <2> QED BY <1>0, <1>1, <1>u, <2>1, <2>2, <2>3 DEF A
<1>8. ASSUME NEW u \in Users, GuildChange(u) PROVE Fits'
  <2>1. PICK e \in AnyEvent : Emit(e) BY <1>0, <1>8, EventKinds DEF Appends
  <2>2. UNCHANGED <<done, out>> /\ changes' = changes + 1 BY <1>8 DEF GuildChange
  <2>3. Len(log') \in {Len(log), Len(log) + 1} /\ Asking' \subseteq Asking \cup {Len(log) + 1}
    <3>1. CASE ~valid
      <4>1. log' = log BY <1>0, <2>1, <3>1, EmitFacts
      <4> QED BY <2>2, <4>1 DEF Asking, Pending
    <3>2. CASE valid
      <4>1. log' = Append(log, e) BY <1>0, <2>1, <3>2, EmitFacts
      <4>2. Len(log') = Len(log) + 1 /\ \A i \in 1..Len(log) : log'[i] = log[i]
        BY <1>0, <4>1, SentFacts DEF Types
      <4>3. \A i \in Pending' : i = Len(log) + 1 \/ (i \in Pending /\ log'[i] = log[i])
        BY <1>0, <2>2, <4>2 DEF Pending
      <4> QED BY <4>2, <4>3 DEF Asking
    <3> QED BY <3>1, <3>2
  <2>4. Cardinality(Asking') \in Nat /\ Cardinality(Asking') <= A + 1
    <3> DEFINE B == Asking \cup {Len(log) + 1}
    <3>1. /\ IsFiniteSet(B)
          /\ Cardinality(B) = IF Len(log) + 1 \in Asking THEN Cardinality(Asking)
                                                         ELSE Cardinality(Asking) + 1
      BY <1>1, FS_AddElement
    <3>2. Cardinality(B) <= A + 1 BY <1>1, <3>1 DEF A
    <3> HIDE DEF B
    <3>3. IsFiniteSet(Asking') /\ Cardinality(Asking') <= Cardinality(B)
      BY <2>3, <3>1, FS_Subset DEF B
    <3>4. Cardinality(Asking') \in Nat /\ Cardinality(B) \in Nat
      BY <3>1, <3>3, FS_CardinalityType
    <3> QED BY <1>1, <3>2, <3>3, <3>4
  <2>5. Cardinality(Requests(out')) = R BY <2>2 DEF R
  <2>6. Len(log') + Cardinality(Asking') + R <= (Len(log) + 1) + (A + 1) + R
    BY <1>0, <1>1, <2>3, <2>4
  <2>7. (Len(log) + 1) + (A + 1) + R <= 3 + 2 * (changes + 1) BY <1>0, <1>1
  <2>8. Len(log') \in Nat BY <1>0, <2>3
  <2> QED BY <1>0, <1>1, <1>u, <2>2, <2>4, <2>5, <2>6, <2>7, <2>8
<1>9. CASE OnDispatch
  <2>1. /\ Handling("dispatch") /\ done' = Append(done, got.n) /\ UNCHANGED <<log, changes>>
    BY <1>9 DEF OnDispatch, OnReady, OnGuildCreate, OnChunk, OnMemberAdd, OnMemberRemove, OnOther,
                Handles
  <2>2. got.n = Len(done) + 1 /\ got.n \in 1..Len(log) /\ EventUsers \in SUBSET Users
    BY <1>0, <2>1, EventFacts
  <2>3. Len(done') = Len(done) + 1 BY <2>1, SentFacts DEF Types, Inv
  <2>4. Pending' = Pending \ {got.n} BY <1>0, <2>1, <2>2, <2>3 DEF Pending
  <2>5. Asking' = Asking \ {got.n} BY <2>1, <2>4 DEF Asking
  <2>6. /\ Cardinality(Asking') = IF got.n \in Asking THEN A - 1 ELSE A
        /\ Cardinality(Asking') \in Nat
    <3>1. /\ IsFiniteSet(Asking')
          /\ Cardinality(Asking') = IF got.n \in Asking THEN A - 1 ELSE A
      BY <1>1, <2>5, FS_RemoveElement DEF A
    <3> QED BY <3>1, FS_CardinalityType
  <2>7. CASE OnGuildCreate \/ OnMemberAdd
    <3>1. got.n \in Asking
      <4>1. log[got.n].kind \in {"create", "add"} BY <2>7 DEF OnGuildCreate, OnMemberAdd, Handles
      <4> QED BY <1>0, <2>2, <4>1 DEF Asking, Pending
    <3>2. \E m \in AnyMessage : Send(m)
      BY <2>2, <2>7, MessageTypes DEF OnGuildCreate, OnMemberAdd
    <3>3. Cardinality(Requests(out')) <= R + 1 BY <1>b, <3>2
    <3> QED BY <1>0, <1>1, <1>u, <2>1, <2>6, <3>1, <3>3
  <2>8. CASE OnReady \/ OnChunk \/ OnMemberRemove \/ OnOther
    <3>1. out' = out BY <2>8 DEF OnReady, OnChunk, OnMemberRemove, OnOther
    <3>2. Cardinality(Asking') <= A BY <1>1, <2>6
    <3> QED BY <1>0, <1>1, <1>u, <2>1, <2>6, <3>1, <3>2 DEF R
  <2> QED BY <1>9, <2>7, <2>8 DEF OnDispatch
<1> QED BY <1>2, <1>3, <1>4, <1>5, <1>6, <1>7, <1>8, <1>9 DEF Next, Reader, Service

LEMMA BoundsInit == Init => Bounds
<1> SUFFICES ASSUME Init PROVE Bounds OBVIOUS
<1>1. /\ <<>> \in Seq(FromDiscord) /\ <<>> \in Seq(FromClient) /\ <<>> \in Seq(1..MaxLog)
      /\ Len(<<>>) = 0 /\ Requests(<<>>) = {} /\ \A op : None(<<>>, op)
      /\ Plain("none").op = "none" /\ 1..Len(<<>>) = {}
  BY EmptySeq, EmptyFacts, MessageParts
<1>2. MaxLosses \in Nat /\ MaxGuild \in Nat /\ MaxLog \in Nat BY GatewayAssumption DEF MaxLog
<1>3. Shapes BY <1>1, <1>2 DEF Init, Shapes
<1>4. Opening BY <1>1 DEF Init, Opening
<1>5. Readied BY <1>1 DEF Init, Readied
<1>6. Refused BY <1>1 DEF Init, Refused
<1>7. Paid BY DEF Init, Paid, Owed, Overdue
<1>8. Fits
  <2>1. Asking = {} BY <1>1 DEF Init, Asking, Pending
  <2>2. Cardinality({}) = 0 BY FS_EmptySet
  <2>3. Len(log) = 0 /\ Requests(out) = {} /\ changes = 0 BY <1>1 DEF Init
  <2> QED BY <2>1, <2>2, <2>3 DEF Fits
<1> QED BY <1>3, <1>4, <1>5, <1>6, <1>7, <1>8 DEF Bounds

LEMMA BoundsStep == Inv /\ Inv' /\ Bounds /\ [Next]_vars => Bounds'
<1> SUFFICES ASSUME Inv, Inv', Bounds, [Next]_vars PROVE Bounds' OBVIOUS
<1>1. CASE Next
  BY <1>1, ShapesStep, OpeningStep, ReadiedStep, RefusedStep, PaidStep, FitsStep DEF Bounds
<1>2. CASE UNCHANGED vars
  <2> USE <1>2 DEF vars, reader, sessionVars, heart, net, service, counters, ghosts
  <2>1. Shapes' /\ Opening' /\ Readied' /\ Refused' BY DEF Bounds, Shapes, Opening, Readied, Refused
  <2>2. Paid' BY DEF Bounds, Paid, Owed, Overdue
  <2>3. Fits' BY DEF Bounds, Fits, Asking, Pending
  <2> QED BY <2>1, <2>2, <2>3 DEF Bounds
<1> QED BY <1>1, <1>2

LEMMA BoundsInv == Spec => [](Inv /\ Bounds)
<1>1. Init => Inv /\ Bounds BY InvInit, BoundsInit
<1>2. Inv /\ Bounds /\ [Next]_vars => (Inv /\ Bounds)' BY InvStep, BoundsStep
<1> QED BY <1>1, <1>2, PTL DEF Spec

\* Run and connectAndServe identify anew only when something was lost: each
\* session after the first is paid for by one cut, reconnect, invalidation or
\* late ACK, or the end of the host, and none of them pays for two.
THEOREM SessionsArePaid == Spec => [](session <= losses + 1)
<1>1. ASSUME Inv, Bounds PROVE session <= losses + 1
  <2>1. session \in Nat /\ losses \in Nat /\ Owed \in Nat BY <1>1 DEF Inv, Types, Owed
  <2>2. session + Owed <= losses + 1 BY <1>1 DEF Bounds, Paid
  <2> QED BY <2>1, <2>2
<1> QED BY <1>1, BoundsInv, PTL

\* The types of the state, with the bounds: how many sessions there may be, how
\* long a session's log gets, and that no number on a wire or kept by the client
\* is beyond them.
THEOREM GatewayTypes == Spec => []TypeOK
<1>1. ASSUME Inv, Bounds PROVE TypeOK
  <2>1. /\ Types /\ Lines /\ Order /\ Handshake /\ Stretch /\ Numbers /\ Resumable
        /\ Shapes /\ Fits /\ Paid
    BY <1>1 DEF Inv, Order, Bounds
  <2>2. /\ Len(log) \in Nat /\ Len(log) <= MaxLog /\ Len(done) \in Nat /\ Taken \in Nat
        /\ MaxLog \in Nat /\ MaxSession \in Nat /\ MaxLosses \in Nat /\ MaxGuild \in Nat
    BY <2>1, LogFits, TakenType, GatewayAssumption DEF Shapes, MaxLog, MaxSession
  <2>3. Len(done) <= MaxLog /\ Taken <= MaxLog
    BY <2>1, <2>2 DEF Stretch, Taken
  <2>4. session \in 0..MaxSession
    <3>1. session \in Nat /\ losses \in Nat /\ Owed \in Nat BY <2>1 DEF Types, Owed
    <3>2. session + Owed <= losses + 1 /\ losses <= MaxLosses BY <2>1 DEF Paid, Shapes
    <3> QED BY <2>2, <3>1, <3>2 DEF MaxSession
  <2>5. sid \in 0..MaxSession BY <2>1, <2>2, <2>4 DEF Resumable
  <2>6. /\ wire \in Seq(FromDiscord) /\ out \in Seq(FromClient) /\ Len(wire) \in Nat
        /\ Len(out) \in Nat /\ \A i \in 1..Len(wire) : wire[i] \in FromDiscord
        /\ \A i \in 1..Len(out) : out[i] \in FromClient
    BY <2>1, SeqFacts DEF Shapes
  <2>7. wire \in Seq(Messages(ToClient))
    <3>1. ASSUME NEW i \in 1..Len(wire) PROVE wire[i] \in Messages(ToClient)
      <4>1. /\ wire[i].op \in ToClient /\ wire[i].n \in Nat /\ wire[i].sid = 0 /\ wire[i].users = {}
            /\ wire[i].op # "dispatch" => wire[i].n = 0
            /\ wire[i] = Msg(wire[i].op, wire[i].n, wire[i].sid, wire[i].users)
        BY <2>6, WordParts
      <4>2. wire[i].op = "dispatch" => wire[i].n <= Len(log) BY <2>1 DEF Stretch, Ordered
      <4>3. wire[i].n \in 0..MaxLog BY <2>2, <4>1, <4>2
      <4>4. 0 \in 0..MaxSession BY <2>2
      <4> QED BY <4>1, <4>3, <4>4 DEF Messages, Msg
    <3> QED BY <2>6, <3>1, SeqOf
  <2>8. out \in Seq(Messages(ToDiscord))
    <3>1. ASSUME NEW i \in 1..Len(out) PROVE out[i] \in Messages(ToDiscord)
      <4>1. /\ out[i].op \in ToDiscord /\ out[i].n \in Nat /\ out[i].sid \in Nat
            /\ out[i].users \in SUBSET Users
            /\ out[i].op # "resume" => out[i].n = 0 /\ out[i].sid = 0
            /\ out[i] = Msg(out[i].op, out[i].n, out[i].sid, out[i].users)
        BY <2>6, WordParts
      <4>2. out[i].op = "resume" => out[i].sid = sid /\ out[i].n = Len(done)
        BY <2>1 DEF Handshake
      <4>3. out[i].n \in 0..MaxLog /\ out[i].sid \in 0..MaxSession
        BY <2>2, <2>3, <2>5, <4>1, <4>2
      <4> QED BY <4>1, <4>3 DEF Messages, Msg
    <3> QED BY <2>6, <3>1, SeqOf
  <2>9. got \in Messages(ToClient \cup {"none"})
    <3>1. 0 \in 0..MaxLog /\ 0 \in 0..MaxSession BY <2>2
    <3>2. CASE got = Plain("none") BY <3>1, <3>2 DEF Plain, Msg, Messages
    <3>3. CASE got \in FromDiscord
      <4>1. /\ got.op \in ToClient /\ got.n \in Nat /\ got.sid = 0 /\ got.users = {}
            /\ got.op # "dispatch" => got.n = 0
            /\ got = Msg(got.op, got.n, got.sid, got.users)
        BY <3>3, WordParts
      <4>2. got.op = "dispatch" => got.n = Taken BY <2>1 DEF Numbers
      <4>3. got.n \in 0..MaxLog BY <2>2, <2>3, <4>1, <4>2
      <4> QED BY <3>1, <4>1, <4>3 DEF Messages, Msg
    <3> QED BY <2>1, <3>2, <3>3 DEF Shapes
  <2>10. seq \in 0..MaxLog /\ changes \in 0..MaxGuild /\ losses \in 0..MaxLosses
    BY <2>1, <2>2 DEF Types, Shapes
  <2>11. done \in Seq(1..MaxLog) BY <2>1 DEF Shapes
  <2>12. log \in Seq([kind : {"ready", "create", "chunk", "add", "remove", "other"},
                      users : SUBSET Users])
    BY <2>1 DEF Types, AnyEvent
  <2> QED BY <2>1, <2>3, <2>4, <2>5, <2>7, <2>8, <2>9, <2>10, <2>11, <2>12 DEF Types, TypeOK
<1> QED BY <1>1, BoundsInv, PTL
=============================================================================
