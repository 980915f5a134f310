---------------------------- MODULE AccessProofs ----------------------------
(***************************************************************************)
(* Access, for every set of users, goroutines and texts, every number of     *)
(* keys and commands, with and without failures of Redis: what holds of the  *)
(* keys however rotations, checks and crashes interleave.                    *)
(*                                                                           *)
(* The invariant: Types; Fresh (the key a rotation brings is known to nobody *)
(* before its end) and Own (no key crosses from one user to another), which  *)
(* hold always; Works, for users whose rotations were not cut short; Single, *)
(* Kept and Refused, for users whose rotations did not overlap either.       *)
(***************************************************************************)
EXTENDS Access, TLAPS

Busy(w) == pc[w] \in {"existing", "del", "set", "point"}

\* The keys some user has been sent.
Known == UNION {told[u] : u \in Users}

Words == Texts \cup (0..MaxKeys)
Pairs == [label : Words, value : Words, by : {"command", "request"}]

Types ==
  /\ minted \in 0..MaxKeys /\ ops \in 0..MaxOps
  /\ owner \in [Keys -> Users \cup {NoUser}]
  /\ current \in [Users -> 0..minted] /\ told \in [Users -> SUBSET (1..minted)]
  /\ kv \in [Users -> SUBSET Pairs]
  /\ pc \in [Workers -> {"idle", "check", "existing", "del", "set", "point", "auth", "store"}]
  /\ op \in [Workers -> {"none", "apikey", "set", "get", "del", "clear"}]
  /\ user \in [Workers -> Users \cup {NoUser}]
  /\ arg \in [Workers -> Words] /\ val \in [Workers -> Words]
  /\ key \in [Workers -> 0..minted] /\ old \in [Workers -> 0..minted]
  /\ leaked \subseteq Keys /\ overlapped \subseteq Users /\ cut \subseteq Users

\* What a program point knows: whom it works for, and where its argument is from.
Flow ==
  \A w \in Workers :
    /\ IF pc[w] = "idle" THEN arg[w] = 0 ELSE user[w] \in Users
    /\ Busy(w) => key[w] # 0
    /\ pc[w] = "del" => old[w] # 0
    /\ ~Busy(w) => old[w] = 0
    /\ pc[w] = "auth" => key[w] # 0
    /\ pc[w] \in {"check", "auth", "store"} => op[w] \in {"set", "get", "del", "clear"}
    /\ arg[w] \in Keys => arg[w] \in told[user[w]]

\* A key that is being brought in is nobody's yet, and no other goroutine's.
Fresh ==
  /\ \A k \in Keys : owner[k] # NoUser => k <= minted
  /\ \A w \in Workers : Busy(w) =>
       /\ \A u \in Users : key[w] # current[u] /\ key[w] \notin told[u]
       /\ \A x \in Workers : Busy(x) => key[w] # old[x] /\ (x # w => key[w] # key[x])
       /\ pc[w] # "point" => owner[key[w]] = NoUser

\* The current key of a user, and the one a rotation replaces, are no other's.
Own ==
  \A u, v \in Users : u # v =>
    /\ current[u] # 0 => current[u] # current[v] /\ current[u] \notin told[v]
    /\ \A w \in Rotating(u) : old[w] # 0 => old[w] # current[v]

\* A current key that is not accepted is about to be replaced, by one that is.
Works ==
  \A u \in Users \ cut :
    /\ (current[u] # 0 /\ owner[current[u]] # u) =>
         \E w \in Rotating(u) : pc[w] \in {"set", "point"}
    /\ \A w \in Rotating(u) : pc[w] = "point" => owner[key[w]] = u

\* The users to whose rotations the promises about single keys apply.
Calm == Users \ (cut \cup overlapped)

Single ==
  /\ \A u \in Users \ overlapped : \A w, x \in Rotating(u) : w = x
  /\ \A u \in Calm :
       /\ \A k \in Accepted(u) :
            k = current[u] \/ \E w \in Rotating(u) : pc[w] = "point" /\ k = key[w]
       /\ \A w \in Rotating(u) :
            /\ pc[w] = "del" => old[w] = current[u]
            /\ pc[w] \in {"set", "point"} => current[u] \notin Accepted(u)

\* A leaked key is the current one while its rotation runs, then it is refused.
Kept ==
  /\ leaked \subseteq Known
  /\ \A u \in Calm : \A w \in Rotating(u) :
       (op[w] # "apikey" /\ arg[w] \in Keys) => arg[w] = current[u]

\* What a command is about to store is not a key that is accepted.
Refused ==
  /\ \A u \in Users : \A p \in kv[u] :
       (p.by = "command" /\ p.label \in Keys) => p.label \in told[u]
  /\ \A w \in Workers : (pc[w] = "store" /\ key[w] = 0 /\ user[w] \in Calm) =>
       arg[w] \notin Accepted(user[w])

Base == Types /\ Flow /\ Fresh /\ Own

Inv ==
  Base /\ Works /\ Single /\ Kept /\ LeakRevoked /\ Refused /\ StoredKeysRefused

-----------------------------------------------------------------------------
(* What the actions do, goroutine by goroutine. *)

\* A step of w leaves what is local to the others alone.
Others(w) ==
  \A x \in Workers \ {w} :
    /\ pc'[x] = pc[x] /\ op'[x] = op[x] /\ user'[x] = user[x]
    /\ arg'[x] = arg[x] /\ val'[x] = val[x] /\ key'[x] = key[x] /\ old'[x] = old[x]

\* The end of an operation.
Ends(w) == pc'[w] = "idle" /\ arg'[w] = 0 /\ old'[w] = 0 /\ Others(w)

\* Everything but a rotation: no key changes hands.
Quiet(w) ==
  /\ UNCHANGED <<owner, current, minted, told, leaked, overlapped>>
  /\ ~Busy(w) /\ ~Busy(w)' /\ Others(w) /\ cut \subseteq cut'

\* A rotation starts: with a new key, and for a leaked one if it is the current.
Enter(w) ==
  LET u == user'[w] IN
  /\ UNCHANGED <<owner, current, told, kv, leaked>>
  /\ ~Busy(w) /\ pc'[w] = "existing" /\ Others(w) /\ u \in Users
  /\ minted < MaxKeys /\ minted' = minted + 1 /\ key'[w] = minted + 1
  /\ arg'[w] = arg[w] /\ old'[w] = old[w]
  /\ op'[w] = "apikey" \/ arg[w] = current[u] \/ u \in cut'
  /\ overlapped' = overlapped \cup (IF Rotating(u) = {} THEN {} ELSE {u})
  /\ cut \subseteq cut'

LEMMA FinishEnds ==
  ASSUME Types, NEW w \in Workers, Finish(w)
  PROVE  /\ Ends(w)
         /\ pc' \in [Workers -> {"idle", "check", "existing", "del", "set", "point",
                                 "auth", "store"}]
         /\ op' \in [Workers -> {"none", "apikey", "set", "get", "del", "clear"}]
         /\ user' \in [Workers -> Users \cup {NoUser}]
         /\ arg' \in [Workers -> Words] /\ val' \in [Workers -> Words]
         /\ key' \in [Workers -> 0..minted] /\ old' \in [Workers -> 0..minted]
<1> 0 \in Words /\ 0 \in 0..minted BY AccessAssumption DEF Types, Words
<1> QED BY DEF Types, Finish, Goto, Ends, Others

LEMMA StartFacts ==
  ASSUME Types, NEW w \in Workers, NEW o \in {"set", "get", "del", "clear"},
         NEW u \in Users, NEW a \in Words, NEW v \in Words, NEW k \in 0..minted,
         NEW l \in {"check", "auth", "store"}, Start(w, o, u, a, v, k, l)
  PROVE  /\ pc[w] = "idle" /\ pc'[w] = l /\ op'[w] = o /\ user'[w] = u /\ arg'[w] = a
         /\ key'[w] = k /\ old' = old
         /\ UNCHANGED <<redis, minted, told, leaked, cut>> /\ Others(w)
         /\ pc' \in [Workers -> {"idle", "check", "existing", "del", "set", "point",
                                 "auth", "store"}]
         /\ op' \in [Workers -> {"none", "apikey", "set", "get", "del", "clear"}]
         /\ user' \in [Workers -> Users \cup {NoUser}]
         /\ arg' \in [Workers -> Words] /\ val' \in [Workers -> Words]
         /\ key' \in [Workers -> 0..minted]
  BY DEF Types, Start, Goto, Others

LEMMA WrittenWords ==
  ASSUME Types, NEW u \in Users, NEW a \in Written(u)
  PROVE  a \in Words /\ (a \in Keys => a \in told[u])
  BY AccessAssumption DEF Types, Written, Words, Keys

LEMMA ZeroIsAWord == 0 \in Words /\ 0 \notin Keys
  BY AccessAssumption DEF Words, Keys

\* A command or a request is one of these.
LEMMA CommandFacts ==
  ASSUME Types, NEW w \in Workers, NEW u \in Users, Command(w, u)
  PROVE  \E o \in {"set", "get", "del", "clear"}, a \in Words, v \in Words,
            l \in {"check", "store"} :
           /\ Start(w, o, u, a, v, 0, l) /\ (l = "store" => a = 0)
           /\ a \in Keys => a \in told[u]
<1>1. ASSUME NEW a \in Written(u), NEW v \in Written(u), Start(w, "set", u, a, v, 0, "check")
      PROVE  a \in Words /\ v \in Words /\ (a \in Keys => a \in told[u])
  BY WrittenWords
<1>2. ASSUME NEW o \in {"get", "del"}, NEW a \in Written(u), Start(w, o, u, a, 0, 0, "check")
      PROVE  a \in Words /\ (a \in Keys => a \in told[u])
  BY WrittenWords
<1>3. CASE \E a, v \in Written(u) : Start(w, "set", u, a, v, 0, "check") BY <1>1, <1>3
<1>4. CASE \E o \in {"get", "del"}, a \in Written(u) : Start(w, o, u, a, 0, 0, "check")
  BY <1>2, <1>4, ZeroIsAWord
<1>5. CASE Start(w, "clear", u, 0, 0, 0, "store") BY <1>5, ZeroIsAWord
<1> QED BY <1>3, <1>4, <1>5 DEF Command

LEMMA RequestFacts ==
  ASSUME Types, NEW w \in Workers, NEW u \in Users, Request(w, u)
  PROVE  \E o \in {"set", "del"}, a \in Words, v \in Words, k \in 1..minted :
           Start(w, o, u, a, v, k, "auth") /\ (a \in Keys => a \in told[u])
<1>1. PICK k \in 1..minted, a \in Written(u) :
        \/ \E v \in Written(u) : Start(w, "set", u, a, v, k, "auth")
        \/ Start(w, "del", u, a, 0, k, "auth")
  BY DEF Request
<1>2. a \in Words /\ (a \in Keys => a \in told[u]) BY WrittenWords
<1>3. CASE \E v \in Written(u) : Start(w, "set", u, a, v, k, "auth")
  BY <1>2, <1>3, WrittenWords
<1>4. CASE Start(w, "del", u, a, 0, k, "auth") BY <1>2, <1>4, ZeroIsAWord
<1> QED BY <1>1, <1>3, <1>4

LEMMA TypesStep ==
  ASSUME Types, Flow, Next PROVE Types'
<1> USE AccessAssumption DEF Types
<1>1. ASSUME NEW w \in Workers, NEW u \in Users, APIKeyCommand(w, u) PROVE Types'
  <2>1. /\ minted' \in 0..MaxKeys /\ minted' = minted + 1 /\ minted + 1 \in 0..minted'
        /\ overlapped' \subseteq Users
    BY <1>1 DEF APIKeyCommand, Generate
  <2>2. current' \in [Users -> 0..minted'] /\ told' \in [Users -> SUBSET (1..minted')]
    BY <1>1, <2>1 DEF APIKeyCommand, redis
  <2>3. key' \in [Workers -> 0..minted'] /\ old' \in [Workers -> 0..minted']
    BY <1>1, <2>1 DEF APIKeyCommand, Generate
  <2> QED BY <1>1, <2>1, <2>2, <2>3 DEF APIKeyCommand, Generate, Goto, redis
<1>2. ASSUME NEW w \in Workers, NEW u \in Users, Command(w, u) PROVE Types'
  <2>1. ops' \in 0..MaxOps /\ overlapped' = overlapped BY <1>2 DEF Command
  <2>2. 0 \in 0..minted OBVIOUS
  <2>3. PICK o \in {"set", "get", "del", "clear"}, a \in Words, v \in Words,
             l \in {"check", "store"} : Start(w, o, u, a, v, 0, l)
    BY <1>2, CommandFacts
  <2> QED BY <2>1, <2>2, <2>3, StartFacts DEF redis
<1>3. ASSUME NEW w \in Workers, NEW u \in Users, Request(w, u) PROVE Types'
  <2>1. ops' \in 0..MaxOps /\ overlapped' = overlapped BY <1>3 DEF Request
  <2>2. PICK o \in {"set", "del"}, a \in Words, v \in Words, k \in 1..minted :
          Start(w, o, u, a, v, k, "auth")
    BY <1>3, RequestFacts
  <2>3. k \in 0..minted OBVIOUS
  <2> QED BY <2>1, <2>2, <2>3, StartFacts DEF redis
<1>4. ASSUME NEW w \in Workers, Check(w) PROVE Types'
  <2>1. user[w] \in Users BY <1>4 DEF Check, Flow
  <2>2. cut' \subseteq Users BY <1>4, <2>1 DEF Check
  <2>3. PICK c \in Replies(current[user[w]]) :
          \/ Goto(w, "existing") /\ Generate(w, user[w])
          \/ Goto(w, "store") /\ UNCHANGED <<minted, key, overlapped>>
    BY <1>4 DEF Check
  <2>4. CASE Goto(w, "existing") /\ Generate(w, user[w])
    <3>1. /\ minted' \in 0..MaxKeys /\ minted' = minted + 1 /\ minted + 1 \in 0..minted'
          /\ overlapped' \subseteq Users
      BY <2>1, <2>4 DEF Generate
    <3>2. current' \in [Users -> 0..minted'] /\ told' \in [Users -> SUBSET (1..minted')]
      BY <1>4, <3>1 DEF Check, redis
    <3>3. key' \in [Workers -> 0..minted'] /\ old' \in [Workers -> 0..minted']
      BY <1>4, <2>4, <3>1 DEF Check, Generate
    <3> QED BY <1>4, <2>2, <2>4, <3>1, <3>2, <3>3 DEF Check, Goto, redis
  <2>5. CASE Goto(w, "store") /\ UNCHANGED <<minted, key, overlapped>>
    BY <1>4, <2>2, <2>5 DEF Check, Goto, redis
  <2> QED BY <2>3, <2>4, <2>5
<1>5. ASSUME NEW w \in Workers, Existing(w) PROVE Types'
  <2>1. user[w] \in Users BY <1>5 DEF Existing, Flow
  <2>2. PICK c \in Replies(current[user[w]]) :
          /\ old' = [old EXCEPT ![w] = c] /\ Goto(w, IF c = 0 THEN "set" ELSE "del")
          /\ cut' = IF c = current[user[w]] THEN cut ELSE cut \cup {user[w]}
    BY <1>5 DEF Existing
  <2>3. c \in 0..minted BY <2>1 DEF Replies
  <2> QED BY <1>5, <2>1, <2>2, <2>3 DEF Existing, Goto, redis
<1>6. ASSUME NEW w \in Workers, Del(w) \/ Set(w) PROVE Types'
  <2>1. user[w] \in Users BY <1>6 DEF Del, Set, Flow
  <2>2. owner' \in [Keys -> Users \cup {NoUser}] BY <1>6, <2>1 DEF Del, Set, Write
  <2>3. cut' \subseteq Users BY <1>6, <2>1 DEF Del, Set, Write
  <2> QED BY <1>6, <2>2, <2>3 DEF Del, Set, Goto, locals
<1>7. ASSUME NEW w \in Workers, Point(w) PROVE Types'
  <2>1. user[w] \in Users /\ key[w] \in 1..minted BY <1>7 DEF Point, Flow, Busy
  <2>2. current' \in [Users -> 0..minted] /\ cut' \subseteq Users
    BY <1>7, <2>1 DEF Point, Write
  <2>3. told' \in [Users -> SUBSET (1..minted)] BY <1>7, <2>1 DEF Point
  <2>4. leaked' \subseteq Keys BY <1>7 DEF Point
  <2> QED BY <1>7, <2>2, <2>3, <2>4, FinishEnds DEF Point
<1>8. ASSUME NEW w \in Workers, Auth(w) PROVE Types'
  <2>1. UNCHANGED <<redis, minted, told, ops, ghosts>> BY <1>8 DEF Auth
  <2>2. CASE Goto(w, "store") /\ UNCHANGED locals
    BY <2>1, <2>2 DEF Goto, locals, redis, ghosts
  <2>3. CASE Finish(w) BY <2>1, <2>3, FinishEnds DEF redis, ghosts
  <2> QED BY <1>8, <2>2, <2>3 DEF Auth
<1>9. ASSUME NEW w \in Workers, Store(w) PROVE Types'
  <2>1. user[w] \in Users BY <1>9 DEF Store, Flow
  <2>2. Pair(w) \in Pairs BY DEF Pair, Pairs
  <2>3. kv' \in [Users -> SUBSET Pairs]
    <3> DEFINE others == {p \in kv[user[w]] : p.label # arg[w]}
    <3>1. others \subseteq Pairs BY <2>1
    <3>2. \/ kv' = [kv EXCEPT ![user[w]] = others \cup {Pair(w)}]
          \/ kv' = [kv EXCEPT ![user[w]] = others]
          \/ kv' = [kv EXCEPT ![user[w]] = {}]
          \/ kv' = kv
      BY <1>9 DEF Store
    <3> HIDE DEF others
    <3> QED BY <2>1, <2>2, <3>1, <3>2
  <2> QED BY <1>9, <2>3, FinishEnds DEF Store, ghosts
<1>10. CASE Crash
  <2>1. 0 \in Words /\ 0 \in 0..minted BY ZeroIsAWord
  <2> QED BY <1>10, <2>1 DEF Crash, redis
<1> QED BY <1>1, <1>2, <1>3, <1>4, <1>5, <1>6, <1>7, <1>8, <1>9, <1>10 DEF Next

\* Every step is one of these.
LEMMA Steps ==
  ASSUME Types, Flow, Next
  PROVE  \/ \E w \in Workers : Quiet(w) \/ Enter(w) \/ Existing(w) \/ Del(w) \/ Set(w) \/ Point(w)
         \/ Crash
<1>1. ASSUME NEW w \in Workers, NEW u \in Users, APIKeyCommand(w, u) PROVE Enter(w)
  BY <1>1 DEF APIKeyCommand, Generate, Goto, Enter, Others, Types, redis, Busy
<1>2. ASSUME NEW w \in Workers, NEW u \in Users, Command(w, u) PROVE Quiet(w)
  <2>1. /\ pc[w] = "idle" /\ pc'[w] \in {"check", "store"}
        /\ UNCHANGED <<redis, minted, told, leaked, cut, overlapped>> /\ Others(w)
    BY <1>2 DEF Command, Start, Goto, Types, Others
  <2> QED BY <2>1 DEF Quiet, Busy, redis
<1>3. ASSUME NEW w \in Workers, NEW u \in Users, Request(w, u) PROVE Quiet(w)
  <2>1. /\ pc[w] = "idle" /\ pc'[w] = "auth"
        /\ UNCHANGED <<redis, minted, told, leaked, cut, overlapped>> /\ Others(w)
    BY <1>3 DEF Request, Start, Goto, Types, Others
  <2> QED BY <2>1 DEF Quiet, Busy, redis
<1>4. ASSUME NEW w \in Workers, Check(w) PROVE Quiet(w) \/ Enter(w)
  <2>1. PICK c \in Replies(current[user[w]]) :
          /\ \/ c = arg[w] /\ Goto(w, "existing") /\ Generate(w, user[w])
             \/ c # arg[w] /\ Goto(w, "store") /\ UNCHANGED <<minted, key, overlapped>>
          /\ cut' = IF c = current[user[w]] THEN cut ELSE cut \cup {user[w]}
    BY <1>4 DEF Check
  <2>2. /\ pc[w] = "check" /\ user[w] \in Users
        /\ UNCHANGED <<redis, told, ops, op, user, arg, val, old, leaked>>
    BY <1>4 DEF Check, Flow
  <2>3. CASE c = arg[w] /\ Goto(w, "existing") /\ Generate(w, user[w])
    <3>1. arg[w] = current[user[w]] \/ user[w] \in cut' BY <2>1, <2>3
    <3> QED BY <2>1, <2>2, <2>3, <3>1 DEF Generate, Goto, Enter, Others, Types, redis, Busy
  <2>4. CASE Goto(w, "store") /\ UNCHANGED <<minted, key, overlapped>>
    BY <2>1, <2>2, <2>4 DEF Goto, Quiet, Others, Types, redis, Busy
  <2> QED BY <2>1, <2>3, <2>4
<1>5. ASSUME NEW w \in Workers, Auth(w) PROVE Quiet(w)
  <2>1. pc[w] = "auth" /\ UNCHANGED <<redis, minted, told, ops, ghosts>> BY <1>5 DEF Auth
  <2>2. CASE Goto(w, "store") /\ UNCHANGED locals
    BY <2>1, <2>2 DEF Goto, Quiet, Others, Types, redis, ghosts, locals, Busy
  <2>3. CASE Finish(w) BY <2>1, <2>3, FinishEnds DEF Quiet, Ends, redis, ghosts, Busy
  <2> QED BY <1>5, <2>2, <2>3 DEF Auth
<1>6. ASSUME NEW w \in Workers, Store(w) PROVE Quiet(w)
  BY <1>6, FinishEnds DEF Store, Quiet, Ends, ghosts, Busy
<1> QED BY <1>1, <1>2, <1>3, <1>4, <1>5, <1>6 DEF Next

\* The writes of a rotation, with the goroutine's own next state.
LEMMA ExistingFacts ==
  ASSUME Types, Flow, NEW w \in Workers, Existing(w)
  PROVE  /\ UNCHANGED <<redis, minted, told, leaked, overlapped>> /\ Others(w)
         /\ pc[w] = "existing" /\ user[w] \in Users
         /\ op'[w] = op[w] /\ user'[w] = user[w] /\ arg'[w] = arg[w] /\ key'[w] = key[w]
         /\ pc'[w] = IF old'[w] = 0 THEN "set" ELSE "del"
         /\ \/ old'[w] = current[user[w]] /\ cut' = cut
            \/ old'[w] = 0 /\ cut' = cut \cup {user[w]}
<1>1. pc[w] = "existing" /\ user[w] \in Users BY DEF Existing, Flow
<1>2. PICK c \in Replies(current[user[w]]) :
        /\ old' = [old EXCEPT ![w] = c] /\ Goto(w, IF c = 0 THEN "set" ELSE "del")
        /\ cut' = IF c = current[user[w]] THEN cut ELSE cut \cup {user[w]}
  BY DEF Existing
<1>3. c = current[user[w]] \/ c = 0 BY DEF Replies
<1> QED BY <1>1, <1>2, <1>3 DEF Existing, Goto, Others, Types

LEMMA DelSetFacts ==
  ASSUME Types, Flow, NEW w \in Workers, Del(w) \/ Set(w)
  PROVE  /\ UNCHANGED <<current, kv, minted, told, locals, leaked, overlapped>> /\ Others(w)
         /\ user[w] \in Users
         /\ \/ /\ pc[w] = "del" /\ pc'[w] = "set" /\ old[w] \in Keys
               /\ \/ owner' = [owner EXCEPT ![old[w]] = NoUser] /\ cut' = cut
                  \/ owner' = owner /\ cut' = cut \cup {user[w]}
            \/ /\ pc[w] = "set" /\ pc'[w] = "point" /\ key[w] \in Keys
               /\ \/ owner' = [owner EXCEPT ![key[w]] = user[w]] /\ cut' = cut
                  \/ owner' = owner /\ cut' = cut \cup {user[w]}
<1>1. Busy(w) /\ user[w] \in Users BY DEF Del, Set, Busy, Flow
<1>2. pc[w] = "del" => old[w] \in Keys BY AccessAssumption DEF Types, Flow, Keys
<1>3. key[w] \in Keys BY <1>1, AccessAssumption DEF Types, Flow, Keys
<1> QED BY <1>1, <1>2, <1>3 DEF Del, Set, Write, Goto, Others, Types, locals

LEMMA PointFacts ==
  ASSUME Types, Flow, NEW w \in Workers, Point(w)
  PROVE  /\ UNCHANGED <<owner, kv, minted, overlapped>> /\ Ends(w)
         /\ pc[w] = "point" /\ user[w] \in Users /\ key[w] \in Keys
         /\ \/ current' = [current EXCEPT ![user[w]] = key[w]] /\ cut' = cut
            \/ current' = current /\ cut' = cut \cup {user[w]}
         /\ told' \in {told, [told EXCEPT ![user[w]] = @ \cup {key[w]}]}
         /\ leaked' = leaked \cup (IF op[w] = "apikey" THEN {} ELSE {arg[w]} \cap Keys)
<1>1. user[w] \in Users /\ key[w] \in Keys
  BY AccessAssumption DEF Point, Busy, Flow, Types, Keys
<1> QED BY <1>1, FinishEnds DEF Point, Write

LEMMA FlowStep ==
  ASSUME Types, Flow, Next PROVE Flow'
<1> DEFINE Of(w) ==
      /\ IF pc[w] = "idle" THEN arg[w] = 0 ELSE user[w] \in Users
      /\ Busy(w) => key[w] # 0
      /\ pc[w] = "del" => old[w] # 0
      /\ ~Busy(w) => old[w] = 0
      /\ pc[w] = "auth" => key[w] # 0
      /\ pc[w] \in {"check", "auth", "store"} => op[w] \in {"set", "get", "del", "clear"}
      /\ arg[w] \in Keys => arg[w] \in told[user[w]]
<1> SUFFICES ASSUME NEW x \in Workers PROVE Of(x)' BY DEF Flow
<1>1. Of(x) BY DEF Flow
<1>2. ASSUME NEW w \in Workers, Others(w), w # x,
             \A u \in Users : told[u] \subseteq told'[u]
      PROVE  Of(x)'
  <2>1. arg[x] = 0 => arg[x] \notin Keys BY DEF Keys
  <2> QED BY <1>1, <1>2, <2>1 DEF Others, Busy
<1>3. ASSUME Ends(x) PROVE Of(x)'
  <2>1. 0 \notin Keys BY DEF Keys
  <2> QED BY <1>3, <2>1 DEF Ends, Busy
<1>4. ASSUME NEW w \in Workers, NEW u \in Users, APIKeyCommand(w, u) PROVE Of(x)'
  <2>1. Enter(w) /\ pc[w] = "idle" /\ op'[w] = "apikey"
    BY <1>4 DEF APIKeyCommand, Generate, Goto, Enter, Others, Types, redis, Busy
  <2>2. CASE w # x BY <1>2, <2>1, <2>2 DEF Enter
  <2>3. CASE w = x
    <3>1. key'[x] # 0 BY <2>1, <2>3, AccessAssumption DEF Enter, Types
    <3>2. arg'[x] = 0 /\ 0 \notin Keys BY <1>1, <2>1, <2>3 DEF Enter, Keys
    <3> QED BY <2>1, <2>3, <3>1, <3>2 DEF Enter, Busy
  <2> QED BY <2>2, <2>3
<1>5. ASSUME NEW w \in Workers, NEW u \in Users, Command(w, u) PROVE Of(x)'
  <2>1. told' = told /\ Others(w) BY <1>5 DEF Command, Start, Goto, Types, Others
  <2>2. CASE w # x BY <1>2, <2>1, <2>2
  <2>3. CASE w = x
    <3>1. PICK o \in {"set", "get", "del", "clear"}, a \in Words, v \in Words,
               l \in {"check", "store"} :
            Start(x, o, u, a, v, 0, l) /\ (a \in Keys => a \in told[u])
      BY <1>5, <2>3, CommandFacts
    <3>2. /\ pc'[x] \in {"check", "store"} /\ op'[x] = o /\ user'[x] = u /\ arg'[x] = a
          /\ pc[x] = "idle" /\ old'[x] = old[x]
      BY <3>1 DEF Start, Goto, Types
    <3> QED BY <1>1, <2>1, <3>1, <3>2 DEF Busy
  <2> QED BY <2>2, <2>3
<1>6. ASSUME NEW w \in Workers, NEW u \in Users, Request(w, u) PROVE Of(x)'
  <2>1. told' = told /\ Others(w) BY <1>6 DEF Request, Start, Goto, Types, Others
  <2>2. CASE w # x BY <1>2, <2>1, <2>2
  <2>3. CASE w = x
    <3>1. PICK o \in {"set", "del"}, a \in Words, v \in Words, k \in 1..minted :
            Start(x, o, u, a, v, k, "auth") /\ (a \in Keys => a \in told[u])
      BY <1>6, <2>3, RequestFacts
    <3>2. /\ pc'[x] = "auth" /\ op'[x] = o /\ user'[x] = u /\ arg'[x] = a
          /\ key'[x] = k /\ k # 0 /\ pc[x] = "idle" /\ old'[x] = old[x]
      BY <3>1 DEF Start, Goto, Types
    <3> QED BY <1>1, <2>1, <3>1, <3>2 DEF Busy
  <2> QED BY <2>2, <2>3
<1>7. ASSUME NEW w \in Workers, Check(w) PROVE Of(x)'
  <2>1. /\ pc[w] = "check" /\ UNCHANGED <<told, op, user, arg, old>>
        /\ pc'[w] \in {"existing", "store"}
        /\ pc'[w] = "existing" => key'[w] = minted + 1
        /\ Others(w)
    BY <1>7 DEF Check, Goto, Generate, Types, Others
  <2>2. CASE w # x BY <1>2, <2>1, <2>2
  <2>3. CASE w = x
    <3>1. minted + 1 # 0 BY AccessAssumption DEF Types
    <3> QED BY <1>1, <2>1, <2>3, <3>1 DEF Busy
  <2> QED BY <2>2, <2>3
<1>8. ASSUME NEW w \in Workers, Existing(w) PROVE Of(x)'
  <2>1. CASE w # x BY <1>2, <1>8, <2>1, ExistingFacts
  <2>2. CASE w = x BY <1>1, <1>8, <2>2, ExistingFacts DEF Busy
  <2> QED BY <2>1, <2>2
<1>9. ASSUME NEW w \in Workers, Del(w) \/ Set(w) PROVE Of(x)'
  <2>1. CASE w # x BY <1>2, <1>9, <2>1, DelSetFacts
  <2>2. CASE w = x BY <1>1, <1>9, <2>2, DelSetFacts DEF Busy, locals
  <2> QED BY <2>1, <2>2
<1>10. ASSUME NEW w \in Workers, Point(w) PROVE Of(x)'
  <2>1. \A u \in Users : told[u] \subseteq told'[u]
    BY <1>10, PointFacts DEF Types
  <2>2. CASE w # x BY <1>2, <1>10, <2>1, <2>2, PointFacts DEF Ends
  <2>3. CASE w = x BY <1>3, <1>10, <2>3, PointFacts
  <2> QED BY <2>2, <2>3
<1>11. ASSUME NEW w \in Workers, Auth(w) PROVE Of(x)'
  <2>1. pc[w] = "auth" /\ told' = told BY <1>11 DEF Auth
  <2>2. CASE Goto(w, "store") /\ UNCHANGED locals
    <3>1. CASE w # x BY <1>2, <2>1, <2>2, <3>1 DEF Goto, locals, Others, Types
    <3>2. CASE w = x BY <1>1, <2>1, <2>2, <3>2 DEF Goto, locals, Types, Busy
    <3> QED BY <3>1, <3>2
  <2>3. CASE Finish(w)
    <3>1. CASE w # x BY <1>2, <2>1, <2>3, <3>1, FinishEnds DEF Ends
    <3>2. CASE w = x BY <1>3, <2>3, <3>2, FinishEnds
    <3> QED BY <3>1, <3>2
  <2> QED BY <1>11, <2>2, <2>3 DEF Auth
<1>12. ASSUME NEW w \in Workers, Store(w) PROVE Of(x)'
  <2>1. Ends(w) /\ told' = told BY <1>12, FinishEnds DEF Store
  <2>2. CASE w # x BY <1>2, <2>1, <2>2 DEF Ends
  <2>3. CASE w = x BY <1>3, <2>1, <2>3
  <2> QED BY <2>2, <2>3
<1>13. CASE Crash
  <2>1. pc'[x] = "idle" /\ arg'[x] = 0 /\ old'[x] = 0 BY <1>13 DEF Crash
  <2>2. 0 \notin Keys BY DEF Keys
  <2> QED BY <2>1, <2>2 DEF Busy
<1> QED BY <1>4, <1>5, <1>6, <1>7, <1>8, <1>9, <1>10, <1>11, <1>12, <1>13 DEF Next

-----------------------------------------------------------------------------
(* What holds always. *)

\* Fresh, about one key and about one rotation.
KeyFresh(w) ==
  Busy(w) =>
    /\ \A u \in Users : key[w] # current[u] /\ key[w] \notin told[u]
    /\ \A x \in Workers : Busy(x) => key[w] # old[x] /\ (x # w => key[w] # key[x])
    /\ pc[w] # "point" => owner[key[w]] = NoUser

LEMMA FreshStep ==
  ASSUME Base, Next PROVE Fresh'
<1> USE DEF Base
<1>1. /\ minted \in Nat /\ \A u \in Users : current[u] \in 0..minted /\ told[u] \subseteq 1..minted
      /\ \A w \in Workers : key[w] \in 0..minted /\ old[w] \in 0..minted
  BY AccessAssumption DEF Types
<1>2. \A k \in Keys : owner[k] # NoUser => k <= minted BY DEF Fresh
<1>3. \A w \in Workers : KeyFresh(w) BY DEF Fresh, KeyFresh
<1>4. ASSUME NEW w \in Workers, Quiet(w) PROVE Fresh'
  <2>1. \A x \in Workers : /\ Busy(x)' = Busy(x)
                           /\ Busy(x) => key'[x] = key[x] /\ old'[x] = old[x] /\ pc'[x] = pc[x]
    BY <1>4 DEF Quiet, Others, Busy
  <2> QED BY <1>2, <1>3, <1>4, <2>1 DEF Quiet, Fresh, KeyFresh
<1>5. ASSUME NEW w \in Workers, Enter(w) PROVE Fresh'
  <2>1. \A x \in Workers \ {w} :
          Busy(x)' = Busy(x) /\ key'[x] = key[x] /\ old'[x] = old[x] /\ pc'[x] = pc[x]
    BY <1>5 DEF Enter, Others, Busy
  <2>2. /\ key'[w] = minted + 1 /\ old'[w] = old[w] /\ minted' = minted + 1 /\ ~Busy(w)
        /\ UNCHANGED <<owner, current, told>> /\ minted + 1 \in Keys /\ old[w] = 0
    BY <1>1, <1>5, AccessAssumption DEF Enter, Types, Keys, Flow
  <2>3. \A k \in Keys : owner'[k] # NoUser => k <= minted'
    BY <1>1, <1>2, <2>2, AccessAssumption DEF Keys
  <2>4. ASSUME NEW x \in Workers, Busy(x)' PROVE KeyFresh(x)'
    <3>1. CASE x = w
      <4>1. \A u \in Users : key'[w] # current'[u] /\ key'[w] \notin told'[u]
        BY <1>1, <2>2
      <4>2. \A y \in Workers : key'[w] # old'[y] /\ (y # w => key'[w] # key'[y])
        BY <1>1, <2>1, <2>2
      <4>3. owner'[key'[w]] = NoUser BY <1>1, <1>2, <2>2
      <4> QED BY <3>1, <4>1, <4>2, <4>3 DEF KeyFresh
    <3>2. CASE x # w
      <4>1. Busy(x) /\ KeyFresh(x) /\ key'[x] = key[x] /\ pc'[x] = pc[x]
        BY <1>3, <2>1, <2>4, <3>2
      <4>2. key[x] # 0 BY <4>1 DEF Flow
      <4>3. ASSUME NEW y \in Workers, Busy(y)'
            PROVE  key'[x] # old'[y] /\ (y # x => key'[x] # key'[y])
        <5>1. CASE y # w BY <2>1, <3>2, <4>1, <4>3, <5>1 DEF KeyFresh
        <5>2. CASE y = w
          <6>1. key'[x] # key'[w] BY <1>1, <2>2, <4>1
          <6> QED BY <2>2, <4>1, <4>2, <5>2, <6>1
        <5> QED BY <5>1, <5>2
      <4> QED BY <2>2, <4>1, <4>3 DEF KeyFresh
    <3> QED BY <3>1, <3>2
  <2> QED BY <2>3, <2>4 DEF Fresh, KeyFresh
<1>6. ASSUME NEW w \in Workers, Existing(w) PROVE Fresh'
  <2>1. /\ UNCHANGED <<owner, current, minted, told>> /\ user[w] \in Users
        /\ Busy(w) /\ Busy(w)' /\ pc[w] # "point" /\ key'[w] = key[w]
        /\ old'[w] = current[user[w]] \/ old'[w] = 0
    BY <1>6, ExistingFacts DEF redis, Busy
  <2>2. \A x \in Workers \ {w} :
          Busy(x)' = Busy(x) /\ key'[x] = key[x] /\ old'[x] = old[x] /\ pc'[x] = pc[x]
    BY <1>6, ExistingFacts DEF Others, Busy
  <2>3. \A x \in Workers : Busy(x) => key[x] # 0 BY DEF Flow
  <2>4. \A x \in Workers : Busy(x) => key'[x] # old'[w] BY <1>3, <2>1, <2>2, <2>3 DEF KeyFresh
  <2>5. ASSUME NEW x \in Workers PROVE KeyFresh(x)'
    BY <1>3, <2>1, <2>2, <2>4 DEF KeyFresh
  <2> QED BY <1>2, <2>1, <2>5 DEF Fresh, KeyFresh
<1>7. ASSUME NEW w \in Workers, Del(w) \/ Set(w) PROVE Fresh'
  <2>1. /\ UNCHANGED <<current, minted, told, key, old>> /\ user[w] \in Users
        /\ Busy(w) /\ Busy(w)' /\ pc[w] # "point"
    BY <1>7, DelSetFacts DEF locals, Busy
  <2>2. \A x \in Workers \ {w} : Busy(x)' = Busy(x) /\ pc'[x] = pc[x]
    BY <1>7, DelSetFacts DEF Others, Busy
  <2>3. CASE pc'[w] = "set"
    <3>1. \A k \in Keys : owner'[k] = owner[k] \/ owner'[k] = NoUser
      BY <1>7, <2>3, DelSetFacts DEF Types
    <3>2. \A x \in Workers : Busy(x) => key[x] \in Keys BY <1>1, AccessAssumption DEF Flow, Keys, Types
    <3>3. \A k \in Keys : owner'[k] # NoUser => k <= minted' BY <1>2, <2>1, <3>1
    <3>4. ASSUME NEW x \in Workers PROVE KeyFresh(x)'
      <4>1. CASE x = w BY <1>3, <2>1, <2>2, <3>1, <3>2, <4>1 DEF KeyFresh
      <4>2. CASE x # w BY <1>3, <2>1, <2>2, <3>1, <3>2, <4>2 DEF KeyFresh
      <4> QED BY <4>1, <4>2
    <3> QED BY <3>3, <3>4 DEF Fresh, KeyFresh
  <2>4. CASE pc'[w] = "point"
    <3>1. /\ key[w] \in Keys /\ \A k \in Keys \ {key[w]} : owner'[k] = owner[k]
      BY <1>7, <2>4, DelSetFacts DEF Types
    <3>2. \A x \in Workers : Busy(x) => key[x] \in Keys BY <1>1, AccessAssumption DEF Flow, Keys, Types
    <3>3. \A k \in Keys : owner'[k] # NoUser => k <= minted'
      BY <1>1, <1>2, <2>1, <3>1, AccessAssumption DEF Keys
    <3>4. ASSUME NEW x \in Workers PROVE KeyFresh(x)'
      <4>1. CASE x = w BY <1>3, <2>1, <2>2, <2>4, <4>1 DEF KeyFresh
      <4>2. CASE x # w BY <1>3, <2>1, <2>2, <3>1, <3>2, <4>2 DEF KeyFresh
      <4> QED BY <4>1, <4>2
    <3> QED BY <3>3, <3>4 DEF Fresh, KeyFresh
  <2> QED BY <1>7, <2>3, <2>4, DelSetFacts
<1>8. ASSUME NEW w \in Workers, Point(w) PROVE Fresh'
  <2>1. UNCHANGED <<owner, minted>> /\ Busy(w) /\ ~Busy(w)' /\ user[w] \in Users
    BY <1>8, PointFacts DEF Ends, Busy
  <2>2. \A x \in Workers \ {w} :
          Busy(x)' = Busy(x) /\ key'[x] = key[x] /\ old'[x] = old[x] /\ pc'[x] = pc[x]
    BY <1>8, PointFacts DEF Ends, Others, Busy
  <2>3. \A u \in Users : /\ current'[u] = current[u] \/ current'[u] = key[w]
                         /\ told'[u] \subseteq told[u] \cup {key[w]}
    BY <1>8, PointFacts DEF Types
  <2>4. ASSUME NEW x \in Workers PROVE KeyFresh(x)'
    <3>1. CASE x = w BY <2>1, <3>1 DEF KeyFresh
    <3>2. CASE x # w BY <1>3, <2>1, <2>2, <2>3, <3>2 DEF KeyFresh
    <3> QED BY <3>1, <3>2
  <2> QED BY <1>2, <2>1, <2>4 DEF Fresh, KeyFresh
<1>9. CASE Crash
  <2>1. \A x \in Workers : ~Busy(x)' BY <1>9 DEF Crash, Busy
  <2> QED BY <1>2, <1>9, <2>1 DEF Crash, Fresh, redis
<1> QED BY <1>4, <1>5, <1>6, <1>7, <1>8, <1>9, Steps

\* Own, about two users.
Apart(u, v) ==
  /\ current[u] # 0 => current[u] # current[v] /\ current[u] \notin told[v]
  /\ \A x \in Workers : (Busy(x) /\ user[x] = u /\ old[x] # 0) => old[x] # current[v]

LEMMA OwnStep ==
  ASSUME Base, Next PROVE Own'
<1> USE DEF Base
<1>1. SUFFICES ASSUME NEW u \in Users, NEW v \in Users, u # v PROVE Apart(u, v)'
  BY DEF Own, Rotating, Busy, Apart
<1>2. Apart(u, v) /\ Apart(v, u) BY <1>1 DEF Own, Rotating, Busy, Apart
<1>3. ASSUME NEW w \in Workers, Quiet(w) PROVE Apart(u, v)'
  BY <1>2, <1>3 DEF Quiet, Others, Busy, Apart
<1>4. ASSUME NEW w \in Workers, Enter(w) PROVE Apart(u, v)'
  <2>1. old'[w] = 0 BY <1>4 DEF Enter, Flow
  <2> QED BY <1>2, <1>4, <2>1 DEF Enter, Others, Busy, Apart
<1>5. ASSUME NEW w \in Workers, Existing(w) PROVE Apart(u, v)'
  <2>1. UNCHANGED <<current, told>> /\ Others(w) /\ user'[w] = user[w] /\ Busy(w)
    BY <1>5, ExistingFacts DEF redis, Busy
  <2>2. old'[w] = current[user[w]] \/ old'[w] = 0 BY <1>5, ExistingFacts
  <2> QED BY <1>2, <2>1, <2>2 DEF Others, Busy, Apart
<1>6. ASSUME NEW w \in Workers, Del(w) \/ Set(w) PROVE Apart(u, v)'
  <2>1. UNCHANGED <<current, told, user, old>> /\ Others(w) /\ Busy(w)
    BY <1>6, DelSetFacts DEF locals, Busy
  <2> QED BY <1>2, <2>1 DEF Others, Busy, Apart
<1>7. ASSUME NEW w \in Workers, Point(w) PROVE Apart(u, v)'
  <2>1. Others(w) /\ Busy(w) /\ ~Busy(w)' /\ user[w] \in Users
    BY <1>7, PointFacts DEF Ends, Busy
  <2>2. /\ \A a \in Users : key[w] # current[a] /\ key[w] \notin told[a]
        /\ \A x \in Workers : Busy(x) => key[w] # old[x]
    BY <2>1 DEF Fresh
  <2>3. \A a \in Users : /\ current'[a] = current[a] \/ (a = user[w] /\ current'[a] = key[w])
                         /\ told'[a] = told[a] \/ (a = user[w] /\ told'[a] = told[a] \cup {key[w]})
    BY <1>7, PointFacts DEF Types
  <2>4. current'[u] # 0 => current'[u] # current'[v]
    <3>1. CASE user[w] = u BY <1>1, <1>2, <2>2, <2>3, <3>1 DEF Apart
    <3>2. CASE user[w] = v BY <1>1, <1>2, <2>2, <2>3, <3>2 DEF Apart
    <3>3. CASE user[w] # u /\ user[w] # v BY <1>2, <2>3, <3>3 DEF Apart
    <3> QED BY <3>1, <3>2, <3>3
  <2>5. current'[u] # 0 => current'[u] \notin told'[v]
    <3>1. CASE user[w] = u BY <1>1, <1>2, <2>2, <2>3, <3>1 DEF Apart
    <3>2. CASE user[w] = v BY <1>1, <1>2, <2>2, <2>3, <3>2 DEF Apart
    <3>3. CASE user[w] # u /\ user[w] # v BY <1>2, <2>3, <3>3 DEF Apart
    <3> QED BY <3>1, <3>2, <3>3
  <2>6. ASSUME NEW x \in Workers, Busy(x)', user'[x] = u, old'[x] # 0
        PROVE  old'[x] # current'[v]
    <3>1. x # w /\ Busy(x) /\ user[x] = u /\ old'[x] = old[x]
      BY <2>1, <2>6 DEF Others, Busy
    <3> QED BY <1>2, <2>2, <2>3, <2>6, <3>1 DEF Apart
  <2> QED BY <2>4, <2>5, <2>6 DEF Apart
<1>8. CASE Crash BY <1>2, <1>8 DEF Crash, redis, Busy, Apart
<1> QED BY <1>3, <1>4, <1>5, <1>6, <1>7, <1>8, Steps

-----------------------------------------------------------------------------
(* What holds of users whose rotations were not cut short. *)

\* Works, about one user.
WorksFor(u) ==
  /\ (current[u] # 0 /\ owner[current[u]] # u) =>
       \E w \in Workers : user[w] = u /\ pc[w] \in {"set", "point"}
  /\ \A w \in Workers : (pc[w] = "point" /\ user[w] = u) => owner[key[w]] = u

LEMMA WorksStep ==
  ASSUME Base, Works, Next PROVE Works'
<1> USE DEF Base
<1>1. cut \subseteq cut' BY Steps, ExistingFacts, DelSetFacts, PointFacts DEF Quiet, Enter, Crash
<1>2. SUFFICES ASSUME NEW u \in Users, u \notin cut' PROVE WorksFor(u)'
  BY DEF Works, WorksFor, Rotating
<1>3. WorksFor(u) BY <1>1, <1>2 DEF Works, WorksFor, Rotating
<1>4. /\ \A a \in Users : current[a] # 0 => current[a] \in Keys
      /\ \A x \in Workers : Busy(x) => key[x] \in Keys
  BY AccessAssumption DEF Types, Flow, Keys
<1>5. ASSUME NEW w \in Workers, Quiet(w) PROVE WorksFor(u)'
  BY <1>3, <1>5 DEF Quiet, Others, Busy, WorksFor
<1>6. ASSUME NEW w \in Workers, Enter(w) PROVE WorksFor(u)'
  BY <1>3, <1>6 DEF Enter, Others, Busy, WorksFor
<1>7. ASSUME NEW w \in Workers, Existing(w) PROVE WorksFor(u)'
  <2>1. /\ UNCHANGED <<owner, current>> /\ Others(w) /\ pc[w] = "existing"
        /\ user'[w] = user[w] /\ pc'[w] \in {"set", "del"}
    BY <1>7, ExistingFacts DEF redis
  <2> QED BY <1>3, <2>1 DEF Others, WorksFor
<1>8. ASSUME NEW w \in Workers, Del(w) \/ Set(w) PROVE WorksFor(u)'
  <2>1. /\ UNCHANGED <<current, user, key>> /\ Others(w) /\ Busy(w) /\ user[w] \in Users
    BY <1>8, DelSetFacts DEF locals, Busy
  <2>2. CASE user[w] = u
    <3>1. cut' = cut \/ u \in cut' BY <1>8, <2>2, DelSetFacts
    <3>2. CASE pc[w] = "del" /\ pc'[w] = "set"
      <4>1. /\ \A x \in Workers : pc'[x] = "point" => pc[x] = "point"
            /\ \A x \in Workers : pc[x] \in {"set", "point"} => pc'[x] \in {"set", "point"}
        BY <2>1, <3>2 DEF Others
      <4>2. \A x \in Workers : Busy(x) => key[x] # old[w] BY <2>1 DEF Fresh
      <4>3. \A k \in Keys : k # old[w] => owner'[k] = owner[k]
        BY <1>8, <3>2, DelSetFacts DEF Types
      <4>4. \E x \in Workers : user'[x] = u /\ pc'[x] \in {"set", "point"}
        BY <2>1, <2>2, <3>2
      <4>5. \A x \in Workers : (pc'[x] = "point" /\ user'[x] = u) => owner'[key'[x]] = u
        BY <1>3, <1>4, <2>1, <4>1, <4>2, <4>3 DEF WorksFor, Busy
      <4> QED BY <4>4, <4>5 DEF WorksFor
    <3>3. CASE pc[w] = "set" /\ pc'[w] = "point"
      <4>1. owner' = [owner EXCEPT ![key[w]] = u] BY <1>2, <1>8, <2>2, <3>3, DelSetFacts
      <4>2. \E x \in Workers : user'[x] = u /\ pc'[x] \in {"set", "point"}
        BY <2>1, <2>2, <3>3
      <4>3. ASSUME NEW x \in Workers, pc'[x] = "point", user'[x] = u PROVE owner'[key'[x]] = u
        <5>1. CASE x = w BY <1>4, <2>1, <4>1, <5>1 DEF Types
        <5>2. CASE x # w BY <1>3, <1>4, <2>1, <4>1, <4>3, <5>2 DEF Types, Others, WorksFor, Busy
        <5> QED BY <5>1, <5>2
      <4> QED BY <4>2, <4>3 DEF WorksFor
    <3> QED BY <1>8, <3>2, <3>3, DelSetFacts
  <2>3. CASE user[w] # u
    <3>1. \A x \in Workers : user[x] = u => pc'[x] = pc[x] BY <2>1, <2>3 DEF Others
    <3>2. \A x \in Workers : Busy(x) => key[x] # old[w] /\ (x # w => key[x] # key[w])
      BY <2>1 DEF Fresh
    <3>3. /\ current[u] # 0 => current[u] # key[w]
          /\ (old[w] # 0 /\ current[u] # 0) => current[u] # old[w]
      BY <2>1, <2>3 DEF Fresh, Own, Rotating, Busy
    <3>4. \A k \in Keys : (k # key[w] /\ (old[w] # 0 => k # old[w])) => owner'[k] = owner[k]
      <4>1. 0 \notin Keys BY DEF Keys
      <4> QED BY <1>8, <4>1, DelSetFacts DEF Types
    <3>5. current[u] # 0 => owner'[current[u]] = owner[current[u]]
      BY <1>4, <3>3, <3>4
    <3>6. \A x \in Workers : (Busy(x) /\ user[x] = u) => owner'[key[x]] = owner[key[x]]
      BY <1>4, <2>3, <3>2, <3>4
    <3> QED BY <1>3, <2>1, <3>1, <3>5, <3>6 DEF WorksFor, Busy
  <2> QED BY <2>2, <2>3
<1>9. ASSUME NEW w \in Workers, Point(w) PROVE WorksFor(u)'
  <2>1. UNCHANGED owner /\ Others(w) /\ pc[w] = "point" /\ pc'[w] = "idle" /\ user[w] \in Users
    BY <1>9, PointFacts DEF Ends
  <2>2. \A x \in Workers : (pc'[x] = "point" /\ user'[x] = u) => owner'[key'[x]] = u
    BY <1>3, <2>1 DEF Others, WorksFor
  <2>3. CASE user[w] = u
    <3>1. current'[u] = key[w] BY <1>2, <1>9, <2>3, PointFacts DEF Types
    <3>2. owner'[current'[u]] = u BY <1>3, <2>1, <2>3, <3>1 DEF WorksFor
    <3> QED BY <2>2, <3>2 DEF WorksFor
  <2>4. CASE user[w] # u
    <3>1. current'[u] = current[u] BY <1>9, <2>4, PointFacts DEF Types
    <3>2. \A x \in Workers : user[x] = u => pc'[x] = pc[x] /\ user'[x] = u
      BY <2>1, <2>4 DEF Others
    <3> QED BY <1>3, <2>1, <2>2, <3>1, <3>2 DEF WorksFor
  <2> QED BY <2>3, <2>4
<1>10. CASE Crash
  <2>1. Rotating(u) = {} BY <1>2, <1>10 DEF Crash
  <2>2. \A x \in Workers : pc'[x] = "idle" BY <1>10 DEF Crash
  <2>3. UNCHANGED <<owner, current>> BY <1>10 DEF Crash, redis
  <2> QED BY <1>3, <2>1, <2>2, <2>3 DEF WorksFor, Rotating
<1> QED BY <1>5, <1>6, <1>7, <1>8, <1>9, <1>10, Steps

-----------------------------------------------------------------------------
(* What holds of users whose rotations did not overlap either. *)

LEMMA GhostsGrow ==
  ASSUME Types, Flow, Next
  PROVE  cut \subseteq cut' /\ overlapped \subseteq overlapped'
<1>1. ASSUME NEW w \in Workers, Quiet(w) \/ Enter(w)
      PROVE  cut \subseteq cut' /\ overlapped \subseteq overlapped'
  BY <1>1 DEF Quiet, Enter
<1>2. ASSUME NEW w \in Workers, Existing(w)
      PROVE  cut \subseteq cut' /\ overlapped \subseteq overlapped'
  BY <1>2, ExistingFacts
<1>3. ASSUME NEW w \in Workers, Del(w) \/ Set(w)
      PROVE  cut \subseteq cut' /\ overlapped \subseteq overlapped'
  BY <1>3, DelSetFacts
<1>4. ASSUME NEW w \in Workers, Point(w)
      PROVE  cut \subseteq cut' /\ overlapped \subseteq overlapped'
  BY <1>4, PointFacts
<1>5. CASE Crash BY <1>5 DEF Crash
<1> QED BY <1>1, <1>2, <1>3, <1>4, <1>5, Steps

\* Single, about one user: one rotation at a time, ...
SoloFor(u) ==
  \A w, x \in Workers : (Busy(w) /\ user[w] = u /\ Busy(x) /\ user[x] = u) => w = x

\* ... and only its key and the current one, which it removes, are accepted.
CalmFor(u) ==
  /\ \A k \in Keys : owner[k] = u =>
       k = current[u] \/ \E w \in Workers : user[w] = u /\ pc[w] = "point" /\ k = key[w]
  /\ \A w \in Workers : user[w] = u =>
       /\ pc[w] = "del" => old[w] = current[u]
       /\ (pc[w] \in {"set", "point"} /\ current[u] \in Keys) => owner[current[u]] # u

LEMMA SingleFor ==
  Single <=> /\ \A u \in Users \ overlapped : SoloFor(u)
             /\ \A u \in Calm : CalmFor(u)
  BY DEF Single, SoloFor, CalmFor, Accepted, Rotating, Busy

LEMMA SoloStep ==
  ASSUME Base, NEW u \in Users, SoloFor(u), u \notin overlapped', Next
  PROVE  SoloFor(u)'
<1> USE DEF Base
<1>1. ASSUME NEW w \in Workers, Others(w), user'[w] = user[w], Busy(w) PROVE SoloFor(u)'
  BY <1>1 DEF Others, Busy, SoloFor
<1>2. ASSUME NEW w \in Workers, Others(w), ~Busy(w)' PROVE SoloFor(u)'
  BY <1>2 DEF Others, Busy, SoloFor
<1>3. ASSUME NEW w \in Workers, Quiet(w) PROVE SoloFor(u)' BY <1>2, <1>3 DEF Quiet
<1>4. ASSUME NEW w \in Workers, Enter(w) PROVE SoloFor(u)'
  <2>1. CASE user'[w] = u
    <3>1. Rotating(u) = {} BY <1>4, <2>1 DEF Enter
    <3> QED BY <1>4, <3>1 DEF Enter, Others, Rotating, Busy, SoloFor
  <2>2. CASE user'[w] # u BY <1>4, <2>2 DEF Enter, Others, Busy, SoloFor
  <2> QED BY <2>1, <2>2
<1>5. ASSUME NEW w \in Workers, Existing(w) PROVE SoloFor(u)'
  BY <1>1, <1>5, ExistingFacts DEF Busy
<1>6. ASSUME NEW w \in Workers, Del(w) \/ Set(w) PROVE SoloFor(u)'
  BY <1>1, <1>6, DelSetFacts DEF Busy, locals
<1>7. ASSUME NEW w \in Workers, Point(w) PROVE SoloFor(u)'
  BY <1>2, <1>7, PointFacts DEF Ends, Busy
<1>8. CASE Crash BY <1>8 DEF Crash, Busy, SoloFor
<1> QED BY <1>3, <1>4, <1>5, <1>6, <1>7, <1>8, Steps

LEMMA CalmStep ==
  ASSUME Base, NEW u \in Users, u \notin cut' \cup overlapped', SoloFor(u), CalmFor(u), Next
  PROVE  CalmFor(u)'
<1> USE DEF Base
<1>1. ASSUME UNCHANGED <<owner, current>>, NEW w \in Workers, Others(w),
             pc[w] # "point", pc'[w] \notin {"del", "set", "point"}
      PROVE  CalmFor(u)'
  BY <1>1 DEF Others, CalmFor
<1>2. ASSUME NEW w \in Workers, Quiet(w) PROVE CalmFor(u)'
  BY <1>1, <1>2 DEF Quiet, Busy
<1>3. ASSUME NEW w \in Workers, Enter(w) PROVE CalmFor(u)'
  BY <1>1, <1>3 DEF Enter, Busy
<1>4. ASSUME NEW w \in Workers, Existing(w) PROVE CalmFor(u)'
  <2>1. /\ UNCHANGED <<owner, current>> /\ Others(w) /\ pc[w] = "existing"
        /\ user'[w] = user[w] /\ key'[w] = key[w] /\ pc'[w] \in {"set", "del"}
    BY <1>4, ExistingFacts DEF redis
  <2>2. user[w] = u => /\ old'[w] = current[u]
                       /\ pc'[w] = IF current[u] = 0 THEN "set" ELSE "del"
    BY <1>4, ExistingFacts
  <2>3. 0 \notin Keys BY DEF Keys
  <2> QED BY <2>1, <2>2, <2>3 DEF Others, CalmFor
<1>5. ASSUME NEW w \in Workers, Del(w) \/ Set(w) PROVE CalmFor(u)'
  <2>1. /\ UNCHANGED <<current, user, key, old>> /\ Others(w) /\ Busy(w) /\ user[w] \in Users
    BY <1>5, DelSetFacts DEF locals, Busy
  <2>2. CASE user[w] = u /\ pc[w] = "del"
    <3>1. /\ owner' = [owner EXCEPT ![old[w]] = NoUser] /\ pc'[w] = "set" /\ old[w] \in Keys
      BY <1>5, <2>2, DelSetFacts
    <3>2. old[w] = current[u] BY <2>2 DEF CalmFor
    <3>3. NoUser # u BY AccessAssumption DEF NoUser
    <3>4. \A k \in Keys : owner'[k] = u => owner[k] = u /\ k # current[u]
      BY <3>1, <3>2, <3>3 DEF Types
    <3>5. \A x \in Workers : user[x] = u => pc[x] # "point" \/ x = w
      BY <2>1, <2>2 DEF SoloFor, Busy
    <3>6. \A k \in Keys : owner'[k] # u BY <2>2, <3>4, <3>5 DEF CalmFor
    <3>7. \A x \in Workers : user'[x] = u => pc'[x] # "del"
      BY <2>1, <2>2, <3>1 DEF Others, SoloFor, Busy
    <3> QED BY <3>6, <3>7 DEF CalmFor
  <2>3. CASE user[w] = u /\ pc[w] = "set"
    <3>1. /\ owner' = [owner EXCEPT ![key[w]] = u] /\ pc'[w] = "point" /\ key[w] \in Keys
      BY <1>5, <2>3, DelSetFacts
    <3>2. \A k \in Keys : (owner'[k] = u /\ k # key[w]) => owner[k] = u BY <3>1 DEF Types
    <3>3. \A x \in Workers : (user[x] = u /\ Busy(x)) => x = w
      BY <2>1, <2>3 DEF SoloFor
    <3>4. key[w] # current[u] BY <2>1 DEF Fresh
    <3>5. current[u] \in Keys => owner'[current[u]] # u BY <2>3, <3>2, <3>4 DEF CalmFor
    <3>6. \A k \in Keys : owner'[k] = u => k = current[u] \/ k = key[w]
      BY <2>3, <3>2, <3>3 DEF CalmFor, Busy
    <3>7. \A x \in Workers : (user'[x] = u /\ pc'[x] \in {"del", "set", "point"}) => x = w
      BY <2>1, <3>3 DEF Others, Busy
    <3> QED BY <2>1, <2>3, <3>1, <3>5, <3>6, <3>7 DEF CalmFor
  <2>4. CASE user[w] # u
    <3>1. \A k \in Keys : owner'[k] = u => owner[k] = u
      <4>1. NoUser # u BY AccessAssumption DEF NoUser
      <4> QED BY <1>5, <2>4, <4>1, DelSetFacts DEF Types
    <3>2. \A x \in Workers : user[x] = u => pc'[x] = pc[x] BY <2>1, <2>4 DEF Others
    <3>3. \A k \in Keys : owner'[k] = u =>
             k = current'[u] \/ \E x \in Workers : user'[x] = u /\ pc'[x] = "point" /\ k = key'[x]
      <4>1. SUFFICES ASSUME NEW k \in Keys, owner'[k] = u, k # current'[u]
            PROVE  \E x \in Workers : user'[x] = u /\ pc'[x] = "point" /\ k = key'[x]
        OBVIOUS
      <4>2. PICK x \in Workers : user[x] = u /\ pc[x] = "point" /\ k = key[x]
        BY <2>1, <3>1, <4>1 DEF CalmFor
      <4> QED BY <2>1, <3>2, <4>2
    <3> QED BY <2>1, <3>1, <3>2, <3>3 DEF CalmFor
  <2> QED BY <1>5, <2>2, <2>3, <2>4, DelSetFacts
<1>6. ASSUME NEW w \in Workers, Point(w) PROVE CalmFor(u)'
  <2>1. UNCHANGED owner /\ Others(w) /\ pc[w] = "point" /\ pc'[w] = "idle" /\ user[w] \in Users
    BY <1>6, PointFacts DEF Ends
  <2>2. CASE user[w] = u
    <3>1. current'[u] = key[w] BY <1>6, <2>2, PointFacts DEF Types
    <3>2. \A x \in Workers : (user[x] = u /\ Busy(x)) => x = w
      BY <2>1, <2>2 DEF SoloFor, Busy
    <3>3. \A k \in Keys : owner[k] = u => k = key[w]
      BY <2>1, <2>2, <3>2 DEF CalmFor, Busy
    <3>4. \A x \in Workers : user'[x] = u => pc'[x] \notin {"del", "set", "point"}
      BY <2>1, <3>2 DEF Others, Busy
    <3> QED BY <2>1, <3>1, <3>3, <3>4 DEF CalmFor
  <2>3. CASE user[w] # u
    <3>1. current'[u] = current[u] BY <1>6, <2>3, PointFacts DEF Types
    <3>2. \A x \in Workers : user[x] = u => x # w BY <2>3
    <3>3. ASSUME NEW k \in Keys, owner'[k] = u, k # current'[u]
          PROVE  \E x \in Workers : user'[x] = u /\ pc'[x] = "point" /\ k = key'[x]
      <4>1. PICK x \in Workers : user[x] = u /\ pc[x] = "point" /\ k = key[x]
        BY <2>1, <3>1, <3>3 DEF CalmFor
      <4> QED BY <2>1, <3>2, <4>1 DEF Others
    <3>4. \A x \in Workers : (user'[x] = u /\ pc'[x] \in {"del", "set", "point"}) =>
             user[x] = u /\ pc[x] = pc'[x] /\ old'[x] = old[x]
      BY <2>1 DEF Others
    <3> QED BY <2>1, <3>1, <3>3, <3>4 DEF CalmFor
  <2> QED BY <2>2, <2>3
<1>7. CASE Crash
  <2>1. Rotating(u) = {} BY <1>7 DEF Crash
  <2>2. \A x \in Workers : pc'[x] = "idle" BY <1>7 DEF Crash
  <2>3. UNCHANGED <<owner, current>> BY <1>7 DEF Crash, redis
  <2>4. \A k \in Keys : owner[k] = u => k = current[u] BY <2>1 DEF CalmFor, Rotating
  <2> QED BY <2>2, <2>3, <2>4 DEF CalmFor
<1> QED BY <1>2, <1>3, <1>4, <1>5, <1>6, <1>7, Steps

LEMMA SingleStep ==
  ASSUME Base, Single, Next PROVE Single'
<1>1. /\ \A u \in Users \ overlapped : SoloFor(u)
      /\ \A u \in Calm : CalmFor(u)
  BY SingleFor
<1>2. cut \subseteq cut' /\ overlapped \subseteq overlapped' BY GhostsGrow DEF Base
<1>3. \A u \in Users \ overlapped' : SoloFor(u)' BY <1>1, <1>2, SoloStep
<1>4. \A u \in Calm' : CalmFor(u)' BY <1>1, <1>2, CalmStep DEF Calm
<1> QED BY <1>3, <1>4 DEF Single, SoloFor, CalmFor, Accepted, Rotating, Busy

\* A key that a step makes accepted has not been sent to anybody; a key that was
\* sent stays known.
LEMMA NewlyAccepted ==
  ASSUME Base, Next, NEW u \in Users, NEW k \in Keys, owner'[k] = u, owner[k] # u
  PROVE  k \notin Known
<1> USE DEF Base
<1>1. ASSUME NEW w \in Workers, Set(w) PROVE k \notin Known
  <2>1. k = key[w] /\ Busy(w) BY <1>1, DelSetFacts DEF Types, Set, Busy
  <2> QED BY <2>1 DEF Fresh, Known
<1>2. ASSUME NEW w \in Workers, Del(w) PROVE owner'[k] # u
  <2>1. NoUser # u BY AccessAssumption DEF NoUser
  <2> QED BY <1>2, <2>1, DelSetFacts DEF Types, Del
<1>3. ASSUME owner' = owner PROVE FALSE BY <1>3
<1>4. ASSUME NEW w \in Workers, Quiet(w) \/ Enter(w) PROVE owner' = owner
  BY <1>4 DEF Quiet, Enter
<1>5. ASSUME NEW w \in Workers, Existing(w) PROVE owner' = owner
  BY <1>5, ExistingFacts DEF redis
<1>6. ASSUME NEW w \in Workers, Point(w) PROVE owner' = owner
  BY <1>6, PointFacts
<1>7. CASE Crash BY <1>3, <1>7 DEF Crash, redis
<1> QED BY <1>1, <1>2, <1>3, <1>4, <1>5, <1>6, <1>7, Steps

LEMMA ToldGrows ==
  ASSUME Base, Next
  PROVE  (\A u \in Users : told[u] \subseteq told'[u]) /\ Known \subseteq Known'
<1> USE DEF Base
<1>1. ASSUME NEW w \in Workers, Quiet(w) \/ Enter(w) PROVE told' = told
  BY <1>1 DEF Quiet, Enter
<1>2. ASSUME NEW w \in Workers, Existing(w) PROVE told' = told BY <1>2, ExistingFacts
<1>3. ASSUME NEW w \in Workers, Del(w) \/ Set(w) PROVE told' = told BY <1>3, DelSetFacts
<1>4. ASSUME NEW w \in Workers, Point(w) PROVE \A u \in Users : told[u] \subseteq told'[u]
  BY <1>4, PointFacts DEF Types
<1>5. CASE Crash BY <1>5 DEF Crash, Known
<1>6. \A u \in Users : told[u] \subseteq told'[u] BY <1>1, <1>2, <1>3, <1>4, <1>5, Steps
<1> QED BY <1>6 DEF Known

\* Among the keys a user has been sent only the current one can be accepted.
LEMMA AcceptedIsCurrent ==
  ASSUME Base, Single, NEW u \in Calm, NEW k \in Keys, owner[k] = u, k \in Known
  PROVE  k = current[u]
<1>1. CalmFor(u) /\ u \in Users BY SingleFor DEF Calm
<1>2. ASSUME NEW w \in Workers, pc[w] = "point", k = key[w] PROVE FALSE
  <2>1. Busy(w) BY <1>2 DEF Busy
  <2> QED BY <1>2, <2>1 DEF Base, Fresh, Known
<1> QED BY <1>1, <1>2 DEF CalmFor

\* Kept, about one user.
KeptFor(u) ==
  \A w \in Workers : (Busy(w) /\ user[w] = u /\ op[w] # "apikey" /\ arg[w] \in Keys) =>
    arg[w] = current[u]

LEMMA KeptStep ==
  ASSUME Base, Single, Kept, Next PROVE Kept'
<1> USE DEF Base
<1>1. leaked' \subseteq Known'
  <2>1. ASSUME NEW w \in Workers, Point(w), op[w] # "apikey", arg[w] \in Keys
        PROVE  arg[w] \in Known
    BY <2>1, PointFacts DEF Flow, Known
  <2>2. ASSUME NEW w \in Workers, Point(w) PROVE leaked' \subseteq Known
    BY <2>1, <2>2, PointFacts DEF Kept
  <2>3. ASSUME leaked' = leaked PROVE leaked' \subseteq Known BY <2>3 DEF Kept
  <2>4. ASSUME NEW w \in Workers, Quiet(w) \/ Enter(w) PROVE leaked' = leaked
    BY <2>4 DEF Quiet, Enter
  <2>5. ASSUME NEW w \in Workers, Existing(w) PROVE leaked' = leaked BY <2>5, ExistingFacts
  <2>6. ASSUME NEW w \in Workers, Del(w) \/ Set(w) PROVE leaked' = leaked
    BY <2>6, DelSetFacts
  <2>7. CASE Crash BY <2>3, <2>7, ToldGrows DEF Crash
  <2> QED BY <2>2, <2>3, <2>4, <2>5, <2>6, <2>7, ToldGrows, Steps
<1>2. ASSUME NEW u \in Calm' PROVE KeptFor(u)'
  <2>1. u \in Users /\ u \notin cut' \cup overlapped' /\ u \in Calm BY GhostsGrow DEF Calm
  <2>2. KeptFor(u) /\ SoloFor(u)
    BY <2>1, SingleFor DEF Kept, KeptFor, Rotating, Busy, Calm
  <2>3. ASSUME NEW w \in Workers, Quiet(w) PROVE KeptFor(u)'
    BY <2>2, <2>3 DEF Quiet, Others, Busy, KeptFor
  <2>4. ASSUME NEW w \in Workers, Enter(w) PROVE KeptFor(u)'
    BY <2>1, <2>2, <2>4 DEF Enter, Others, Busy, KeptFor
  <2>5. ASSUME NEW w \in Workers, Existing(w) PROVE KeptFor(u)'
    <3>1. /\ current' = current /\ Others(w) /\ Busy(w)
          /\ op'[w] = op[w] /\ user'[w] = user[w] /\ arg'[w] = arg[w]
      BY <2>5, ExistingFacts DEF redis, Busy
    <3> QED BY <2>2, <3>1 DEF Others, Busy, KeptFor
  <2>6. ASSUME NEW w \in Workers, Del(w) \/ Set(w) PROVE KeptFor(u)'
    <3>1. UNCHANGED <<current, op, user, arg>> /\ Others(w) /\ Busy(w)
      BY <2>6, DelSetFacts DEF locals, Busy
    <3> QED BY <2>2, <3>1 DEF Others, Busy, KeptFor
  <2>7. ASSUME NEW w \in Workers, Point(w) PROVE KeptFor(u)'
    <3>1. Others(w) /\ Busy(w) /\ ~Busy(w)' /\ user[w] \in Users
      BY <2>7, PointFacts DEF Ends, Busy
    <3>2. CASE user[w] = u BY <2>2, <3>1, <3>2 DEF Others, Busy, KeptFor, SoloFor
    <3>3. CASE user[w] # u
      <4>1. current'[u] = current[u] BY <2>1, <2>7, <3>3, PointFacts DEF Types
      <4> QED BY <2>2, <3>1, <4>1 DEF Others, Busy, KeptFor
    <3> QED BY <3>2, <3>3
  <2>8. CASE Crash BY <2>8 DEF Crash, Busy, KeptFor
  <2> QED BY <2>3, <2>4, <2>5, <2>6, <2>7, <2>8, Steps
<1> QED BY <1>1, <1>2 DEF Kept, KeptFor, Rotating, Busy

LEMMA LeakStep ==
  ASSUME Base, Single, Kept, LeakRevoked, Next PROVE LeakRevoked'
<1> USE DEF Base
<1>1. SUFFICES ASSUME NEW u \in Calm', NEW k \in Keys, owner'[k] = u, k \in leaked'
               PROVE  FALSE
  BY DEF LeakRevoked, Accepted, Calm
<1>2. u \in Calm /\ u \in Users BY GhostsGrow DEF Calm
<1>3. \A j \in Keys : owner[j] = u => j \notin leaked
  BY <1>2 DEF LeakRevoked, Accepted, Calm
<1>4. CASE k \in leaked
  <2>1. k \in Known /\ owner[k] # u BY <1>3, <1>4 DEF Kept
  <2> QED BY <1>1, <1>2, <2>1, NewlyAccepted
<1>5. CASE k \notin leaked
  <2>1. PICK w \in Workers : Point(w)
    <3>1. ASSUME NEW w \in Workers, Quiet(w) \/ Enter(w) PROVE leaked' = leaked
      BY <3>1 DEF Quiet, Enter
    <3>2. ASSUME NEW w \in Workers, Existing(w) PROVE leaked' = leaked BY <3>2, ExistingFacts
    <3>3. ASSUME NEW w \in Workers, Del(w) \/ Set(w) PROVE leaked' = leaked
      BY <3>3, DelSetFacts
    <3>4. Crash => leaked' = leaked BY DEF Crash
    <3> QED BY <1>1, <1>5, <3>1, <3>2, <3>3, <3>4, Steps
  <2>2. /\ k = arg[w] /\ op[w] # "apikey" /\ owner[k] = u /\ user[w] \in Users
        /\ pc[w] = "point" /\ k \in told[user[w]]
    BY <1>1, <1>5, <2>1, PointFacts DEF Flow
  <2>3. k \in Known BY <2>2 DEF Known
  <2>4. k = current[u] BY <1>2, <2>2, <2>3, AcceptedIsCurrent
  <2>5. CASE user[w] = u
    <3>1. CalmFor(u) BY <1>2, SingleFor
    <3> QED BY <2>2, <2>4, <2>5, <3>1 DEF CalmFor
  <2>6. CASE user[w] # u
    <3>1. k # 0 BY DEF Keys
    <3>2. current[u] \notin told[user[w]] BY <1>2, <2>2, <2>4, <2>6, <3>1 DEF Own
    <3> QED BY <2>2, <2>4, <3>2
  <2> QED BY <2>5, <2>6
<1> QED BY <1>4, <1>5

\* How a command comes to the point where it stores its argument: the key in the
\* argument was another one than the current key of the user.
LEMMA ToStore ==
  ASSUME Types, Flow, Next, NEW x \in Workers, pc'[x] = "store", key'[x] = 0, arg'[x] \in Keys
  PROVE  \/ pc[x] = "store" /\ key[x] = 0 /\ arg'[x] = arg[x] /\ user'[x] = user[x]
         \/ /\ owner' = owner /\ user'[x] \in Users /\ arg'[x] \in told[user'[x]]
            /\ user'[x] \in cut' \/ arg'[x] # current[user'[x]]
<1> DEFINE Stays == pc[x] = "store" /\ key[x] = 0 /\ arg'[x] = arg[x] /\ user'[x] = user[x]
<1>1. ASSUME NEW w \in Workers, Others(w), w # x PROVE Stays BY <1>1 DEF Others
<1>2. ASSUME NEW w \in Workers, NEW u \in Users, APIKeyCommand(w, u) PROVE Stays
  <2>1. pc'[w] = "existing" /\ Others(w)
    BY <1>2 DEF APIKeyCommand, Generate, Goto, Others, Types
  <2> QED BY <1>1, <2>1
<1>3. ASSUME NEW w \in Workers, NEW u \in Users, Command(w, u) PROVE Stays
  <2>1. PICK o \in {"set", "get", "del", "clear"}, a \in Words, v \in Words,
             l \in {"check", "store"} :
          Start(w, o, u, a, v, 0, l) /\ (l = "store" => a = 0)
    BY <1>3, CommandFacts
  <2>2. 0 \in 0..minted BY AccessAssumption DEF Types
  <2>3. Others(w) /\ pc'[w] = l /\ arg'[w] = a BY <2>1, <2>2, StartFacts
  <2> QED BY <1>1, <2>1, <2>3, ZeroIsAWord
<1>4. ASSUME NEW w \in Workers, NEW u \in Users, Request(w, u) PROVE Stays
  <2>1. Others(w) /\ pc'[w] = "auth"
    BY <1>4 DEF Request, Start, Goto, Types, Others
  <2> QED BY <1>1, <2>1
<1>5. ASSUME NEW w \in Workers, Check(w)
      PROVE  \/ Stays
             \/ /\ owner' = owner /\ user'[x] \in Users /\ arg'[x] \in told[user'[x]]
                /\ user'[x] \in cut' \/ arg'[x] # current[user'[x]]
  <2>1. PICK c \in Replies(current[user[w]]) :
          /\ \/ c = arg[w] /\ Goto(w, "existing") /\ Generate(w, user[w])
             \/ c # arg[w] /\ Goto(w, "store") /\ UNCHANGED <<minted, key, overlapped>>
          /\ cut' = IF c = current[user[w]] THEN cut ELSE cut \cup {user[w]}
    BY <1>5 DEF Check
  <2>2. /\ UNCHANGED <<owner, user, arg>> /\ Others(w)
        /\ c = arg[w] => pc'[w] = "existing"
    BY <1>5, <2>1 DEF Check, Goto, Generate, Types, Others, redis
  <2>3. CASE w # x BY <1>1, <2>2, <2>3
  <2>4. CASE w = x
    <3>1. c # arg[x] BY <2>2, <2>4
    <3>2. user[x] \in cut' \/ arg[x] # current[user[x]] BY <2>1, <2>4, <3>1
    <3>3. user[x] \in Users /\ arg[x] \in told[user[x]] BY <1>5, <2>2, <2>4 DEF Check, Flow
    <3> QED BY <2>2, <3>2, <3>3
  <2> QED BY <2>3, <2>4
<1>6. ASSUME NEW w \in Workers, Auth(w) PROVE Stays
  <2>1. CASE Finish(w) BY <1>1, <2>1, FinishEnds DEF Ends
  <2>2. CASE Goto(w, "store") /\ UNCHANGED locals
    <3>1. Others(w) /\ UNCHANGED key BY <2>2 DEF Goto, Types, Others, locals
    <3>2. key[w] # 0 BY <1>6 DEF Auth, Flow
    <3> QED BY <1>1, <3>1, <3>2
  <2> QED BY <1>6, <2>1, <2>2 DEF Auth
<1>7. ASSUME NEW w \in Workers, Store(w) PROVE Stays
  BY <1>1, <1>7, FinishEnds DEF Store, Ends
<1>8. ASSUME NEW w \in Workers, Existing(w) PROVE Stays BY <1>1, <1>8, ExistingFacts
<1>9. ASSUME NEW w \in Workers, Del(w) \/ Set(w) PROVE Stays BY <1>1, <1>9, DelSetFacts
<1>10. ASSUME NEW w \in Workers, Point(w) PROVE Stays
  BY <1>1, <1>10, PointFacts DEF Ends
<1>11. ASSUME Crash PROVE FALSE BY <1>11 DEF Crash
<1> QED BY <1>2, <1>3, <1>4, <1>5, <1>6, <1>7, <1>8, <1>9, <1>10, <1>11 DEF Next

\* What a step adds to the pairs.
LEMMA PairsGrow ==
  ASSUME Types, Flow, Next, NEW u \in Users, NEW p \in kv'[u], p \notin kv[u], p.by = "command"
  PROVE  \E w \in Workers : pc[w] = "store" /\ key[w] = 0 /\ user[w] = u /\ arg[w] = p.label
<1>1. ASSUME NEW w \in Workers, Store(w)
      PROVE  pc[w] = "store" /\ key[w] = 0 /\ user[w] = u /\ arg[w] = p.label
  <2> DEFINE others == {q \in kv[user[w]] : q.label # arg[w]}
  <2>1. pc[w] = "store" /\ user[w] \in Users BY <1>1 DEF Store, Flow
  <2>2. \/ kv' = [kv EXCEPT ![user[w]] = others \cup {Pair(w)}]
        \/ kv' = [kv EXCEPT ![user[w]] = others]
        \/ kv' = [kv EXCEPT ![user[w]] = {}]
        \/ kv' = kv
    BY <1>1 DEF Store
  <2>3. others \subseteq kv[user[w]] OBVIOUS
  <2> HIDE DEF others
  <2>4. user[w] = u /\ p = Pair(w) BY <2>1, <2>2, <2>3 DEF Types
  <2>5. p.label = arg[w] /\ (key[w] # 0 => p.by = "request") BY <2>4 DEF Pair
  <2> QED BY <2>1, <2>4, <2>5
<1>2. ASSUME NEW w \in Workers, NEW v \in Users, APIKeyCommand(w, v) PROVE kv' = kv
  BY <1>2 DEF APIKeyCommand, redis
<1>3. ASSUME NEW w \in Workers, NEW v \in Users, Command(w, v) \/ Request(w, v)
      PROVE  kv' = kv
  BY <1>3 DEF Command, Request, Start, redis
<1>4. ASSUME NEW w \in Workers, Check(w) \/ Auth(w) \/ Existing(w) PROVE kv' = kv
  BY <1>4 DEF Check, Auth, Existing, redis
<1>5. ASSUME NEW w \in Workers, Del(w) \/ Set(w) \/ Point(w) PROVE kv' = kv
  BY <1>5 DEF Del, Set, Point
<1>6. Crash => kv' = kv BY DEF Crash, redis
<1> QED BY <1>1, <1>2, <1>3, <1>4, <1>5, <1>6 DEF Next

LEMMA RefusedStep ==
  ASSUME Base, Single, Refused, Next PROVE Refused'
<1> USE DEF Base
<1>1. ASSUME NEW u \in Users, NEW p \in kv'[u], p.by = "command", p.label \in Keys
      PROVE  p.label \in told'[u]
  <2>1. p.label \in told[u]
    <3>1. CASE p \in kv[u] BY <1>1, <3>1 DEF Refused
    <3>2. CASE p \notin kv[u]
      <4>1. PICK w \in Workers : pc[w] = "store" /\ user[w] = u /\ arg[w] = p.label
        BY <1>1, <3>2, PairsGrow
      <4> QED BY <1>1, <4>1 DEF Flow
    <3> QED BY <3>1, <3>2
  <2> QED BY <2>1, ToldGrows
<1>2. ASSUME NEW x \in Workers, pc'[x] = "store", key'[x] = 0, user'[x] \in Calm',
             arg'[x] \in Keys,
             owner'[arg'[x]] = user'[x]
      PROVE  FALSE
  <2> DEFINE u == user'[x]
             k == arg'[x]
  <2>1. u \in Users /\ u \notin cut' /\ u \in Calm BY <1>2, GhostsGrow DEF Calm
  <2>2. CASE pc[x] = "store" /\ key[x] = 0 /\ arg'[x] = arg[x] /\ user'[x] = user[x]
    <3>1. k \in Known BY <1>2, <2>1, <2>2 DEF Flow, Known
    <3>2. owner[k] # u BY <1>2, <2>1, <2>2 DEF Refused, Accepted
    <3> QED BY <1>2, <2>1, <3>1, <3>2, NewlyAccepted
  <2>3. CASE /\ owner' = owner /\ k \in told[u] /\ (u \in cut' \/ k # current[u])
    <3>1. k \in Known /\ owner[k] = u BY <1>2, <2>1, <2>3 DEF Known
    <3>2. k = current[u] BY <1>2, <2>1, <3>1, AcceptedIsCurrent
    <3> QED BY <2>1, <2>3, <3>2
  <2> QED BY <1>2, <2>2, <2>3, ToStore
<1> QED BY <1>1, <1>2 DEF Refused, Accepted

LEMMA StoredStep ==
  ASSUME Base, Refused, StoredKeysRefused, Next PROVE StoredKeysRefused'
<1> USE DEF Base
<1>1. SUFFICES ASSUME NEW u \in Calm', NEW p \in kv'[u], p.by = "command",
                      NEW k \in Keys, p.label = k, owner'[k] = u
               PROVE  FALSE
  BY DEF StoredKeysRefused, Accepted, Calm
<1>2. u \in Calm /\ u \in Users BY GhostsGrow DEF Calm
<1>3. owner[k] # u /\ k \in told[u]
  <2>1. CASE p \in kv[u]
    BY <1>1, <1>2, <2>1 DEF StoredKeysRefused, Refused, Accepted, Calm
  <2>2. CASE p \notin kv[u]
    <3>1. PICK w \in Workers : pc[w] = "store" /\ key[w] = 0 /\ user[w] = u /\ arg[w] = k
      BY <1>1, <1>2, <2>2, PairsGrow
    <3> QED BY <1>2, <3>1 DEF Refused, Accepted, Flow
  <2> QED BY <2>1, <2>2
<1>4. k \in Known BY <1>2, <1>3 DEF Known
<1> QED BY <1>1, <1>2, <1>3, <1>4, NewlyAccepted

-----------------------------------------------------------------------------
(* The theorems. *)

LEMMA InitInv == Init => Inv
<1> SUFFICES ASSUME Init PROVE Inv OBVIOUS
<1> USE AccessAssumption DEF Init
<1>1. Types
  <2>1. 0 \in 0..MaxKeys /\ 0 \in 0..0 /\ 0 \in 0..MaxOps /\ 0 \in Words BY ZeroIsAWord
  <2>2. told \in [Users -> SUBSET (1..minted)] /\ kv \in [Users -> SUBSET Pairs]
    OBVIOUS
  <2>3. owner \in [Keys -> Users \cup {NoUser}] /\ current \in [Users -> 0..minted]
    BY <2>1
  <2>4. /\ user \in [Workers -> Users \cup {NoUser}] /\ arg \in [Workers -> Words]
        /\ val \in [Workers -> Words]
        /\ key \in [Workers -> 0..minted] /\ old \in [Workers -> 0..minted]
    BY <2>1
  <2> QED BY <2>1, <2>2, <2>3, <2>4 DEF Types
<1>2. Flow
  <2>1. 0 \notin Keys BY DEF Keys
  <2> QED BY <2>1 DEF Flow, Busy
<1>3. Fresh BY DEF Fresh, Busy
<1>4. Own BY DEF Own, Rotating
<1>5. Works BY DEF Works, Rotating
<1>6. \A u \in Users : Accepted(u) = {} BY DEF Accepted, NoUser
<1>7. Single /\ Kept BY <1>6 DEF Single, Kept, Rotating, Calm, Known
<1>8. LeakRevoked /\ Refused /\ StoredKeysRefused
  BY <1>6 DEF LeakRevoked, Refused, StoredKeysRefused
<1> QED BY <1>1, <1>2, <1>3, <1>4, <1>5, <1>7, <1>8 DEF Inv, Base

LEMMA Unchanged ==
  ASSUME Inv, UNCHANGED vars PROVE Inv'
<1> USE DEF vars, redis, locals, ghosts
<1>1. Types' /\ Flow' BY DEF Inv, Base, Types, Flow, Busy
<1>2. Fresh' /\ Own' BY DEF Inv, Base, Fresh, Own, Busy, Rotating
<1>3. Works' BY DEF Inv, Works, Rotating
<1>4. Single' /\ Kept' BY DEF Inv, Single, Kept, Rotating, Accepted, Calm, Known
<1>5. LeakRevoked' /\ StoredKeysRefused' BY DEF Inv, LeakRevoked, StoredKeysRefused, Accepted
<1>6. Refused' BY DEF Inv, Refused, Accepted, Calm
<1> QED BY <1>1, <1>2, <1>3, <1>4, <1>5, <1>6 DEF Inv, Base

LEMMA InvStep == Inv /\ [Next]_vars => Inv'
<1> SUFFICES ASSUME Inv, [Next]_vars PROVE Inv' OBVIOUS
<1>1. CASE Next
  <2>1. Base' BY <1>1, TypesStep, FlowStep, FreshStep, OwnStep DEF Inv, Base
  <2> QED BY <1>1, <2>1, WorksStep, SingleStep, KeptStep, LeakStep, RefusedStep, StoredStep DEF Inv
<1> QED BY <1>1, Unchanged

THEOREM AccessInv == Spec => []Inv
<1>1. Init => Inv BY InitInv
<1>2. Inv /\ [Next]_vars => Inv' BY InvStep
<1> QED BY <1>1, <1>2, PTL DEF Spec

\* Whenever no rotation of a user is running and none was cut short, the key that
\* user_api_key names is accepted, however the rotations overlapped.
THEOREM TheCurrentKeyWorks == Spec => []CurrentKeyWorks
<1>1. Inv => CurrentKeyWorks BY DEF Inv, Works, CurrentKeyWorks, Rotating
<1> QED BY <1>1, AccessInv, PTL

\* After rotations one after the other no key but the newest is accepted:
\* storeNewKey deletes the previous mapping, and the right one.
THEOREM OnlyOneKey == Spec => []OneKey
<1>1. Inv => OneKey BY DEF Inv, Single, OneKey, Rotating, Calm
<1> QED BY <1>1, AccessInv, PTL

\* A key that was posted as an argument is refused from the end of the rotation
\* that warnLeakedKey started, for good.
THEOREM LeakedKeysAreRevoked == Spec => []LeakRevoked
<1>1. Inv => LeakRevoked BY DEF Inv
<1> QED BY <1>1, AccessInv, PTL

\* A key that a command stored as a label, which anybody can read, is not
\* accepted, although the check of the first argument and the store are steps
\* apart, with rotations in between.  Keys among the values, which the commands do
\* not look at, and those that requests store are left out.
THEOREM StoredKeysAreRefused == Spec => []StoredKeysRefused
<1>1. Inv => StoredKeysRefused BY DEF Inv
<1> QED BY <1>1, AccessInv, PTL
=============================================================================
