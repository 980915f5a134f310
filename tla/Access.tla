-------------------------------- MODULE Access --------------------------------
(***************************************************************************)
(* The API keys of the users, and the two ways in: bot commands, which run   *)
(* as the author of the message, and REST requests, which run as the user    *)
(* the key in their header belongs to (bot/apikey.go, bot/commands.go,       *)
(* api/users.go).                                                            *)
(*                                                                           *)
(* A key lives in two Redis entries: api_key:<key> names its user, and       *)
(* user_api_key:<user> the user's current key.  storeNewKey replaces both    *)
(* with four commands.  A command whose first argument is the current key    *)
(* rotates it instead of running.  Every MESSAGE_CREATE and every request    *)
(* has a goroutine of its own.                                               *)
(*                                                                           *)
(* A key is the number of its creation (keys are random, and taken to be     *)
(* distinct), 0 is the empty string, and every other text is one of Texts.   *)
(* What a command does to the KV map is the subject of KV; here the map is a *)
(* set of pairs, either part of which may be a key.                          *)
(***************************************************************************)
EXTENDS Naturals, FiniteSets

CONSTANTS Users, Workers,
          Texts,      \* other texts than keys and the empty one
          RedisFails, \* whether Redis commands may fail
          MaxKeys,    \* bound: keys generated
          MaxOps      \* bound: other commands and requests started

ASSUME AccessAssumption ==
  /\ MaxKeys \in Nat /\ MaxOps \in Nat /\ RedisFails \in BOOLEAN
  /\ Texts \cap Nat = {} /\ 0 \notin Users  \* no user has the empty id

VARIABLES
  owner,      \* api_key:<key>, as the user it names
  current,    \* user_api_key:<user>
  minted,     \* keys generated so far
  told,       \* the keys each user has been sent
  kv,         \* the pairs of each user's KV map; ghost: who stored them
  ops,        \* other commands and requests started
  pc, op,     \* of each goroutine: where it is, and in which operation
  user,       \* the author, or the user in the path
  arg,        \* the first argument, or the field of a request
  val,        \* the other arguments, or the value of a request
  key,        \* the key it has generated, or the one in the header, or 0
  old,        \* the key storeNewKey replaces
  leaked,     \* ghost: the keys a completed rotation has reported as leaked
  overlapped, \* ghost: rotations of a user have overlapped
  cut         \* ghost: a rotation or a check was cut short by a crash or by Redis

redis == <<owner, current, kv>>
locals == <<op, user, arg, val, key, old>>
ghosts == <<leaked, overlapped, cut>>
vars == <<redis, minted, told, ops, pc, locals, ghosts>>

Keys == 1..MaxKeys
NoUser == 0

Rotating(u) == {w \in Workers : pc[w] \in {"existing", "del", "set", "point"} /\ user[w] = u}
Accepted(u) == {k \in Keys : owner[k] = u}

Init ==
  /\ owner = [k \in Keys |-> NoUser] /\ current = [u \in Users |-> 0]
  /\ minted = 0 /\ told = [u \in Users |-> {}] /\ kv = [u \in Users |-> {}]
  /\ ops = 0
  /\ pc = [w \in Workers |-> "idle"] /\ op = [w \in Workers |-> "none"]
  /\ user = [w \in Workers |-> NoUser] /\ arg = [w \in Workers |-> 0]
  /\ val = [w \in Workers |-> 0] /\ key = [w \in Workers |-> 0] /\ old = [w \in Workers |-> 0]
  /\ leaked = {} /\ overlapped = {} /\ cut = {}

-----------------------------------------------------------------------------
\* A reply of Redis: after an error Get returns the empty string.
Replies(v) == {v} \cup (IF RedisFails THEN {0} ELSE {})

Goto(w, l) == pc' = [pc EXCEPT ![w] = l]

Finish(w) ==
  /\ Goto(w, "idle")
  /\ op' = [op EXCEPT ![w] = "none"] /\ user' = [user EXCEPT ![w] = NoUser]
  /\ arg' = [arg EXCEPT ![w] = 0] /\ val' = [val EXCEPT ![w] = 0]
  /\ key' = [key EXCEPT ![w] = 0] /\ old' = [old EXCEPT ![w] = 0]

Start(w, o, u, a, v, k, l) ==
  /\ pc[w] = "idle" /\ Goto(w, l)
  /\ op' = [op EXCEPT ![w] = o] /\ user' = [user EXCEPT ![w] = u]
  /\ arg' = [arg EXCEPT ![w] = a] /\ val' = [val EXCEPT ![w] = v]
  /\ key' = [key EXCEPT ![w] = k]
  /\ UNCHANGED <<redis, minted, told, old, leaked, cut>>

\* storeNewKey starts by generating a key.
Generate(w, u) ==
  /\ minted < MaxKeys /\ minted' = minted + 1
  /\ key' = [key EXCEPT ![w] = minted + 1]
  /\ overlapped' = overlapped \cup (IF Rotating(u) = {} THEN {} ELSE {u})

-----------------------------------------------------------------------------
(* HandleMessage. *)

\* .apikey in a direct message.
APIKeyCommand(w, u) ==
  /\ pc[w] = "idle" /\ Goto(w, "existing")
  /\ Generate(w, u)
  /\ op' = [op EXCEPT ![w] = "apikey"] /\ user' = [user EXCEPT ![w] = u]
  /\ UNCHANGED <<redis, told, ops, arg, val, old, leaked, cut>>

\* The texts that u puts in a command or a request: any, also the empty one, and
\* the keys u has been sent.
Written(u) == Texts \cup told[u] \cup {0}

\* .set, .get, .del; .clear confirm.  A .set without a value runs like .get.
Command(w, u) ==
  /\ ops < MaxOps /\ ops' = ops + 1 /\ UNCHANGED overlapped
  /\ \/ \E a, v \in Written(u) : Start(w, "set", u, a, v, 0, "check")
     \/ \E o \in {"get", "del"}, a \in Written(u) : Start(w, o, u, a, 0, 0, "check")
     \/ Start(w, "clear", u, 0, 0, 0, "store")

\* Mutant: the key in the argument is taken for a label.
CheckNothing(w) ==
  /\ pc[w] = "check"
  /\ Goto(w, "store")
  /\ UNCHANGED <<redis, minted, told, ops, locals, ghosts>>

\* validateAPIKey of the first argument: the current key starts warnLeakedKey,
\* anything else the command.  The other arguments are not looked at.
Check(w) ==
  /\ pc[w] = "check"
  /\ \E c \in Replies(current[user[w]]) :
       /\ \/ c = arg[w] /\ Goto(w, "existing") /\ Generate(w, user[w])
          \/ c # arg[w] /\ Goto(w, "store") /\ UNCHANGED <<minted, key, overlapped>>
       /\ cut' = IF c = current[user[w]] THEN cut ELSE cut \cup {user[w]}
  /\ UNCHANGED <<redis, told, ops, op, user, arg, val, old, leaked>>

-----------------------------------------------------------------------------
(* storeNewKey. *)

\* The key to be replaced.
Existing(w) ==
  /\ pc[w] = "existing"
  /\ \E c \in Replies(current[user[w]]) :
       /\ old' = [old EXCEPT ![w] = c] /\ Goto(w, IF c = 0 THEN "set" ELSE "del")
       /\ cut' = IF c = current[user[w]] THEN cut ELSE cut \cup {user[w]}
  /\ UNCHANGED <<redis, minted, told, ops, op, user, arg, val, key, leaked, overlapped>>

\* A write of the rotation, which an error of Redis leaves undone.
Write(w, var, new) ==
  \/ new /\ UNCHANGED cut
  \/ RedisFails /\ UNCHANGED var /\ cut' = cut \cup {user[w]}

\* Mutant: the replaced key stays.
DelNothing(w) ==
  /\ pc[w] = "del" /\ Goto(w, "set")
  /\ UNCHANGED <<redis, minted, told, ops, locals, ghosts>>

Del(w) ==
  /\ pc[w] = "del" /\ Goto(w, "set")
  /\ Write(w, owner, owner' = [owner EXCEPT ![old[w]] = NoUser])
  /\ UNCHANGED <<current, kv, minted, told, ops, locals, leaked, overlapped>>

Set(w) ==
  /\ pc[w] = "set" /\ Goto(w, "point")
  /\ Write(w, owner, owner' = [owner EXCEPT ![key[w]] = user[w]])
  /\ UNCHANGED <<current, kv, minted, told, ops, locals, leaked, overlapped>>

\* Mutant: the current key is only written when there is none.
PointIfAbsent(w) ==
  LET u == user[w] IN
  /\ pc[w] = "point"
  /\ Write(w, current, current' = [current EXCEPT ![u] = IF @ = 0 THEN key[w] ELSE @])
  /\ told' = [told EXCEPT ![u] = @ \cup {key[w]}]
  /\ Finish(w)
  /\ UNCHANGED <<owner, kv, minted, ops, leaked, overlapped>>

\* The last write; then the user is sent the key, if a direct message gets through.
Point(w) ==
  LET u == user[w] IN
  /\ pc[w] = "point"
  /\ Write(w, current, current' = [current EXCEPT ![u] = key[w]])
  /\ told' \in {told, [told EXCEPT ![u] = @ \cup {key[w]}]}
  /\ leaked' = leaked \cup (IF op[w] = "apikey" THEN {} ELSE {arg[w]} \cap Keys)
  /\ Finish(w)
  /\ UNCHANGED <<owner, kv, minted, ops, overlapped>>

-----------------------------------------------------------------------------
(* The REST side, and what either side does in the end. *)

\* PUT, PATCH or DELETE of a field of u, with a key in the header.
Request(w, u) ==
  /\ ops < MaxOps /\ ops' = ops + 1 /\ UNCHANGED overlapped
  /\ \E k \in 1..minted, a \in Written(u) :
       \/ \E v \in Written(u) : Start(w, "set", u, a, v, k, "auth")
       \/ Start(w, "del", u, a, 0, k, "auth")

\* validateResourceAccess: 401 unless the key names this very user.
Auth(w) ==
  /\ pc[w] = "auth"
  /\ \E o \in Replies(owner[key[w]]) :
       \/ o = user[w] /\ Goto(w, "store") /\ UNCHANGED locals
       \/ o # user[w] /\ Finish(w)
  /\ UNCHANGED <<redis, minted, told, ops, ghosts>>

\* The pair that a goroutine stores, the label and the value as they came.
Pair(w) ==
  [label |-> arg[w], value |-> val[w], by |-> IF key[w] = 0 THEN "command" ELSE "request"]

\* The KV operation; KV refuses some of those that set.
Store(w) ==
  LET u == user[w]  others == {p \in kv[u] : p.label # arg[w]} IN
  /\ pc[w] = "store"
  /\ \/ op[w] = "set" /\ kv' = [kv EXCEPT ![u] = others \cup {Pair(w)}]
     \/ op[w] = "del" /\ kv' = [kv EXCEPT ![u] = others]
     \/ op[w] = "clear" /\ kv' = [kv EXCEPT ![u] = {}]
     \/ op[w] \in {"get", "set"} /\ UNCHANGED kv
  /\ Finish(w)
  /\ UNCHANGED <<owner, current, minted, told, ops, ghosts>>

\* The process ends between any two steps.
Crash ==
  /\ \E w \in Workers : pc[w] # "idle"
  /\ cut' = cut \cup {u \in Users : Rotating(u) # {}}
  /\ pc' = [w \in Workers |-> "idle"] /\ op' = [w \in Workers |-> "none"]
  /\ user' = [w \in Workers |-> NoUser] /\ arg' = [w \in Workers |-> 0]
  /\ val' = [w \in Workers |-> 0] /\ key' = [w \in Workers |-> 0] /\ old' = [w \in Workers |-> 0]
  /\ UNCHANGED <<redis, minted, told, ops, leaked, overlapped>>

Next ==
  \/ \E w \in Workers :
       \/ Check(w) \/ Existing(w) \/ Del(w) \/ Set(w) \/ Point(w) \/ Auth(w) \/ Store(w)
       \/ \E u \in Users : APIKeyCommand(w, u) \/ Command(w, u) \/ Request(w, u)
  \/ Crash

Spec == Init /\ [][Next]_vars

-----------------------------------------------------------------------------
(* Correctness. *)

\* However many rotations overlap, the key that ends up as the current one is
\* accepted: a rotation that deletes a key always replaces it as the current one
\* afterwards.  Only a rotation that is cut short leaves a current key that is
\* not accepted.
CurrentKeyWorks ==
  \A u \in Users :
    (Rotating(u) = {} /\ u \notin cut /\ current[u] # 0) => owner[current[u]] = u

\* "Rotates a user's API key, deleting any previous mapping" (apikey.go:26): with
\* rotations one after the other no key but the current one is accepted.
OneKey ==
  \A u \in Users :
    (Rotating(u) = {} /\ u \notin cut \cup overlapped) => Accepted(u) \subseteq {current[u]}

\* When the rotation that a leaked key starts has ended, that key is refused.
LeakRevoked ==
  \A u \in Users : u \notin cut \cup overlapped => Accepted(u) \cap leaked = {}

\* A key that a command has stored as a label, where anybody can read it, is
\* refused: the command saw another key as the current one, so the rotation that
\* replaced the stored one had deleted it before.  Nothing is promised of a key
\* that is a value, or that a request has stored: those are not looked at.
StoredKeysRefused ==
  \A u \in Users : u \notin cut \cup overlapped =>
    \A p \in kv[u] : p.by = "command" => p.label \notin Accepted(u)

=============================================================================
