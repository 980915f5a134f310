--------------------------------- MODULE KV ---------------------------------
(***************************************************************************)
(* The key-value store of one user (internal/kv): every value lives twice,  *)
(* in the Redis hash zruvix_kv:<user> and in Presence.KV, the map clients   *)
(* are shown.  The two are written one after the other, and the second from *)
(* a copy of the map read earlier.                                          *)
(*                                                                          *)
(* Workers are the requests and bot commands that call kv.Set, Multiset,    *)
(* Del and Clear.  The gateway starts and stops the user's Presence object; *)
(* a starting object is visible before its map is loaded.  Values are       *)
(* operation numbers.  One action is one Redis command or one critical      *)
(* section of Registry.mu or Presence.mu.                                   *)
(***************************************************************************)
EXTENDS Naturals, FiniteSets

CONSTANTS Workers, Keys,
          Limit,      \* the key limit, 512 in the code
          Calls,      \* the operations an instance exercises
          MaxObj,     \* bound: Presence objects ever created
          MaxOps      \* bound: operations started

ASSUME KVAssumption ==
  /\ Limit \in Nat /\ MaxObj \in Nat /\ MaxOps \in Nat
  /\ Keys # {} /\ IsFiniteSet(Keys)
  /\ Calls \subseteq {"set", "multi", "del", "clear"}

VARIABLES
  redis,       \* the hash in Redis
  kv,          \* Presence.KV of each object
  reg,         \* the registered object, 0 when not monitored
  nobj,        \* objects created so far
  loading,     \* LookupOrStart has not loaded the registered object yet
  ops,         \* operations started so far
  pc, op,      \* of each worker: where it is, and in which operation
  ks,          \* the keys it works on
  val,         \* the value it writes
  obj,         \* the object it has looked up
  copy,        \* the map GetKV gave it
  removed,     \* ghost: keys a Del or Clear has removed from the hash
  overlapped   \* ghost: operations have overlapped since both maps agreed

objects == <<kv, reg, nobj, loading>>
request == <<op, ks, val>>
vars == <<redis, objects, ops, pc, request, obj, copy, removed, overlapped>>

Objs == 1..MaxObj

\* A map from keys to values, 0 for an absent key.
Maps == [Keys -> 0..MaxOps]
Empty == [k \in Keys |-> 0]
Nil == [k \in {} |-> 0]        \* the nil map of an object not yet loaded

Present(m) == {k \in DOMAIN m : m[k] # 0}
Size(m) == Cardinality(Present(m))

Init ==
  /\ redis = Empty /\ kv = [o \in Objs |-> Nil]
  /\ reg = 0 /\ nobj = 0 /\ loading = FALSE
  /\ ops = 0
  /\ pc = [t \in Workers |-> "idle"]
  /\ op = [t \in Workers |-> "none"]
  /\ ks = [t \in Workers |-> {}]
  /\ val = [t \in Workers |-> 0]
  /\ obj = [t \in Workers |-> 0]
  /\ copy = [t \in Workers |-> Empty]
  /\ removed = {} /\ overlapped = FALSE

Idle == \A t \in Workers : pc[t] = "idle"

Goto(t, l) == pc' = [pc EXCEPT ![t] = l]

Finish(t) ==
  /\ Goto(t, "idle")
  /\ op' = [op EXCEPT ![t] = "none"]
  /\ ks' = [ks EXCEPT ![t] = {}]
  /\ val' = [val EXCEPT ![t] = 0]
  /\ obj' = [obj EXCEPT ![t] = 0]
  /\ copy' = [copy EXCEPT ![t] = Empty]

\* What t's operation makes of a map, in Redis and in memory alike.
Applied(t, m) ==
  CASE op[t] \in {"set", "multi"} -> [k \in Keys |-> IF k \in ks[t] THEN val[t] ELSE m[k]]
    [] op[t] = "del" -> [k \in Keys |-> IF k \in ks[t] THEN 0 ELSE m[k]]
    [] OTHER -> Empty

-----------------------------------------------------------------------------
(* The operations. *)

\* Set starts with the map; Multiset, Del and Clear with their Redis command.
Begin(t) ==
  /\ pc[t] = "idle" /\ ops < MaxOps /\ ops' = ops + 1
  /\ \E o \in Calls, S \in SUBSET Keys \ {{}} :
       /\ o \in {"set", "del"} => Cardinality(S) = 1
       /\ o = "clear" => S = Keys
       /\ op' = [op EXCEPT ![t] = o] /\ ks' = [ks EXCEPT ![t] = S]
       /\ Goto(t, IF o = "set" THEN "find" ELSE "persist")
  /\ val' = [val EXCEPT ![t] = ops + 1]
  /\ overlapped' = (overlapped \/ ~Idle \/ loading)
  /\ UNCHANGED <<redis, objects, obj, copy, removed>>

\* GetAll, the lookup: an unmonitored user is an error, and ends the operation.
\* Multiset and Del have changed Redis by then.
Find(t) ==
  /\ pc[t] = "find"
  /\ \/ reg = 0 /\ Finish(t)
     \/ /\ reg # 0
        /\ obj' = [obj EXCEPT ![t] = reg] /\ Goto(t, "copy")
        /\ UNCHANGED <<request, copy>>
  /\ UNCHANGED <<redis, objects, ops, removed, overlapped>>

\* GetKV's copy: a nil map gives an empty one.
CopyOf(m) == IF m = Nil THEN Empty ELSE m

\* What follows the copy: HSET in Set, the sync in Multiset and Del.
AfterCopy(t) == IF op[t] = "set" THEN "persist" ELSE "lookup"

\* Mutant: the nil map is passed on.
CopyMapAsIs(t) ==
  /\ pc[t] = "copy"
  /\ copy' = [copy EXCEPT ![t] = kv[obj[t]]] /\ Goto(t, AfterCopy(t))
  /\ UNCHANGED <<redis, objects, ops, request, obj, removed, overlapped>>

\* Mutant: Set refuses one key too late.
CopyMapOffByOne(t) ==
  LET m == CopyOf(kv[obj[t]]) IN
  /\ pc[t] = "copy"
  /\ \/ op[t] = "set" /\ Size(m) > Limit /\ Finish(t)
     \/ /\ op[t] = "set" => Size(m) <= Limit
        /\ copy' = [copy EXCEPT ![t] = m] /\ Goto(t, AfterCopy(t))
        /\ UNCHANGED <<request, obj>>
  /\ UNCHANGED <<redis, objects, ops, removed, overlapped>>

\* Mutant: Set shows the pair without storing it.
CopyMapUnstored(t) ==
  /\ pc[t] = "copy"
  /\ copy' = [copy EXCEPT ![t] = CopyOf(kv[obj[t]])] /\ Goto(t, "lookup")
  /\ UNCHANGED <<redis, objects, ops, request, obj, removed, overlapped>>

\* GetKV under p.mu.RLock; Set refuses a map of Limit keys, whatever the key.
CopyMap(t) ==
  LET m == CopyOf(kv[obj[t]]) IN
  /\ pc[t] = "copy"
  /\ \/ op[t] = "set" /\ Size(m) > Limit - 1 /\ Finish(t)
     \/ /\ op[t] = "set" => Size(m) <= Limit - 1
        /\ copy' = [copy EXCEPT ![t] = m] /\ Goto(t, AfterCopy(t))
        /\ UNCHANGED <<request, obj>>
  /\ UNCHANGED <<redis, objects, ops, removed, overlapped>>

\* HSET, HDEL or DEL.
Persist(t) ==
  /\ pc[t] = "persist"
  /\ redis' = Applied(t, redis)
  /\ removed' = removed \cup (Present(redis) \ Present(redis'))
  /\ Goto(t, IF op[t] \in {"set", "clear"} THEN "lookup" ELSE "find")
  /\ UNCHANGED <<objects, ops, request, obj, copy, overlapped>>

\* Registry.Sync, the lookup.
Lookup(t) ==
  /\ pc[t] = "lookup"
  /\ \/ reg = 0 /\ Finish(t)
     \/ /\ reg # 0
        /\ obj' = [obj EXCEPT ![t] = reg] /\ Goto(t, "merge")
        /\ UNCHANGED <<request, copy>>
  /\ UNCHANGED <<redis, objects, ops, removed, overlapped>>

\* Mutant: Del syncs the map without removing the key from it.
MergeKeepsKey(t) ==
  /\ pc[t] = "merge"
  /\ kv' = [kv EXCEPT ![obj[t]] = IF op[t] = "del" THEN copy[t]
                                  ELSE Applied(t, copy[t])]
  /\ Finish(t)
  /\ UNCHANGED <<redis, reg, nobj, loading, ops, removed, overlapped>>

\* applySync replaces the whole map by the changed copy.
Merge(t) ==
  /\ pc[t] = "merge"
  /\ kv' = [kv EXCEPT ![obj[t]] = Applied(t, copy[t])]
  /\ Finish(t)
  /\ UNCHANGED <<redis, reg, nobj, loading, ops, removed, overlapped>>

-----------------------------------------------------------------------------
(* The life of the Presence object. *)

\* LookupOrStart makes the object visible with a nil map ...
Start ==
  /\ reg = 0 /\ nobj < MaxObj
  /\ nobj' = nobj + 1 /\ reg' = nobj + 1 /\ loading' = TRUE
  /\ overlapped' = ~Idle
  /\ UNCHANGED <<redis, kv, ops, pc, request, obj, copy, removed>>

\* ... and then loads it.
Load ==
  /\ loading
  /\ kv' = [kv EXCEPT ![reg] = redis] /\ loading' = FALSE
  /\ UNCHANGED <<redis, reg, nobj, ops, pc, request, obj, copy, removed,
                 overlapped>>

\* Registry.Stop: operations that found the object go on with it.
Stop ==
  /\ reg # 0 /\ ~loading
  /\ reg' = 0
  /\ UNCHANGED <<redis, kv, nobj, loading, ops, pc, request, obj, copy, removed,
                 overlapped>>

\* The process ends between any two steps; only Redis remains.
Crash ==
  /\ reg' = 0 /\ loading' = FALSE
  /\ pc' = [t \in Workers |-> "idle"]
  /\ op' = [t \in Workers |-> "none"]
  /\ ks' = [t \in Workers |-> {}]
  /\ val' = [t \in Workers |-> 0]
  /\ obj' = [t \in Workers |-> 0]
  /\ copy' = [t \in Workers |-> Empty]
  /\ UNCHANGED <<redis, kv, nobj, ops, removed, overlapped>>

-----------------------------------------------------------------------------
Operation(t) ==
  \/ Begin(t) \/ Find(t) \/ CopyMap(t) \/ Persist(t) \/ Lookup(t) \/ Merge(t)

Next == (\E t \in Workers : Operation(t)) \/ Start \/ Load \/ Stop \/ Crash

Spec == Init /\ [][Next]_vars

-----------------------------------------------------------------------------
(* Correctness. *)

\* The types of the state.
TypeOK ==
  /\ redis \in Maps /\ kv \in [Objs -> Maps \cup {Nil}]
  /\ reg \in 0..MaxObj /\ nobj \in 0..MaxObj /\ loading \in BOOLEAN
  /\ ops \in 0..MaxOps
  /\ pc \in [Workers -> {"idle", "find", "copy", "persist", "lookup", "merge"}]
  /\ op \in [Workers -> {"none", "set", "multi", "del", "clear"}]
  /\ ks \in [Workers -> SUBSET Keys] /\ val \in [Workers -> 0..MaxOps]
  /\ obj \in [Workers -> 0..MaxObj] /\ copy \in [Workers -> Maps]
  /\ removed \subseteq Keys /\ overlapped \in BOOLEAN

\* Memory and Redis drift apart only by overlap: as long as no two operations,
\* and no operation and the start of the user, have overlapped since the object
\* was started, an idle store shows what it stores.
ShownIsStored ==
  (reg # 0 /\ ~loading /\ Idle /\ ~overlapped) => kv[reg] = redis

\* A crash loses no pair a client was shown: every key in memory is in Redis,
\* or a Del or Clear has removed it, however the operations interleave (Set and
\* Multiset write Redis first).
ShownSurvives ==
  \A o \in Objs : Present(kv[o]) \subseteq Present(redis) \cup removed

\* Set never makes the map that clients are shown exceed the limit, even when
\* other operations run between its check and its sync.
SetWithinLimit ==
  [][\A t \in Workers :
       (pc[t] = "merge" /\ op[t] = "set" /\ pc'[t] = "idle" /\ kv' # kv)
         => Size(kv'[obj[t]]) <= Limit]_vars

\* "It enforces the 512-key limit" (kv.go:36-37): with Set alone, the hash never
\* holds more than Limit keys.
LimitEnforced == Size(redis) <= Limit

=============================================================================
