------------------------------ MODULE KVProofs ------------------------------
(***************************************************************************)
(* KV, for every set of workers, keys, limit and bound: the invariant has   *)
(* three layers.  Flow is what a program point knows of its operation;      *)
(* Survives strengthens ShownSurvives by the copies held and the keys being *)
(* written; Solo strengthens ShownIsStored by how far the only running      *)
(* operation has come.                                                      *)
(***************************************************************************)
EXTENDS KV, TLAPS, FiniteSetTheorems

\* The operation of t has changed Redis.
Written(t) ==
  \/ pc[t] \in {"lookup", "merge"}
  \/ op[t] \in {"multi", "del"} /\ pc[t] \in {"find", "copy"}

\* t has taken the copy that its merge starts from.
Copied(t) ==
  \/ op[t] # "clear" /\ pc[t] \in {"lookup", "merge"}
  \/ op[t] = "set" /\ pc[t] = "persist"

Flow ==
  /\ loading => reg # 0
  /\ (reg # 0 /\ ~loading) => kv[reg] \in Maps
  /\ \A t \in Workers :
       /\ pc[t] \in {"copy", "merge"} => obj[t] # 0
       /\ pc[t] # "idle" => op[t] # "none" /\ val[t] # 0
       /\ op[t] = "clear" => pc[t] \notin {"find", "copy"}
       /\ op[t] = "set" => \E k \in Keys : ks[t] = {k}
       /\ Copied(t) /\ op[t] = "set" => Size(copy[t]) <= Limit - 1

LEMMA NilNotMap == \A m \in Maps : m # Nil
  BY KVAssumption DEF Maps, Nil

LEMMA EmptyMap == Empty \in Maps /\ Present(Empty) = {}
  BY KVAssumption DEF Maps, Empty, Present

LEMMA CopyIsMap == \A m \in Maps \cup {Nil} : CopyOf(m) \in Maps
  BY EmptyMap DEF CopyOf

LEMMA AppliedIsMap ==
  ASSUME TypeOK, NEW t \in Workers, NEW m \in Maps
  PROVE  Applied(t, m) \in Maps
<1> USE KVAssumption
<1>1. val[t] \in 0..MaxOps BY DEF TypeOK
<1>2. CASE op[t] \in {"set", "multi"} BY <1>1, <1>2 DEF Applied, Maps
<1>3. CASE op[t] = "del" BY <1>3 DEF Applied, Maps
<1>4. CASE op[t] \notin {"set", "multi", "del"} BY <1>4, EmptyMap DEF Applied
<1> QED BY <1>2, <1>3, <1>4

\* What an operation leaves in a map: at most its own keys are added.
LEMMA AppliedPresent ==
  ASSUME TypeOK, NEW t \in Workers, NEW m \in Maps
  PROVE  /\ op[t] \in {"set", "multi"} => Present(Applied(t, m)) \subseteq Present(m) \cup ks[t]
         /\ op[t] \notin {"set", "multi"} => Present(Applied(t, m)) \subseteq Present(m)
         /\ (op[t] \in {"set", "multi"} /\ val[t] # 0)
              => ks[t] \subseteq Present(Applied(t, m))
<1>1. ks[t] \subseteq Keys BY DEF TypeOK
<1>2. DOMAIN m = Keys BY DEF Maps
<1>3. CASE op[t] \in {"set", "multi"} BY <1>1, <1>2, <1>3 DEF Applied, Present
<1>4. CASE op[t] = "del" BY <1>1, <1>2, <1>4 DEF Applied, Present
<1>5. CASE op[t] \notin {"set", "multi", "del"} BY <1>5, EmptyMap DEF Applied
<1> QED BY <1>3, <1>4, <1>5

-----------------------------------------------------------------------------
(* Types and flow. *)

LEMMA FinishType ==
  ASSUME TypeOK, NEW t \in Workers, Finish(t)
  PROVE  /\ pc' \in [Workers -> {"idle", "find", "copy", "persist", "lookup", "merge"}]
         /\ op' \in [Workers -> {"none", "set", "multi", "del", "clear"}]
         /\ ks' \in [Workers -> SUBSET Keys] /\ val' \in [Workers -> 0..MaxOps]
         /\ obj' \in [Workers -> 0..MaxObj] /\ copy' \in [Workers -> Maps]
  BY EmptyMap, KVAssumption DEF TypeOK, Finish, Goto

LEMMA TypeStep ==
  ASSUME TypeOK, Flow, Next PROVE TypeOK'
<1> USE KVAssumption
<1>1. ASSUME NEW t \in Workers, Begin(t) PROVE TypeOK'
  <2>1. PICK o \in Calls, S \in SUBSET Keys \ {{}} :
           /\ op' = [op EXCEPT ![t] = o] /\ ks' = [ks EXCEPT ![t] = S]
           /\ Goto(t, IF o = "set" THEN "find" ELSE "persist")
    BY <1>1 DEF Begin
  <2>2. o \in {"none", "set", "multi", "del", "clear"} /\ S \in SUBSET Keys
    BY <2>1
  <2>3. ops + 1 \in 0..MaxOps /\ ops' = ops + 1 BY <1>1 DEF Begin, TypeOK
  <2>4. overlapped' \in BOOLEAN BY <1>1 DEF Begin, TypeOK, Idle
  <2> QED BY <1>1, <2>1, <2>2, <2>3, <2>4 DEF Begin, TypeOK, Goto, objects
<1>2. ASSUME NEW t \in Workers, Find(t) PROVE TypeOK'
  <2>1. CASE reg = 0 /\ Finish(t)
    BY <1>2, <2>1, FinishType DEF Find, TypeOK, objects
  <2>2. CASE ~(reg = 0 /\ Finish(t))
    BY <1>2, <2>2 DEF Find, TypeOK, Goto, objects, request
  <2> QED BY <2>1, <2>2
<1>3. ASSUME NEW t \in Workers, CopyMap(t) PROVE TypeOK'
  <2>1. CASE Finish(t)
    BY <1>3, <2>1, FinishType DEF CopyMap, TypeOK, objects
  <2>2. CASE ~Finish(t)
    <3>1. obj[t] \in Objs BY <1>3 DEF CopyMap, TypeOK, Flow, Objs
    <3>2. CopyOf(kv[obj[t]]) \in Maps BY <3>1, CopyIsMap DEF TypeOK
    <3> QED BY <1>3, <2>2, <3>2 DEF CopyMap, TypeOK, Goto, AfterCopy, objects, request
  <2> QED BY <2>1, <2>2
<1>4. ASSUME NEW t \in Workers, Persist(t) PROVE TypeOK'
  <2>1. redis' \in Maps BY <1>4, AppliedIsMap DEF Persist, TypeOK
  <2>2. removed' \subseteq Keys BY <1>4 DEF Persist, TypeOK, Present, Maps
  <2> QED BY <1>4, <2>1, <2>2 DEF Persist, TypeOK, Goto, objects, request
<1>5. ASSUME NEW t \in Workers, Lookup(t) PROVE TypeOK'
  <2>1. CASE reg = 0 /\ Finish(t)
    BY <1>5, <2>1, FinishType DEF Lookup, TypeOK, objects
  <2>2. CASE ~(reg = 0 /\ Finish(t))
    BY <1>5, <2>2 DEF Lookup, TypeOK, Goto, objects, request
  <2> QED BY <2>1, <2>2
<1>6. ASSUME NEW t \in Workers, Merge(t) PROVE TypeOK'
  <2>1. copy[t] \in Maps BY DEF TypeOK
  <2>2. Applied(t, copy[t]) \in Maps BY <2>1, AppliedIsMap
  <2>3. kv' \in [Objs -> Maps \cup {Nil}] BY <1>6, <2>2 DEF Merge, TypeOK
  <2> QED BY <1>6, <2>3, FinishType DEF Merge, TypeOK
<1>7. CASE Start
  <2>1. overlapped' \in BOOLEAN BY <1>7 DEF Start, Idle
  <2> QED BY <1>7, <2>1 DEF Start, TypeOK, request
<1>8. CASE Load BY <1>8 DEF Load, TypeOK, request
<1>9. CASE Stop BY <1>9 DEF Stop, TypeOK, request
<1>10. CASE Crash
  <2>1. 0 \in 0..MaxOps /\ 0 \in 0..MaxObj /\ {} \in SUBSET Keys OBVIOUS
  <2>2. /\ pc' \in [Workers -> {"idle", "find", "copy", "persist", "lookup", "merge"}]
        /\ op' \in [Workers -> {"none", "set", "multi", "del", "clear"}]
    BY <1>10 DEF Crash
  <2>3. ks' \in [Workers -> SUBSET Keys] /\ val' \in [Workers -> 0..MaxOps]
    BY <1>10, <2>1 DEF Crash
  <2>4. obj' \in [Workers -> 0..MaxObj] /\ copy' \in [Workers -> Maps]
    BY <1>10, <2>1, EmptyMap DEF Crash
  <2> QED BY <1>10, <2>1, <2>2, <2>3, <2>4 DEF Crash, TypeOK
<1> QED BY <1>1, <1>2, <1>3, <1>4, <1>5, <1>6, <1>7, <1>8, <1>9, <1>10 DEF Next, Operation

\* A step of t leaves what is local to u alone.
Keeps(u) ==
  /\ pc'[u] = pc[u] /\ op'[u] = op[u] /\ ks'[u] = ks[u]
  /\ val'[u] = val[u] /\ obj'[u] = obj[u] /\ copy'[u] = copy[u]

LEMMA OthersKeep ==
  ASSUME TypeOK, NEW t \in Workers, Operation(t), NEW u \in Workers, u # t
  PROVE  Keeps(u)
<1> USE DEF Keeps, TypeOK, Goto, Finish, request
<1>1. CASE Begin(t) BY <1>1 DEF Begin
<1>2. CASE Find(t) BY <1>2 DEF Find
<1>3. CASE CopyMap(t) BY <1>3 DEF CopyMap
<1>4. CASE Persist(t) BY <1>4 DEF Persist
<1>5. CASE Lookup(t) BY <1>5 DEF Lookup
<1>6. CASE Merge(t) BY <1>6 DEF Merge
<1> QED BY <1>1, <1>2, <1>3, <1>4, <1>5, <1>6 DEF Operation

LEMMA Ended ==
  ASSUME TypeOK, NEW t \in Workers, Finish(t)
  PROVE  pc'[t] = "idle" /\ op'[t] = "none"
  BY DEF TypeOK, Finish, Goto

\* The part of Flow that speaks of one worker.
FlowOf(t) ==
  /\ pc[t] \in {"copy", "merge"} => obj[t] # 0
  /\ pc[t] # "idle" => op[t] # "none" /\ val[t] # 0
  /\ op[t] = "clear" => pc[t] \notin {"find", "copy"}
  /\ op[t] = "set" => \E k \in Keys : ks[t] = {k}
  /\ Copied(t) /\ op[t] = "set" => Size(copy[t]) <= Limit - 1

LEMMA FlowKept ==
  ASSUME Flow, NEW u \in Workers, Keeps(u)
  PROVE  FlowOf(u)'
  BY DEF Flow, FlowOf, Keeps, Copied, Size, Present

LEMMA FlowOperation ==
  ASSUME TypeOK, Flow, NEW t \in Workers, Operation(t)
  PROVE  FlowOf(t)'
<1>1. FlowOf(t) BY DEF Flow, FlowOf
<1>2. CASE Finish(t)
  BY <1>2, Ended DEF FlowOf, Copied
<1>3. CASE Begin(t)
  <2>1. PICK o \in Calls, S \in SUBSET Keys \ {{}} :
           /\ o \in {"set", "del"} => Cardinality(S) = 1
           /\ op' = [op EXCEPT ![t] = o] /\ ks' = [ks EXCEPT ![t] = S]
           /\ Goto(t, IF o = "set" THEN "find" ELSE "persist")
    BY <1>3 DEF Begin
  <2>2. /\ op'[t] = o /\ ks'[t] = S
        /\ pc'[t] = IF o = "set" THEN "find" ELSE "persist"
    BY <2>1 DEF TypeOK, Goto
  <2>3. val'[t] # 0 BY <1>3 DEF Begin, TypeOK
  <2>4. o \in {"set", "multi", "del", "clear"} BY KVAssumption
  <2>5. o = "set" => \E k \in Keys : S = {k}
    <3>1. IsFiniteSet(S) BY KVAssumption, FS_Subset
    <3> QED BY <2>1, <3>1, FS_Singleton
  <2> QED BY <2>2, <2>3, <2>4, <2>5 DEF FlowOf, Copied
<1>4. CASE Find(t) /\ ~Finish(t)
  BY <1>1, <1>4 DEF Find, FlowOf, Copied, TypeOK, Goto, request
<1>5. CASE CopyMap(t) /\ ~Finish(t)
  <2>1. copy'[t] = CopyOf(kv[obj[t]]) /\ pc'[t] = AfterCopy(t)
    BY <1>5 DEF CopyMap, TypeOK, Goto
  <2>2. op[t] = "set" => Size(copy'[t]) <= Limit - 1
    BY <1>5, <2>1 DEF CopyMap
  <2>3. Size(copy[t])' = Size(copy'[t]) BY DEF Size, Present
  <2> QED BY <1>1, <1>5, <2>1, <2>2, <2>3
          DEF CopyMap, FlowOf, Copied, AfterCopy, request
<1>6. CASE Persist(t)
  <2>1. Size(copy[t])' = Size(copy[t]) BY <1>6 DEF Persist, Size, Present
  <2> QED BY <1>1, <1>6, <2>1 DEF Persist, FlowOf, Copied, TypeOK, Goto, request
<1>7. CASE Lookup(t) /\ ~Finish(t)
  <2>1. Size(copy[t])' = Size(copy[t]) BY <1>7 DEF Lookup, Size, Present
  <2> QED BY <1>1, <1>7, <2>1 DEF Lookup, FlowOf, Copied, TypeOK, Goto, request
<1>8. CASE Merge(t) BY <1>2, <1>8 DEF Merge
<1> QED BY <1>2, <1>3, <1>4, <1>5, <1>6, <1>7, <1>8 DEF Operation

LEMMA FlowStep ==
  ASSUME TypeOK, Flow, Next PROVE Flow'
<1>1. Flow' <=> /\ (loading => reg # 0)'
                /\ ((reg # 0 /\ ~loading) => kv[reg] \in Maps)'
                /\ \A u \in Workers : FlowOf(u)'
  BY DEF Flow, FlowOf
<1>2. ASSUME NEW t \in Workers, Operation(t) PROVE Flow'
  <2>1. \A u \in Workers : FlowOf(u)'
    BY <1>2, OthersKeep, FlowKept, FlowOperation
  <2>2. reg' = reg /\ loading' = loading
    BY <1>2 DEF Operation, Begin, Find, CopyMap, Persist, Lookup, Merge, objects
  <2>3. ((reg # 0 /\ ~loading) => kv[reg] \in Maps)'
    <3>1. CASE Merge(t)
      <4>1. Applied(t, copy[t]) \in Maps BY AppliedIsMap DEF TypeOK
      <4>2. reg # 0 => reg \in Objs BY DEF TypeOK, Objs
      <4> QED BY <3>1, <4>1, <4>2, <2>2 DEF Merge, TypeOK, Flow
    <3>2. CASE ~Merge(t)
      BY <1>2, <3>2, <2>2 DEF Operation, Begin, Find, CopyMap, Persist, Lookup, objects, Flow
    <3> QED BY <3>1, <3>2
  <2> QED BY <1>1, <2>1, <2>2, <2>3 DEF Flow
<1>3. ASSUME Start \/ Load \/ Stop PROVE Flow'
  <2>1. \A u \in Workers : FlowOf(u)'
    BY <1>3, FlowKept DEF Start, Load, Stop, request, Keeps
  <2>2. CASE Start BY <1>1, <2>1, <2>2 DEF Start, TypeOK
  <2>3. CASE Load
    <3>1. reg \in Objs BY <2>3 DEF Load, Flow, TypeOK, Objs
    <3> QED BY <1>1, <2>1, <2>3, <3>1 DEF Load, TypeOK, Flow
  <2>4. CASE Stop BY <1>1, <2>1, <2>4 DEF Stop, Flow
  <2> QED BY <1>3, <2>2, <2>3, <2>4
<1>4. CASE Crash
  BY <1>1, <1>4 DEF Crash, FlowOf, Copied
<1> QED BY <1>2, <1>3, <1>4 DEF Next

LEMMA TypesFlowInit == Init => TypeOK /\ Flow
<1> SUFFICES ASSUME Init PROVE TypeOK /\ Flow OBVIOUS
<1>1. TypeOK
  <2>1. 0 \in 0..MaxOps /\ 0 \in 0..MaxObj /\ {} \in SUBSET Keys BY KVAssumption
  <2>2. redis \in Maps /\ kv \in [Objs -> Maps \cup {Nil}] /\ copy \in [Workers -> Maps]
    BY EmptyMap DEF Init
  <2>3. ks \in [Workers -> SUBSET Keys] /\ val \in [Workers -> 0..MaxOps]
        /\ obj \in [Workers -> 0..MaxObj]
    BY <2>1 DEF Init
  <2> QED BY <2>1, <2>2, <2>3 DEF Init, TypeOK
<1>2. Flow BY DEF Init, Flow, Copied
<1> QED BY <1>1, <1>2

LEMMA TypesFlowStep == TypeOK /\ Flow /\ [Next]_vars => TypeOK' /\ Flow'
<1> SUFFICES ASSUME TypeOK, Flow, [Next]_vars PROVE TypeOK' /\ Flow' OBVIOUS
<1>1. CASE Next BY <1>1, TypeStep, FlowStep
<1>2. CASE UNCHANGED vars
  BY <1>2 DEF vars, objects, request, TypeOK, Flow, Copied, Size, Present
<1> QED BY <1>1, <1>2

\* For every instance: the maps, lookups and copies of a KV operation keep their
\* types (no lookup of object 0), and each operation is where Flow says it is.
THEOREM TypesHold == Spec => [](TypeOK /\ Flow)
<1> QED BY TypesFlowInit, TypesFlowStep, PTL DEF Spec

\* No operation on a store ever works on an object that was not started, and the
\* maps it copies and merges are maps over the keys, whatever overlaps it.
THEOREM KVTypes == Spec => []TypeOK
<1> QED BY TypesHold, PTL

-----------------------------------------------------------------------------
(* ShownSurvives. *)

\* The keys that Redis holds or held until a Del or Clear.
Accounted == Present(redis) \cup removed

Survives ==
  /\ \A o \in Objs : Present(kv[o]) \subseteq Accounted
  /\ \A t \in Workers :
       /\ Present(copy[t]) \subseteq Accounted
       /\ (Written(t) /\ op[t] \in {"set", "multi"}) => ks[t] \subseteq Accounted

LEMMA AccountedGrows ==
  ASSUME TypeOK, [Next]_vars
  PROVE  Accounted \subseteq Accounted'
<1> USE DEF Accounted
<1>1. ASSUME NEW t \in Workers, Persist(t) PROVE Accounted \subseteq Accounted'
  <2>1. Present(redis)' = Present(redis') BY DEF Present
  <2> QED BY <1>1, <2>1 DEF Persist
<1>2. CASE UNCHANGED <<redis, removed>> BY <1>2 DEF Present
<1> QED
  BY <1>1, <1>2 DEF Next, vars, Operation, Begin, Find, CopyMap, Lookup, Merge,
                    Start, Load, Stop, Crash

LEMMA NilEmpty == Present(Nil) = {}
  BY DEF Present, Nil

LEMMA SurvivesStep ==
  ASSUME TypeOK, Flow, Survives, Next
  PROVE  Survives'
<1>1. Accounted \subseteq Accounted' BY AccountedGrows
<1>2. \A o \in Objs : Present(kv[o])' = Present(kv'[o]) BY DEF Present
<1>3. \A u \in Workers : Present(copy[u])' = Present(copy'[u]) BY DEF Present
<1>4. ASSUME NEW t \in Workers, Operation(t) PROVE Survives'
  <2>1. ASSUME NEW u \in Workers, u # t
        PROVE  /\ Present(copy[u])' \subseteq Accounted'
               /\ (Written(u) /\ op[u] \in {"set", "multi"})' => ks'[u] \subseteq Accounted'
    <3>1. Keeps(u) BY <1>4, <2>1, OthersKeep
    <3> QED BY <3>1, <1>1, <1>3 DEF Survives, Keeps, Written
  <2>2. ASSUME NEW o \in Objs PROVE Present(kv[o])' \subseteq Accounted'
    <3>1. CASE Merge(t) /\ o = obj[t]
      <4>1. copy[t] \in Maps BY DEF TypeOK
      <4>2. kv'[o] = Applied(t, copy[t]) BY <3>1 DEF Merge, TypeOK
      <4>3. Written(t) BY <3>1 DEF Merge, Written
      <4> QED BY <4>1, <4>2, <4>3, <1>1, <1>2, AppliedPresent DEF Survives
    <3>2. CASE ~(Merge(t) /\ o = obj[t])
      <4>1. kv'[o] = kv[o]
        BY <1>4, <3>2 DEF Operation, Begin, Find, CopyMap, Persist, Lookup, Merge,
                          objects, TypeOK
      <4> QED BY <4>1, <1>1, <1>2 DEF Survives
    <3> QED BY <3>1, <3>2
  <2>3. Present(copy[t])' \subseteq Accounted'
    <3>1. CASE Finish(t)
      <4>1. copy'[t] = Empty BY <3>1 DEF Finish, TypeOK
      <4> QED BY <4>1, <1>3, EmptyMap
    <3>2. CASE CopyMap(t) /\ ~Finish(t)
      <4>1. obj[t] \in Objs BY <3>2 DEF CopyMap, Flow, TypeOK, Objs
      <4>2. copy'[t] = CopyOf(kv[obj[t]]) BY <3>2 DEF CopyMap, TypeOK
      <4>3. Present(CopyOf(kv[obj[t]])) \subseteq Accounted
        BY <4>1, EmptyMap DEF CopyOf, Survives
      <4> QED BY <4>2, <4>3, <1>1, <1>3
    <3>3. CASE ~CopyMap(t) /\ ~Finish(t)
      <4>1. copy' = copy
        BY <1>4, <3>3 DEF Operation, Begin, Find, Persist, Lookup, Merge
      <4> QED BY <4>1, <1>1, <1>3 DEF Survives
    <3> QED BY <3>1, <3>2, <3>3
  <2>4. (Written(t) /\ op[t] \in {"set", "multi"})' => ks'[t] \subseteq Accounted'
    <3>1. CASE Finish(t) BY <3>1, Ended
    <3>2. CASE Persist(t)
      <4>1. ks[t] = ks'[t] /\ op[t] = op'[t] BY <3>2 DEF Persist, request
      <4>2. val[t] # 0 BY <3>2 DEF Persist, Flow
      <4>3. op[t] \in {"set", "multi"} => ks[t] \subseteq Present(redis')
        BY <3>2, <4>2, AppliedPresent DEF Persist, TypeOK
      <4>4. Present(redis') \subseteq Accounted' BY DEF Accounted, Present
      <4> QED BY <4>1, <4>3, <4>4
    <3>3. CASE Begin(t)
      <4>1. PICK o \in Calls : /\ op' = [op EXCEPT ![t] = o]
                               /\ Goto(t, IF o = "set" THEN "find" ELSE "persist")
        BY <3>3 DEF Begin
      <4> QED BY <4>1 DEF TypeOK, Goto, Written
    <3>4. CASE (Find(t) \/ CopyMap(t) \/ Lookup(t)) /\ ~Finish(t)
      <4>1. ks'[t] = ks[t] /\ op'[t] = op[t]
        BY <3>4 DEF Find, CopyMap, Lookup, request
      <4>2. op[t] \in {"set", "multi"} /\ Written(t)' => Written(t)
        BY <3>4, <4>1 DEF Find, CopyMap, Lookup, Written, Goto, AfterCopy, TypeOK
      <4> QED BY <4>1, <4>2, <1>1 DEF Survives
    <3> QED BY <1>4, <3>1, <3>2, <3>3, <3>4 DEF Operation, Merge
  <2> QED BY <2>1, <2>2, <2>3, <2>4 DEF Survives
<1>5. CASE Start \/ Load \/ Stop
  <2>1. \A u \in Workers : Keeps(u)
    BY <1>5 DEF Start, Load, Stop, request, Keeps
  <2>2. \A o \in Objs : Present(kv'[o]) \subseteq Accounted'
    <3>1. CASE Load
      BY <3>1, <1>1 DEF Load, TypeOK, Survives, Accounted
    <3>2. CASE Start \/ Stop BY <3>2, <1>1 DEF Start, Stop, Survives
    <3> QED BY <1>5, <3>1, <3>2
  <2> QED BY <2>1, <2>2, <1>1, <1>2, <1>3 DEF Survives, Keeps, Written
<1>6. CASE Crash
  <2>1. \A u \in Workers : copy'[u] = Empty /\ op'[u] = "none"
    BY <1>6 DEF Crash
  <2>2. kv' = kv BY <1>6 DEF Crash
  <2> QED BY <2>1, <2>2, <1>1, <1>2, <1>3, EmptyMap DEF Survives
<1> QED BY <1>4, <1>5, <1>6 DEF Next

\* For every instance: every key that a Presence object shows is in Redis, or a
\* Del or Clear has removed it, through any interleaving, restart and crash.
THEOREM ShownSurvivesHolds == Spec => []ShownSurvives
<1>1. Init => Survives
  BY EmptyMap, NilEmpty DEF Init, Survives, Written
<1>2. TypeOK /\ Flow /\ Survives /\ [Next]_vars => Survives'
  <2> SUFFICES ASSUME TypeOK, Flow, Survives, [Next]_vars PROVE Survives' OBVIOUS
  <2>1. CASE UNCHANGED vars
    BY <2>1 DEF vars, objects, request, Survives, Written, Accounted, Present
  <2> QED BY <2>1, SurvivesStep
<1>3. Survives => ShownSurvives BY DEF Survives, ShownSurvives, Accounted
<1> QED BY <1>1, <1>2, <1>3, TypesHold, PTL DEF Spec

-----------------------------------------------------------------------------
(* SetWithinLimit. *)

\* For every limit: a Set never leaves more than Limit keys in the map shown.
THEOREM SetWithinLimitHolds == Spec => SetWithinLimit
<1>1. ASSUME TypeOK, Flow, Next, NEW t \in Workers,
             pc[t] = "merge", op[t] = "set", pc'[t] = "idle", kv' # kv
      PROVE  Size(kv'[obj[t]]) <= Limit
  <2>1. CASE Merge(t)
    <3>1. obj[t] \in Objs BY <1>1 DEF Flow, TypeOK, Objs
    <3>2. kv'[obj[t]] = Applied(t, copy[t]) BY <1>1, <2>1, <3>1 DEF Merge, TypeOK
    <3>3. copy[t] \in Maps BY <1>1 DEF TypeOK
    <3>4. PICK k \in Keys : ks[t] = {k} BY <1>1 DEF Flow
    <3>5. Present(kv'[obj[t]]) \subseteq Present(copy[t]) \cup {k}
      BY <1>1, <3>2, <3>3, <3>4, AppliedPresent
    <3>6. IsFiniteSet(Present(copy[t]))
      <4>1. Present(copy[t]) \subseteq Keys BY <3>3 DEF Present, Maps
      <4> QED BY <4>1, FS_Subset, KVAssumption
    <3>7. Cardinality(Present(copy[t])) \in Nat BY <3>6, FS_CardinalityType
    <3>8. Cardinality(Present(copy[t])) <= Limit - 1
      BY <1>1 DEF Flow, Copied, Size
    <3>9. /\ IsFiniteSet(Present(copy[t]) \cup {k})
          /\ Cardinality(Present(copy[t]) \cup {k}) <= Limit
      <4>1. /\ IsFiniteSet(Present(copy[t]) \cup {k})
            /\ \/ Cardinality(Present(copy[t]) \cup {k}) = Cardinality(Present(copy[t]))
               \/ Cardinality(Present(copy[t]) \cup {k}) = Cardinality(Present(copy[t])) + 1
        BY <3>6, FS_AddElement
      <4> QED BY <4>1, <3>7, <3>8, KVAssumption
    <3>10. Cardinality(Present(copy[t]) \cup {k}) \in Nat BY <3>9, FS_CardinalityType
    <3>11. /\ IsFiniteSet(Present(kv'[obj[t]]))
           /\ Cardinality(Present(kv'[obj[t]])) <= Cardinality(Present(copy[t]) \cup {k})
      BY <3>5, <3>9, FS_Subset
    <3>12. Cardinality(Present(kv'[obj[t]])) \in Nat BY <3>11, FS_CardinalityType
    <3> QED BY <3>9, <3>10, <3>11, <3>12, KVAssumption DEF Size
  <2>2. CASE Operation(t) /\ ~Merge(t)
    BY <1>1, <2>2 DEF Operation, Begin, Find, CopyMap, Persist, Lookup
  <2>3. ASSUME NEW u \in Workers, Operation(u), u # t PROVE FALSE
    BY <1>1, <2>3, OthersKeep DEF Keeps
  <2>4. CASE Start \/ Load \/ Stop
    BY <1>1, <2>4 DEF Start, Load, Stop
  <2>5. CASE Crash BY <1>1, <2>5 DEF Crash
  <2> QED BY <1>1, <2>1, <2>2, <2>3, <2>4, <2>5 DEF Next
<1>2. TypeOK /\ Flow /\ [Next]_vars
        => [\A t \in Workers :
              (pc[t] = "merge" /\ op[t] = "set" /\ pc'[t] = "idle" /\ kv' # kv)
                => Size(kv'[obj[t]]) <= Limit]_vars
  BY <1>1
<1> QED BY <1>2, TypesHold, PTL DEF Spec, SetWithinLimit

-----------------------------------------------------------------------------
(* ShownIsStored. *)

\* How far the only running operation has come: until it has changed Redis both
\* maps agree, and then Redis is ahead by its change alone.
OneStep(t) ==
  /\ Written(t) => redis = Applied(t, kv[reg])
  /\ ~Written(t) => kv[reg] = redis
  /\ pc[t] \in {"copy", "merge"} => obj[t] = reg
  /\ Copied(t) => copy[t] = kv[reg]

Solo ==
  (reg # 0 /\ ~overlapped) =>
    /\ loading => Idle
    /\ \A t, u \in Workers : pc[t] # "idle" /\ pc[u] # "idle" => t = u
    /\ (~loading /\ Idle) => kv[reg] = redis
    /\ \A t \in Workers : (~loading /\ pc[t] # "idle") => OneStep(t)

LEMMA SoloOperation ==
  ASSUME TypeOK, Flow, Solo, NEW t \in Workers, Operation(t)
  PROVE  Solo'
<1> SUFFICES ASSUME reg' # 0, ~overlapped'
             PROVE  /\ (loading => Idle)'
                    /\ \A v, u \in Workers : pc'[v] # "idle" /\ pc'[u] # "idle" => v = u
                    /\ ((~loading /\ Idle) => kv[reg] = redis)'
                    /\ \A u \in Workers : (~loading' /\ pc'[u] # "idle") => OneStep(u)'
  BY DEF Solo
<1>1. reg' = reg /\ loading' = loading
  BY DEF Operation, Begin, Find, CopyMap, Persist, Lookup, Merge, objects
<1>2. ~overlapped
  BY DEF Operation, Begin, Find, CopyMap, Persist, Lookup, Merge, TypeOK
<1>3. ~loading /\ (Begin(t) => Idle) /\ (~Begin(t) => pc[t] # "idle")
  BY <1>1, <1>2 DEF Operation, Begin, Find, CopyMap, Persist, Lookup, Merge, Solo, TypeOK, Idle
<1>4. \A u \in Workers : u # t => pc[u] = "idle"
  BY <1>1, <1>2, <1>3 DEF Solo, Idle
<1>5. \A u \in Workers : u # t => pc'[u] = "idle"
  BY <1>4, OthersKeep DEF Keeps
<1>6. kv[reg] \in Maps /\ reg \in Objs BY <1>1, <1>3 DEF Flow, TypeOK, Objs
<1>7. ~Begin(t) => OneStep(t) BY <1>1, <1>2, <1>3 DEF Solo
<1>8. \/ pc'[t] = "idle" /\ kv'[reg] = redis'
      \/ pc'[t] # "idle" /\ OneStep(t)'
  <2>1. CASE Begin(t)
    <3>1. PICK o \in Calls : /\ op' = [op EXCEPT ![t] = o]
                             /\ Goto(t, IF o = "set" THEN "find" ELSE "persist")
      BY <2>1 DEF Begin
    <3>2. op'[t] = o /\ pc'[t] = IF o = "set" THEN "find" ELSE "persist"
      BY <3>1 DEF TypeOK, Goto
    <3>3. ~Written(t)' /\ ~Copied(t)' BY <3>2 DEF Written, Copied
    <3>4. kv[reg] = redis BY <1>1, <1>2, <1>3, <2>1 DEF Solo
    <3> QED BY <1>1, <2>1, <3>2, <3>3, <3>4 DEF Begin, OneStep, objects
  <2>2. CASE Find(t)
    <3>1. pc'[t] = "copy" /\ obj'[t] = reg /\ UNCHANGED <<redis, kv, request, copy>>
      BY <1>1, <2>2 DEF Find, Goto, TypeOK, objects
    <3>2. Applied(t, kv[reg])' = Applied(t, kv[reg])
      BY <1>1, <3>1 DEF Applied, request
    <3>3. (Written(t)' <=> Written(t)) /\ ~Copied(t)'
      BY <2>2, <3>1 DEF Find, Written, Copied, request
    <3> QED BY <1>1, <1>7, <2>2, <3>1, <3>2, <3>3 DEF OneStep, Find, Begin
  <2>3. CASE CopyMap(t) /\ Finish(t)
    <3>1. pc'[t] = "idle" /\ UNCHANGED <<redis, kv>>
      BY <2>3, Ended DEF CopyMap, objects
    <3>2. op[t] = "set"
      BY <2>3, <3>1 DEF CopyMap, Goto, AfterCopy, TypeOK
    <3> QED BY <1>1, <1>7, <2>3, <3>1, <3>2 DEF OneStep, Written, CopyMap, Begin
  <2>4. CASE CopyMap(t) /\ ~Finish(t)
    <3>1. /\ pc'[t] = AfterCopy(t) /\ copy'[t] = CopyOf(kv[obj[t]])
          /\ UNCHANGED <<redis, kv, request, obj>>
      BY <2>4 DEF CopyMap, Goto, TypeOK, objects
    <3>2. copy'[t] = kv[reg]
      BY <1>6, <1>7, <2>4, <3>1, NilNotMap DEF OneStep, CopyMap, CopyOf, Begin
    <3>3. Applied(t, kv[reg])' = Applied(t, kv[reg])
      BY <1>1, <3>1 DEF Applied, request
    <3>4. Written(t)' <=> Written(t)
      BY <2>4, <3>1 DEF CopyMap, Written, AfterCopy, request, Flow, TypeOK
    <3> QED BY <1>1, <1>7, <2>4, <3>1, <3>2, <3>3, <3>4
            DEF OneStep, CopyMap, Begin, AfterCopy
  <2>5. CASE Persist(t)
    <3>1. /\ redis' = Applied(t, redis) /\ UNCHANGED <<kv, request, copy>>
          /\ pc'[t] \in {"lookup", "find"}
          /\ op[t] \in {"set", "clear"} <=> pc'[t] = "lookup"
      BY <2>5 DEF Persist, Goto, TypeOK, objects
    <3>2. op'[t] = op[t] /\ op[t] \in {"set", "multi", "del", "clear"}
      BY <2>5, <3>1 DEF Persist, request, Flow, TypeOK
    <3>3. ~Written(t) /\ Written(t)' BY <2>5, <3>1, <3>2 DEF Persist, Written
    <3>4. Applied(t, kv[reg])' = Applied(t, kv[reg])
      BY <1>1, <3>1 DEF Applied, request
    <3>5. Copied(t)' => Copied(t) BY <2>5, <3>1, <3>2 DEF Persist, Copied
    <3> QED BY <1>1, <1>7, <2>5, <3>1, <3>3, <3>4, <3>5 DEF OneStep, Persist, Begin
  <2>6. CASE Lookup(t)
    <3>1. pc'[t] = "merge" /\ obj'[t] = reg /\ UNCHANGED <<redis, kv, request, copy>>
      BY <1>1, <2>6 DEF Lookup, Goto, TypeOK, objects
    <3>2. Applied(t, kv[reg])' = Applied(t, kv[reg])
      BY <1>1, <3>1 DEF Applied, request
    <3>3. Written(t)' /\ Written(t) /\ (Copied(t)' => Copied(t))
      BY <2>6, <3>1 DEF Lookup, Written, Copied, request
    <3> QED BY <1>1, <1>7, <2>6, <3>1, <3>2, <3>3 DEF OneStep, Lookup, Begin
  <2>7. CASE Merge(t)
    <3>1. obj[t] = reg /\ redis = Applied(t, kv[reg]) /\ (op[t] # "clear" => copy[t] = kv[reg])
      BY <1>7, <2>7 DEF Merge, OneStep, Written, Copied, Begin
    <3>2. Applied(t, copy[t]) = Applied(t, kv[reg])
      BY <3>1 DEF Applied
    <3> QED BY <1>6, <2>7, <3>1, <3>2, Ended DEF Merge, TypeOK
  <2> QED BY <2>1, <2>2, <2>3, <2>4, <2>5, <2>6, <2>7 DEF Operation
<1> QED BY <1>1, <1>3, <1>5, <1>8 DEF Idle

LEMMA SoloStep ==
  ASSUME TypeOK, Flow, Solo, Next
  PROVE  Solo'
<1>1. CASE \E t \in Workers : Operation(t) BY <1>1, SoloOperation
<1>2. CASE Start BY <1>2 DEF Start, Solo, Idle
<1>3. CASE Load
  <2>1. reg \in Objs BY <1>3 DEF Load, Flow, TypeOK, Objs
  <2>2. kv'[reg] = redis' BY <1>3, <2>1 DEF Load, TypeOK
  <2> QED BY <1>3, <2>2 DEF Load, Solo, Idle
<1>4. CASE Stop \/ Crash BY <1>4 DEF Stop, Crash, Solo
<1> QED BY <1>1, <1>2, <1>3, <1>4 DEF Next

\* For every instance: as long as no operations overlap (with each other or with
\* the start of the user), an idle store shows exactly what Redis stores.
THEOREM ShownIsStoredHolds == Spec => []ShownIsStored
<1>1. Init => Solo BY DEF Init, Solo
<1>2. TypeOK /\ Flow /\ Solo /\ [Next]_vars => Solo'
  <2> SUFFICES ASSUME TypeOK, Flow, Solo, [Next]_vars PROVE Solo' OBVIOUS
  <2>1. CASE UNCHANGED vars
    BY <2>1 DEF vars, objects, request, Solo, OneStep, Written, Copied, Applied, Idle
  <2> QED BY <2>1, SoloStep
<1>3. Solo => ShownIsStored BY DEF Solo, ShownIsStored
<1> QED BY <1>1, <1>2, <1>3, TypesHold, PTL DEF Spec

=============================================================================
