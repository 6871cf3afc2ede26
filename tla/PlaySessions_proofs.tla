------------------------ MODULE PlaySessions_proofs ------------------------
(* Theorems about the session store, for every value of its constants, and *)
(* about play sockets and their sessions, for every number of sockets and  *)
(* every choice of timeouts that leaves a round of the keepalive within    *)
(* the idle lifetime. The first part is about SessionStore alone.          *)
EXTENDS PlaySessions, TLAPS

USE StoreAssumption

\* make(map[...]...) is a map of any type.
LEMMA EmptyMapIsMap == ASSUME NEW K, NEW V PROVE IsMap(EmptyMap, K, V)
  BY DEF IsMap, EmptyMap

\* Storing a well-typed value keeps a map well-typed.
LEMMA PutIsMap ==
  ASSUME NEW m, NEW K, NEW V, IsMap(m, K, V), NEW k \in K, NEW v \in V
  PROVE  IsMap(Put(m, k, v), K, V)
  BY DEF IsMap, Put

\* Deleting keys keeps a map well-typed.
LEMMA DropIsMap ==
  ASSUME NEW m, NEW K, NEW V, IsMap(m, K, V), NEW ks
  PROVE  IsMap(Drop(m, ks), K, V)
  BY DEF IsMap, Drop

\* Overwriting one field of a record in a map is a Put.
LEMMA UpdateIsMap ==
  ASSUME NEW m, NEW K, NEW V, IsMap(m, K, V), NEW k \in DOMAIN m, NEW v \in V
  PROVE  IsMap([m EXCEPT ![k] = v], K, V)
  BY DEF IsMap

LEMMA MinTTLType == MinTTL \in Nat \ {0} /\ MinTTL <= TTL /\ MinTTL <= IdleTTL
  BY DEF MinTTL

Creation == [id : SessionId, record : Record]

LEMMA TypeInit == Init => TypeOK
  BY EmptyMapIsMap DEF Init, TypeOK, Answer

LEMMA TypeNext == TypeOK /\ [Next]_vars => TypeOK'
<1> SUFFICES ASSUME TypeOK, [Next]_vars PROVE TypeOK'
    OBVIOUS
<1> USE DEF TypeOK
<1>1. CASE Tick
    BY <1>1 DEF Tick
<1>2. ASSUME NEW t \in Thread, NEW id \in SessionId, NEW a \in Account,
             CreateStamp(t, id, a)
      PROVE  TypeOK'
  <2>1. [id |-> id, record |-> [account |-> a, created |-> clock, seen |-> clock,
                                expires |-> clock + TTL]] \in Creation
        BY DEF Creation, Record
  <2>2. IsMap(creating', Thread, Creation)
        BY <1>2, <2>1, PutIsMap DEF CreateStamp, Creation
  <2> QED  BY <1>2, <2>2 DEF CreateStamp, Creation
<1>3. ASSUME NEW t \in Thread, CreateStore(t) PROVE TypeOK'
  <2> DEFINE id == creating[t].id
             record == creating[t].record
             now == record.created
  <2>1. id \in SessionId /\ record \in Record /\ now \in Nat
        BY <1>3 DEF CreateStore, IsMap, Record
  <2>2. IsMap(IF PruneDue(now) THEN Drop(records, Stale(now)) ELSE records,
              SessionId, Record)
        BY DropIsMap
  <2>3. IsMap(records', SessionId, Record)
        BY <1>3, <2>1, <2>2, PutIsMap DEF CreateStore
  <2>4. IsMap(creating', Thread, Creation)
        BY <1>3, DropIsMap DEF CreateStore, Creation
  <2>5. nextPrune' \in Nat
        BY <1>3, <2>1, MinTTLType DEF CreateStore
  <2> QED  BY <1>3, <2>3, <2>4, <2>5 DEF CreateStore, Creation, Answer
<1>4. ASSUME NEW op, NEW id \in Known, touchLocked(op, id) PROVE TypeOK'
  <2>1. CASE id \in DOMAIN records /\ ~expired(records[id], clock)
    <3>1. [records[id] EXCEPT !.seen = clock] \in Record
          BY <2>1 DEF IsMap, Record
    <3>2. records' = [records EXCEPT ![id] = [records[id] EXCEPT !.seen = clock]]
          BY <1>4, <2>1 DEF touchLocked
    <3>3. IsMap(records', SessionId, Record)
          BY <2>1, <3>1, <3>2, UpdateIsMap
    <3> QED  BY <1>4, <2>1, <3>3 DEF touchLocked, Answer
  <2>2. CASE ~(id \in DOMAIN records /\ ~expired(records[id], clock))
    <3>1. IsMap(records', SessionId, Record)
          BY <1>4, <2>2, DropIsMap DEF touchLocked
    <3> QED  BY <1>4, <2>2, <3>1 DEF touchLocked, Answer
  <2> QED  BY <2>1, <2>2
<1>5. ASSUME NEW id \in Known, Delete(id) PROVE TypeOK'
  <2>1. IsMap(records', SessionId, Record)
        BY <1>5, DropIsMap DEF Delete
  <2> QED  BY <1>5, <2>1 DEF Delete, Answer
<1>6. CASE UNCHANGED vars
    BY <1>6 DEF vars
<1> QED  BY <1>1, <1>2, <1>3, <1>4, <1>5, <1>6 DEF Next, Get, Touch

\* Every state of the store is well-typed.
THEOREM TypeCorrect == Spec => []TypeOK
<1>1. Init => TypeOK
      BY TypeInit
<1>2. TypeOK /\ [Next]_vars => TypeOK'
      BY TypeNext
<1> QED  BY <1>1, <1>2, PTL DEF Spec

---------------------------------------------------------------------------
(* The inductive invariant behind the safety properties.                   *)

\* A record is never dated in the future, and nothing but its three dates
\* decides when it expires.
WellDated(r, now) == /\ 0 < r.created /\ r.created <= r.seen /\ r.seen <= now
                     /\ r.expires = r.created + TTL

\* Stored identifiers have been issued; records are well dated.
StoredOK == \A id \in DOMAIN records : id \in issued /\ WellDated(records[id], clock)

\* A record not stored yet was dated at most MaxStall ago, under an
\* identifier that nothing else uses.
CreatingOK ==
    \A t \in DOMAIN creating :
        /\ WellDated(creating[t].record, clock)
        /\ creating[t].record.seen = creating[t].record.created
        /\ clock <= creating[t].record.created + MaxStall
        /\ creating[t].id \in issued \ DOMAIN records
        /\ \A u \in DOMAIN creating : creating[u].id = creating[t].id => u = t

\* The latest sweep was dated in the past.
SweepOK == nextPrune <= clock + MinTTL

IInv == TypeOK /\ StoredOK /\ CreatingOK /\ SweepOK

LEMMA IInvInit == Init => IInv
  BY TypeInit, MinTTLType
     DEF Init, IInv, StoredOK, CreatingOK, SweepOK, EmptyMap

LEMMA IInvNext == IInv /\ [Next]_vars => IInv'
<1> SUFFICES ASSUME IInv, [Next]_vars PROVE StoredOK' /\ CreatingOK' /\ SweepOK'
    BY TypeNext DEF IInv
<1> USE DEF IInv, WellDated
<1> TypeOK /\ TypeOK'
    BY TypeNext
<1>a. /\ clock \in Nat /\ nextPrune \in Nat
      /\ \A id \in DOMAIN records : records[id] \in Record
      /\ \A t \in DOMAIN creating : creating[t].id \in SessionId /\ creating[t].record \in Record
      BY DEF TypeOK, IsMap
<1>1. CASE Tick
  <2> USE <1>1, <1>a, MinTTLType DEF Tick, Record
  <2>1. StoredOK'
        BY DEF StoredOK
  <2>2. CreatingOK'
        BY DEF CreatingOK
  <2>3. SweepOK'
        BY DEF SweepOK
  <2> QED  BY <2>1, <2>2, <2>3
<1>2. ASSUME NEW t \in Thread, NEW id \in SessionId, NEW a \in Account,
             CreateStamp(t, id, a)
      PROVE  StoredOK' /\ CreatingOK' /\ SweepOK'
  <2> DEFINE new == [id |-> id,
                     record |-> [account |-> a, created |-> clock, seen |-> clock,
                                 expires |-> clock + TTL]]
  <2>1. StoredOK' /\ SweepOK'
        BY <1>2 DEF CreateStamp, StoredOK, SweepOK, MinTTL
  <2>2. /\ DOMAIN creating' = DOMAIN creating \cup {t}
        /\ creating'[t] = new
        /\ \A u \in DOMAIN creating : creating'[u] = creating[u]
        BY <1>2 DEF CreateStamp, Put
  <2>3. id \notin issued /\ issued' = issued \cup {id} /\ records' = records /\ clock' = clock
        BY <1>2 DEF CreateStamp
  <2>4. ASSUME NEW u \in DOMAIN creating'
        PROVE  /\ WellDated(creating'[u].record, clock')
               /\ creating'[u].record.seen = creating'[u].record.created
               /\ clock' <= creating'[u].record.created + MaxStall
               /\ creating'[u].id \in issued' \ DOMAIN records'
    <3>1. CASE u = t
      <4>1. creating'[u] = new
            BY <3>1, <2>2
      <4> QED  BY <4>1, <2>3, <1>a DEF StoredOK, TypeOK
    <3>2. CASE u # t
          BY <3>2, <2>2, <2>3 DEF CreatingOK
    <3> QED  BY <3>1, <3>2
  <2>5. ASSUME NEW u \in DOMAIN creating', NEW w \in DOMAIN creating',
               creating'[u].id = creating'[w].id
        PROVE  u = w
        BY <2>2, <2>3, <2>5 DEF CreatingOK
  <2>6. CreatingOK'
        BY <2>4, <2>5 DEF CreatingOK
  <2> QED  BY <2>1, <2>6
<1>3. ASSUME NEW t \in Thread, CreateStore(t)
      PROVE  StoredOK' /\ CreatingOK' /\ SweepOK'
  <2> DEFINE id == creating[t].id
             record == creating[t].record
             kept == IF PruneDue(record.created) THEN Drop(records, Stale(record.created))
                                                 ELSE records
  <2>1. /\ t \in DOMAIN creating
        /\ records' = Put(kept, id, record)
        /\ creating' = Drop(creating, {t})
        /\ clock' = clock /\ issued' = issued
        BY <1>3 DEF CreateStore
  <2>2. DOMAIN kept \subseteq DOMAIN records /\ \A i \in DOMAIN kept : kept[i] = records[i]
        BY DEF Drop
  <2>3. /\ DOMAIN records' = DOMAIN kept \cup {id}
        /\ records'[id] = record
        /\ \A i \in DOMAIN kept : i # id => records'[i] = kept[i]
        BY <2>1 DEF Put
  <2>4. /\ DOMAIN creating' = DOMAIN creating \ {t}
        /\ \A u \in DOMAIN creating' : creating'[u] = creating[u]
        BY <2>1 DEF Drop
  <2>5. StoredOK'
        BY <2>1, <2>2, <2>3 DEF StoredOK, CreatingOK
  <2>6. CreatingOK'
    <3>1. ASSUME NEW u \in DOMAIN creating'
          PROVE  creating[u].id \notin DOMAIN records'
      <4>1. u \in DOMAIN creating /\ u # t
            BY <2>4
      <4>2. creating[u].id # id
            BY <4>1, <2>1 DEF CreatingOK
      <4>3. creating[u].id \notin DOMAIN kept
            BY <4>1, <2>2 DEF CreatingOK
      <4> HIDE DEF id, kept
      <4> QED  BY <4>2, <4>3, <2>3
    <3> HIDE DEF id, record, kept
    <3> QED  BY <2>1, <2>4, <3>1 DEF CreatingOK
  <2>7. SweepOK'
        BY <1>3, <2>1, <1>a, MinTTLType DEF CreateStore, SweepOK, CreatingOK, Record
  <2> QED  BY <2>5, <2>6, <2>7
<1>4. ASSUME NEW op, NEW id \in Known, touchLocked(op, id)
      PROVE  StoredOK' /\ CreatingOK' /\ SweepOK'
  <2>1. /\ clock' = clock /\ issued' = issued /\ creating' = creating
        /\ nextPrune' = nextPrune
        BY <1>4 DEF touchLocked
  <2>2. CASE id \in DOMAIN records /\ ~expired(records[id], clock)
    <3>1. records' = [records EXCEPT ![id].seen = clock]
          BY <1>4, <2>2 DEF touchLocked
    <3>2. DOMAIN records' = DOMAIN records /\ \A i \in DOMAIN records : i # id => records'[i] = records[i]
          BY <3>1
    <3>3. records'[id] = [records[id] EXCEPT !.seen = clock]
          BY <3>1, <2>2
    <3>4. /\ records'[id].created = records[id].created
          /\ records'[id].expires = records[id].expires
          /\ records'[id].seen = clock
          BY <3>3, <2>2, <1>a DEF Record
    <3>5. StoredOK'
          BY <2>1, <2>2, <3>2, <3>4, <1>a DEF StoredOK, Record
    <3>6. CreatingOK' /\ SweepOK'
          BY <2>1, <3>2 DEF CreatingOK, SweepOK, MinTTL
    <3> QED  BY <3>5, <3>6
  <2>3. CASE ~(id \in DOMAIN records /\ ~expired(records[id], clock))
    <3>1. DOMAIN records' \subseteq DOMAIN records /\ \A i \in DOMAIN records' : records'[i] = records[i]
          BY <1>4, <2>3 DEF touchLocked, Drop
    <3> QED  BY <2>1, <3>1 DEF StoredOK, CreatingOK, SweepOK, MinTTL
  <2> QED  BY <2>2, <2>3
<1>5. ASSUME NEW id \in Known, Delete(id) PROVE StoredOK' /\ CreatingOK' /\ SweepOK'
  <2>1. DOMAIN records' \subseteq DOMAIN records /\ \A i \in DOMAIN records' : records'[i] = records[i]
        BY <1>5 DEF Delete, Drop
  <2> QED  BY <1>5, <2>1 DEF Delete, StoredOK, CreatingOK, SweepOK, MinTTL
<1>6. CASE UNCHANGED vars
    BY <1>6 DEF vars, StoredOK, CreatingOK, SweepOK, MinTTL
<1> QED  BY <1>1, <1>2, <1>3, <1>4, <1>5, <1>6 DEF Next, Get, Touch

LEMMA IInvCorrect == Spec => []IInv
<1>1. Init => IInv
      BY IInvInit
<1>2. IInv /\ [Next]_vars => IInv'
      BY IInvNext
<1> QED  BY <1>1, <1>2, PTL DEF Spec

---------------------------------------------------------------------------
(* The safety properties.                                                  *)

\* What has expired stays expired as time passes.
LEMMA ExpiryIsFinal ==
  ASSUME NEW r \in Record, NEW now \in Nat, NEW later \in Nat, now <= later, expired(r, now)
  PROVE  expired(r, later)
  BY DEF expired, Record

\* The effect of each step on a session that is known and not touched by it:
\* its record survives unless it has expired.
LEMMA StepOnRecords ==
  ASSUME IInv, [Next]_vars, clock' = clock, NEW id \in issued, ~(id \in issued \ Known)
  PROVE  /\ id \in DOMAIN records' => id \in DOMAIN records
         /\ id \in DOMAIN records /\ id \in DOMAIN records' /\ records'[id] # records[id] =>
               ~expired(records[id], clock) /\ records'[id] = [records[id] EXCEPT !.seen = clock]
         /\ id \in DOMAIN records /\ id \notin DOMAIN records' =>
               expired(records[id], clock) \/ reply' = Answer("delete", id, Nobody)
<1> TypeOK /\ TypeOK'
    BY TypeNext DEF IInv
<1>a. /\ clock \in Nat
      /\ \A i \in DOMAIN records : records[i] \in Record
      /\ \A t \in DOMAIN creating : creating[t].record \in Record
      BY DEF TypeOK, IsMap
<1>1. CASE Tick
    BY <1>1 DEF Tick
<1>2. ASSUME NEW t \in Thread, NEW i \in SessionId, NEW a \in Account, CreateStamp(t, i, a)
      PROVE  records' = records
    BY <1>2 DEF CreateStamp
<1>3. ASSUME NEW t \in Thread, CreateStore(t)
      PROVE  /\ id \in DOMAIN records' => id \in DOMAIN records /\ records'[id] = records[id]
             /\ id \in DOMAIN records /\ id \notin DOMAIN records' => expired(records[id], clock)
  <2> DEFINE new == creating[t].id
             now == creating[t].record.created
             kept == IF PruneDue(now) THEN Drop(records, Stale(now)) ELSE records
  <2>1. t \in DOMAIN creating /\ records' = Put(kept, new, creating[t].record)
        BY <1>3 DEF CreateStore
  <2>2. id # new
        BY <2>1 DEF Known
  <2>3. now \in Nat /\ now <= clock
        BY <2>1, <1>a DEF IInv, CreatingOK, WellDated, Record
  <2>4. /\ id \in DOMAIN records' <=> id \in DOMAIN kept
        /\ id \in DOMAIN kept => records'[id] = kept[id]
        BY <2>1, <2>2 DEF Put
  <2>5. /\ id \in DOMAIN kept => id \in DOMAIN records /\ kept[id] = records[id]
        /\ id \in DOMAIN records /\ id \notin DOMAIN kept => id \in Stale(now)
        BY DEF Drop
  <2>6. id \in Stale(now) => expired(records[id], clock)
        BY <2>3, <1>a, ExpiryIsFinal DEF Stale
  <2> QED  BY <2>4, <2>5, <2>6
<1>4. ASSUME NEW op, NEW i \in Known, touchLocked(op, i)
      PROVE  /\ id \in DOMAIN records' => id \in DOMAIN records
             /\ id \in DOMAIN records /\ id \in DOMAIN records' /\ records'[id] # records[id] =>
                   ~expired(records[id], clock) /\ records'[id] = [records[id] EXCEPT !.seen = clock]
             /\ id \in DOMAIN records /\ id \notin DOMAIN records' => expired(records[id], clock)
  <2>1. CASE i \in DOMAIN records /\ ~expired(records[i], clock)
    <3>1. records' = [records EXCEPT ![i] = [records[i] EXCEPT !.seen = clock]]
          BY <1>4, <2>1 DEF touchLocked
    <3>2. CASE i = id
          BY <3>1, <3>2, <2>1
    <3>3. CASE i # id
          BY <3>1, <3>3
    <3> QED  BY <3>2, <3>3
  <2>2. CASE ~(i \in DOMAIN records /\ ~expired(records[i], clock))
        BY <1>4, <2>2 DEF touchLocked, Drop
  <2> QED  BY <2>1, <2>2
<1>5. ASSUME NEW i \in Known, Delete(i)
      PROVE  /\ id \in DOMAIN records' => id \in DOMAIN records /\ records'[id] = records[id]
             /\ id \in DOMAIN records /\ id \notin DOMAIN records' =>
                   reply' = Answer("delete", id, Nobody)
    BY <1>5 DEF Delete, Drop
<1>6. CASE UNCHANGED vars
    BY <1>6 DEF vars
<1> QED  BY <1>1, <1>2, <1>3, <1>4, <1>5, <1>6 DEF Next, Get, Touch

\* Pruning, by whichever goroutine and as of whatever date, never ends a live
\* session.
THEOREM LiveUntilDeadline == Spec => OnlyTimeOrDeleteEnds
<1>1. ASSUME IInv, [Next]_vars, NEW id \in SessionId, Live(id), ~Live(id)'
      PROVE  clock' > clock \/ reply' = Answer("delete", id, Nobody)
  <2> USE <1>1
  <2> clock \in Nat /\ \A i \in DOMAIN records : records[i] \in Record
      BY DEF IInv, TypeOK, IsMap
  <2>1. CASE clock' # clock
    <3>1. clock' = clock + 1
          BY <2>1 DEF Next, vars, Tick, CreateStamp, CreateStore, Get, Touch, touchLocked, Delete
    <3> QED  BY <3>1
  <2>2. CASE clock' = clock
    <3>1. id \in issued /\ id \notin issued \ Known
          BY DEF Live, IInv, StoredOK, CreatingOK, Known
    <3>2. CASE id \notin DOMAIN records'
          BY <2>2, <3>1, <3>2, StepOnRecords DEF Live
    <3>3. CASE id \in DOMAIN records' /\ records'[id] = records[id]
          BY <2>2, <3>3 DEF Live, expired
    <3>4. CASE id \in DOMAIN records' /\ records'[id] # records[id]
      <4>1. records'[id] = [records[id] EXCEPT !.seen = clock]
            BY <2>2, <3>1, <3>4, StepOnRecords DEF Live
      <4>2. records'[id].seen = clock /\ records'[id].expires = records[id].expires
            BY <4>1 DEF Record, Live
      <4>3. ~expired(records'[id], clock)
            BY <4>2 DEF expired, Live, Record
      <4> QED  BY <4>3, <3>4, <2>2 DEF Live, expired
    <3> QED  BY <3>2, <3>3, <3>4
  <2> QED  BY <2>1, <2>2
<1>2. IInv /\ [Next]_vars =>
        [\A id \in SessionId :
            Live(id) /\ ~Live(id)' => clock' > clock \/ reply' = Answer("delete", id, Nobody)]_vars
      BY <1>1
<1> QED  BY <1>2, IInvCorrect, PTL DEF Spec, OnlyTimeOrDeleteEnds

\* No touch, sweep or late Create brings an ended session back.
THEOREM EndedStaysEnded == Spec => EndedForGood
<1>1. ASSUME IInv, [Next]_vars, NEW id \in SessionId, Ended(id) PROVE Ended(id)'
  <2> USE <1>1
  <2>t. /\ TypeOK /\ TypeOK'
        /\ clock \in Nat /\ \A i \in DOMAIN records : records[i] \in Record
        BY TypeNext DEF IInv, TypeOK, IsMap
  <2>1. id \in Known'
    <3>1. CASE \E t \in Thread, i \in SessionId, a \in Account : CreateStamp(t, i, a)
          BY <3>1 DEF CreateStamp, Put, Ended, Known
    <3>2. CASE \E t \in Thread : CreateStore(t)
          BY <3>2 DEF CreateStore, Drop, Ended, Known
    <3>3. CASE issued' = issued /\ creating' = creating
          BY <3>3 DEF Ended, Known
    <3> QED  BY <3>1, <3>2, <3>3 DEF Next, vars, Tick, Get, Touch, touchLocked, Delete
  <2>2. ~Live(id)'
    <3>1. CASE clock' # clock
      <4>1. records' = records /\ clock' = clock + 1
            BY <3>1 DEF Next, vars, Tick, CreateStamp, CreateStore, Get, Touch, touchLocked, Delete
      <4>2. id \in DOMAIN records => expired(records[id], clock')
            BY <4>1, <2>t, ExpiryIsFinal DEF Ended, Live
      <4> QED  BY <4>1, <4>2 DEF Live, expired
    <3>2. CASE clock' = clock
      <4>1. id \in issued /\ id \notin issued \ Known
            BY DEF Ended, Known
      <4>2. id \in DOMAIN records' =>
               id \in DOMAIN records /\ records'[id] = records[id]
            BY <3>2, <4>1, StepOnRecords DEF Ended, Live
      <4> QED  BY <3>2, <4>2 DEF Ended, Live, expired
    <3> QED  BY <3>1, <3>2
  <2> QED  BY <2>1, <2>2 DEF Ended
<1>2. IInv /\ [Next]_vars => [\A id \in SessionId : Ended(id) => Ended(id)']_vars
      BY <1>1
<1> QED  BY <1>2, IInvCorrect, PTL DEF Spec, EndedForGood

\* A Create with an old clock reading never pulls the next sweep back.
THEOREM SweepsOnlyMoveForward == Spec => SweepsMoveForward
<1>1. TypeOK /\ [Next]_vars => nextPrune' >= nextPrune
  <2> SUFFICES ASSUME TypeOK, [Next]_vars PROVE nextPrune' >= nextPrune
      OBVIOUS
  <2> nextPrune \in Nat
      BY DEF TypeOK
  <2>1. ASSUME NEW t \in Thread, CreateStore(t) PROVE nextPrune' >= nextPrune
        BY <2>1, MinTTLType DEF CreateStore, PruneDue, TypeOK, IsMap, Record
  <2>2. CASE \A t \in Thread : ~CreateStore(t)
    <3>1. nextPrune' = nextPrune
          BY <2>2 DEF Next, vars, Tick, CreateStamp, Get, Touch, touchLocked, Delete
    <3> QED  BY <3>1
  <2> QED  BY <2>1, <2>2
<1>2. TypeOK /\ [Next]_vars => [nextPrune' >= nextPrune]_vars
      BY <1>1
<1> QED  BY <1>2, TypeCorrect, PTL DEF Spec, SweepsMoveForward

\* As long as no Create waits for the mutex for a whole lifetime, the map
\* holds nothing that had expired when it was last swept.
THEOREM GarbageIsBounded ==
  ASSUME MaxStall < MinTTL PROVE Spec => []GarbageBound
<1> USE MaxStall < MinTTL
<1>1. Init => GarbageBound
      BY DEF Init, GarbageBound, EmptyMap
<1>2. ASSUME IInv, GarbageBound, [Next]_vars PROVE GarbageBound'
  <2> USE <1>2
  <2>t. /\ clock \in Nat /\ nextPrune \in Nat
        /\ \A i \in DOMAIN records : records[i] \in Record
        /\ \A t \in DOMAIN creating : creating[t].record \in Record
        BY DEF IInv, TypeOK, IsMap
  <2>1. CASE records' = records /\ nextPrune' = nextPrune
        BY <2>1 DEF GarbageBound, expired, MinTTL
  <2>2. ASSUME NEW t \in Thread, CreateStore(t) PROVE GarbageBound'
    <3> DEFINE new == creating[t].id
               record == creating[t].record
               now == record.created
               kept == IF PruneDue(now) THEN Drop(records, Stale(now)) ELSE records
    <3>1. /\ t \in DOMAIN creating /\ clock' = clock
          /\ records' = Put(kept, new, record)
          /\ nextPrune' = IF PruneDue(now) THEN now + MinTTL ELSE nextPrune
          BY <2>2 DEF CreateStore
    <3>2. /\ now \in Nat /\ now <= clock /\ clock <= now + MaxStall
          /\ record \in Record /\ record.seen = now /\ record.expires = now + TTL
          BY <3>1, <2>t DEF IInv, CreatingOK, WellDated, Record
    <3>3. nextPrune' # 0 => ~expired(record, nextPrune' - MinTTL)
      <4>1. nextPrune' - MinTTL <= clock
            BY <3>1, <3>2, <2>t, MinTTLType DEF IInv, SweepOK
      <4>2. nextPrune' - MinTTL < now + TTL /\ nextPrune' - MinTTL <= now + IdleTTL
            BY <4>1, <3>1, <3>2, <2>t, MinTTLType
      <4>3. nextPrune' \in Nat
            BY <3>1, <3>2, <2>t, MinTTLType
      <4> QED  BY <4>2, <4>3, <3>2, MinTTLType DEF expired
    <3>4. ASSUME NEW i \in DOMAIN kept, nextPrune' # 0
          PROVE  ~expired(kept[i], nextPrune' - MinTTL)
      <4>1. CASE PruneDue(now)
        <5>1. i \in DOMAIN records /\ kept[i] = records[i] /\ i \notin Stale(now)
              BY <4>1 DEF Drop
        <5>2. nextPrune' - MinTTL = now
              BY <4>1, <3>1, <3>2, MinTTLType
        <5> QED  BY <5>1, <5>2 DEF Stale
      <4>2. CASE ~PruneDue(now)
            BY <4>2, <3>1, <3>4 DEF GarbageBound
      <4> QED  BY <4>1, <4>2
    <3>5. /\ DOMAIN records' = DOMAIN kept \cup {new}
          /\ records'[new] = record
          /\ \A i \in DOMAIN kept : i # new => records'[i] = kept[i]
          BY <3>1 DEF Put
    <3>6. ASSUME NEW i \in DOMAIN records', nextPrune' # 0
          PROVE  ~expired(records'[i], nextPrune' - MinTTL)
          BY <3>3, <3>4, <3>5, <3>6
    <3> QED  BY <3>6 DEF GarbageBound, MinTTL, expired
  <2>3. ASSUME NEW op, NEW id \in Known, touchLocked(op, id) PROVE GarbageBound'
    <3>1. CASE id \in DOMAIN records /\ ~expired(records[id], clock)
      <4>1. /\ records' = [records EXCEPT ![id] = [records[id] EXCEPT !.seen = clock]]
            /\ nextPrune' = nextPrune
            BY <2>3, <3>1 DEF touchLocked
      <4>2. ASSUME NEW i \in DOMAIN records', nextPrune # 0
            PROVE  ~expired(records'[i], nextPrune - MinTTL)
        <5>1. CASE i # id
              BY <5>1, <4>1, <4>2 DEF GarbageBound
        <5>2. CASE i = id
          <6>1. /\ records'[i].seen = clock
                /\ records'[i].expires = records[id].expires
                BY <5>2, <4>1, <3>1, <2>t DEF Record
          <6>2. ~expired(records[id], nextPrune - MinTTL)
                BY <3>1, <4>2 DEF GarbageBound
          <6>3. records[id].seen <= clock /\ records[id].seen \in Nat /\ records[id].expires \in Nat
                BY <3>1, <2>t DEF IInv, StoredOK, WellDated, Record
          <6> QED  BY <6>1, <6>2, <6>3, <2>t, MinTTLType DEF expired
        <5> QED  BY <5>1, <5>2
      <4> QED  BY <4>1, <4>2 DEF GarbageBound, MinTTL, expired
    <3>2. CASE ~(id \in DOMAIN records /\ ~expired(records[id], clock))
          BY <2>3, <3>2 DEF touchLocked, Drop, GarbageBound, MinTTL, expired
    <3> QED  BY <3>1, <3>2
  <2>4. ASSUME NEW id \in Known, Delete(id) PROVE GarbageBound'
        BY <2>4 DEF Delete, Drop, GarbageBound, MinTTL, expired
  <2> QED  BY <2>1, <2>2, <2>3, <2>4 DEF Next, vars, Tick, CreateStamp, Get, Touch
<1> QED  BY <1>1, <1>2, IInvCorrect, PTL DEF Spec

---------------------------------------------------------------------------
(* The store implements the abstract sessions.                             *)

View(r) == [account |-> r.account, created |-> r.created, seen |-> r.seen]

\* The abstract and the concrete notion of an ended session agree.
LEMMA OverIsExpired ==
  ASSUME NEW r, NEW now, r.expires = r.created + TTL
  PROVE  Abstract!Over(View(r), now) <=> expired(r, now)
  BY DEF Abstract!Over, View, expired

LEMMA LiveSessionsAre ==
  /\ LiveSessions = [i \in {j \in DOMAIN records : ~expired(records[j], clock)} |-> View(records[i])]
  /\ LiveSessions' = [i \in {j \in DOMAIN records' : ~expired(records'[j], clock')} |-> View(records'[i])]
  BY DEF LiveSessions, Live, View, expired

\* The identifiers handed out grow when a Create returns, and only then.
LEMMA KnownBecomes ==
  ASSUME IInv
  PROVE  /\ \A t \in Thread, i \in SessionId, a \in Account : CreateStamp(t, i, a) => Known' = Known
         /\ \A t \in Thread : CreateStore(t) =>
                 creating[t].id \notin Known /\ Known' = Known \cup {creating[t].id}
         /\ UNCHANGED <<issued, creating>> => Known' = Known
<1>1. \A t \in DOMAIN creating :
         /\ creating[t].id \in issued
         /\ \A u \in DOMAIN creating : creating[u].id = creating[t].id => u = t
      BY DEF IInv, CreatingOK
<1>2. ASSUME NEW t \in Thread, NEW i \in SessionId, NEW a \in Account, CreateStamp(t, i, a)
      PROVE  Known' = Known
  <2>1. /\ issued' = issued \cup {i} /\ i \notin issued /\ t \notin DOMAIN creating
        /\ DOMAIN creating' = DOMAIN creating \cup {t} /\ creating'[t].id = i
        /\ \A u \in DOMAIN creating : creating'[u] = creating[u]
        BY <1>2 DEF CreateStamp, Put
  <2>2. {creating'[u].id : u \in DOMAIN creating'} = {creating[u].id : u \in DOMAIN creating} \cup {i}
        BY <2>1
  <2> QED  BY <1>1, <2>1, <2>2 DEF Known
<1>3. ASSUME NEW t \in Thread, CreateStore(t)
      PROVE  creating[t].id \notin Known /\ Known' = Known \cup {creating[t].id}
  <2>1. /\ issued' = issued /\ t \in DOMAIN creating
        /\ DOMAIN creating' = DOMAIN creating \ {t}
        /\ \A u \in DOMAIN creating \ {t} : creating'[u] = creating[u]
        BY <1>3 DEF CreateStore, Drop
  <2>2. {creating'[u].id : u \in DOMAIN creating'}
           = {creating[u].id : u \in DOMAIN creating} \ {creating[t].id}
        BY <1>1, <2>1
  <2> QED  BY <1>1, <2>1, <2>2 DEF Known
<1>4. UNCHANGED <<issued, creating>> => Known' = Known
      BY DEF Known
<1> QED  BY <1>2, <1>3, <1>4

LEMMA RefinementStep == IInv /\ IInv' /\ [Next]_vars => [Abstract!Next]_(Abstract!vars)
<1> SUFFICES ASSUME IInv, IInv', [Next]_vars
             PROVE  Abstract!Next \/ UNCHANGED <<clock, LiveSessions, Known, reply>>
    BY DEF Abstract!vars
<1>t. /\ clock \in Nat \ {0}
      /\ \A i \in DOMAIN records : records[i] \in Record /\ records[i].expires = records[i].created + TTL
      /\ \A t \in DOMAIN creating : creating[t].record \in Record /\ creating[t].id \in SessionId
      BY DEF IInv, TypeOK, IsMap, StoredOK, WellDated
<1>1. CASE Tick
  <2>1. records' = records /\ clock' = clock + 1 /\ reply' = reply
        BY <1>1 DEF Tick
  <2>2. \A i \in DOMAIN records : Abstract!Over(View(records[i]), clock') <=> expired(records[i], clock')
        BY <1>t, OverIsExpired
  <2>3. \A i \in DOMAIN records : expired(records[i], clock) => expired(records[i], clock')
        BY <1>t, <2>1, ExpiryIsFinal
  <2>4. LiveSessions' = Abstract!StillOn(LiveSessions, clock')
        BY <2>1, <2>2, <2>3, LiveSessionsAre DEF Abstract!StillOn, Abstract!Drop
  <2>5. Known' = Known
        BY <1>1, KnownBecomes DEF Tick
  <2>6. Abstract!Tick
        BY <2>1, <2>4, <2>5 DEF Abstract!Tick
  <2> QED  BY <2>6 DEF Abstract!Next
<1>2. ASSUME NEW t \in Thread, NEW i \in SessionId, NEW a \in Account, CreateStamp(t, i, a)
      PROVE  UNCHANGED <<clock, LiveSessions, Known, reply>>
  <2>1. UNCHANGED <<clock, LiveSessions, reply>>
        BY <1>2 DEF CreateStamp, LiveSessions, Live, expired
  <2>2. Known' = Known
        BY <1>2, KnownBecomes
  <2> QED  BY <2>1, <2>2
<1>3. ASSUME NEW t \in Thread, CreateStore(t) PROVE Abstract!Next
  <2> DEFINE new == creating[t].id
             record == creating[t].record
             now == record.created
             kept == IF PruneDue(now) THEN Drop(records, Stale(now)) ELSE records
             born == [account |-> record.account, created |-> now, seen |-> now]
  <2>1. /\ t \in DOMAIN creating /\ clock' = clock
        /\ records' = Put(kept, new, record)
        /\ reply' = Answer("create", new, record.account)
        BY <1>3 DEF CreateStore
  <2>2. /\ now \in 1..clock /\ new \in SessionId /\ record.account \in Account
        /\ new \notin DOMAIN records
        /\ View(record) = born
        /\ record.expires = now + TTL
        BY <2>1, <1>t DEF IInv, CreatingOK, WellDated, Record, View
  <2>3. /\ DOMAIN kept \subseteq DOMAIN records
        /\ \A i \in DOMAIN kept : kept[i] = records[i]
        /\ \A i \in DOMAIN records \ DOMAIN kept : expired(records[i], clock)
        BY <1>t, <2>2, ExpiryIsFinal DEF Drop, Stale
  <2>4. /\ DOMAIN records' = DOMAIN kept \cup {new}
        /\ records'[new] = record
        /\ \A i \in DOMAIN kept : i # new /\ records'[i] = records[i]
        BY <2>1, <2>2, <2>3 DEF Put
  <2>5. /\ \A i \in DOMAIN records : Abstract!Over(View(records[i]), clock) <=> expired(records[i], clock)
        /\ Abstract!Over(born, clock) <=> expired(record, clock)
        BY <1>t, <2>2, OverIsExpired
  <2>6. LiveSessions' = Abstract!StillOn(Put(LiveSessions, new, born), clock)
    <3> DEFINE m == Put(LiveSessions, new, born)
    <3>1. /\ DOMAIN m = {j \in DOMAIN records : ~expired(records[j], clock)} \cup {new}
          /\ m[new] = born
          /\ \A i \in DOMAIN m : i # new => m[i] = View(records[i])
          BY LiveSessionsAre DEF Put
    <3>2. LiveSessions' = [i \in {j \in DOMAIN records' : ~expired(records'[j], clock)} |-> View(records'[i])]
          BY <2>1, LiveSessionsAre
    <3>3. {j \in DOMAIN records' : ~expired(records'[j], clock)}
             = DOMAIN m \ {i \in DOMAIN m : Abstract!Over(m[i], clock)}
      <4> HIDE DEF m
      <4>1. ASSUME NEW j, j # new
            PROVE  j \in DOMAIN records' /\ ~expired(records'[j], clock)
                   <=> j \in DOMAIN m /\ ~Abstract!Over(m[j], clock)
            BY <2>3, <2>4, <2>5, <3>1, <4>1
      <4>2. /\ new \in DOMAIN records' /\ new \in DOMAIN m
            /\ expired(records'[new], clock) <=> Abstract!Over(m[new], clock)
            BY <2>4, <2>5, <3>1
      <4> QED  BY <4>1, <4>2
    <3>4. \A i \in DOMAIN m \ {j \in DOMAIN m : Abstract!Over(m[j], clock)} : View(records'[i]) = m[i]
          BY <2>2, <2>3, <2>4, <2>5, <3>1
    <3> HIDE DEF m
    <3> QED  BY <3>2, <3>3, <3>4 DEF Abstract!StillOn, Abstract!Drop, m
  <2>7. Abstract!Create(new, record.account)
    <3>1. new \notin Known /\ Known' = Known \cup {new}
          BY <1>3, KnownBecomes
    <3> QED  BY <2>1, <2>2, <2>6, <3>1 DEF Abstract!Create, Abstract!Put, Put, Abstract!Answer, Answer
  <2> QED  BY <2>2, <2>7 DEF Abstract!Next
<1>4. ASSUME NEW op \in {"get", "touch"}, NEW id \in Known, touchLocked(op, id) PROVE Abstract!Next
  <2>0. id \in SessionId /\ clock' = clock /\ Known' = Known
    <3>1. UNCHANGED <<issued, creating, clock>>
          BY <1>4 DEF touchLocked
    <3> QED  BY <1>4, <3>1, KnownBecomes DEF Known, IInv, TypeOK
  <2>1. CASE id \in DOMAIN records /\ ~expired(records[id], clock)
    <3>1. /\ records' = [records EXCEPT ![id] = [records[id] EXCEPT !.seen = clock]]
          /\ reply' = Answer(op, id, records[id].account)
          BY <1>4, <2>1 DEF touchLocked
    <3>2. id \in DOMAIN LiveSessions /\ LiveSessions[id] = View(records[id])
          BY <2>1, LiveSessionsAre
    <3>3. /\ View(records'[id]) = [View(records[id]) EXCEPT !.seen = clock]
          /\ ~expired(records'[id], clock)
          BY <2>1, <3>1, <1>t DEF View, Record, expired
    <3>4. /\ DOMAIN records' = DOMAIN records
          /\ \A i \in DOMAIN records : i # id => records'[i] = records[i]
          BY <3>1
    <3>5. LiveSessions' = [LiveSessions EXCEPT ![id] = [LiveSessions[id] EXCEPT !.seen = clock]]
          BY <2>0, <2>1, <3>2, <3>3, <3>4, LiveSessionsAre
    <3>6. reply' = Abstract!Answer(op, id, LiveSessions[id].account)
          BY <3>1, <3>2 DEF Answer, Abstract!Answer, View
    <3> QED  BY <2>0, <3>2, <3>5, <3>6 DEF Abstract!Find, Abstract!Next
  <2>2. CASE ~(id \in DOMAIN records /\ ~expired(records[id], clock))
    <3>1. records' = Drop(records, {id}) /\ reply' = Answer(op, id, Nobody)
          BY <1>4, <2>2 DEF touchLocked
    <3>2. id \notin DOMAIN LiveSessions
          BY <2>2, LiveSessionsAre
    <3>3. LiveSessions' = LiveSessions
          BY <2>0, <2>2, <3>1, LiveSessionsAre DEF Drop
    <3> QED  BY <2>0, <3>1, <3>2, <3>3 DEF Abstract!Find, Abstract!Next, Answer, Abstract!Answer
  <2> QED  BY <2>1, <2>2
<1>5. ASSUME NEW id \in Known, Delete(id) PROVE Abstract!Next
  <2>1. /\ id \in SessionId /\ clock' = clock
        /\ records' = Drop(records, {id}) /\ reply' = Answer("delete", id, Nobody)
        BY <1>5 DEF Known, IInv, TypeOK, Delete
  <2>2. LiveSessions' = Drop(LiveSessions, {id})
        BY <2>1, LiveSessionsAre DEF Drop
  <2>3. Known' = Known
        BY <1>5, KnownBecomes DEF Delete
  <2> QED  BY <2>1, <2>2, <2>3 DEF Abstract!Delete, Abstract!Next, Abstract!Drop, Drop, Answer, Abstract!Answer
<1>6. CASE UNCHANGED vars
    BY <1>6 DEF vars, LiveSessions, Live, expired, Known
<1> QED  BY <1>1, <1>2, <1>3, <1>4, <1>5, <1>6 DEF Next, Get, Touch

\* Lazy pruning, deletion on access and the early clock reading of Create are
\* invisible to the callers of the store.
THEOREM Refinement == Spec => ImplementsAbstractSessions
<1>1. Init => Abstract!Init
  <2> SUFFICES ASSUME Init PROVE Abstract!Init
      OBVIOUS
  <2>1. LiveSessions = EmptyMap /\ Known = {}
        BY DEF Init, LiveSessions, EmptyMap, Known
  <2> QED  BY <2>1 DEF Init, Abstract!Init, Abstract!EmptyMap, EmptyMap, Answer, Abstract!Answer
<1>2. IInv /\ IInv' /\ [Next]_vars => [Abstract!Next]_(Abstract!vars)
      BY RefinementStep
<1> QED  BY <1>1, <1>2, IInvCorrect, PTL DEF Spec, ImplementsAbstractSessions, Abstract!Spec

---------------------------------------------------------------------------
(* Play sockets.                                                           *)

USE PlaySessionsAssumption

\* How long after the latest touch a socket may take its next step.
Slack(phase) ==
    CASE phase = "opening" -> JavaTimeout
      [] phase = "open"    -> JavaTimeout + PingInterval + MaxLag
      [] OTHER             -> TouchPeriod

\* What holds of a socket s at time now, with recs in the store and known the
\* identifiers handed out: it is not late, it will be done with its round
\* soon after the deadline of its session, and until then the session is in
\* the store and was touched recently.
SocketOK(s, now, recs, known) ==
    /\ s.id \in known
    /\ now <= s.deadline
    /\ s.deadline < s.expires + Slack(s.phase)
    /\ s.phase = "open" => s.deadline = s.tick + MaxLag
    /\ s.phase = "pinging" => s.deadline <= s.tick /\ s.tick <= now + PingInterval
    /\ s.id \in DOMAIN recs => recs[s.id].expires = s.expires
    /\ now < s.expires =>
          /\ s.id \in DOMAIN recs
          /\ s.deadline <= recs[s.id].seen + Slack(s.phase)

SocketsOK == \A k \in DOMAIN sockets : SocketOK(sockets[k], clock, records, Known)

\* No request deletes a session.
NoDelete == reply.op # "delete"

SocketInv == IInv /\ SocketTypeOK /\ SocketsOK /\ NoDelete

LEMMA SlackType ==
  /\ \A phase : Slack(phase) \in Nat /\ Slack(phase) <= IdleTTL /\ Slack(phase) <= TouchPeriod
  /\ TouchPeriod \in Nat
<1>1. TouchPeriod \in Nat
      BY DEF TouchPeriod
<1>2. ASSUME NEW phase
      PROVE  Slack(phase) \in Nat /\ Slack(phase) <= TouchPeriod
    BY DEF Slack, TouchPeriod
<1> QED  BY <1>1, <1>2

LEMMA SocketInvInit == SocketInit => SocketInv
  BY IInvInit, EmptyMapIsMap
     DEF SocketInit, SocketInv, SocketTypeOK, SocketsOK, NoDelete, IInv, EmptyMap, Init, Answer

---------------------------------------------------------------------------
(* One step of the store, as the sockets see it.                           *)

\* Each step of the whole is a step or a stutter of the store.
LEMMA StoreStep == ASSUME SocketsOK, [SocketNext]_allVars PROVE [Next]_vars
<1>1. CASE Advance \/ Requests
    BY <1>1 DEF Advance, Requests, Next
<1>2. ASSUME NEW k \in Socket, NEW id \in Known, PlayWS(k, id) PROVE Next
    BY <1>2 DEF PlayWS, Next
<1>3. ASSUME NEW k \in Socket, Pong(k) PROVE Next
  <2>1. sockets[k].id \in Known
        BY <1>3 DEF Pong, SocketsOK, SocketOK
  <2> QED  BY <1>3, <2>1 DEF Pong, Next
<1>4. ASSUME NEW k \in Socket, Opened(k) \/ Ping(k) \/ Close(k) PROVE UNCHANGED vars
    BY <1>4 DEF Opened, Ping, Close
<1>5. CASE UNCHANGED allVars
    BY <1>5 DEF allVars
<1> QED  BY <1>1, <1>2, <1>3, <1>4, <1>5 DEF SocketNext

\* None is a Delete.
LEMMA NoDeleteNext == ASSUME NoDelete, [SocketNext]_allVars PROVE NoDelete'
<1> USE DEF NoDelete, Answer
<1>1. CASE Advance
    BY <1>1 DEF Advance, Tick
<1>2. CASE Requests
  <2>1. ASSUME NEW t \in Thread, NEW id \in SessionId, NEW a \in Account, CreateStamp(t, id, a)
        PROVE  NoDelete'
      BY <2>1 DEF CreateStamp
  <2>2. ASSUME NEW t \in Thread, CreateStore(t) PROVE NoDelete'
    <3>1. reply' = Answer("create", creating[t].id, creating[t].record.account)
          BY <2>2 DEF CreateStore
    <3> QED  BY <3>1
  <2> QED  BY <1>2, <2>1, <2>2 DEF Requests
<1>3. ASSUME NEW op \in {"get", "touch"}, NEW id, touchLocked(op, id) PROVE NoDelete'
    BY <1>3 DEF touchLocked
<1>4. ASSUME NEW k \in Socket, NEW id \in Known, PlayWS(k, id) PROVE NoDelete'
    BY <1>3, <1>4 DEF PlayWS, Get
<1>5. ASSUME NEW k \in Socket, Pong(k) PROVE NoDelete'
    BY <1>3, <1>5 DEF Pong, Touch
<1>6. ASSUME NEW k \in Socket, Opened(k) \/ Ping(k) \/ Close(k) PROVE NoDelete'
    BY <1>6 DEF Opened, Ping, Close, vars
<1>7. CASE UNCHANGED allVars
    BY <1>7 DEF allVars, vars
<1> QED  BY <1>1, <1>2, <1>4, <1>5, <1>6, <1>7 DEF SocketNext

\* Identifiers stay known.
LEMMA KnownStays == ASSUME IInv, [Next]_vars PROVE Known \subseteq Known'
<1> SUFFICES ASSUME NEW id \in Known PROVE id \in Known'
    OBVIOUS
<1>1. ASSUME NEW t \in Thread, NEW i \in SessionId, NEW a \in Account, CreateStamp(t, i, a)
      PROVE  id \in Known'
  <2>1. id \in issued' /\ id # i
        BY <1>1 DEF CreateStamp, Known
  <2>2. ASSUME NEW u \in DOMAIN creating' PROVE creating'[u].id # id
        BY <1>1, <2>1, <2>2 DEF CreateStamp, Put, Known
  <2> QED  BY <2>1, <2>2 DEF Known
<1>2. CASE \E t \in Thread : CreateStore(t)
    BY <1>2 DEF CreateStore, Drop, Known
<1>3. CASE UNCHANGED <<issued, creating>>
    BY <1>3 DEF Known
<1> QED  BY <1>1, <1>2, <1>3 DEF Next, Tick, Get, Touch, touchLocked, Delete, vars

\* A known record is never given another deadline.
LEMMA DeadlineStays ==
  ASSUME IInv, [Next]_vars, clock' = clock, NEW id \in Known, id \in DOMAIN records'
  PROVE  id \in DOMAIN records /\ records'[id].expires = records[id].expires
<1>1. id \in issued /\ ~(id \in issued \ Known)
      BY DEF Known
<1>2. id \in DOMAIN records
      BY <1>1, StepOnRecords
<1>3. CASE records'[id] # records[id]
  <2>1. records'[id] = [records[id] EXCEPT !.seen = clock]
        BY <1>1, <1>2, <1>3, StepOnRecords
  <2>2. records[id] \in Record
        BY <1>2 DEF IInv, TypeOK, IsMap
  <2> QED  BY <1>2, <2>1, <2>2 DEF Record
<1> QED  BY <1>2, <1>3

\* A session that does not expire in a step stays in the store,
\* touched no earlier than before.
LEMMA SessionStays ==
  ASSUME IInv, [Next]_vars, NoDelete', clock' = clock,
         NEW id \in Known, id \in DOMAIN records, ~expired(records[id], clock)
  PROVE  /\ id \in DOMAIN records'
         /\ records'[id].seen >= records[id].seen
<1>1. id \in issued /\ ~(id \in issued \ Known)
      BY DEF Known
<1>2. id \in DOMAIN records'
  <2>1. reply' # Answer("delete", id, Nobody)
        BY DEF NoDelete, Answer
  <2>2. id \in issued
        BY <1>1
  <2> QED  BY <1>1, <2>1, <2>2, StepOnRecords
<1>3. records[id] \in Record /\ records[id].seen <= clock /\ clock \in Nat
      BY DEF IInv, TypeOK, IsMap, StoredOK, WellDated
<1>4. CASE records'[id] = records[id]
      BY <1>2, <1>3, <1>4 DEF Record
<1>5. CASE records'[id] # records[id]
  <2>1. records'[id] = [records[id] EXCEPT !.seen = clock]
        BY <1>1, <1>2, <1>5, StepOnRecords
  <2> QED  BY <1>2, <1>3, <2>1 DEF Record
<1> QED  BY <1>4, <1>5

\* Whatever the store does at one moment, a socket that does not move is as
\* well off as before.
LEMMA Frame ==
  ASSUME SocketInv, [Next]_vars, NoDelete', clock' = clock,
         NEW s \in SocketRecord, SocketOK(s, clock, records, Known)
  PROVE  SocketOK(s, clock', records', Known')
<1>1. s.id \in Known'
      BY KnownStays DEF SocketOK, SocketInv
<1>2. ASSUME clock < s.expires
      PROVE  /\ s.id \in DOMAIN records'
             /\ s.deadline <= records'[s.id].seen + Slack(s.phase)
  <2>1. /\ s.id \in DOMAIN records /\ s.id \in Known
        /\ records[s.id].expires = s.expires
        /\ s.deadline <= records[s.id].seen + Slack(s.phase)
        /\ clock <= s.deadline
        BY <1>2 DEF SocketOK
  <2>2. records[s.id] \in Record /\ clock \in Nat /\ s.deadline \in Nat
        BY <2>1 DEF SocketInv, IInv, TypeOK, IsMap, SocketRecord
  <2>3. ~expired(records[s.id], clock)
        BY <1>2, <2>1, <2>2, SlackType DEF expired, Record
  <2>4. TypeOK'
        BY TypeNext DEF SocketInv, IInv
  <2>5. /\ s.id \in DOMAIN records'
        /\ records'[s.id].seen >= records[s.id].seen
        BY <2>1, <2>3, SessionStays DEF SocketInv
  <2>6. records'[s.id] \in Record
        BY <2>4, <2>5 DEF TypeOK, IsMap
  <2> QED  BY <2>1, <2>2, <2>5, <2>6, SlackType DEF Record
<1>3. s.id \in DOMAIN records' => records'[s.id].expires = s.expires
      BY DeadlineStays DEF SocketOK, SocketInv
<1> QED  BY <1>1, <1>2, <1>3 DEF SocketOK

---------------------------------------------------------------------------
(* The invariant is inductive.                                             *)

\* What a session just found alive looks like after the access.
LEMMA AfterTouch ==
  ASSUME SocketInv, NEW op, NEW id, Live(id), touchLocked(op, id)
  PROVE  /\ id \in DOMAIN records /\ id \in DOMAIN records'
         /\ records[id] \in Record
         /\ clock < records[id].expires
         /\ records'[id].expires = records[id].expires
         /\ records'[id].seen = clock
<1>1. id \in DOMAIN records /\ records[id] \in Record /\ ~expired(records[id], clock)
      BY DEF Live, SocketInv, IInv, TypeOK, IsMap
<1>2. records' = [records EXCEPT ![id] = [records[id] EXCEPT !.seen = clock]]
      BY <1>1 DEF touchLocked
<1>3. clock \in Nat
      BY DEF SocketInv, IInv, TypeOK
<1> QED  BY <1>1, <1>2, <1>3 DEF expired, Record

\* A step of the socket k that leaves it in s, and no other socket moved.
LEMMA Moved ==
  ASSUME SocketInv, [Next]_vars, NoDelete', clock' = clock,
         NEW k \in Socket, NEW s \in SocketRecord,
         sockets' = Put(sockets, k, s), SocketOK(s, clock', records', Known')
  PROVE  SocketsOK' /\ IsMap(sockets', Socket, SocketRecord)
<1>1. IsMap(sockets', Socket, SocketRecord)
      BY PutIsMap DEF SocketInv, SocketTypeOK
<1>2. ASSUME NEW j \in DOMAIN sockets', j # k
      PROVE  SocketOK(sockets'[j], clock', records', Known')
  <2>1. j \in DOMAIN sockets /\ sockets'[j] = sockets[j]
        BY <1>2 DEF Put
  <2>2. sockets[j] \in SocketRecord /\ SocketOK(sockets[j], clock, records, Known)
        BY <2>1 DEF SocketInv, SocketTypeOK, IsMap, SocketsOK
  <2>3. SocketOK(sockets[j], clock', records', Known')
        BY <2>2, Frame
  <2> QED  BY <2>1, <2>3
<1>3. sockets'[k] = s
      BY DEF Put
<1> QED  BY <1>1, <1>2, <1>3 DEF SocketsOK

\* Sockets that close take nothing from the others.
LEMMA Dropped ==
  ASSUME SocketInv, [Next]_vars, NoDelete', clock' = clock, NEW ks, sockets' = Drop(sockets, ks)
  PROVE  SocketsOK' /\ IsMap(sockets', Socket, SocketRecord)
<1>1. IsMap(sockets', Socket, SocketRecord)
      BY DropIsMap DEF SocketInv, SocketTypeOK
<1>2. ASSUME NEW j \in DOMAIN sockets'
      PROVE  SocketOK(sockets'[j], clock', records', Known')
  <2>1. j \in DOMAIN sockets /\ sockets'[j] = sockets[j]
        BY <1>2 DEF Drop
  <2>2. sockets[j] \in SocketRecord /\ SocketOK(sockets[j], clock, records, Known)
        BY <2>1 DEF SocketInv, SocketTypeOK, IsMap, SocketsOK
  <2>3. SocketOK(sockets[j], clock', records', Known')
        BY <2>2, Frame
  <2> QED  BY <2>1, <2>3
<1> QED  BY <1>1, <1>2 DEF SocketsOK

LEMMA Stayed ==
  ASSUME SocketInv, [Next]_vars, NoDelete', clock' = clock, sockets' = sockets
  PROVE  SocketsOK' /\ IsMap(sockets', Socket, SocketRecord)
<1>1. sockets' = Drop(sockets, {})
      BY DEF Drop, SocketInv, SocketTypeOK, IsMap
<1> QED  BY <1>1, Dropped

LEMMA SocketInvNext == SocketInv /\ [SocketNext]_allVars => SocketInv'
<1> SUFFICES ASSUME SocketInv, [SocketNext]_allVars PROVE SocketInv'
    OBVIOUS
<1>a. [Next]_vars /\ NoDelete' /\ IInv'
      BY StoreStep, NoDeleteNext, IInvNext DEF SocketInv
<1> SUFFICES SocketsOK' /\ IsMap(sockets', Socket, SocketRecord)
    BY <1>a DEF SocketInv, SocketTypeOK, IInv
<1>b. /\ clock \in Nat
      /\ IsMap(sockets, Socket, SocketRecord)
      /\ \A k \in DOMAIN sockets :
            k \in Socket /\ sockets[k] \in SocketRecord /\ SocketOK(sockets[k], clock, records, Known)
      BY DEF SocketInv, IInv, TypeOK, SocketTypeOK, SocketsOK, IsMap
<1>1. CASE Advance
  <2>1. /\ clock' = clock + 1 /\ sockets' = sockets
        /\ records' = records /\ issued' = issued /\ creating' = creating
        /\ \A k \in DOMAIN sockets : clock < sockets[k].deadline
        BY <1>1 DEF Advance, Tick
  <2>2. Known' = Known
        BY <2>1 DEF Known
  <2>3. ASSUME NEW k \in DOMAIN sockets PROVE SocketOK(sockets[k], clock + 1, records, Known)
    <3>1. SocketOK(sockets[k], clock, records, Known) /\ clock < sockets[k].deadline
          BY <1>b, <2>1
    <3>2. /\ sockets[k].deadline \in Nat /\ sockets[k].tick \in Nat /\ sockets[k].expires \in Nat
          BY <1>b DEF SocketRecord
    <3> QED  BY <1>b, <3>1, <3>2 DEF SocketOK
  <2> QED  BY <1>b, <2>1, <2>2, <2>3 DEF SocketsOK
<1>2. CASE Requests
    BY <1>2, <1>a, Stayed DEF Requests, CreateStamp, CreateStore
<1>3. ASSUME NEW k \in Socket, NEW id \in Known, PlayWS(k, id)
      PROVE  SocketsOK' /\ IsMap(sockets', Socket, SocketRecord)
  <2>1. touchLocked("get", id) /\ clock' = clock
        BY <1>3 DEF PlayWS, Get, touchLocked
  <2>2. CASE Live(id)
    <3> DEFINE s == At(id, records[id].expires, "opening", 0, clock + JavaTimeout)
    <3>1. sockets' = Put(sockets, k, s)
          BY <1>3, <2>2 DEF PlayWS
    <3>2. /\ id \in DOMAIN records' /\ records[id] \in Record
          /\ clock < records[id].expires
          /\ records'[id].expires = records[id].expires /\ records'[id].seen = clock
          BY <2>1, <2>2, AfterTouch
    <3>3. id \in SessionId /\ id \in Known'
          BY <1>a, KnownStays DEF SocketInv, IInv, TypeOK, Known
    <3>4. s \in SocketRecord
          BY <1>b, <3>2, <3>3 DEF SocketRecord, Record, At
    <3>5. SocketOK(s, clock, records', Known')
          BY <1>b, <3>2, <3>3 DEF SocketOK, Slack, Record, At
    <3> HIDE DEF s
    <3> QED  BY <1>a, <2>1, <3>1, <3>4, <3>5, Moved
  <2>3. CASE ~Live(id)
      BY <1>3, <1>a, <2>1, <2>3, Stayed DEF PlayWS
  <2> QED  BY <2>2, <2>3
<1>4. ASSUME NEW k \in Socket, Opened(k)
      PROVE  SocketsOK' /\ IsMap(sockets', Socket, SocketRecord)
  <2> DEFINE o == sockets[k]
             s == At(o.id, o.expires, "open", clock + PingInterval, clock + PingInterval + MaxLag)
  <2>1. /\ k \in DOMAIN sockets /\ o.phase = "opening" /\ o \in SocketRecord
        /\ SocketOK(o, clock, records, Known)
        BY <1>4, <1>b DEF Opened
  <2>2. sockets' = Put(sockets, k, s) /\ UNCHANGED vars
        BY <1>4 DEF Opened, Move
  <2>3. s \in SocketRecord
        BY <1>b, <2>1 DEF SocketRecord, At
  <2>4. SocketOK(s, clock, records, Known)
    <3>1. /\ s.id = o.id /\ s.expires = o.expires /\ s.phase = "open"
          /\ s.tick = clock + PingInterval /\ s.deadline = clock + PingInterval + MaxLag
          BY DEF At
    <3>2. clock <= o.deadline /\ o.deadline \in Nat /\ o.expires \in Nat
          BY <2>1 DEF SocketOK, SocketRecord
    <3>3. Slack(o.phase) = JavaTimeout /\ Slack("open") = JavaTimeout + PingInterval + MaxLag
          BY <2>1 DEF Slack
    <3>4. o.id \in DOMAIN records => records[o.id].seen \in Nat
          BY DEF SocketInv, IInv, TypeOK, IsMap, Record
    <3> HIDE DEF s, o
    <3> QED  BY <1>b, <2>1, <3>1, <3>2, <3>3, <3>4 DEF SocketOK
  <2>5. clock' = clock /\ SocketOK(s, clock', records', Known')
        BY <2>2, <2>4 DEF vars, Known
  <2> HIDE DEF s
  <2> QED  BY <1>a, <2>2, <2>3, <2>5, Moved
<1>5. ASSUME NEW k \in Socket, Ping(k)
      PROVE  SocketsOK' /\ IsMap(sockets', Socket, SocketRecord)
  <2> DEFINE o == sockets[k]
             s == At(o.id, o.expires, "pinging", o.tick + PingInterval, clock + PingTimeout + MaxLag)
  <2>1. /\ k \in DOMAIN sockets /\ o.phase = "open" /\ o \in SocketRecord /\ clock >= o.tick
        /\ SocketOK(o, clock, records, Known)
        BY <1>5, <1>b DEF Ping
  <2>2. sockets' = Put(sockets, k, s) /\ UNCHANGED vars
        BY <1>5 DEF Ping, Move
  <2>3. s \in SocketRecord
        BY <1>b, <2>1 DEF SocketRecord, At
  <2>4. SocketOK(s, clock, records, Known)
    <3>1. /\ s.id = o.id /\ s.expires = o.expires /\ s.phase = "pinging"
          /\ s.tick = o.tick + PingInterval /\ s.deadline = clock + PingTimeout + MaxLag
          BY DEF At
    <3>2. clock <= o.deadline /\ o.deadline \in Nat /\ o.expires \in Nat /\ o.tick \in Nat
          BY <2>1 DEF SocketOK, SocketRecord
    <3>3. /\ Slack(o.phase) = JavaTimeout + PingInterval + MaxLag
          /\ Slack("pinging") = JavaTimeout + PingInterval + PingTimeout + 2 * MaxLag
          BY <2>1 DEF Slack, TouchPeriod
    <3>4. o.id \in DOMAIN records => records[o.id].seen \in Nat
          BY DEF SocketInv, IInv, TypeOK, IsMap, Record
    <3> HIDE DEF s, o
    <3> QED  BY <1>b, <2>1, <3>1, <3>2, <3>3, <3>4 DEF SocketOK
  <2>5. clock' = clock /\ SocketOK(s, clock', records', Known')
        BY <2>2, <2>4 DEF vars, Known
  <2> HIDE DEF s
  <2> QED  BY <1>a, <2>2, <2>3, <2>5, Moved
<1>6. ASSUME NEW k \in Socket, Pong(k)
      PROVE  SocketsOK' /\ IsMap(sockets', Socket, SocketRecord)
  <2> DEFINE o == sockets[k]
             s == At(o.id, o.expires, "open", o.tick, o.tick + MaxLag)
  <2>1. /\ k \in DOMAIN sockets /\ o.phase = "pinging" /\ o \in SocketRecord
        /\ SocketOK(o, clock, records, Known)
        /\ touchLocked("touch", o.id) /\ clock' = clock
        BY <1>6, <1>b DEF Pong, Touch, touchLocked
  <2>2. CASE Live(o.id)
    <3>1. sockets' = Put(sockets, k, s)
          BY <1>6, <2>2 DEF Pong, Move
    <3>2. /\ o.id \in DOMAIN records /\ o.id \in DOMAIN records' /\ records[o.id] \in Record
          /\ clock < records[o.id].expires
          /\ records'[o.id].expires = records[o.id].expires /\ records'[o.id].seen = clock
          BY <2>1, <2>2, AfterTouch
    <3>3. s \in SocketRecord
          BY <1>b, <2>1 DEF SocketRecord, At
    <3>4. SocketOK(s, clock', records', Known')
      <4>1. /\ s.id = o.id /\ s.expires = o.expires /\ s.phase = "open"
            /\ s.tick = o.tick /\ s.deadline = o.tick + MaxLag
            BY DEF At
      <4>2. o.deadline \in Nat /\ o.expires \in Nat /\ o.tick \in Nat
            BY <2>1 DEF SocketRecord
      <4>3. o.id \in Known'
            BY <1>a, <2>1, KnownStays DEF SocketOK, SocketInv
      <4>4. /\ clock <= o.deadline /\ o.deadline <= o.tick /\ o.tick <= clock + PingInterval
            /\ records[o.id].expires = o.expires
            BY <2>1, <3>2 DEF SocketOK
      <4>5. Slack("open") = JavaTimeout + PingInterval + MaxLag
            BY DEF Slack
      <4> HIDE DEF s, o
      <4> QED  BY <1>b, <2>1, <3>2, <4>1, <4>2, <4>3, <4>4, <4>5 DEF SocketOK
    <3> HIDE DEF s
    <3> QED  BY <1>a, <2>1, <3>1, <3>3, <3>4, Moved
  <2>3. CASE ~Live(o.id)
      BY <1>6, <1>a, <2>1, <2>3, Dropped DEF Pong
  <2> QED  BY <2>2, <2>3
<1>7. ASSUME NEW k \in Socket, Close(k)
      PROVE  SocketsOK' /\ IsMap(sockets', Socket, SocketRecord)
    BY <1>7, <1>a, Dropped DEF Close, vars
<1>8. CASE UNCHANGED allVars
    BY <1>8, <1>a, Stayed DEF allVars, vars
<1> QED  BY <1>1, <1>2, <1>3, <1>4, <1>5, <1>6, <1>7, <1>8 DEF SocketNext

LEMMA SocketInvCorrect == SocketSpec => []SocketInv
<1>1. SocketInv /\ [SocketNext]_allVars => SocketInv'
      BY SocketInvNext
<1> QED  BY SocketInvInit, <1>1, PTL DEF SocketSpec

---------------------------------------------------------------------------
(* The safety properties.                                                  *)

\* The store and the sockets are well-typed.
THEOREM SocketTypeCorrect == SocketSpec => []SocketTypeOK
<1>1. SocketInv => SocketTypeOK
      BY DEF SocketInv
<1> QED  BY SocketInvCorrect, <1>1, PTL

\* A session with an open socket lives until its absolute deadline: the
\* keepalive is always in time, and no late Create sweeps it away.
THEOREM OpenSocketsKeepSessions == SocketSpec => []KeptAlive
<1>1. SocketInv => KeptAlive
  <2> SUFFICES ASSUME SocketInv, NEW k \in DOMAIN sockets, clock < sockets[k].expires
               PROVE  Live(sockets[k].id)
      BY DEF KeptAlive
  <2> DEFINE s == sockets[k]
             r == records[s.id]
  <2>1. SocketOK(s, clock, records, Known) /\ s \in SocketRecord
        BY DEF SocketInv, SocketsOK, SocketTypeOK, IsMap
  <2>2. /\ s.id \in DOMAIN records /\ r.expires = s.expires
        /\ clock <= s.deadline /\ s.deadline <= r.seen + Slack(s.phase)
        BY <2>1 DEF SocketOK
  <2>3. r \in Record /\ clock \in Nat /\ s.deadline \in Nat /\ s.expires \in Nat
        BY <2>1, <2>2 DEF SocketInv, IInv, TypeOK, IsMap, SocketRecord
  <2> HIDE DEF s
  <2>4. ~expired(r, clock)
        BY <2>2, <2>3, SlackType DEF expired, Record, s
  <2> QED  BY <2>2, <2>4 DEF Live, s
<1> QED  BY SocketInvCorrect, <1>1, PTL

\* No socket outlives its session's absolute deadline by a round.
THEOREM SocketsEnd == SocketSpec => []NoOverstay
<1>1. SocketInv => NoOverstay
  <2> SUFFICES ASSUME SocketInv, NEW k \in DOMAIN sockets
               PROVE  clock < sockets[k].expires + TouchPeriod
      BY DEF NoOverstay
  <2>1. SocketOK(sockets[k], clock, records, Known) /\ sockets[k] \in SocketRecord
        BY DEF SocketInv, SocketsOK, SocketTypeOK, IsMap
  <2>2. clock \in Nat /\ sockets[k].deadline \in Nat /\ sockets[k].expires \in Nat
        BY <2>1 DEF SocketInv, IInv, TypeOK, SocketRecord
  <2> QED  BY <2>1, <2>2, SlackType DEF SocketOK
<1> QED  BY SocketInvCorrect, <1>1, PTL

---------------------------------------------------------------------------
(* The composition.                                                        *)

\* The sockets and requests use the store as it may be used: every behaviour
\* of the whole is one of the store, and a socket names only identifiers a
\* Create has returned (server.go:427-482, 668-687).
THEOREM SocketsUseStore == SocketSpec => Spec
<1>1. SocketInit => Init
      BY DEF SocketInit
<1>2. SocketInv /\ [SocketNext]_allVars => [Next]_vars
      BY StoreStep DEF SocketInv
<1> QED  BY <1>1, <1>2, SocketInvCorrect, PTL DEF SocketSpec, Spec

\* With sockets at work, the store still behaves like one whose sessions end
\* by themselves at their deadlines and never come back (store.go:47-116).
THEOREM SocketsSeeAbstractSessions == SocketSpec => ImplementsAbstractSessions /\ EndedForGood
  BY SocketsUseStore, Refinement, EndedStaysEnded, PTL

\* No handler deletes a session: with sockets and requests at work, only the
\* passing of time ends one (server.go:436-446, 668-687, store.go:52-64).
THEOREM OnlyTimeEnds ==
  SocketSpec => [][\A id \in SessionId : Live(id) /\ ~Live(id)' => clock' > clock]_vars
<1>1. ASSUME NoDelete', \A id \in SessionId :
                Live(id) /\ ~Live(id)' => clock' > clock \/ reply' = Answer("delete", id, Nobody)
      PROVE  \A id \in SessionId : Live(id) /\ ~Live(id)' => clock' > clock
      BY <1>1 DEF NoDelete, Answer
<1>2. SocketInv => NoDelete
      BY DEF SocketInv
<1> QED  BY <1>1, <1>2, SocketInvCorrect, SocketsUseStore, LiveUntilDeadline, PTL DEF OnlyTimeOrDeleteEnds
============================================================================
