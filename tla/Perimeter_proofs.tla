------------------------- MODULE Perimeter_proofs --------------------------
(* Theorems about the perimeter and the rate limiter inside it, for every *)
(* value of their constants. The first part is about RateLimiter alone.   *)
EXTENDS Perimeter, TLAPS

USE LimiterAssumption

\* make(map[...]...) is a map of any type.
LEMMA EmptyMapIsMap == ASSUME NEW K, NEW V PROVE IsMap(EmptyMap, K, V)
  BY DEF IsMap, EmptyMap

\* Storing a well-typed value keeps a map well-typed.
LEMMA PutIsMap ==
  ASSUME NEW m, NEW K, NEW V, IsMap(m, K, V), NEW k \in K, NEW v \in V
  PROVE  IsMap(Put(m, k, v), K, V)
  BY DEF IsMap, Put

\* Deleting keys keeps a map well-typed.
LEMMA DropIsMap ==
  ASSUME NEW m, NEW K, NEW V, IsMap(m, K, V), NEW ks
  PROVE  IsMap(Drop(m, ks), K, V)
  BY DEF IsMap, Drop

\* A sweep is invisible to the windows that are still open.
LEMMA PruneKeepsWindows ==
  ASSUME TypeOK, NEW k
  PROVE  /\ InWindow(pruneExpired, k) <=> InWindow(buckets, k)
         /\ InWindow(buckets, k) => pruneExpired[k] = buckets[k]
         /\ DOMAIN pruneExpired \subseteq DOMAIN buckets
         /\ k \in DOMAIN pruneExpired => pruneExpired[k] = buckets[k]
         /\ PruneDue /\ k \in DOMAIN pruneExpired => ~(clock - buckets[k].start >= Window)
<1>t. clock \in Nat /\ \A i \in DOMAIN buckets : buckets[i].start \in Nat
      BY DEF TypeOK, IsMap, Bucket
<1>1. CASE PruneDue
  <2>1. /\ DOMAIN pruneExpired = {i \in DOMAIN buckets : ~(clock - buckets[i].start >= Window)}
        /\ \A i \in DOMAIN pruneExpired : pruneExpired[i] = buckets[i]
        BY <1>1 DEF pruneExpired, Drop
  <2> QED  BY <1>1, <1>t, <2>1 DEF InWindow
<1>2. CASE ~PruneDue
  <2>1. pruneExpired = buckets
        BY <1>2 DEF pruneExpired
  <2> QED  BY <1>2, <2>1 DEF InWindow
<1> QED  BY <1>1, <1>2

\* What a call leaves in the map and in the history.
LEMMA AdmittedMap ==
  ASSUME NEW key, Admitted(key)
  PROVE  /\ DOMAIN buckets' = DOMAIN pruneExpired \cup {key}
         /\ \A k \in DOMAIN pruneExpired : k # key => buckets'[k] = pruneExpired[k]
         /\ buckets'[key] = IF InWindow(pruneExpired, key)
                            THEN [pruneExpired[key] EXCEPT !.used = @ + 1]
                            ELSE [start |-> clock, used |-> 1]
  BY DEF Admitted, Admit, Put

LEMMA TypeInit == Init => TypeOK
  BY EmptyMapIsMap DEF Init, TypeOK

LEMMA TypeNext == TypeOK /\ [Next]_vars => TypeOK'
<1> SUFFICES ASSUME TypeOK, [Next]_vars PROVE TypeOK'
    OBVIOUS
<1> USE DEF TypeOK
<1>1. CASE Tick
    BY <1>1 DEF Tick
<1>2. ASSUME NEW key \in Key, Allow(key) PROVE TypeOK'
  <2>1. IsMap(pruneExpired, Key, Bucket)
        BY DropIsMap DEF pruneExpired
  <2>2. nextPrune' \in Nat /\ clock' = clock
        BY <1>2 DEF Allow
  <2>3. CASE Admitted(key)
    <3> DEFINE b == IF InWindow(pruneExpired, key)
                    THEN [pruneExpired[key] EXCEPT !.used = @ + 1]
                    ELSE [start |-> clock, used |-> 1]
    <3>1. b \in Bucket
      <4>1. CASE InWindow(pruneExpired, key)
        <5>1. pruneExpired[key] \in Bucket /\ pruneExpired[key].used < Limit
              BY <2>1, <2>3, <4>1 DEF Admitted, InWindow, Full, IsMap, Bucket
        <5>2. b = [start |-> pruneExpired[key].start, used |-> pruneExpired[key].used + 1]
              BY <4>1, <5>1 DEF Bucket
        <5> QED  BY <5>1, <5>2 DEF Bucket
      <4>2. CASE ~InWindow(pruneExpired, key)
            BY <4>2 DEF Bucket
      <4> QED  BY <4>1, <4>2
    <3>2. buckets' = Put(pruneExpired, key, b)
          BY <2>3 DEF Admitted, Admit
    <3>3. IsMap(buckets', Key, Bucket)
          BY <2>1, <3>1, <3>2, PutIsMap
    <3>4. admitted' \in [Key -> Seq(Nat)] /\ reply' \in Key \X BOOLEAN
      <4>1. Append(admitted[key], clock) \in Seq(Nat)
            OBVIOUS
      <4> QED  BY <2>3, <4>1 DEF Admitted
    <3> QED  BY <2>2, <3>3, <3>4
  <2>4. CASE Denied(key)
        BY <2>1, <2>2, <2>4 DEF Denied
  <2> QED  BY <1>2, <2>3, <2>4 DEF Allow
<1>3. CASE UNCHANGED vars
    BY <1>3 DEF vars
<1> QED  BY <1>1, <1>2, <1>3 DEF Next

\* Every state of the limiter is well-typed: no bucket counts beyond the limit.
THEOREM TypeCorrect == Spec => []TypeOK
<1>1. Init => TypeOK
      BY TypeInit
<1>2. TypeOK /\ [Next]_vars => TypeOK'
      BY TypeNext
<1> QED  BY <1>1, <1>2, PTL DEF Spec

---------------------------------------------------------------------------
(* The inductive invariant.                                                *)

\* Nothing is dated in the future.
Dated == /\ \A k \in DOMAIN buckets : buckets[k].start <= clock
         /\ nextPrune <= clock + Window

\* The history of each key is in order of time.
Sorted ==
    \A k \in Key :
        /\ \A i \in 1..Len(admitted[k]) : admitted[k][i] <= clock
        /\ \A i, j \in 1..Len(admitted[k]) : i <= j => admitted[k][i] <= admitted[k][j]

\* A bucket accounts for the latest calls of its key; the Limit-th call
\* before the window, if any, is a window older than the start of this one.
Counted ==
    \A k \in DOMAIN buckets :
        LET n == Len(admitted[k])
            b == buckets[k]
        IN  /\ b.used <= n /\ admitted[k][n - b.used + 1] = b.start
            /\ \A m \in 1..n : m <= n - b.used - Limit + 1 => admitted[k][m] + Window <= b.start

\* For a key without a bucket, the Limit-th latest call is a window old.
Forgotten ==
    \A k \in Key \ DOMAIN buckets : \A m \in 1..Len(admitted[k]) :
        m <= Len(admitted[k]) - Limit + 1 => admitted[k][m] + Window <= clock

IInv == TypeOK /\ Dated /\ Sorted /\ Counted /\ Forgotten /\ SlidingBound /\ BucketBound

LEMMA Typed ==
  ASSUME TypeOK
  PROVE  /\ clock \in Nat /\ nextPrune \in Nat
         /\ DOMAIN buckets \subseteq Key
         /\ \A k \in DOMAIN buckets : buckets[k].start \in Nat /\ buckets[k].used \in 1..Limit
         /\ \A k \in Key : /\ admitted[k] \in Seq(Nat) /\ Len(admitted[k]) \in Nat
                           /\ \A i \in 1..Len(admitted[k]) : admitted[k][i] \in Nat
  BY DEF TypeOK, IsMap, Bucket

\* Once the window of a key is over, its Limit-th latest call is a window old.
LEMMA OverIsOld ==
  ASSUME IInv, NEW k \in Key, ~InWindow(buckets, k), NEW m \in 1..Len(admitted[k]),
         m <= Len(admitted[k]) - Limit + 1
  PROVE  admitted[k][m] + Window <= clock
<1>t. /\ clock \in Nat /\ DOMAIN buckets \subseteq Key
      /\ \A i \in DOMAIN buckets : buckets[i].start \in Nat /\ buckets[i].used \in 1..Limit
      /\ Len(admitted[k]) \in Nat
      /\ \A i \in 1..Len(admitted[k]) : admitted[k][i] \in Nat
      BY Typed DEF IInv
<1>1. CASE k \notin DOMAIN buckets
      BY <1>1 DEF IInv, Forgotten
<1>2. CASE k \in DOMAIN buckets
  <2> DEFINE j == Len(admitted[k]) - buckets[k].used + 1
  <2>1. buckets[k].start + Window <= clock
        BY <1>2, <1>t DEF InWindow
  <2>2. /\ buckets[k].used \in 1..Limit /\ buckets[k].used <= Len(admitted[k])
        /\ admitted[k][j] = buckets[k].start
        /\ Len(admitted[k]) \in Nat
        BY <1>2, <1>t DEF IInv, Counted
  <2>4. j \in 1..Len(admitted[k]) /\ m <= j
        BY <2>2
  <2>3. admitted[k][m] <= admitted[k][j]
        BY <2>4 DEF IInv, Sorted
  <2>5. admitted[k][m] \in Nat /\ buckets[k].start \in Nat /\ clock \in Nat
        BY <1>2, <1>t
  <2> QED  BY <2>1, <2>2, <2>3, <2>5
<1> QED  BY <1>1, <1>2

LEMMA IInvInit == Init => IInv
  BY TypeInit DEF Init, IInv, Dated, Sorted, Counted, Forgotten, SlidingBound, BucketBound, EmptyMap

LEMMA IInvNext == IInv /\ [Next]_vars => IInv'
<1> SUFFICES ASSUME IInv, [Next]_vars PROVE IInv'
    OBVIOUS
<1> TypeOK /\ TypeOK'
    BY TypeNext DEF IInv
<1>t. /\ clock \in Nat \ {0} /\ nextPrune \in Nat
      /\ DOMAIN buckets \subseteq Key
      /\ \A k \in DOMAIN buckets : buckets[k].start \in Nat /\ buckets[k].used \in 1..Limit
      /\ \A k \in Key : /\ admitted[k] \in Seq(Nat) /\ Len(admitted[k]) \in Nat
                        /\ \A i \in 1..Len(admitted[k]) : admitted[k][i] \in Nat
      BY Typed DEF TypeOK
<1>1. CASE Tick
  <2>1. clock' = clock + 1 /\ UNCHANGED <<buckets, nextPrune, admitted>>
        BY <1>1 DEF Tick
  <2>2. Dated' /\ BucketBound'
        BY <2>1, <1>t DEF IInv, Dated, BucketBound
  <2>3. Sorted'
        BY <2>1, <1>t DEF IInv, Sorted
  <2>4. Counted'
        BY <2>1 DEF IInv, Counted
  <2>5. Forgotten'
        BY <2>1, <1>t DEF IInv, Forgotten
  <2>6. SlidingBound'
        BY <2>1 DEF IInv, SlidingBound
  <2> QED  BY <2>2, <2>3, <2>4, <2>5, <2>6 DEF IInv
<1>2. ASSUME NEW key \in Key, Allow(key) PROVE IInv'
  <2>0. clock' = clock
        BY <1>2 DEF Allow
  <2>1. nextPrune' = IF PruneDue THEN clock + Window ELSE nextPrune
        BY <1>2 DEF Allow
  \* The buckets that survive, of keys other than the caller's.
  <2>2. /\ \A k \in DOMAIN buckets' : k # key \/ Denied(key) =>
              k \in DOMAIN buckets /\ buckets'[k] = buckets[k] /\ k \in DOMAIN pruneExpired
        /\ \A k \in DOMAIN buckets : k \notin DOMAIN buckets' => ~InWindow(buckets, k)
    <3>1. CASE Admitted(key)
      <4>1. /\ DOMAIN buckets' = DOMAIN pruneExpired \cup {key}
            /\ \A k \in DOMAIN pruneExpired : k # key => buckets'[k] = pruneExpired[k]
            BY <3>1, AdmittedMap
      <4>2. ~Denied(key)
            BY <3>1 DEF Admitted, Denied
      <4> QED  BY <4>1, <4>2, PruneKeepsWindows DEF InWindow
    <3>2. CASE Denied(key)
      <4>1. buckets' = pruneExpired
            BY <3>2 DEF Denied
      <4> QED  BY <4>1, PruneKeepsWindows DEF InWindow
    <3> QED  BY <1>2, <3>1, <3>2 DEF Allow
  <2>3. \A k \in Key : k # key \/ Denied(key) => admitted'[k] = admitted[k]
        BY <1>2 DEF Allow, Admitted, Denied, TypeOK
  \* What holds of every key whose history does not grow.
  <2>4. ASSUME NEW k \in Key, k # key \/ Denied(key)
        PROVE  /\ k \in DOMAIN buckets' =>
                      /\ buckets'[k] = buckets[k] /\ k \in DOMAIN buckets
                      /\ nextPrune' # 0 => buckets[k].start + 2 * Window > nextPrune'
               /\ k \notin DOMAIN buckets' =>
                      \A m \in 1..Len(admitted[k]) :
                          m <= Len(admitted[k]) - Limit + 1 => admitted[k][m] + Window <= clock
    <3>1. ASSUME k \in DOMAIN buckets'
          PROVE  /\ buckets'[k] = buckets[k] /\ k \in DOMAIN buckets
                 /\ nextPrune' # 0 => buckets[k].start + 2 * Window > nextPrune'
      <4>1. buckets'[k] = buckets[k] /\ k \in DOMAIN buckets /\ k \in DOMAIN pruneExpired
            BY <3>1, <2>2, <2>4
      <4>2. CASE PruneDue
        <5>1. ~(clock - buckets[k].start >= Window)
              BY <4>1, <4>2, PruneKeepsWindows
        <5> QED  BY <4>1, <4>2, <5>1, <2>1, <1>t
      <4>3. CASE ~PruneDue
            BY <4>1, <4>3, <2>1 DEF IInv, BucketBound
      <4> QED  BY <4>2, <4>3, <4>1
    <3>2. ASSUME k \notin DOMAIN buckets', NEW m \in 1..Len(admitted[k]),
                 m <= Len(admitted[k]) - Limit + 1
          PROVE  admitted[k][m] + Window <= clock
      <4>1. ~InWindow(buckets, k)
            BY <3>2, <2>2 DEF InWindow
      <4> QED  BY <4>1, <3>2, OverIsOld
    <3> QED  BY <3>1, <3>2
  <2>5. CASE Denied(key)
    <3>1. admitted' = admitted /\ \A k \in DOMAIN buckets' : k \in DOMAIN buckets /\ buckets'[k] = buckets[k]
          BY <2>5, <2>2 DEF Denied
    <3>2. Dated'
          BY <3>1, <2>0, <2>1, <1>t DEF IInv, Dated
    <3>3. Sorted' /\ SlidingBound'
          BY <3>1, <2>0 DEF IInv, Sorted, SlidingBound
    <3>4. Counted'
          BY <3>1 DEF IInv, Counted
    <3>5. Forgotten'
          BY <3>1, <2>0, <2>4, <2>5 DEF Forgotten
    <3>6. BucketBound'
          BY <3>1, <2>4, <2>5, <1>t DEF BucketBound
    <3> QED  BY <3>2, <3>3, <3>4, <3>5, <3>6 DEF IInv
  <2>6. CASE Admitted(key)
    <3> DEFINE n == Len(admitted[key])
    <3>1. /\ admitted'[key] = Append(admitted[key], clock)
          /\ Len(admitted'[key]) = n + 1
          /\ admitted'[key][n + 1] = clock
          /\ \A i \in 1..n : admitted'[key][i] = admitted[key][i]
          BY <2>6, <1>t DEF Admitted, TypeOK
    <3>2. /\ key \in DOMAIN buckets'
          /\ InWindow(buckets, key) =>
                /\ buckets[key].used < Limit
                /\ buckets'[key].used = buckets[key].used + 1
                /\ buckets'[key].start = buckets[key].start
          /\ ~InWindow(buckets, key) => buckets'[key] = [start |-> clock, used |-> 1]
      <4>1. /\ key \in DOMAIN buckets'
            /\ buckets'[key] = IF InWindow(buckets, key)
                               THEN [buckets[key] EXCEPT !.used = @ + 1]
                               ELSE [start |-> clock, used |-> 1]
            BY <2>6, AdmittedMap, PruneKeepsWindows
      <4>2. InWindow(buckets, key) => buckets[key] \in Bucket /\ buckets[key].used < Limit
            BY <2>6, <1>t, PruneKeepsWindows DEF Admitted, Full, InWindow, TypeOK, IsMap
      <4>3. InWindow(buckets, key) =>
               /\ [buckets[key] EXCEPT !.used = @ + 1].used = buckets[key].used + 1
               /\ [buckets[key] EXCEPT !.used = @ + 1].start = buckets[key].start
            BY <4>2 DEF Bucket
      <4> QED  BY <4>1, <4>2, <4>3
    <3>3. InWindow(buckets, key) => key \in DOMAIN buckets /\ clock - buckets[key].start < Window
          BY DEF InWindow
    \* The Limit-th call before the new window of the key.
    <3>4. ASSUME NEW m \in 1..n, m <= (n + 1) - buckets'[key].used - Limit + 1
          PROVE  admitted[key][m] + Window <= buckets'[key].start
      <4>1. CASE InWindow(buckets, key)
            BY <4>1, <3>2, <3>3, <3>4, <1>t DEF IInv, Counted
      <4>2. CASE ~InWindow(buckets, key)
        <5>1. m <= n - Limit + 1
              BY <4>2, <3>2, <3>4, <1>t
        <5>2. admitted[key][m] + Window <= clock
              BY <4>2, <5>1, OverIsOld
        <5> QED  BY <4>2, <5>2, <3>2
      <4> QED  BY <4>1, <4>2
    <3>5. buckets'[key].start <= clock /\ buckets'[key].start \in Nat /\ buckets'[key].used \in 1..Limit
      <4>1. CASE InWindow(buckets, key)
            BY <4>1, <3>2, <3>3, <1>t DEF IInv, Dated
      <4>2. CASE ~InWindow(buckets, key)
            BY <4>2, <3>2, <1>t
      <4> QED  BY <4>1, <4>2
    <3>n. n \in Nat
          BY <1>t
    <3>u. buckets'[key].used \in Nat /\ 1 <= buckets'[key].used /\ buckets'[key].used <= Limit
          BY <3>5
    <3>6. Dated'
          BY <3>5, <2>0, <2>1, <2>2, <1>t DEF IInv, Dated
    <3>7. Sorted'
      <4>1. ASSUME NEW k \in Key, k # key
            PROVE  /\ \A i \in 1..Len(admitted'[k]) : admitted'[k][i] <= clock'
                   /\ \A i, j \in 1..Len(admitted'[k]) : i <= j => admitted'[k][i] <= admitted'[k][j]
            BY <4>1, <2>0, <2>3 DEF IInv, Sorted
      <4>2. /\ \A i \in 1..(n + 1) : admitted'[key][i] <= clock
            /\ \A i, j \in 1..(n + 1) : i <= j => admitted'[key][i] <= admitted'[key][j]
        <5>1. \A i \in 1..n : admitted'[key][i] <= clock
              BY <3>1 DEF IInv, Sorted
        <5>2. \A i, j \in 1..n : i <= j => admitted'[key][i] <= admitted'[key][j]
              BY <3>1 DEF IInv, Sorted
        <5>3. \A i \in 1..(n + 1) : i \in 1..n \/ i = n + 1
              BY <1>t
        <5>4. \A i \in 1..(n + 1) : admitted'[key][i] <= clock
              BY <5>1, <5>3, <3>1, <1>t
        <5>5. ASSUME NEW i \in 1..(n + 1), NEW j \in 1..(n + 1), i <= j
              PROVE  admitted'[key][i] <= admitted'[key][j]
          <6>1. CASE j = n + 1
                BY <6>1, <5>4, <3>1
          <6>2. CASE j # n + 1
            <7>1. i \in 1..n /\ j \in 1..n
                  BY <6>2, <5>5, <1>t
            <7> QED  BY <7>1, <5>2, <5>5
          <6> QED  BY <6>1, <6>2
        <5> QED  BY <5>4, <5>5
      <4> SUFFICES ASSUME NEW k \in Key
                   PROVE  /\ \A i \in 1..Len(admitted'[k]) : admitted'[k][i] <= clock'
                          /\ \A i, j \in 1..Len(admitted'[k]) : i <= j => admitted'[k][i] <= admitted'[k][j]
          BY DEF Sorted
      <4>3. CASE k = key
            BY <4>2, <4>3, <3>1, <2>0
      <4>4. CASE k # key
            BY <4>1, <4>4
      <4> QED  BY <4>3, <4>4
    <3>8. Counted'
      <4>1. ASSUME NEW k \in DOMAIN buckets', k # key
            PROVE  LET s == Len(admitted'[k])
                       b == buckets'[k]
                   IN  /\ b.used <= s /\ admitted'[k][s - b.used + 1] = b.start
                       /\ \A m \in 1..s : m <= s - b.used - Limit + 1 => admitted'[k][m] + Window <= b.start
            BY <4>1, <2>2, <2>3, <1>t DEF IInv, Counted
      <4>2. /\ buckets'[key].used <= n + 1
            /\ admitted'[key][n + 1 - buckets'[key].used + 1] = buckets'[key].start
        <5>1. CASE InWindow(buckets, key)
          <6> DEFINE j == n - buckets[key].used + 1
          <6>1. /\ buckets[key].used <= n /\ admitted[key][j] = buckets[key].start
                /\ buckets[key].used \in 1..Limit
                BY <5>1, <3>3, <1>t DEF IInv, Counted
          <6>2. n \in Nat /\ buckets'[key].used = buckets[key].used + 1
                BY <5>1, <3>2, <1>t
          <6>3. j \in 1..n /\ n + 1 - buckets'[key].used + 1 = j /\ buckets'[key].used <= n + 1
                BY <6>1, <6>2
          <6>4. admitted'[key][j] = admitted[key][j]
                BY <6>3, <3>1
          <6>5. buckets'[key].start = buckets[key].start
                BY <5>1, <3>2
          <6> QED  BY <6>1, <6>3, <6>4, <6>5
        <5>2. CASE ~InWindow(buckets, key)
              BY <5>2, <3>1, <3>2, <1>t
        <5> QED  BY <5>1, <5>2
      <4>3. \A m \in 1..(n + 1) : m <= (n + 1) - buckets'[key].used - Limit + 1 =>
               admitted'[key][m] + Window <= buckets'[key].start
        <5> SUFFICES ASSUME NEW m \in 1..(n + 1), m <= (n + 1) - buckets'[key].used - Limit + 1
                     PROVE  admitted'[key][m] + Window <= buckets'[key].start
            OBVIOUS
        <5>2. m \in 1..n
              BY <3>n, <3>u
        <5> QED  BY <5>2, <3>1, <3>4
      <4>5. DOMAIN buckets' \subseteq Key
            BY Typed DEF TypeOK, IsMap
      <4> SUFFICES ASSUME NEW k \in DOMAIN buckets'
                   PROVE  LET s == Len(admitted'[k])
                              b == buckets'[k]
                          IN  /\ b.used <= s /\ admitted'[k][s - b.used + 1] = b.start
                              /\ \A m \in 1..s : m <= s - b.used - Limit + 1 =>
                                     admitted'[k][m] + Window <= b.start
          BY DEF Counted
      <4>6. CASE k = key
        <5>1. Len(admitted'[k]) = n + 1
              BY <4>6, <3>1
        <5> QED  BY <4>2, <4>3, <4>6, <5>1, <3>n, <3>u
      <4>7. CASE k # key
            BY <4>1, <4>7
      <4> QED  BY <4>6, <4>7
    <3>9. Forgotten'
          BY <2>0, <2>3, <2>4, <3>2 DEF Forgotten
    <3>10. SlidingBound'
      <4>1. ASSUME NEW k \in Key, k # key, NEW i \in 1..Len(admitted'[k]),
                   i + 2 * Limit - 1 <= Len(admitted'[k])
            PROVE  admitted'[k][i + 2 * Limit - 1] - admitted'[k][i] >= Window
            BY <4>1, <2>3 DEF IInv, SlidingBound
      <4>2. ASSUME NEW i \in 1..(n + 1), i + 2 * Limit - 1 <= n + 1
            PROVE  admitted'[key][i + 2 * Limit - 1] - admitted'[key][i] >= Window
        <5>1. CASE i + 2 * Limit - 1 <= n
          <6>1. i \in 1..n /\ i + 2 * Limit - 1 \in 1..n
                BY <5>1, <1>t
          <6> QED  BY <5>1, <6>1, <3>1 DEF IInv, SlidingBound
        <5>2. CASE i + 2 * Limit - 1 = n + 1
          <6>1. n \in Nat /\ buckets'[key].used \in 1..Limit
                BY <3>5, <1>t
          <6>2. i \in 1..n /\ i <= (n + 1) - buckets'[key].used - Limit + 1
                BY <5>2, <6>1
          <6>3. admitted[key][i] + Window <= buckets'[key].start
                BY <6>2, <3>4
          <6>c. clock \in Nat
                BY <1>t
          <6>4. admitted[key][i] \in Nat /\ admitted'[key][i] = admitted[key][i]
                BY <6>2, <3>1, <1>t
          <6>5. admitted'[key][i + 2 * Limit - 1] = clock
                BY <5>2, <3>1
          <6> QED  BY <6>3, <6>4, <6>5, <3>5, <6>c
        <5>3. n \in Nat
              BY <1>t
        <5> QED  BY <5>1, <5>2, <5>3, <4>2
      <4> SUFFICES ASSUME NEW k \in Key, NEW i \in 1..Len(admitted'[k]),
                          i + 2 * Limit - 1 <= Len(admitted'[k])
                   PROVE  admitted'[k][i + 2 * Limit - 1] - admitted'[k][i] >= Window
          BY DEF SlidingBound
      <4>3. CASE k = key
            BY <4>2, <4>3, <3>1
      <4>4. CASE k # key
            BY <4>1, <4>4
      <4> QED  BY <4>3, <4>4
    <3>11. BucketBound'
      <4>1. CASE nextPrune' # 0
        <5>1. buckets'[key].start + 2 * Window > nextPrune'
          <6>1. CASE InWindow(buckets, key)
            <7>1. buckets[key].start + Window > clock
                  BY <6>1, <3>3, <1>t
            <7> QED  BY <6>1, <7>1, <3>2, <3>3, <2>1, <1>t DEF IInv, Dated
          <6>2. CASE ~InWindow(buckets, key)
                BY <6>2, <3>2, <2>1, <1>t DEF IInv, Dated
          <6> QED  BY <6>1, <6>2
        <5> QED  BY <4>1, <5>1, <2>2, <2>4 DEF BucketBound, TypeOK, IsMap
      <4> QED  BY <4>1 DEF BucketBound
    <3> QED  BY <3>6, <3>7, <3>8, <3>9, <3>10, <3>11 DEF IInv
  <2> QED  BY <1>2, <2>5, <2>6 DEF Allow
<1>3. CASE UNCHANGED vars
    BY <1>3 DEF vars, IInv, Dated, Sorted, Counted, Forgotten, SlidingBound, BucketBound
<1> QED  BY <1>1, <1>2, <1>3 DEF Next

LEMMA IInvCorrect == Spec => []IInv
<1>1. Init => IInv
      BY IInvInit
<1>2. IInv /\ [Next]_vars => IInv'
      BY IInvNext
<1> QED  BY <1>1, <1>2, PTL DEF Spec

\* No key is admitted twice the limit within one window, whatever is pruned in
\* between (limiter.go:37-65).
THEOREM AdmissionsBounded == Spec => []SlidingBound
  BY IInvCorrect, PTL DEF IInv

\* The map keeps no bucket that was over at the latest sweep (limiter.go:55-65).
THEOREM BucketsBounded == Spec => []BucketBound
  BY IInvCorrect, PTL DEF IInv

\* A key that is denied has used up its limit within the window.
LEMMA DeniedIsFull ==
  ASSUME IInv, NEW k \in Key, Denied(k)
  PROVE  /\ Len(admitted[k]) >= Limit
         /\ clock - admitted[k][Len(admitted[k]) - Limit + 1] < Window
<1>t. /\ clock \in Nat
      /\ DOMAIN buckets \subseteq Key
      /\ \A i \in DOMAIN buckets : buckets[i].start \in Nat /\ buckets[i].used \in 1..Limit
      /\ Len(admitted[k]) \in Nat
      BY Typed DEF IInv
<1>1. InWindow(buckets, k) /\ buckets[k].used >= Limit
      BY PruneKeepsWindows DEF IInv, Denied, Full
<1>2. k \in DOMAIN buckets /\ clock - buckets[k].start < Window /\ buckets[k].used = Limit
      BY <1>1, <1>t DEF InWindow
<1>3. Limit <= Len(admitted[k]) /\ admitted[k][Len(admitted[k]) - Limit + 1] = buckets[k].start
      BY <1>2 DEF IInv, Counted
<1> QED  BY <1>2, <1>3, <1>t

\* Nobody is denied without having used up the limit (limiter.go:47-49).
THEOREM NoUnjustDenial == Spec => DenialsJustified
<1>1. ASSUME IInv, [Next]_vars, NEW k \in Key, clock' = clock, reply' = <<k, FALSE>>
      PROVE  \/ UNCHANGED vars
             \/ /\ Len(admitted[k]) >= Limit
                /\ clock - admitted[k][Len(admitted[k]) - Limit + 1] < Window
  <2> USE <1>1
  <2>1. CASE UNCHANGED vars
        BY <2>1
  <2>2. CASE Denied(k)
        BY <2>2, DeniedIsFull
  <2>3. ASSUME NEW key \in Key, Allow(key) PROVE Denied(k)
    <3>1. ~Admitted(key)
          BY DEF Admitted
    <3>2. Denied(key) /\ reply' = <<key, FALSE>>
          BY <2>3, <3>1 DEF Allow, Denied
    <3>3. key = k
          BY <3>2
    <3> QED  BY <3>2, <3>3
  <2>4. ~Tick
    <3>1. ASSUME Tick PROVE FALSE
      <4>1. clock' = clock + 1
            BY <3>1 DEF Tick
      <4>2. clock' = clock
            BY <1>1
      <4>3. clock \in Nat
            BY Typed DEF IInv
      <4> QED  BY <4>1, <4>2, <4>3
    <3> QED  BY <3>1
  <2> QED  BY <2>1, <2>2, <2>3, <2>4 DEF Next
<1>2. IInv /\ [Next]_vars =>
        [\A k \in Key :
            clock' = clock /\ reply' = <<k, FALSE>> =>
                /\ Len(admitted[k]) >= Limit
                /\ clock - admitted[k][Len(admitted[k]) - Limit + 1] < Window]_vars
      BY <1>1
<1> QED  BY <1>2, IInvCorrect, PTL DEF Spec, DenialsJustified

\* A call for one key never changes what the next call for another key gets.
THEOREM KeysDoNotInterfere == Spec => KeysIsolated
<1>1. ASSUME TypeOK, NEW j \in Key, NEW k \in Key, j # k, Allow(j)
      PROVE  WouldAllow(k)' = WouldAllow(k)
  <2>1. clock' = clock
        BY <1>1 DEF Allow
  <2>2. /\ k \in DOMAIN buckets' <=> k \in DOMAIN pruneExpired
        /\ k \in DOMAIN pruneExpired => buckets'[k] = pruneExpired[k]
    <3>1. CASE Admitted(j)
      <4>1. /\ DOMAIN buckets' = DOMAIN pruneExpired \cup {j}
            /\ \A i \in DOMAIN pruneExpired : i # j => buckets'[i] = pruneExpired[i]
            BY <3>1, AdmittedMap
      <4> QED  BY <4>1, <1>1
    <3>2. CASE Denied(j)
          BY <3>2 DEF Denied
    <3> QED  BY <1>1, <3>1, <3>2 DEF Allow
  <2>3. InWindow(buckets, k)' <=> InWindow(buckets, k)
        BY <1>1, <2>1, <2>2, PruneKeepsWindows DEF InWindow
  <2>4. InWindow(buckets, k) => buckets'[k] = buckets[k]
        BY <1>1, <2>2, PruneKeepsWindows DEF InWindow
  <2> QED  BY <2>3, <2>4 DEF WouldAllow, Full
<1>2. TypeOK => [\A j, k \in Key : j # k /\ Allow(j) => WouldAllow(k)' = WouldAllow(k)]_vars
      BY <1>1
<1> QED  BY <1>2, TypeCorrect, PTL DEF KeysIsolated

---------------------------------------------------------------------------
(* The perimeter: from the key that is charged to the client that asked.   *)

USE PerimeterAssumption

\* The address a client is charged under.
ChargedAs(c) == IF NamedByAddress(c) THEN c ELSE Proxy

\* s is found within t, in order: e says where.
Embeds(e, s, t) ==
    /\ e \in [1..Len(s) -> 1..Len(t)]
    /\ \A i \in 1..Len(s) : s[i] = t[e[i]]
    /\ \A i, j \in 1..Len(s) : i <= j => e[j] - e[i] >= j - i

PerimeterTyped ==
    /\ proxySends \in 0..2 /\ proxyKeeps \in BOOLEAN
    /\ charged \in [Action \X Client -> Seq(Nat)]
    /\ hops \in [Proxied -> 0..MaxHops]

\* Behind a proxy that passes nothing on from its clients, what a client was
\* charged is in the history of its key; for a client whose address reaches
\* the gateway it is that history.
Traced ==
    ~proxyKeeps => \A a \in Action, c \in Client :
        /\ \E e : Embeds(e, charged[<<a, c>>], admitted[<<a, ChargedAs(c)>>])
        /\ NamedByAddress(c) => charged[<<a, c>>] = admitted[<<a, c>>]

PerimeterInv == IInv /\ PerimeterTyped /\ Traced /\ NoRedirectLoop

---------------------------------------------------------------------------
(* Histories                                                               *)

LEMMA EmptyEmbeds == \E e : Embeds(e, <<>>, <<>>)
<1> DEFINE e == [i \in 1..0 |-> i]
<1>1. 1..Len(<<>>) = {}
      OBVIOUS
<1>2. Embeds(e, <<>>, <<>>)
      BY <1>1 DEF Embeds
<1> QED  BY <1>2

\* A history that is found in another is found in what that one grows to.
LEMMA EmbedsInLonger ==
  ASSUME NEW s \in Seq(Nat), NEW t \in Seq(Nat), NEW e, Embeds(e, s, t), NEW x \in Nat
  PROVE  Embeds(e, s, Append(t, x))
<1>1. /\ Len(Append(t, x)) = Len(t) + 1 /\ Len(t) \in Nat
      /\ \A i \in 1..Len(t) : Append(t, x)[i] = t[i]
      OBVIOUS
<1>2. /\ e \in [1..Len(s) -> 1..Len(t)]
      /\ \A i \in 1..Len(s) : s[i] = t[e[i]]
      /\ \A i, j \in 1..Len(s) : i <= j => e[j] - e[i] >= j - i
      BY DEF Embeds
<1>3. e \in [1..Len(s) -> 1..Len(Append(t, x))]
      BY <1>1, <1>2
<1>4. \A i \in 1..Len(s) : s[i] = Append(t, x)[e[i]]
      BY <1>1, <1>2
<1> QED  BY <1>2, <1>3, <1>4 DEF Embeds

\* Both grow by the same instant.
LEMMA BothGrow ==
  ASSUME NEW s \in Seq(Nat), NEW t \in Seq(Nat), NEW e, Embeds(e, s, t), NEW x \in Nat
  PROVE  \E f : Embeds(f, Append(s, x), Append(t, x))
<1> DEFINE n == Len(s)
           m == Len(t)
           f == [i \in 1..(n + 1) |-> IF i = n + 1 THEN m + 1 ELSE e[i]]
<1>1. /\ Len(Append(s, x)) = n + 1 /\ n \in Nat
      /\ \A i \in 1..n : Append(s, x)[i] = s[i]
      /\ Append(s, x)[n + 1] = x
      OBVIOUS
<1>2. /\ Len(Append(t, x)) = m + 1 /\ m \in Nat
      /\ \A i \in 1..m : Append(t, x)[i] = t[i]
      /\ Append(t, x)[m + 1] = x
      OBVIOUS
<1>3. /\ e \in [1..n -> 1..m]
      /\ \A i \in 1..n : s[i] = t[e[i]]
      /\ \A i, j \in 1..n : i <= j => e[j] - e[i] >= j - i
      BY DEF Embeds
<1>t. n \in Nat /\ m \in Nat
      OBVIOUS
<1> HIDE DEF n, m
<1>4. f \in [1..(n + 1) -> 1..(m + 1)]
      BY <1>1, <1>2, <1>3
<1>0. /\ f[n + 1] = m + 1
      /\ \A i \in 1..n : f[i] = e[i]
      BY <1>1
<1> HIDE DEF f
<1>5. ASSUME NEW i \in 1..(n + 1) PROVE Append(s, x)[i] = Append(t, x)[f[i]]
  <2>1. CASE i = n + 1
        BY <1>0, <1>1, <1>2, <2>1
  <2>2. CASE i \in 1..n
    <3>1. e[i] \in 1..m /\ s[i] = t[e[i]]
          BY <1>3, <2>2
    <3> QED  BY <1>0, <1>1, <1>2, <2>2, <3>1
  <2>3. i = n + 1 \/ i \in 1..n
        BY <1>t
  <2> QED  BY <2>1, <2>2, <2>3
<1>6. ASSUME NEW i \in 1..(n + 1), NEW j \in 1..(n + 1), i <= j PROVE f[j] - f[i] >= j - i
  <2>1. CASE j # n + 1
    <3>1. i \in 1..n /\ j \in 1..n /\ f[i] = e[i] /\ f[j] = e[j]
          BY <1>0, <1>1, <1>6, <2>1
    <3> QED  BY <1>3, <1>6, <3>1
  <2>2. CASE i = n + 1
    <3>1. j = n + 1 /\ f[i] = m + 1 /\ f[j] = m + 1
          BY <1>0, <1>1, <1>6, <2>2
    <3> QED  BY <1>1, <1>2, <2>2, <3>1
  <2>3. CASE j = n + 1 /\ i # n + 1
    <3>1. i \in 1..n /\ n \in 1..n /\ i <= n /\ f[i] = e[i] /\ f[j] = m + 1
          BY <1>0, <1>1, <2>3
    <3>2. e[n] - e[i] >= n - i /\ e[n] \in 1..m /\ e[i] \in 1..m
          BY <1>3, <3>1
    <3>3. PICK p \in 1..m, q \in 1..m : p = e[n] /\ q = e[i] /\ p - q >= n - i
          BY <3>2
    <3>4. (m + 1) - q >= (n + 1) - i
          BY <1>t, <3>1, <3>3
    <3> QED  BY <2>3, <3>1, <3>3, <3>4
  <2> QED  BY <2>1, <2>2, <2>3
<1>7. Embeds(f, Append(s, x), Append(t, x))
      BY <1>1, <1>2, <1>4, <1>5, <1>6 DEF Embeds
<1> QED  BY <1>7

---------------------------------------------------------------------------
(* Requests                                                                *)

LEMMA LinesFacts ==
  ASSUME NEW n \in Nat, NEW v
  PROVE  /\ Len(Lines(n, v)) = n
         /\ n = 1 => Lines(n, v)[1] = v /\ Lines(n, v) = <<v>>
<1>1. Lines(n, v) \in Seq({v}) /\ Len(Lines(n, v)) = n
      BY DEF Lines
<1>2. n = 1 => Lines(n, v)[1] = v
      BY DEF Lines
<1>3. n = 1 => Lines(n, v) = <<v>>
      BY DEF Lines
<1> QED  BY <1>1, <1>2, <1>3

\* One line is the proxy's word, unless it passes on its clients' own.
LEMMA OneLine ==
  ASSUME PerimeterTyped, NEW c \in Proxied, NEW V, NEW v, NEW lines \in HeaderLines(c, V, v)
  PROVE  /\ ~proxyKeeps => Len(lines) = proxySends /\ lines = Lines(proxySends, v)
         /\ Len(lines) = 1 => lines[1] \in V \cup {v}
<1>1. c \notin Direct
      OBVIOUS
<1>2. proxySends \in Nat /\ proxyKeeps \in BOOLEAN
      BY DEF PerimeterTyped
<1>3. PICK own \in (IF proxyKeeps THEN OwnLines(V) ELSE {<<>>}) : lines = own \o Lines(proxySends, v)
      BY <1>1 DEF HeaderLines
<1>4. Lines(proxySends, v) \in Seq(V \cup {v}) /\ Len(Lines(proxySends, v)) = proxySends
      BY <1>2 DEF Lines
<1>5. own \in Seq(V \cup {v})
  <2>1. CASE proxyKeeps
    <3>1. PICK n \in 0..1, w \in V : own = Lines(n, w)
          BY <1>3, <2>1 DEF OwnLines
    <3> QED  BY <3>1 DEF Lines
  <2>2. CASE ~proxyKeeps
        BY <1>3, <2>2
  <2> QED  BY <2>1, <2>2
<1>6. own = <<>> => lines = Lines(proxySends, v)
      BY <1>3, <1>4
<1>7. lines \in Seq(V \cup {v})
      BY <1>3, <1>4, <1>5
<1> QED  BY <1>3, <1>4, <1>6, <1>7

\* However a request is dressed up, it is charged to its client's address, or
\* to some address at least if the proxy passes on what the client claims.
LEMMA KeyOfClient ==
  ASSUME PerimeterTyped, NEW c \in Client, NEW scheme, NEW r \in Arriving(c, scheme), r.route \in Action
  PROVE  /\ ~proxyKeeps => ChargeKey(r) = <<r.route, ChargedAs(c)>>
         /\ ChargeKey(r) \in Key
<1>1. /\ r.peer = IF c \in Proxied THEN Proxy ELSE c
      /\ r.ip \in HeaderLines(c, Client, c)
      BY DEF Arriving
<1>2. c \in Proxied \/ c \in Direct
      BY DEF Client
<1>3. c # Proxy /\ ~(c \in Proxied /\ c \in Direct)
      BY DEF Client
<1>4. /\ ~proxyKeeps => clientIP(r) = ChargedAs(c)
      /\ clientIP(r) \in Address
  <2>1. CASE c \in Proxied
    <3>1. /\ ~proxyKeeps => Len(r.ip) = proxySends /\ r.ip = Lines(proxySends, c)
          /\ Len(r.ip) = 1 => r.ip[1] \in Client \cup {c}
          BY <1>1, <2>1, OneLine
    <3>2. proxySends = 1 => Lines(proxySends, c)[1] = c
          BY LinesFacts
    <3> QED  BY <1>1, <1>3, <2>1, <3>1, <3>2 DEF clientIP, trustsProxy, ChargedAs, NamedByAddress, Address
  <2>2. CASE c \in Direct
        BY <1>1, <1>3, <2>2 DEF clientIP, trustsProxy, ChargedAs, NamedByAddress, Address
  <2> QED  BY <1>2, <2>1, <2>2
<1> QED  BY <1>4 DEF ChargeKey

---------------------------------------------------------------------------
(* Steps                                                                   *)

\* Every step of the perimeter is a step of the limiter, or none.
LEMMA LimiterStep ==
  ASSUME PerimeterTyped, [PerimeterNext]_perimeterVars
  PROVE  [Next]_vars /\ proxySetUp' = proxySetUp
<1>1. ASSUME NEW c \in Client, Serve(c) PROVE [Next]_vars /\ proxySetUp' = proxySetUp
  <2>1. PICK scheme \in Scheme(c) : \E r \in Arriving(c, scheme) :
           Redirect(c, r) \/ RefuseOrigin(c, r) \/ PassUncharged(c, r) \/ RefuseRate(c, r) \/ Charge(c, r)
        BY <1>1 DEF Serve
  <2>2. PICK r \in Arriving(c, scheme) :
           Redirect(c, r) \/ RefuseOrigin(c, r) \/ PassUncharged(c, r) \/ RefuseRate(c, r) \/ Charge(c, r)
        BY <2>1
  <2>3. proxySetUp' = proxySetUp
        BY <2>2 DEF Redirect, RefuseOrigin, PassUncharged, RefuseRate, Charge, Answered, proxySetUp
  <2>4. CASE Redirect(c, r) \/ RefuseOrigin(c, r) \/ PassUncharged(c, r)
        BY <2>3, <2>4 DEF Redirect, RefuseOrigin, PassUncharged
  <2>5. CASE RefuseRate(c, r) \/ Charge(c, r)
    <3>1. r.route \in Action /\ Allow(ChargeKey(r))
          BY <2>5 DEF RefuseRate, Charge
    <3>2. ChargeKey(r) \in Key
          BY <3>1, KeyOfClient
    <3> QED  BY <2>3, <3>1, <3>2 DEF Next
  <2> QED  BY <2>2, <2>4, <2>5
<1>2. CASE PerimeterTick
      BY <1>2 DEF PerimeterTick, Next
<1>3. CASE UNCHANGED perimeterVars
      BY <1>3 DEF perimeterVars
<1> QED  BY <1>1, <1>2, <1>3 DEF PerimeterNext

\* What a step may add to the histories: one instant, for one client and its key.
Recorded ==
    \/ charged' = charged /\ admitted' = admitted
    \/ \E a \in Action, c \in Client, k \in Key :
          /\ charged' = [charged EXCEPT ![<<a, c>>] = Append(@, clock)]
          /\ admitted' = [admitted EXCEPT ![k] = Append(@, clock)]
          /\ ~proxyKeeps => k = <<a, ChargedAs(c)>>

LEMMA StepRecords ==
  ASSUME PerimeterTyped, [PerimeterNext]_perimeterVars
  PROVE  Recorded
<1>1. ASSUME NEW c \in Client, Serve(c) PROVE Recorded
  <2>1. PICK scheme \in Scheme(c) : \E r \in Arriving(c, scheme) :
           Redirect(c, r) \/ RefuseOrigin(c, r) \/ PassUncharged(c, r) \/ RefuseRate(c, r) \/ Charge(c, r)
        BY <1>1 DEF Serve
  <2>2. PICK r \in Arriving(c, scheme) :
           Redirect(c, r) \/ RefuseOrigin(c, r) \/ PassUncharged(c, r) \/ RefuseRate(c, r) \/ Charge(c, r)
        BY <2>1
  <2>3. CASE Redirect(c, r) \/ RefuseOrigin(c, r) \/ PassUncharged(c, r)
        BY <2>3 DEF Redirect, RefuseOrigin, PassUncharged, vars, Recorded
  <2>4. CASE RefuseRate(c, r)
    <3>1. Allow(ChargeKey(r)) /\ reply' = <<ChargeKey(r), FALSE>> /\ charged' = charged
          BY <2>4 DEF RefuseRate
    <3>2. ~Admitted(ChargeKey(r))
          BY <3>1 DEF Admitted
    <3> QED  BY <3>1, <3>2 DEF Allow, Denied, Recorded
  <2>5. CASE Charge(c, r)
    <3>1. /\ r.route \in Action /\ Allow(ChargeKey(r)) /\ reply' = <<ChargeKey(r), TRUE>>
          /\ charged' = [charged EXCEPT ![<<r.route, c>>] = Append(@, clock)]
          BY <2>5 DEF Charge
    <3>2. ~Denied(ChargeKey(r))
          BY <3>1 DEF Denied
    <3>3. admitted' = [admitted EXCEPT ![ChargeKey(r)] = Append(@, clock)]
          BY <3>1, <3>2 DEF Allow, Admitted
    <3>4. ChargeKey(r) \in Key /\ (~proxyKeeps => ChargeKey(r) = <<r.route, ChargedAs(c)>>)
          BY <3>1, KeyOfClient
    <3> QED  BY <3>1, <3>3, <3>4 DEF Recorded
  <2> QED  BY <2>2, <2>3, <2>4, <2>5
<1>2. CASE PerimeterTick
      BY <1>2 DEF PerimeterTick, Tick, Recorded
<1>3. CASE UNCHANGED perimeterVars
      BY <1>3 DEF perimeterVars, vars, Recorded
<1> QED  BY <1>1, <1>2, <1>3 DEF PerimeterNext

\* The histories of a client and of its key keep step.
LEMMA TracedNext ==
  ASSUME IInv, PerimeterTyped, Traced, [PerimeterNext]_perimeterVars
  PROVE  Traced'
<1>1. proxySends' = proxySends /\ proxyKeeps' = proxyKeeps
      BY LimiterStep DEF proxySetUp
<1> SUFFICES ASSUME ~proxyKeeps PROVE Traced'
    BY <1>1 DEF Traced
<1>2. \A c : ChargedAs(c)' = ChargedAs(c) /\ (NamedByAddress(c)' <=> NamedByAddress(c))
      BY <1>1 DEF ChargedAs, NamedByAddress
<1>3. /\ charged \in [Action \X Client -> Seq(Nat)] /\ admitted \in [Key -> Seq(Nat)] /\ clock \in Nat
      BY DEF PerimeterTyped, IInv, TypeOK
<1>4. \A a \in Action, c \in Client : <<a, c>> \in Action \X Client /\ <<a, ChargedAs(c)>> \in Key
      BY DEF ChargedAs, Address
<1>5. CASE charged' = charged /\ admitted' = admitted
      BY <1>2, <1>5 DEF Traced
<1>6. ASSUME NEW b \in Action, NEW d \in Client,
             charged' = [charged EXCEPT ![<<b, d>>] = Append(@, clock)],
             admitted' = [admitted EXCEPT ![<<b, ChargedAs(d)>>] = Append(@, clock)]
      PROVE  Traced'
  <2> SUFFICES ASSUME NEW a \in Action, NEW c \in Client
               PROVE  /\ \E e : Embeds(e, charged'[<<a, c>>], admitted'[<<a, ChargedAs(c)>>])
                      /\ NamedByAddress(c) => charged'[<<a, c>>] = admitted'[<<a, c>>]
      BY <1>2 DEF Traced
  <2>1. PICK e : Embeds(e, charged[<<a, c>>], admitted[<<a, ChargedAs(c)>>])
        BY DEF Traced
  <2>2. NamedByAddress(c) => charged[<<a, c>>] = admitted[<<a, c>>] /\ ChargedAs(c) = c
        BY DEF Traced, ChargedAs
  <2>3. /\ charged[<<a, c>>] \in Seq(Nat) /\ admitted[<<a, ChargedAs(c)>>] \in Seq(Nat)
        BY <1>3, <1>4
  <2>4. CASE a = b /\ c = d
    <3>1. /\ charged'[<<a, c>>] = Append(charged[<<a, c>>], clock)
          /\ admitted'[<<a, ChargedAs(c)>>] = Append(admitted[<<a, ChargedAs(c)>>], clock)
          BY <1>3, <1>4, <1>6, <2>4
    <3>2. \E f : Embeds(f, Append(charged[<<a, c>>], clock), Append(admitted[<<a, ChargedAs(c)>>], clock))
          BY <1>3, <2>1, <2>3, BothGrow
    <3> QED  BY <2>2, <3>1, <3>2
  <2>5. CASE ~(a = b /\ c = d)
    <3>1. charged'[<<a, c>>] = charged[<<a, c>>]
          BY <1>3, <1>4, <1>6, <2>5
    <3>2. CASE <<a, ChargedAs(c)>> = <<b, ChargedAs(d)>>
      <4>1. admitted'[<<a, ChargedAs(c)>>] = Append(admitted[<<a, ChargedAs(c)>>], clock)
            BY <1>3, <1>4, <1>6, <3>2
      <4>2. ~NamedByAddress(c)
        <5>1. ChargedAs(c) = ChargedAs(d) /\ c # d /\ c # Proxy /\ d # Proxy
              BY <2>5, <3>2 DEF Client
        <5> QED  BY <5>1 DEF ChargedAs
      <4>3. Embeds(e, charged[<<a, c>>], Append(admitted[<<a, ChargedAs(c)>>], clock))
            BY <1>3, <2>1, <2>3, EmbedsInLonger
      <4> QED  BY <3>1, <4>1, <4>2, <4>3
    <3>3. CASE <<a, ChargedAs(c)>> # <<b, ChargedAs(d)>>
      <4>1. admitted'[<<a, ChargedAs(c)>>] = admitted[<<a, ChargedAs(c)>>]
            BY <1>3, <1>4, <1>6, <3>3
      <4> QED  BY <2>1, <2>2, <3>1, <4>1
    <3> QED  BY <3>2, <3>3
  <2> QED  BY <2>4, <2>5
<1> QED  BY <1>5, <1>6, StepRecords DEF Recorded


\* A browser that was redirected comes back over https, and the proxy says so.
LEMMA HopsNext ==
  ASSUME PerimeterTyped, NoRedirectLoop, [PerimeterNext]_perimeterVars
  PROVE  hops' \in [Proxied -> 0..MaxHops] /\ NoRedirectLoop'
<1>1. /\ hops \in [Proxied -> 0..MaxHops]
      /\ proxySends' = proxySends /\ proxyKeeps' = proxyKeeps
      /\ proxySends = 1 /\ ~proxyKeeps => \A c \in Proxied : hops[c] <= 1
      BY LimiterStep DEF PerimeterTyped, NoRedirectLoop, proxySetUp
<1>2. CASE hops' = hops
      BY <1>1, <1>2 DEF NoRedirectLoop
<1>3. ASSUME NEW c \in Client, Serve(c), hops' # hops
      PROVE  hops' \in [Proxied -> 0..MaxHops] /\ NoRedirectLoop'
  <2>1. PICK scheme \in Scheme(c) : \E r \in Arriving(c, scheme) :
           Redirect(c, r) \/ RefuseOrigin(c, r) \/ PassUncharged(c, r) \/ RefuseRate(c, r) \/ Charge(c, r)
        BY <1>3 DEF Serve
  <2>2. PICK r \in Arriving(c, scheme) :
           Redirect(c, r) \/ RefuseOrigin(c, r) \/ PassUncharged(c, r) \/ RefuseRate(c, r) \/ Charge(c, r)
        BY <2>1
  <2>3. c \in Proxied /\ \E n \in 0..MaxHops :
           /\ hops' = [hops EXCEPT ![c] = n]
           /\ n = 0 \/ (Redirect(c, r) /\ n = (IF hops[c] = MaxHops THEN hops[c] ELSE hops[c] + 1))
    <3>1. c \in Proxied
          BY <1>3, <2>2 DEF Redirect, RefuseOrigin, PassUncharged, RefuseRate, Charge, Answered
    <3>2. CASE Redirect(c, r)
      <4> DEFINE n == IF hops[c] = MaxHops THEN hops[c] ELSE hops[c] + 1
      <4>1. hops' = [hops EXCEPT ![c] = n]
            BY <1>1, <3>1, <3>2 DEF Redirect, Answered
      <4>2. n \in 0..MaxHops
            BY <1>1, <3>1 DEF MaxHops
      <4> QED  BY <3>1, <3>2, <4>1, <4>2
    <3>3. CASE ~Redirect(c, r)
      <4>1. PICK status : status # "308" /\ Answered(c, status)
            BY <2>2, <3>3 DEF RefuseOrigin, PassUncharged, RefuseRate, Charge
      <4>2. hops' = [hops EXCEPT ![c] = 0]
            BY <3>1, <4>1 DEF Answered
      <4>3. 0 \in 0..MaxHops
            BY DEF MaxHops
      <4> QED  BY <3>1, <4>2, <4>3
    <3> QED  BY <3>2, <3>3
  <2>4. PICK n \in 0..MaxHops :
           /\ hops' = [hops EXCEPT ![c] = n]
           /\ n = 0 \/ (Redirect(c, r) /\ n = (IF hops[c] = MaxHops THEN hops[c] ELSE hops[c] + 1))
        BY <2>3
  <2>5. ASSUME proxySends = 1, ~proxyKeeps, Redirect(c, r) PROVE hops[c] = 0
    <3>1. scheme # "https"
      <4>1. r.peer = Proxy /\ r.proto = Lines(1, scheme)
        <5>1. c \in Proxied /\ r.peer = Proxy /\ r.proto \in HeaderLines(c, {"https"}, scheme)
              BY <2>3 DEF Arriving
        <5> QED  BY <2>5, <5>1, OneLine
      <4>2. Lines(1, "https") = <<"https">>
            BY LinesFacts
      <4> QED  BY <2>5, <4>1, <4>2 DEF Redirect, shouldRedirectHTTPS, isEffectivelyHTTPS, trustsProxy
    <3>2. ~Redirected(c)
          BY <3>1 DEF Scheme
    <3>3. hops[c] \in 0..MaxHops
          BY <1>1, <2>3
    <3> QED  BY <2>3, <3>2, <3>3 DEF Redirected, MaxHops
  <2>6. proxySends = 1 /\ ~proxyKeeps => n <= 1
        BY <2>4, <2>5 DEF MaxHops
  <2>7. hops' \in [Proxied -> 0..MaxHops]
        BY <1>1, <2>4
  <2>8. proxySends' = 1 /\ ~proxyKeeps' => \A b \in Proxied : hops'[b] <= 1
        BY <1>1, <2>4, <2>6
  <2> QED  BY <2>7, <2>8 DEF NoRedirectLoop
<1>4. PerimeterTick \/ UNCHANGED perimeterVars => hops' = hops
      BY DEF PerimeterTick, perimeterVars
<1> QED  BY <1>2, <1>3, <1>4 DEF PerimeterNext

LEMMA ChargedTyped ==
  ASSUME IInv, PerimeterTyped, [PerimeterNext]_perimeterVars
  PROVE  charged' \in [Action \X Client -> Seq(Nat)]
<1>1. charged \in [Action \X Client -> Seq(Nat)] /\ clock \in Nat
      BY DEF PerimeterTyped, IInv, TypeOK
<1>2. ASSUME NEW a \in Action, NEW c \in Client, charged' = [charged EXCEPT ![<<a, c>>] = Append(@, clock)]
      PROVE  charged' \in [Action \X Client -> Seq(Nat)]
  <2>1. <<a, c>> \in Action \X Client
        OBVIOUS
  <2>2. Append(charged[<<a, c>>], clock) \in Seq(Nat)
        BY <1>1, <2>1
  <2> QED  BY <1>1, <1>2, <2>1, <2>2
<1> QED  BY <1>1, <1>2, StepRecords DEF Recorded

LEMMA PerimeterInvInit == PerimeterInit => PerimeterInv
<1> SUFFICES ASSUME PerimeterInit PROVE PerimeterInv
    OBVIOUS
<1>1. IInv
      BY IInvInit DEF PerimeterInit
<1>2. PerimeterTyped
  <2>1. <<>> \in Seq(Nat) /\ 0 \in 0..MaxHops
        BY DEF MaxHops
  <2>2. proxySends \in 0..2 /\ proxyKeeps \in BOOLEAN
        BY SetUpsAssumption DEF PerimeterInit
  <2> QED  BY <2>1, <2>2 DEF PerimeterInit, PerimeterTyped
<1>3. Traced
  <2> SUFFICES ASSUME NEW a \in Action, NEW c \in Client
               PROVE  /\ \E e : Embeds(e, charged[<<a, c>>], admitted[<<a, ChargedAs(c)>>])
                      /\ NamedByAddress(c) => charged[<<a, c>>] = admitted[<<a, c>>]
      BY DEF Traced
  <2>1. <<a, ChargedAs(c)>> \in Key /\ <<a, c>> \in Key
        BY DEF ChargedAs, Address
  <2>2. charged[<<a, c>>] = <<>> /\ \A k \in Key : admitted[k] = <<>>
        BY DEF PerimeterInit, Init
  <2> QED  BY <2>1, <2>2, EmptyEmbeds
<1>4. NoRedirectLoop
      BY DEF PerimeterInit, NoRedirectLoop
<1> QED  BY <1>1, <1>2, <1>3, <1>4 DEF PerimeterInv

LEMMA PerimeterInvNext == PerimeterInv /\ [PerimeterNext]_perimeterVars => PerimeterInv'
<1> SUFFICES ASSUME PerimeterInv, [PerimeterNext]_perimeterVars PROVE PerimeterInv'
    OBVIOUS
<1>1. IInv /\ PerimeterTyped /\ Traced /\ NoRedirectLoop
      BY DEF PerimeterInv
<1>2. IInv'
      BY <1>1, LimiterStep, IInvNext
<1>3. PerimeterTyped'
      BY <1>1, LimiterStep, ChargedTyped, HopsNext DEF PerimeterTyped, proxySetUp
<1>4. Traced'
      BY <1>1, TracedNext
<1>5. NoRedirectLoop'
      BY <1>1, HopsNext
<1> QED  BY <1>2, <1>3, <1>4, <1>5 DEF PerimeterInv

LEMMA PerimeterInvariant == PerimeterSpec => []PerimeterInv
  BY PerimeterInvInit, PerimeterInvNext, PTL DEF PerimeterSpec

\* Behind a proxy that drops what its clients send of its headers, whether or
\* not it sends them itself, and however a client dresses its requests up,
\* fewer than twice Limit of them reach a handler within any span of one window
\* (server.go:525-532, 704-712, 757-763; limiter.go:37-65).
THEOREM AllowanceHeld == PerimeterSpec => []AllowancePerClient
<1>1. ASSUME PerimeterInv PROVE AllowancePerClient
  <2>1. /\ charged \in [Action \X Client -> Seq(Nat)] /\ admitted \in [Key -> Seq(Nat)]
        /\ Traced /\ SlidingBound /\ Sorted
        BY <1>1 DEF PerimeterInv, PerimeterTyped, IInv, TypeOK
  <2> SUFFICES ASSUME NEW a \in Action, NEW c \in Client, NEW i \in 1..Len(charged[<<a, c>>]),
                      i + 2 * Limit - 1 <= Len(charged[<<a, c>>]), ~proxyKeeps
               PROVE  charged[<<a, c>>][i + 2 * Limit - 1] - charged[<<a, c>>][i] >= Window
      BY <2>1 DEF AllowancePerClient
  <2>2. PICK k \in Key : k = <<a, ChargedAs(c)>>
    <3>1. <<a, ChargedAs(c)>> \in Key
          BY DEF ChargedAs, Address
    <3> QED  BY <3>1, Zenon
  <2>3. PICK s \in Seq(Nat), t \in Seq(Nat) : s = charged[<<a, c>>] /\ t = admitted[k]
    <3>1. charged[<<a, c>>] \in Seq(Nat) /\ admitted[k] \in Seq(Nat)
          BY <2>1
    <3> QED  BY <3>1
  <2>t. /\ Len(s) \in Nat /\ Len(t) \in Nat
        /\ \A x \in 1..Len(t) : t[x] \in Nat
        OBVIOUS
  <2>4. PICK e : Embeds(e, s, t)
        BY <2>1, <2>2, <2>3 DEF Traced
  <2>5. PICK j \in 1..Len(s) : j = i + 2 * Limit - 1 /\ i \in 1..Len(s) /\ i <= j
        BY <2>3
  <2>6. PICK p \in 1..Len(t), q \in 1..Len(t) :
           p = e[i] /\ q = e[j] /\ s[i] = t[p] /\ s[j] = t[q] /\ q - p >= j - i
    <3>1. /\ e \in [1..Len(s) -> 1..Len(t)]
          /\ s[i] = t[e[i]] /\ s[j] = t[e[j]] /\ e[j] - e[i] >= j - i
          BY <2>4, <2>5 DEF Embeds
    <3> QED  BY <2>5, <3>1
  <2>7. PICK m \in 1..Len(t) : m = p + 2 * Limit - 1 /\ m <= q
    <3>1. p + 2 * Limit - 1 \in 1..Len(t) /\ p + 2 * Limit - 1 <= q
      <4> HIDE DEF Embeds
      <4>1. p \in 1..Len(t) /\ q \in 1..Len(t) /\ q - p >= j - i /\ j = i + 2 * Limit - 1
            /\ Limit \in Nat \ {0} /\ i \in Nat /\ j \in Nat
            BY <2>5, <2>6 DEF LimiterAssumption
      <4> QED  BY <2>t, <4>1
    <3> QED  BY <3>1, Zenon
  <2>8. t[m] - t[p] >= Window
    <3>1. p + 2 * Limit - 1 <= Len(t)
          BY <2>t, <2>7
    <3> QED  BY <2>1, <2>3, <2>7, <3>1 DEF SlidingBound
  <2>9. t[m] <= t[q]
        BY <2>1, <2>3, <2>7 DEF Sorted
  <2>10. PICK x \in Nat, y \in Nat, z \in Nat : x = t[p] /\ y = t[m] /\ z = t[q]
        BY <2>t
  <2>11. t[q] - t[p] >= Window
    <3>1. y - x >= Window /\ y <= z
          BY <2>8, <2>9, <2>10, Zenon
    <3>2. z - x >= Window
          BY <3>1 DEF LimiterAssumption
    <3> QED  BY <2>10, <3>2, Zenon
  <2> QED  BY <2>3, <2>5, <2>6, <2>11, Zenon
<1> QED  BY <1>1, PerimeterInvariant, PTL

\* A browser behind a proxy that tells the scheme, in its own words only, is
\* redirected to https once and not again (server.go:159-168, 229-250).
THEOREM RedirectsEnd == PerimeterSpec => []NoRedirectLoop
  BY PerimeterInvariant, PTL DEF PerimeterInv

\* A client whose address reaches the gateway, the proxy passing nothing on
\* from its clients, is refused for its own requests only, whatever others do behind the same proxy or with forged headers
\* (server.go:525-532, 704-712).
THEOREM DenialsAreOwn == PerimeterSpec => DenialIsOwn
<1>1. ASSUME PerimeterInv, [PerimeterNext]_perimeterVars, NEW c \in Client, NEW a \in Action,
             NamedByAddress(c), clock' = clock, refused' = <<a, c>>
      PROVE  \/ UNCHANGED perimeterVars
             \/ /\ Len(charged[<<a, c>>]) >= Limit
                /\ clock - charged[<<a, c>>][Len(charged[<<a, c>>]) - Limit + 1] < Window
  <2> USE <1>1
  <2>1. IInv /\ PerimeterTyped /\ Traced
        BY DEF PerimeterInv
  <2>2. ~PerimeterTick
        BY <2>1, Typed DEF PerimeterTick, Tick, IInv
  <2>3. ASSUME NEW d \in Client, Serve(d)
        PROVE  /\ Len(charged[<<a, c>>]) >= Limit
               /\ clock - charged[<<a, c>>][Len(charged[<<a, c>>]) - Limit + 1] < Window
    <3>1. PICK scheme \in Scheme(d) : \E r \in Arriving(d, scheme) :
             Redirect(d, r) \/ RefuseOrigin(d, r) \/ PassUncharged(d, r) \/ RefuseRate(d, r) \/ Charge(d, r)
          BY <2>3 DEF Serve
    <3>2. PICK r \in Arriving(d, scheme) :
             Redirect(d, r) \/ RefuseOrigin(d, r) \/ PassUncharged(d, r) \/ RefuseRate(d, r) \/ Charge(d, r)
          BY <3>1
    <3>3. RefuseRate(d, r)
          BY <3>2 DEF Redirect, RefuseOrigin, PassUncharged, Charge
    <3>4. r.route = a /\ d = c /\ r.route \in Action
          BY <3>3 DEF RefuseRate
    <3>5. ChargeKey(r) = <<a, c>> /\ ChargeKey(r) \in Key
          BY <2>1, <3>4, KeyOfClient DEF ChargedAs, NamedByAddress
    <3>6. Denied(<<a, c>>)
      <4>1. Allow(<<a, c>>) /\ reply' = <<<<a, c>>, FALSE>>
            BY <3>3, <3>5 DEF RefuseRate
      <4>2. ~Admitted(<<a, c>>)
            BY <4>1 DEF Admitted
      <4> QED  BY <4>1, <4>2 DEF Allow
    <3>7. /\ Len(admitted[<<a, c>>]) >= Limit
          /\ clock - admitted[<<a, c>>][Len(admitted[<<a, c>>]) - Limit + 1] < Window
          BY <2>1, <3>5, <3>6, DeniedIsFull
    <3>8. charged[<<a, c>>] = admitted[<<a, c>>]
          BY <2>1 DEF Traced, NamedByAddress
    <3> QED  BY <3>7, <3>8
  <2> QED  BY <2>2, <2>3 DEF PerimeterNext
<1>2. PerimeterInv /\ [PerimeterNext]_perimeterVars =>
        [\A c \in Client, a \in Action :
            NamedByAddress(c) /\ clock' = clock /\ refused' = <<a, c>> =>
                LET times == charged[a, c] IN
                Len(times) >= Limit /\ clock - times[Len(times) - Limit + 1] < Window]_perimeterVars
      BY <1>1
<1> QED  BY <1>2, PerimeterInvariant, PTL DEF PerimeterSpec, DenialIsOwn

---------------------------------------------------------------------------
(* The composition.                                                        *)

\* Whatever arrives at the perimeter, its limiter is used as it may be used:
\* every behaviour of the whole is one of the limiter (server.go:525-532).
THEOREM PerimeterUsesLimiter == PerimeterSpec => Spec
<1>1. PerimeterInit => Init
      BY DEF PerimeterInit
<1>2. PerimeterInv /\ [PerimeterNext]_perimeterVars => [Next]_vars
      BY LimiterStep DEF PerimeterInv
<1> QED  BY <1>1, <1>2, PerimeterInvariant, PTL DEF PerimeterSpec, Spec

\* The promises of the limiter hold behind the perimeter as well: for every
\* action and address it charges, forged or not, the sliding bound, justified
\* denials, keys that do not interfere and a bounded map (limiter.go:37-65,
\* server.go:525-532, 704-712).
THEOREM LimiterHoldsBehindPerimeter ==
  PerimeterSpec => []SlidingBound /\ []BucketBound /\ DenialsJustified /\ KeysIsolated
  BY PerimeterUsesLimiter, AdmissionsBounded, BucketsBounded, NoUnjustDenial, KeysDoNotInterfere, PTL
============================================================================
