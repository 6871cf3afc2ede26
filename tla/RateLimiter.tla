---------------------------- MODULE RateLimiter ----------------------------
(***************************************************************************)
(* internal/ratelimit/limiter.go: a fixed-window limiter with one bucket   *)
(* per key.  httpapi's requireRateLimit (server.go:525-532) calls Allow    *)
(* with the key "action:client IP" before any other work of an /auth       *)
(* request.  Allow runs under one mutex and reads the clock inside it, so  *)
(* a call is one action.                                                   *)
(***************************************************************************)
EXTENDS Integers, Sequences, GoMaps

CONSTANTS
    Key,      \* action:IP keys
    Limit,    \* Limiter.limit
    Window,   \* Limiter.window
    MaxTime   \* bound on the clock

ASSUME LimiterAssumption ==
    /\ Limit \in Nat \ {0}
    /\ Window \in Nat \ {0}
    /\ MaxTime \in Nat

VARIABLES
    clock,      \* what l.now() returns
    buckets,    \* Limiter.buckets
    nextPrune,  \* Limiter.nextPrune; 0 is the zero time
    admitted,   \* history: key -> the instants of its admitted calls
    reply       \* the latest call and what it returned

vars == <<clock, buckets, nextPrune, admitted, reply>>

Bucket == [start : Nat, used : 1..Limit]

Init ==
    /\ clock = 1
    /\ buckets = EmptyMap
    /\ nextPrune = 0
    /\ admitted = [k \in Key |-> <<>>]
    /\ reply = <<>>

Tick ==
    /\ clock < MaxTime
    /\ clock' = clock + 1
    /\ UNCHANGED <<buckets, nextPrune, admitted, reply>>

\* An empty map is not swept, nor is any map before nextPrune.
PruneDue == DOMAIN buckets # {} /\ (nextPrune = 0 \/ clock >= nextPrune)

\* Mutant: the sweep keeps only the buckets of this very instant.
pruneExpired_All == IF PruneDue THEN EmptyMap ELSE buckets

\* Mutant: a bucket is kept for a window after its window is over.
pruneExpired_Late ==
    IF PruneDue THEN Drop(buckets, {k \in DOMAIN buckets : clock - buckets[k].start > 2 * Window})
                ELSE buckets

\* The map pruneExpiredLocked leaves behind.
pruneExpired ==
    IF PruneDue THEN Drop(buckets, {k \in DOMAIN buckets : clock - buckets[k].start >= Window})
                ELSE buckets

InWindow(bs, key) == key \in DOMAIN bs /\ clock - bs[key].start < Window

Full(b) == b.used >= Limit

\* Mutant: every admitted call restarts the window.
Admit_Restart(bs, key) ==
    Put(bs, key, [start |-> clock, used |-> IF InWindow(bs, key) THEN bs[key].used + 1 ELSE 1])

\* The bucket an admitted call leaves: a fresh window, or one more used.
Admit(bs, key) ==
    Put(bs, key, IF InWindow(bs, key) THEN [bs[key] EXCEPT !.used = @ + 1]
                                      ELSE [start |-> clock, used |-> 1])

\* Allow, when the key's window has room.
Admitted(key) ==
    /\ ~(InWindow(pruneExpired, key) /\ Full(pruneExpired[key]))
    /\ buckets' = Admit(pruneExpired, key)
    /\ admitted' = [admitted EXCEPT ![key] = Append(@, clock)]
    /\ reply' = <<key, TRUE>>

\* Allow, when it has not.
Denied(key) ==
    /\ InWindow(pruneExpired, key) /\ Full(pruneExpired[key])
    /\ buckets' = pruneExpired
    /\ reply' = <<key, FALSE>>
    /\ UNCHANGED admitted

Allow(key) ==
    /\ Admitted(key) \/ Denied(key)
    /\ nextPrune' = IF PruneDue THEN clock + Window ELSE nextPrune
    /\ UNCHANGED clock

Next == Tick \/ \E key \in Key : Allow(key)

Spec == Init /\ [][Next]_vars

---------------------------------------------------------------------------
(* Properties                                                              *)

\* Every variable has its type; a bucket never counts beyond the limit
\* (limiter.go:8-20).
TypeOK ==
    /\ clock \in Nat \ {0}
    /\ IsMap(buckets, Key, Bucket)
    /\ nextPrune \in Nat
    /\ admitted \in [Key -> Seq(Nat)]
    /\ reply \in {<<>>} \cup (Key \X BOOLEAN)

\* Two adjacent fixed windows admit fewer than twice the limit within any
\* span of one window: 2 * Limit consecutive admissions of a key are at least
\* a window apart, whatever is pruned in between (limiter.go:37-65).
SlidingBound ==
    \A k \in Key : \A i \in 1..Len(admitted[k]) :
        i + 2 * Limit - 1 <= Len(admitted[k]) =>
            admitted[k][i + 2 * Limit - 1] - admitted[k][i] >= Window

\* A call is denied only if Limit calls of the same key were admitted within
\* the last window (limiter.go:47-49).
DenialsJustified ==
    [][\A k \in Key :
          clock' = clock /\ reply' = <<k, FALSE>> =>
              /\ Len(admitted[k]) >= Limit
              /\ clock - admitted[k][Len(admitted[k]) - Limit + 1] < Window]_vars

WouldAllow(k) == ~(InWindow(buckets, k) /\ Full(buckets[k]))

\* A call for one key never costs another key an admission, nor gives it one,
\* although any call may sweep every bucket (limiter.go:41, 55-65).
KeysIsolated ==
    [][\A j, k \in Key :
          j # k /\ Allow(j) => WouldAllow(k)' = WouldAllow(k)]_vars

\* What the map may retain: every bucket was inside its window at the latest
\* sweep (limiter.go:55-65).
BucketBound ==
    nextPrune # 0 => \A k \in DOMAIN buckets : buckets[k].start + 2 * Window > nextPrune
===========================================================================
