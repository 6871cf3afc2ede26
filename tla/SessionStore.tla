--------------------------- MODULE SessionStore ---------------------------
(***************************************************************************)
(* internal/session/store.go: the server-side session store.               *)
(*                                                                         *)
(* Every method body runs under one mutex and is one action, except that   *)
(* Create reads the clock before it takes the mutex: another goroutine may *)
(* create, touch or prune between the two, and the record it then stores   *)
(* (and the pruning it then does) is dated in the past.                    *)
(***************************************************************************)
EXTENDS Naturals, GoMaps

CONSTANTS
    SessionId,  \* the identifiers randomID can return
    Account,    \* accounts sessions are created for
    Thread,     \* goroutines that may be inside Create at once
    TTL,        \* Store.ttl
    IdleTTL,    \* Store.idleTTL
    MaxStall,   \* longest wait for the mutex inside Create
    MaxTime,    \* bound on the clock
    Nobody      \* not an account: the reply of a call that found nothing

ASSUME StoreAssumption ==
    /\ TTL \in Nat \ {0}
    /\ IdleTTL \in Nat \ {0}
    /\ MaxStall \in Nat
    /\ MaxTime \in Nat
    /\ Nobody \notin Account

VARIABLES
    clock,      \* what s.now() returns
    records,    \* Store.records
    nextPrune,  \* Store.nextPrune; 0 is the zero time
    creating,   \* goroutine -> the record it built and has not stored yet
    issued,     \* the identifiers randomID has returned so far
    reply       \* what the latest call returned

vars == <<clock, records, nextPrune, creating, issued, reply>>

Record == [account : Account, created : Nat, seen : Nat, expires : Nat]

MinTTL == IF TTL < IdleTTL THEN TTL ELSE IdleTTL

\* Mutant: the absolute deadline itself still counts as alive.
expired_Late(record, now) == now > record.expires \/ now > record.seen + IdleTTL

expired(record, now) == now >= record.expires \/ now > record.seen + IdleTTL

Answer(op, id, account) == [op |-> op, id |-> id, account |-> account]

Init ==
    /\ clock = 1
    /\ records = EmptyMap
    /\ nextPrune = 0
    /\ creating = EmptyMap
    /\ issued = {}
    /\ reply = Answer("none", Nobody, Nobody)

\* Time passes; no goroutine waits for the mutex for more than MaxStall.
Tick ==
    /\ clock < MaxTime
    /\ \A t \in DOMAIN creating : clock < creating[t].record.created + MaxStall
    /\ clock' = clock + 1
    /\ UNCHANGED <<records, nextPrune, creating, issued, reply>>

\* Create, before the mutex: a random identifier and a dated record.
CreateStamp(t, id, account) ==
    /\ t \notin DOMAIN creating
    /\ id \notin issued
    /\ issued' = issued \cup {id}
    /\ creating' = Put(creating, t,
          [id |-> id,
           record |-> [account |-> account, created |-> clock, seen |-> clock,
                       expires |-> clock + TTL]])
    /\ UNCHANGED <<clock, records, nextPrune, reply>>

\* pruneExpiredLocked skips an empty store, and a sweep before its time.
PruneDue(now) == DOMAIN records # {} /\ (nextPrune = 0 \/ now >= nextPrune)

\* Mutant: the sweep measures idleness from the creation.
Stale_SinceCreated(now) ==
    {id \in DOMAIN records : expired([records[id] EXCEPT !.seen = records[id].created], now)}

\* Mutant: the sweep looks at the absolute deadline only.
Stale_AbsoluteOnly(now) == {id \in DOMAIN records : now >= records[id].expires}

Stale(now) == {id \in DOMAIN records : expired(records[id], now)}

\* Create, under the mutex: prune as of the record's date, then store it.
CreateStore(t) ==
    /\ t \in DOMAIN creating
    /\ LET id     == creating[t].id
           record == creating[t].record
           now    == record.created
       IN  /\ records' = Put(IF PruneDue(now) THEN Drop(records, Stale(now)) ELSE records,
                             id, record)
           /\ nextPrune' = IF PruneDue(now) THEN now + MinTTL ELSE nextPrune
           /\ reply' = Answer("create", id, record.account)
    /\ creating' = Drop(creating, {t})
    /\ UNCHANGED <<clock, issued>>

\* Mutant: an absent record is not told from one with zero fields.
touchLocked_NoGuard(op, id) ==
    /\ IF id \in DOMAIN records /\ expired(records[id], clock)
       THEN /\ records' = Drop(records, {id})
            /\ reply' = Answer(op, id, Nobody)
       ELSE /\ records' = Put(records, id,
                  IF id \in DOMAIN records
                  THEN [records[id] EXCEPT !.seen = clock]
                  ELSE [account |-> Nobody, created |-> 0, seen |-> clock, expires |-> 0])
            /\ reply' = Answer(op, id, Nobody)
    /\ UNCHANGED <<clock, nextPrune, creating, issued>>

\* touchLocked: refresh a live record, delete a stale one on the way out.
touchLocked(op, id) ==
    /\ IF id \in DOMAIN records /\ ~expired(records[id], clock)
       THEN /\ records' = [records EXCEPT ![id].seen = clock]
            /\ reply' = Answer(op, id, records[id].account)
       ELSE /\ records' = Drop(records, {id})
            /\ reply' = Answer(op, id, Nobody)
    /\ UNCHANGED <<clock, nextPrune, creating, issued>>

Get(id) == touchLocked("get", id)

Touch(id) == touchLocked("touch", id)

Delete(id) ==
    /\ records' = Drop(records, {id})
    /\ reply' = Answer("delete", id, Nobody)
    /\ UNCHANGED <<clock, nextPrune, creating, issued>>

\* A caller can only name an identifier a Create has returned to it: the
\* cookie of some browser, or the session of an open WebSocket.
Known == issued \ {creating[t].id : t \in DOMAIN creating}

Next ==
    \/ Tick
    \/ \E t \in Thread, id \in SessionId, a \in Account : CreateStamp(t, id, a)
    \/ \E t \in Thread : CreateStore(t)
    \/ \E id \in Known : Get(id) \/ Touch(id) \/ Delete(id)

Spec == Init /\ [][Next]_vars

---------------------------------------------------------------------------
(* Properties                                                              *)

\* Every variable has its type: maps hold well-formed records under issued
\* identifiers (store.go:13-30).
TypeOK ==
    /\ clock \in Nat \ {0}
    /\ IsMap(records, SessionId, Record)
    /\ nextPrune \in Nat
    /\ IsMap(creating, Thread, [id : SessionId, record : Record])
    /\ issued \in SUBSET SessionId
    /\ DOMAIN reply = {"op", "id", "account"}

Live(id) == id \in DOMAIN records /\ ~expired(records[id], clock)

\* The sessions of the abstract store: the records that have not expired,
\* whether or not the code has got round to deleting the others.
LiveSessions ==
    [id \in {i \in DOMAIN records : Live(i)} |->
        [account |-> records[id].account, created |-> records[id].created,
         seen |-> records[id].seen]]

Abstract == INSTANCE AbstractSessions WITH live <- LiveSessions, used <- Known

\* Lazy pruning, deletion on access and the early clock read of Create are
\* invisible: the store behaves like one whose sessions end by themselves at
\* their deadlines (store.go:47-116).
ImplementsAbstractSessions == Abstract!Spec

\* A live session ends only because time passed or because it was deleted:
\* no Create, however late its clock reading, prunes a live session
\* (store.go:52-64, 102-112).
OnlyTimeOrDeleteEnds ==
    [][\A id \in SessionId :
          Live(id) /\ ~Live(id)' => clock' > clock \/ reply' = Answer("delete", id, Nobody)]_vars

Ended(id) == id \in Known /\ ~Live(id)

\* A session that has ended never comes back, whatever late Create, touch or
\* prune follows (store.go:81-94).
EndedForGood == [][\A id \in SessionId : Ended(id) => Ended(id)']_vars

\* Sweeps are scheduled forwards only: a Create that read the clock before
\* another goroutine's sweep cannot pull the next sweep back (store.go:111).
SweepsMoveForward == [][nextPrune' >= nextPrune]_vars

\* What the map may retain: no record was already expired at the latest
\* sweep, provided no Create waits for the mutex as long as the shorter of
\* the two lifetimes (store.go:102-112).
GarbageBound ==
    nextPrune # 0 => \A id \in DOMAIN records : ~expired(records[id], nextPrune - MinTTL)
===========================================================================
