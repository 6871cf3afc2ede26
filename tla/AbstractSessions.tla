------------------------- MODULE AbstractSessions -------------------------
(***************************************************************************)
(* What the session store promises its callers, with no map, no lock, no   *)
(* pruning and no deletion of stale records: a session exists from the     *)
(* moment Create returns it, ends at the instant one of its two deadlines  *)
(* passes (or when it is deleted), and never comes back.  A lookup finds   *)
(* exactly the sessions that have not ended.                               *)
(***************************************************************************)
EXTENDS Naturals, GoMaps

CONSTANTS
    SessionId,  \* opaque identifiers handed out as cookies
    Account,    \* accounts a session can belong to
    TTL,        \* absolute lifetime
    IdleTTL,    \* longest silence a session survives
    Nobody      \* the account of a reply that found no session

VARIABLES
    clock,      \* wall clock
    live,       \* the sessions that have not ended
    used,       \* identifiers ever handed out
    reply       \* what the latest call returned

vars == <<clock, live, used, reply>>

\* A session is over at its absolute deadline, or once idle for longer than
\* IdleTTL.
Over(s, now) == now >= s.created + TTL \/ now > s.seen + IdleTTL

\* The sessions of m that are not over at time now.
StillOn(m, now) == Drop(m, {id \in DOMAIN m : Over(m[id], now)})

Answer(op, id, account) == [op |-> op, id |-> id, account |-> account]

Init ==
    /\ clock = 1
    /\ live = EmptyMap
    /\ used = {}
    /\ reply = Answer("none", Nobody, Nobody)

\* Time ends sessions by itself.
Tick ==
    /\ clock' = clock + 1
    /\ live' = StillOn(live, clock')
    /\ UNCHANGED <<used, reply>>

\* A session dated at some instant that has already come, never one that was.
Create(id, account) ==
    /\ id \notin used
    /\ used' = used \cup {id}
    /\ \E at \in 1..clock :
          live' = StillOn(Put(live, id, [account |-> account, created |-> at, seen |-> at]),
                          clock)
    /\ reply' = Answer("create", id, account)
    /\ UNCHANGED clock

\* A lookup finds a live session, and counts as activity.
Find(op, id) ==
    /\ IF id \in DOMAIN live
       THEN /\ live' = [live EXCEPT ![id].seen = clock]
            /\ reply' = Answer(op, id, live[id].account)
       ELSE /\ UNCHANGED live
            /\ reply' = Answer(op, id, Nobody)
    /\ UNCHANGED <<clock, used>>

Delete(id) ==
    /\ live' = Drop(live, {id})
    /\ reply' = Answer("delete", id, Nobody)
    /\ UNCHANGED <<clock, used>>

Next ==
    \/ Tick
    \/ \E id \in SessionId :
          \/ \E account \in Account : Create(id, account)
          \/ \E op \in {"get", "touch"} : Find(op, id)
          \/ Delete(id)

Spec == Init /\ [][Next]_vars
===========================================================================
