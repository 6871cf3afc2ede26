------------------------- MODULE AbstractCeremonies -------------------------
(***************************************************************************)
(* What the pending-ceremony maps promise: a challenge is open from the    *)
(* moment its options are answered until it is redeemed or its time is up, *)
(* it is redeemed at most once, and its identifier is never used again.    *)
(* A restart forgets every open challenge.                                 *)
(***************************************************************************)
EXTENDS Naturals, GoMaps

CONSTANTS
    CeremonyId,  \* identifiers of challenges
    TTL          \* how long a challenge stays open

VARIABLES
    clock,     \* wall clock
    open,      \* open challenges -> their deadlines
    used,      \* identifiers ever handed out
    redeemed   \* challenges that were answered in time

vars == <<clock, open, used, redeemed>>

Init ==
    /\ clock = 1
    /\ open = EmptyMap
    /\ used = {}
    /\ redeemed = {}

\* Time closes challenges by itself.
Tick ==
    /\ clock' = clock + 1
    /\ open' = Drop(open, {id \in DOMAIN open : clock' >= open[id]})
    /\ UNCHANGED <<used, redeemed>>

Begin(id) ==
    /\ id \notin used
    /\ used' = used \cup {id}
    /\ open' = Put(open, id, clock + TTL)
    /\ UNCHANGED <<clock, redeemed>>

Redeem(id) ==
    /\ id \in DOMAIN open
    /\ open' = Drop(open, {id})
    /\ redeemed' = redeemed \cup {id}
    /\ UNCHANGED <<clock, used>>

Restart ==
    /\ open' = EmptyMap
    /\ UNCHANGED <<clock, used, redeemed>>

Next == Tick \/ Restart \/ \E id \in CeremonyId : Begin(id) \/ Redeem(id)

Spec == Init /\ [][Next]_vars
===========================================================================
