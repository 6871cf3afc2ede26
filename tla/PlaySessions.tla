--------------------------- MODULE PlaySessions ---------------------------
(***************************************************************************)
(* The session store together with the play sockets that use it: playWS    *)
(* gets the session, opens the Java game stream, and from then on a ticker *)
(* makes the keepalive ping the browser and touch the session             *)
(* (internal/httpapi/server.go), while other requests create sessions and  *)
(* sweep the store with clock readings of their own.                       *)
(*                                                                         *)
(* Each wait of a socket has a deadline: the Java timeout, the ticker's    *)
(* period, the ping timeout.  PlayProxy has the goroutines and frames of   *)
(* one socket; this module has several sockets and the time they take.     *)
(***************************************************************************)
EXTENDS SessionStore

CONSTANTS
    Socket,        \* play WebSockets
    JavaTimeout,   \* longest BeginSession, the upgrade included
    PingInterval,  \* browserWebSocketPingInterval
    PingTimeout,   \* browserWebSocketPingTimeout
    MaxLag         \* longest delay of a goroutine that is ready to run

\* What a socket needs between two accesses to its session.
TouchPeriod == JavaTimeout + PingInterval + PingTimeout + 2 * MaxLag

\* A ping is over before the next tick, and the idle lifetime leaves time for
\* a whole round: 30 minutes against some 45 seconds unless configured shorter.
ASSUME PlaySessionsAssumption ==
    /\ JavaTimeout \in Nat /\ PingInterval \in Nat
    /\ PingTimeout \in Nat /\ MaxLag \in Nat
    /\ PingTimeout + 2 * MaxLag <= PingInterval
    /\ TouchPeriod <= IdleTTL

VARIABLE
    sockets   \* socket -> its session, where it is, its next tick, its latest next step

allVars == <<vars, sockets>>

SocketInit == Init /\ sockets = EmptyMap

\* Time passes; every socket takes its next step by its deadline.
Advance ==
    /\ Tick
    /\ \A k \in DOMAIN sockets : clock < sockets[k].deadline
    /\ UNCHANGED sockets

\* A socket of session id: where it is, its next tick, its latest next step.
At(id, expires, phase, tick, deadline) ==
    [id |-> id, expires |-> expires, phase |-> phase, tick |-> tick, deadline |-> deadline]

\* Socket k moves on within its session.
Move(k, phase, tick, deadline) ==
    sockets' = Put(sockets, k, At(sockets[k].id, sockets[k].expires, phase, tick, deadline))

\* playWS up to BeginSession: the session must be live, and is touched.
PlayWS(k, id) ==
    /\ k \notin DOMAIN sockets
    /\ Get(id)
    /\ sockets' = IF Live(id)
                  THEN Put(sockets, k,
                          At(id, records[id].expires, "opening", 0, clock + JavaTimeout))
                  ELSE sockets

\* Java accepted and the browser was upgraded; the ticker starts.  The
\* session may have ended meanwhile: nobody looks before the first tick.
Opened(k) ==
    /\ k \in DOMAIN sockets /\ sockets[k].phase = "opening"
    /\ Move(k, "open", clock + PingInterval, clock + PingInterval + MaxLag)
    /\ UNCHANGED vars

\* The ticker fires and a ping goes out.
Ping(k) ==
    /\ k \in DOMAIN sockets /\ sockets[k].phase = "open" /\ clock >= sockets[k].tick
    /\ Move(k, "pinging", sockets[k].tick + PingInterval, clock + PingTimeout + MaxLag)
    /\ UNCHANGED vars

\* Mutant: an ended session does not end its socket.
Pong_Deaf(k) ==
    /\ k \in DOMAIN sockets /\ sockets[k].phase = "pinging"
    /\ Touch(sockets[k].id)
    /\ Move(k, "open", sockets[k].tick, sockets[k].tick + MaxLag)

\* Mutant: the keepalive pings but leaves the session alone.
Pong_PingOnly(k) ==
    /\ k \in DOMAIN sockets /\ sockets[k].phase = "pinging"
    /\ IF Live(sockets[k].id)
       THEN Move(k, "open", sockets[k].tick, sockets[k].tick + MaxLag)
       ELSE sockets' = Drop(sockets, {k})
    /\ UNCHANGED vars

\* The pong arrives and the session is touched: a refusal closes the socket
\* as expired.
Pong(k) ==
    /\ k \in DOMAIN sockets /\ sockets[k].phase = "pinging"
    /\ Touch(sockets[k].id)
    /\ IF Live(sockets[k].id)
       THEN Move(k, "open", sockets[k].tick, sockets[k].tick + MaxLag)
       ELSE sockets' = Drop(sockets, {k})

\* A refusal by Java, a failed ping, either side leaving: the socket is gone
\* and the session stays.
Close(k) ==
    /\ k \in DOMAIN sockets
    /\ sockets' = Drop(sockets, {k})
    /\ UNCHANGED vars

\* Login and signup handlers; no handler calls Delete.
Requests ==
    /\ \/ \E t \in Thread, id \in SessionId, a \in Account : CreateStamp(t, id, a)
       \/ \E t \in Thread : CreateStore(t)
    /\ UNCHANGED sockets

SocketNext ==
    \/ Advance
    \/ Requests
    \/ \E k \in Socket, id \in Known : PlayWS(k, id)
    \/ \E k \in Socket : Opened(k) \/ Ping(k) \/ Pong(k) \/ Close(k)

SocketSpec == SocketInit /\ [][SocketNext]_allVars

---------------------------------------------------------------------------
(* Properties                                                              *)

SocketRecord == [id : SessionId, expires : Nat, phase : {"opening", "open", "pinging"},
                 tick : Nat, deadline : Nat]

\* The store is well-typed and every socket has its session, its phase and
\* its two times (server.go:427-482, 668-687).
SocketTypeOK == TypeOK /\ IsMap(sockets, Socket, SocketRecord)

\* While a socket is open its session is alive in the store, so every other
\* tab of that browser can still play: neither the idle lifetime nor a sweep
\* with an old clock reading ends a session in use before its absolute
\* deadline (server.go:668-687, store.go:81-116).
KeptAlive ==
    \A k \in DOMAIN sockets : clock < sockets[k].expires => Live(sockets[k].id)

\* No socket outlives the absolute deadline of its session by more than one
\* round of the keepalive, however often it was touched, and even when the
\* session ended while Java was being asked (server.go:436-446, 679-684).
NoOverstay ==
    \A k \in DOMAIN sockets : clock < sockets[k].expires + TouchPeriod
===========================================================================
