----------------------------- MODULE PlayProxy -----------------------------
(***************************************************************************)
(* internal/httpapi/server.go: one /play/ws connection, from the session   *)
(* check to the last goroutine.  playWS opens a Java game stream, accepts  *)
(* the WebSocket and starts three goroutines: browser to Java, Java to     *)
(* browser, keepalive.  The first of them to fail reports on a channel and *)
(* cancels the context they share; playWS picks the close code from the    *)
(* first report and closes both connections on its way out.                *)
(*                                                                         *)
(* The WebSocket library, the browser and Java are external.  A context    *)
(* that is cancelled during a WebSocket read or write breaks the           *)
(* connection; nothing but closing it interrupts a read or a write on the  *)
(* Java connection; a pong is seen only while somebody reads the socket.   *)
(***************************************************************************)
EXTENDS Naturals, Sequences

CONSTANTS
    MaxFrames   \* bound on the frames browser and Java send together

ASSUME PlayAssumption == MaxFrames \in Nat

VARIABLES
    main,         \* playWS itself
    pc,           \* goroutine -> where it is
    failure,      \* goroutine -> the error it is about to report
    errc,         \* the buffered channel of reports
    cancelled,    \* the shared context
    ws,           \* the WebSocket, as the gateway sees it
    java,         \* the Java connection, as the gateway sees it
    sessionLive,  \* the session store still knows the session
    closeCode,    \* the close frame the browser was sent
    browser,      \* the browser: connected, left with close code 1000 or with
                  \* another one, vanished
    javaEnded,    \* Java has closed its side
    browserSent, javaGot,    \* frames browser to Java: sent, written through
    javaSent, browserGot,    \* frames Java to browser
    seen          \* goroutine -> how many frames it has read

frames == <<browserSent, javaGot, javaSent, browserGot, seen>>
peers == <<sessionLive, browser, javaEnded>>
vars == <<main, pc, failure, errc, cancelled, ws, java, peers, closeCode, frames>>

b2j == "browserToJava"
j2b == "javaToBrowser"
keepAlive == "keepAlive"
Goroutine == {b2j, j2b, keepAlive}

\* What the goroutines can return: a close frame with code 1000, a cancelled
\* context, an ended session, a failed ping, or any other error.
Failure == {"none", "normal", "cancelled", "expired", "heartbeat", "violation"}

\* Frames: game JSON; client_debug JSON, which stays in the gateway; and
\* anything malformed, oversized or binary.
Kind == {"game", "debug", "bad"}

\* A frame is told from the others by its number.
Frame == [n : Nat \ {0}, kind : Kind]

\* Mutant: the channel holds a single report.
ErrcCapacity_One == 1

ErrcCapacity == 3

Init ==
    /\ main = "check"
    /\ pc = [g \in Goroutine |-> "off"]
    /\ failure = [g \in Goroutine |-> "none"]
    /\ errc = <<>>
    /\ cancelled = FALSE
    /\ ws = "none" /\ java = "none"
    /\ sessionLive \in BOOLEAN
    /\ closeCode = "none"
    /\ browser = "here" /\ javaEnded = FALSE
    /\ browserSent = <<>> /\ javaGot = <<>> /\ javaSent = <<>> /\ browserGot = <<>>
    /\ seen = [g \in {b2j, j2b} |-> 0]

---------------------------------------------------------------------------
(* playWS                                                                  *)

\* The cookie must name a live session.
CheckSession ==
    /\ main = "check"
    /\ main' = IF sessionLive THEN "begin" ELSE "returned"
    /\ UNCHANGED <<pc, failure, errc, cancelled, ws, java, peers, closeCode, frames>>

\* Java accepts the game session, or playWS answers 502.
BeginSession ==
    /\ main = "begin"
    /\ \/ main' = "accept" /\ java' = "open"
       \/ main' = "returned" /\ UNCHANGED java
    /\ UNCHANGED <<pc, failure, errc, cancelled, ws, peers, closeCode, frames>>

\* The upgrade succeeds and the goroutines start, or playWS returns, closing
\* the Java connection.
Accept ==
    /\ main = "accept"
    /\ \/ /\ main' = "wait" /\ ws' = "open"
          /\ pc' = [g \in Goroutine |-> "loop"]
          /\ UNCHANGED java
       \/ /\ main' = "returned" /\ java' = "closed"
          /\ UNCHANGED <<pc, ws>>
    /\ UNCHANGED <<failure, errc, cancelled, peers, closeCode, frames>>

CodeFor(report) ==
    CASE report \in {"normal", "cancelled"} -> "normal"
      [] report = "expired" -> "session expired"
      [] report = "heartbeat" -> "heartbeat failed"
      [] OTHER -> "proxy violation"

\* Take the first report and close the WebSocket accordingly; if it is broken
\* already, no close frame goes out.
CloseSocket ==
    /\ main = "wait" /\ errc # <<>>
    /\ errc' = Tail(errc)
    /\ ws' = "closed"
    /\ closeCode' = IF ws = "open" THEN CodeFor(Head(errc)) ELSE closeCode
    /\ main' = "closing"
    /\ UNCHANGED <<pc, failure, cancelled, java, peers, frames>>

\* The deferred calls: cancel, then close both connections.
Return ==
    /\ main = "closing"
    /\ main' = "returned" /\ cancelled' = TRUE /\ java' = "closed"
    /\ UNCHANGED <<pc, failure, errc, ws, peers, closeCode, frames>>

---------------------------------------------------------------------------
(* The goroutines                                                          *)

Fail(g, error) ==
    /\ pc' = [pc EXCEPT ![g] = "report"]
    /\ failure' = [failure EXCEPT ![g] = error]

\* Mutant: cancel first, report afterwards.
Finish_CancelFirst(g) ==
    \/ /\ pc[g] = "report"
       /\ cancelled' = TRUE
       /\ pc' = [pc EXCEPT ![g] = "cancel"]
       /\ UNCHANGED <<main, failure, errc, ws, java, peers, closeCode, frames>>
    \/ /\ pc[g] = "cancel" /\ Len(errc) < ErrcCapacity
       /\ errc' = Append(errc, failure[g])
       /\ failure' = [failure EXCEPT ![g] = "none"]
       /\ pc' = [pc EXCEPT ![g] = "done"]
       /\ UNCHANGED <<main, cancelled, ws, java, peers, closeCode, frames>>

\* A goroutine that has failed: errc <- err, then cancel().
Finish(g) ==
    \/ /\ pc[g] = "report" /\ Len(errc) < ErrcCapacity
       /\ errc' = Append(errc, failure[g])
       /\ failure' = [failure EXCEPT ![g] = "none"]
       /\ pc' = [pc EXCEPT ![g] = "cancel"]
       /\ UNCHANGED <<main, cancelled, ws, java, peers, closeCode, frames>>
    \/ /\ pc[g] = "cancel"
       /\ cancelled' = TRUE
       /\ pc' = [pc EXCEPT ![g] = "done"]
       /\ UNCHANGED <<main, failure, errc, ws, java, peers, closeCode, frames>>

\* A WebSocket read, write or ping fails: the socket is closed, or the
\* context is cancelled, which closes it.
SocketFails(g) ==
    \/ ws = "closed" /\ Fail(g, "violation") /\ UNCHANGED ws
    \/ cancelled /\ Fail(g, "cancelled") /\ ws' = "closed"

\* Mutant: a bad frame is skipped like a local one.
BrowserFrame_BadSkipped(kind) ==
    IF kind = "game" THEN /\ pc' = [pc EXCEPT ![b2j] = "write"] /\ UNCHANGED failure
                     ELSE UNCHANGED <<pc, failure>>

\* What a frame read from the browser leads to.
BrowserFrame(kind) ==
    \/ kind = "game" /\ pc' = [pc EXCEPT ![b2j] = "write"] /\ UNCHANGED failure
    \/ kind = "debug" /\ UNCHANGED <<pc, failure>>
    \/ kind = "bad" /\ Fail(b2j, "violation")

\* proxyBrowserToJava: read a frame, or learn that there will be none; only
\* close code 1000 is told from a failure.
ReadBrowser ==
    /\ pc[b2j] = "loop"
    /\ \/ /\ ws = "open" /\ seen[b2j] < Len(browserSent)
          /\ BrowserFrame(browserSent[seen[b2j] + 1].kind)
          /\ seen' = [seen EXCEPT ![b2j] = @ + 1]
          /\ UNCHANGED ws
       \/ /\ ws = "open" /\ seen[b2j] = Len(browserSent) /\ browser \in {"left", "away"}
          /\ Fail(b2j, IF browser = "left" THEN "normal" ELSE "violation")
          /\ ws' = "closed"
          /\ UNCHANGED seen
       \/ SocketFails(b2j) /\ UNCHANGED seen
    /\ UNCHANGED <<main, errc, cancelled, java, peers, closeCode,
                   browserSent, javaGot, javaSent, browserGot>>

\* Java takes the frame; nothing says that it ever will.
WriteJava ==
    /\ pc[b2j] = "write" /\ java = "open" /\ ~javaEnded
    /\ javaGot' = Append(javaGot, browserSent[seen[b2j]])
    /\ pc' = [pc EXCEPT ![b2j] = "loop"]
    /\ UNCHANGED <<main, failure, errc, cancelled, ws, java, peers, closeCode,
                   browserSent, javaSent, browserGot, seen>>

\* The write ends only when either side closes the Java connection.
WriteJavaFails ==
    /\ pc[b2j] = "write" /\ (java = "closed" \/ javaEnded)
    /\ Fail(b2j, "violation")
    /\ UNCHANGED <<main, errc, cancelled, ws, java, peers, closeCode, frames>>

\* proxyJavaToBrowser: a line, a bad line, the end of the stream, or a
\* connection closed by playWS; the context is not looked at.
ReadJava ==
    /\ pc[j2b] = "loop"
    /\ \/ /\ java = "open" /\ seen[j2b] < Len(javaSent)
          /\ seen' = [seen EXCEPT ![j2b] = @ + 1]
          /\ \/ /\ javaSent[seen[j2b] + 1].kind # "bad"
                /\ pc' = [pc EXCEPT ![j2b] = "write"] /\ UNCHANGED failure
             \/ /\ javaSent[seen[j2b] + 1].kind = "bad"
                /\ Fail(j2b, "violation")
       \/ /\ java = "closed" \/ (javaEnded /\ seen[j2b] = Len(javaSent))
          /\ Fail(j2b, "violation")
          /\ UNCHANGED seen
    /\ UNCHANGED <<main, errc, cancelled, ws, java, peers, closeCode,
                   browserSent, javaGot, javaSent, browserGot>>

\* The line goes out; or the write fails.
WriteBrowser ==
    /\ pc[j2b] = "write"
    /\ \/ /\ ws = "open"
          /\ browserGot' = Append(browserGot, javaSent[seen[j2b]])
          /\ pc' = [pc EXCEPT ![j2b] = "loop"]
          /\ UNCHANGED <<failure, ws>>
       \/ SocketFails(j2b) /\ UNCHANGED browserGot
    /\ UNCHANGED <<main, errc, cancelled, java, peers, closeCode,
                   browserSent, javaGot, javaSent, seen>>

\* keepAliveBrowserWebSocket: a tick, or the end of the context.
Select ==
    /\ pc[keepAlive] = "loop"
    /\ \/ pc' = [pc EXCEPT ![keepAlive] = "ping"] /\ UNCHANGED failure
       \/ cancelled /\ Fail(keepAlive, "cancelled")
    /\ UNCHANGED <<main, errc, cancelled, ws, java, peers, closeCode, frames>>

\* Mutant: the loop does not wait for the pong.
Pong_NotAwaited == pc[keepAlive] = "ping" /\ ws = "open"

\* The pong arrives: the browser is there and the reader is reading.
Pong == pc[keepAlive] = "ping" /\ ws = "open" /\ browser # "vanished" /\ pc[b2j] = "loop"

\* Mutant: the session is not looked at.
TouchSession_Skipped == pc' = [pc EXCEPT ![keepAlive] = "loop"] /\ UNCHANGED failure

\* sessions.Touch after the pong.
TouchSession ==
    \/ sessionLive /\ pc' = [pc EXCEPT ![keepAlive] = "loop"] /\ UNCHANGED failure
    \/ ~sessionLive /\ Fail(keepAlive, "expired")

PingAnswered ==
    /\ Pong
    /\ TouchSession
    /\ UNCHANGED <<main, errc, cancelled, ws, java, peers, closeCode, frames>>

\* The ping times out, or the socket is closed, or the context cancelled.
\* The library may break the connection when a ping fails.
PingFails ==
    /\ pc[keepAlive] = "ping"
    /\ Fail(keepAlive, "heartbeat")
    /\ ws' \in {ws, "closed"}
    /\ UNCHANGED <<main, errc, cancelled, java, peers, closeCode, frames>>

---------------------------------------------------------------------------
(* The browser, Java and the session store                                 *)

Peer == UNCHANGED <<main, pc, failure, errc, cancelled, ws, java, closeCode, javaGot, browserGot, seen>>

BrowserSends(kind) ==
    /\ ws = "open" /\ browser = "here" /\ Len(browserSent) + Len(javaSent) < MaxFrames
    /\ browserSent' = Append(browserSent, [n |-> Len(browserSent) + 1, kind |-> kind])
    /\ UNCHANGED <<peers, javaSent>> /\ Peer

JavaSends(kind) ==
    /\ java = "open" /\ ~javaEnded /\ Len(browserSent) + Len(javaSent) < MaxFrames
    /\ javaSent' = Append(javaSent, [n |-> Len(javaSent) + 1, kind |-> kind])
    /\ UNCHANGED <<peers, browserSent>> /\ Peer

\* The browser closes the WebSocket, normally or because its page goes away,
\* or is gone without a word.
BrowserEnds ==
    /\ ws = "open" /\ browser = "here"
    /\ browser' \in {"left", "away", "vanished"}
    /\ UNCHANGED <<sessionLive, javaEnded, browserSent, javaSent>> /\ Peer

JavaEnds ==
    /\ java = "open" /\ ~javaEnded
    /\ javaEnded' = TRUE
    /\ UNCHANGED <<sessionLive, browser, browserSent, javaSent>> /\ Peer

\* The session reaches its deadline; once playWS has returned, nobody asks.
SessionEnds ==
    /\ sessionLive /\ main # "returned"
    /\ sessionLive' = FALSE
    /\ UNCHANGED <<browser, javaEnded, browserSent, javaSent>> /\ Peer

Main == CheckSession \/ BeginSession \/ Accept \/ CloseSocket \/ Return

External ==
    \/ \E kind \in Kind : BrowserSends(kind)
    \/ \E kind \in {"game", "bad"} : JavaSends(kind)
    \/ BrowserEnds \/ JavaEnds \/ SessionEnds

Next ==
    \/ Main \/ External
    \/ \E g \in Goroutine : Finish(g)
    \/ ReadBrowser \/ WriteJava \/ WriteJavaFails
    \/ ReadJava \/ WriteBrowser
    \/ Select \/ PingAnswered \/ PingFails

\* Goroutines are scheduled and the ticker ticks; browser and Java owe
\* nothing, so neither a frame nor a pong nor a read by Java need ever come.
Fairness ==
    /\ WF_vars(Main)
    /\ WF_vars(ReadBrowser \/ WriteJavaFails \/ Finish(b2j))
    /\ WF_vars(ReadJava \/ WriteBrowser \/ Finish(j2b))
    /\ WF_vars(Select \/ PingAnswered \/ PingFails \/ Finish(keepAlive))

Spec == Init /\ [][Next]_vars

LiveSpec == Spec /\ Fairness

---------------------------------------------------------------------------
(* Properties                                                              *)

\* Every variable has its type; no goroutine ever reports success
\* (server.go:427-491).
TypeOK ==
    /\ main \in {"check", "begin", "accept", "wait", "closing", "returned"}
    /\ pc \in [Goroutine -> {"off", "loop", "write", "ping", "report", "cancel", "done"}]
    /\ failure \in [Goroutine -> Failure]
    /\ errc \in Seq(Failure \ {"none"}) /\ Len(errc) <= ErrcCapacity
    /\ cancelled \in BOOLEAN /\ sessionLive \in BOOLEAN /\ javaEnded \in BOOLEAN
    /\ ws \in {"none", "open", "closed"} /\ java \in {"none", "open", "closed"}
    /\ closeCode \in {"none", "normal", "session expired", "heartbeat failed", "proxy violation"}
    /\ browser \in {"here", "left", "away", "vanished"}
    /\ {browserSent, javaGot, javaSent, browserGot} \subseteq Seq(Frame)

\* got is what becomes of the first m frames of sent: none of them is
\* malformed, and got holds the game frames among them, in order.
Through(m, sent, got) ==
    /\ \A n \in 1..m : sent[n].kind # "bad"
    /\ {got[i].n : i \in 1..Len(got)} = {n \in 1..m : sent[n].kind = "game"}
    /\ \A i \in 1..Len(got) : got[i] = sent[got[i].n]
    /\ \A i, j \in 1..Len(got) : i < j => got[i].n < got[j].n

\* Each side gets what the other sent, in order, nothing twice, nothing left
\* out, nothing past the first malformed frame and no debug frame
\* (server.go:614-666).
Relayed ==
    /\ \E m \in 0..Len(browserSent) : Through(m, browserSent, javaGot)
    /\ \E m \in 0..Len(javaSent) : Through(m, javaSent, browserGot)

\* The close code tells the browser the truth: a normal closure is one it
\* asked for, and an expired session really has ended, whichever of the
\* goroutines fail in the wake of the first (server.go:462-490).
CloseCodeHonest ==
    /\ closeCode = "normal" => browser = "left"
    /\ closeCode = "session expired" => ~sessionLive

\* Once a goroutine has failed, all of them end, playWS returns and both
\* connections are closed: nothing leaks, although a read from Java ignores
\* the context and the reports of two goroutines are never taken
\* (server.go:459-491).
Teardown ==
    (\E g \in Goroutine : pc[g] = "report") ~>
        /\ main = "returned" /\ ws = "closed" /\ java = "closed"
        /\ \A g \in Goroutine : pc[g] = "done"

\* A WebSocket does not outlive its session: the keepalive finds out, even if
\* the browser is silent and Java takes no frame (server.go:668-687).
SocketEndsWithSession == ws = "open" /\ ~sessionLive ~> ws = "closed"

\* A browser that vanishes without a close frame is noticed (server.go:676-681).
VanishedBrowserNoticed == ws = "open" /\ browser = "vanished" ~> ws = "closed"
===========================================================================
