-------------------------- MODULE PlayProxy_proofs --------------------------
(* Theorems about PlayProxy, for any number of frames.                     *)
EXTENDS PlayProxy, TLAPS

USE PlayAssumption DEF Goroutine, b2j, j2b, keepAlive

\* Every variable but the frames and the flags has its type, and a goroutine that is about
\* to report has something to report.
Typed ==
    /\ main \in {"check", "begin", "accept", "wait", "closing", "returned"}
    /\ pc \in [Goroutine -> {"off", "loop", "write", "ping", "report", "cancel", "done"}]
    /\ failure \in [Goroutine -> Failure]
    /\ \A g \in Goroutine : pc[g] = "report" => failure[g] # "none"
    /\ errc \in Seq(Failure \ {"none"}) /\ Len(errc) <= ErrcCapacity
    /\ ws \in {"none", "open", "closed"} /\ java \in {"none", "open", "closed"}
    /\ closeCode \in {"none", "normal", "session expired", "heartbeat failed", "proxy violation"}
    /\ browser \in {"here", "left", "away", "vanished"}

Flags == cancelled \in BOOLEAN /\ sessionLive \in BOOLEAN /\ javaEnded \in BOOLEAN

\* The frames: a goroutine that writes has read the frame it writes.
Framed ==
    /\ browserSent \in Seq(Frame) /\ javaGot \in Seq(Frame)
    /\ javaSent \in Seq(Frame) /\ browserGot \in Seq(Frame)
    /\ seen \in [{b2j, j2b} -> Nat]
    /\ seen[b2j] <= Len(browserSent) /\ seen[j2b] <= Len(javaSent)
    /\ pc[b2j] = "write" => seen[b2j] > 0
    /\ pc[j2b] = "write" => seen[j2b] > 0

\* Before playWS waits, nothing has started.
Quiet ==
    main \in {"check", "begin", "accept"} =>
        /\ errc = <<>> /\ ~cancelled
        /\ \A g \in Goroutine : pc[g] = "off" /\ failure[g] = "none"

\* What a report claims.
Truthful(report) ==
    /\ report = "normal" => browser = "left"
    /\ report = "expired" => ~sessionLive

\* While playWS waits, the first report is in the channel before anything is
\* cancelled, so it is not the consequence of another.
FirstReport ==
    main = "wait" =>
        /\ errc = <<>> =>
              /\ ~cancelled
              /\ \A g \in Goroutine : pc[g] \notin {"cancel", "done"} /\ failure[g] # "cancelled"
        /\ errc # <<>> => errc[1] # "cancelled" /\ Truthful(errc[1])

Claims == \A g \in Goroutine : Truthful(failure[g])

Control == Typed /\ Quiet /\ FirstReport /\ Claims /\ CloseCodeHonest

IInv == Control /\ Framed

LEMMA IInvInit == Init => IInv
<1> SUFFICES ASSUME Init PROVE IInv
    OBVIOUS
<1>1. Typed
  <2>1. errc \in Seq(Failure \ {"none"}) /\ Len(errc) <= ErrcCapacity
        BY DEF Init, ErrcCapacity
  <2>2. /\ pc \in [Goroutine -> {"off", "loop", "write", "ping", "report", "cancel", "done"}]
        /\ failure \in [Goroutine -> Failure] /\ \A g \in Goroutine : pc[g] # "report"
        BY DEF Init, Failure
  <2>3. /\ main = "check" /\ ws = "none" /\ java = "none" /\ closeCode = "none" /\ browser = "here"
        BY DEF Init
  <2> QED  BY <2>1, <2>2, <2>3 DEF Typed
<1>2. Framed
      BY DEF Init, Framed
<1>3. Quiet /\ FirstReport /\ Claims /\ CloseCodeHonest
      BY DEF Init, Quiet, FirstReport, Claims, Truthful, CloseCodeHonest
<1> QED  BY <1>1, <1>2, <1>3 DEF IInv, Control

LEMMA CheckSessionKeeps == ASSUME IInv, CheckSession PROVE IInv'
<1>1. /\ main = "check" /\ main' \in {"begin", "returned"}
      /\ UNCHANGED <<pc, failure, errc, cancelled, ws, java, sessionLive, browser, javaEnded, closeCode, frames>>
      BY DEF CheckSession, peers
<1>2. Control'
  <2>1. Typed'
        BY <1>1 DEF IInv, Control, Typed
  <2>2. Quiet' /\ FirstReport' /\ Claims' /\ CloseCodeHonest'
        BY <1>1 DEF IInv, Control, Quiet, FirstReport, Claims, Truthful, CloseCodeHonest
  <2> QED  BY <2>1, <2>2 DEF Control
<1>3. Framed'
      BY <1>1 DEF IInv, Framed, frames
<1> QED  BY <1>2, <1>3 DEF IInv

LEMMA BeginSessionKeeps == ASSUME IInv, BeginSession PROVE IInv'
<1>1. /\ main = "begin" /\ main' \in {"accept", "returned"} /\ java' \in {java, "open"}
      /\ UNCHANGED <<pc, failure, errc, cancelled, ws, peers, closeCode, frames>>
      BY DEF BeginSession
<1>2. Control'
      BY <1>1 DEF IInv, Control, Typed, Quiet, FirstReport, Claims, Truthful, CloseCodeHonest, peers
<1>3. Framed'
      BY <1>1 DEF IInv, Framed, frames
<1> QED  BY <1>2, <1>3 DEF IInv

LEMMA AcceptKeeps == ASSUME IInv, Accept PROVE IInv'
<1> SUFFICES Control' /\ Framed'
    BY DEF IInv
<1>1. /\ main = "accept" /\ UNCHANGED <<failure, errc, cancelled, sessionLive, browser, javaEnded, closeCode>>
      /\ UNCHANGED <<browserSent, javaGot, javaSent, browserGot, seen>>
      BY DEF Accept, peers, frames
<1>2. errc = <<>> /\ ~cancelled /\ \A g \in Goroutine : pc[g] = "off" /\ failure[g] = "none"
      BY <1>1 DEF IInv, Control, Quiet
<1>3. CASE main' = "wait" /\ ws' = "open" /\ pc' = [g \in Goroutine |-> "loop"] /\ UNCHANGED java
  <2>1. Typed'
        BY <1>1, <1>3 DEF IInv, Control, Typed
  <2>2. Quiet' /\ FirstReport' /\ Claims' /\ CloseCodeHonest'
        BY <1>1, <1>2, <1>3 DEF IInv, Control, Quiet, FirstReport, Claims, Truthful, CloseCodeHonest
  <2>3. Framed'
        BY <1>1, <1>3 DEF IInv, Framed
  <2> QED  BY <2>1, <2>2, <2>3 DEF Control
<1>4. CASE main' = "returned" /\ java' = "closed" /\ UNCHANGED <<pc, ws>>
  <2>1. Typed'
        BY <1>1, <1>4 DEF IInv, Control, Typed
  <2>2. Quiet' /\ FirstReport' /\ Claims' /\ CloseCodeHonest'
        BY <1>1, <1>4 DEF IInv, Control, Quiet, FirstReport, Claims, Truthful, CloseCodeHonest
  <2>3. Framed'
        BY <1>1, <1>4 DEF IInv, Framed
  <2> QED  BY <2>1, <2>2, <2>3 DEF Control
<1> QED  BY <1>3, <1>4 DEF Accept

\* The reports that are left, and one more report.
LEMMA TailFacts ==
  ASSUME NEW S, NEW s \in Seq(S), s # <<>>
  PROVE  Tail(s) \in Seq(S) /\ Len(Tail(s)) = Len(s) - 1 /\ Head(s) = s[1]
  OBVIOUS

LEMMA AppendFacts ==
  ASSUME NEW S, NEW s \in Seq(S), NEW e \in S
  PROVE  /\ Append(s, e) \in Seq(S) /\ Len(Append(s, e)) = Len(s) + 1 /\ Append(s, e) # <<>>
         /\ s = <<>> => Append(s, e)[1] = e
         /\ s # <<>> => Append(s, e)[1] = s[1]
  OBVIOUS

LEMMA CloseSocketKeeps == ASSUME IInv, CloseSocket PROVE IInv'
<1>1. /\ main = "wait" /\ main' = "closing" /\ ws' = "closed" /\ errc # <<>> /\ errc' = Tail(errc)
      /\ closeCode' = (IF ws = "open" THEN CodeFor(Head(errc)) ELSE closeCode)
      /\ UNCHANGED <<pc, failure, cancelled, java, sessionLive, browser, javaEnded>>
      /\ UNCHANGED <<browserSent, javaGot, javaSent, browserGot, seen>>
      BY DEF CloseSocket, peers, frames
<1>2. errc' \in Seq(Failure \ {"none"}) /\ Len(errc') <= ErrcCapacity /\ Head(errc) = errc[1]
  <2>1. errc \in Seq(Failure \ {"none"}) /\ Len(errc) <= 3
        BY DEF IInv, Control, Typed, ErrcCapacity
  <2>2. /\ Tail(errc) \in Seq(Failure \ {"none"}) /\ Len(Tail(errc)) = Len(errc) - 1
        /\ Head(errc) = errc[1] /\ Len(errc) \in Nat
        BY <1>1, <2>1, TailFacts
  <2> QED  BY <1>1, <2>1, <2>2 DEF ErrcCapacity
<1>3. errc[1] # "cancelled" /\ Truthful(errc[1])
      BY <1>1 DEF IInv, Control, FirstReport
<1>4. Typed'
  <2>1. closeCode' \in {"none", "normal", "session expired", "heartbeat failed", "proxy violation"}
        BY <1>1 DEF CodeFor, IInv, Control, Typed
  <2> QED  BY <1>1, <1>2, <2>1 DEF IInv, Control, Typed
<1>5. CloseCodeHonest'
      BY <1>1, <1>2, <1>3 DEF CodeFor, Truthful, IInv, Control, CloseCodeHonest
<1>6. Quiet' /\ FirstReport' /\ Claims'
      BY <1>1 DEF IInv, Control, Quiet, FirstReport, Claims, Truthful
<1>7. Framed'
      BY <1>1 DEF IInv, Framed
<1> QED  BY <1>4, <1>5, <1>6, <1>7 DEF IInv, Control

LEMMA ReturnKeeps == ASSUME IInv, Return PROVE IInv'
<1>1. /\ main' = "returned" /\ cancelled' = TRUE /\ java' = "closed"
      /\ UNCHANGED <<pc, failure, errc, ws, peers, closeCode, frames>>
      BY DEF Return
<1>2. Control'
      BY <1>1 DEF IInv, Control, Typed, Quiet, FirstReport, Claims, Truthful, CloseCodeHonest, peers
<1>3. Framed'
      BY <1>1 DEF IInv, Framed, frames
<1> QED  BY <1>2, <1>3 DEF IInv

\* A goroutine leaves its channel, the cancellation and playWS alone until it
\* reports: it goes on, or fails with an error that is true.
Runs(g) ==
    /\ pc[g] \notin {"off", "report", "cancel", "done"}
    /\ \/ UNCHANGED <<pc, failure>>
       \/ /\ \E to \in {"loop", "write", "ping"} : pc' = [pc EXCEPT ![g] = to]
          /\ UNCHANGED failure
       \/ \E error \in Failure \ {"none"} :
             Fail(g, error) /\ Truthful(error) /\ (error = "cancelled" => cancelled)
    /\ ws' \in {"none", "open", "closed"}
    /\ UNCHANGED <<main, errc, cancelled, java, sessionLive, browser, javaEnded, closeCode>>

LEMMA RunsKeeps == ASSUME Control, NEW g \in Goroutine, Runs(g) PROVE Control'
<1>1. /\ pc \in [Goroutine -> {"off", "loop", "write", "ping", "report", "cancel", "done"}]
      /\ failure \in [Goroutine -> Failure] /\ pc[g] \notin {"off", "report", "cancel", "done"}
      BY DEF Control, Typed, Runs
<1>2. /\ ws' \in {"none", "open", "closed"}
      /\ UNCHANGED <<main, errc, cancelled, java, sessionLive, browser, javaEnded, closeCode>>
      BY DEF Runs
<1>3. main \notin {"check", "begin", "accept"}
      BY <1>1 DEF Control, Quiet
<1>4. /\ pc' \in [Goroutine -> {"off", "loop", "write", "ping", "report", "cancel", "done"}]
      /\ failure' \in [Goroutine -> Failure]
      /\ \A h \in Goroutine :
            /\ pc'[h] = "report" => failure'[h] # "none"
            /\ Truthful(failure'[h])
            /\ pc'[h] \in {"cancel", "done"} => pc[h] \in {"cancel", "done"}
            /\ failure'[h] = "cancelled" => failure[h] = "cancelled" \/ cancelled
  <2>1. CASE UNCHANGED <<pc, failure>>
        BY <1>1, <2>1 DEF Control, Typed, Claims
  <2>2. ASSUME NEW to \in {"loop", "write", "ping"}, pc' = [pc EXCEPT ![g] = to], UNCHANGED failure
        PROVE  <1>4!:
        BY <1>1, <2>2 DEF Control, Typed, Claims
  <2>3. ASSUME NEW error \in Failure \ {"none"}, Fail(g, error), Truthful(error),
               error = "cancelled" => cancelled
        PROVE  <1>4!:
    <3>1. pc' = [pc EXCEPT ![g] = "report"] /\ failure' = [failure EXCEPT ![g] = error]
          BY <2>3 DEF Fail
    <3>2. /\ pc' \in [Goroutine -> {"off", "loop", "write", "ping", "report", "cancel", "done"}]
          /\ failure' \in [Goroutine -> Failure]
          BY <1>1, <3>1
    <3>3. /\ pc'[g] = "report" /\ failure'[g] = error
          /\ \A h \in Goroutine \ {g} : pc'[h] = pc[h] /\ failure'[h] = failure[h]
          BY <1>1, <3>1
    <3> QED  BY <2>3, <3>2, <3>3 DEF Control, Typed, Claims
  <2> QED  BY <2>1, <2>2, <2>3 DEF Runs
<1>5. Typed'
      BY <1>2, <1>4 DEF Control, Typed
<1>6. Quiet' /\ Claims' /\ CloseCodeHonest'
      BY <1>2, <1>3, <1>4 DEF Control, Quiet, Claims, CloseCodeHonest, Truthful
<1>7. FirstReport'
  <2>1. ASSUME main' = "wait", errc' = <<>>
        PROVE  ~cancelled' /\ \A h \in Goroutine : pc'[h] \notin {"cancel", "done"} /\ failure'[h] # "cancelled"
        BY <1>2, <1>4, <2>1 DEF Control, FirstReport
  <2>2. ASSUME main' = "wait", errc' # <<>>
        PROVE  errc'[1] # "cancelled" /\ (Truthful(errc[1]))'
        BY <1>2, <2>2 DEF Control, FirstReport, Truthful
  <2> QED  BY <2>1, <2>2 DEF FirstReport, Truthful
<1> QED  BY <1>5, <1>6, <1>7 DEF Control

LEMMA FinishKeeps == ASSUME IInv, NEW g \in Goroutine, Finish(g) PROVE IInv'
<1> SUFFICES Control' /\ Framed'
    BY DEF IInv
<1>1. /\ UNCHANGED <<main, ws, java, sessionLive, browser, javaEnded, closeCode>>
      /\ UNCHANGED <<browserSent, javaGot, javaSent, browserGot, seen>>
      BY DEF Finish, peers, frames
<1>2. /\ pc \in [Goroutine -> {"off", "loop", "write", "ping", "report", "cancel", "done"}]
      /\ failure \in [Goroutine -> Failure] /\ errc \in Seq(Failure \ {"none"})
      BY DEF IInv, Control, Typed
<1>3. main \notin {"check", "begin", "accept"}
      BY <1>2 DEF IInv, Control, Quiet, Finish
<1>4. CASE /\ pc[g] = "report" /\ Len(errc) < ErrcCapacity /\ errc' = Append(errc, failure[g])
           /\ failure' = [failure EXCEPT ![g] = "none"] /\ pc' = [pc EXCEPT ![g] = "cancel"]
           /\ UNCHANGED cancelled
  <2>1. /\ pc' \in [Goroutine -> {"off", "loop", "write", "ping", "report", "cancel", "done"}]
        /\ failure' \in [Goroutine -> Failure]
        /\ pc'[g] = "cancel" /\ failure'[g] = "none"
        /\ \A h \in Goroutine \ {g} : pc'[h] = pc[h] /\ failure'[h] = failure[h]
        BY <1>2, <1>4 DEF Failure
  <2>2. failure[g] \in Failure \ {"none"} /\ Truthful(failure[g])
        BY <1>2, <1>4 DEF IInv, Control, Typed, Claims
  <2>3. /\ errc' \in Seq(Failure \ {"none"}) /\ Len(errc') = Len(errc) + 1 /\ errc' # <<>>
        /\ errc = <<>> => errc'[1] = failure[g]
        /\ errc # <<>> => errc'[1] = errc[1]
        BY <1>2, <1>4, <2>2, AppendFacts
  <2>4. Len(errc') <= ErrcCapacity
        BY <1>2, <1>4, <2>3 DEF ErrcCapacity
  <2>5. Typed'
    <3>1. \A h \in Goroutine : pc'[h] = "report" => failure'[h] # "none"
          BY <2>1 DEF IInv, Control, Typed
    <3> QED  BY <1>1, <2>1, <2>3, <2>4, <3>1 DEF IInv, Control, Typed
  <2>6. FirstReport'
    <3>1. ASSUME main' = "wait"
          PROVE  errc'[1] # "cancelled" /\ Truthful(errc'[1])
          BY <1>1, <2>2, <2>3, <3>1 DEF IInv, Control, FirstReport
    <3> QED  BY <1>1, <2>3, <3>1 DEF FirstReport, Truthful
  <2>7. Quiet' /\ Claims' /\ CloseCodeHonest'
        BY <1>1, <1>3, <2>1 DEF IInv, Control, Quiet, Claims, Truthful, CloseCodeHonest
  <2>8. Framed'
        BY <1>1, <2>1 DEF IInv, Framed
  <2> QED  BY <2>5, <2>6, <2>7, <2>8 DEF Control
<1>5. CASE /\ pc[g] = "cancel" /\ cancelled' = TRUE /\ pc' = [pc EXCEPT ![g] = "done"]
           /\ UNCHANGED <<failure, errc>>
  <2>1. /\ pc' \in [Goroutine -> {"off", "loop", "write", "ping", "report", "cancel", "done"}]
        /\ pc'[g] = "done" /\ \A h \in Goroutine \ {g} : pc'[h] = pc[h]
        BY <1>2, <1>5
  <2>2. Typed'
        BY <1>1, <1>5, <2>1 DEF IInv, Control, Typed
  <2>3. main = "wait" => errc # <<>>
        BY <1>5 DEF IInv, Control, FirstReport
  <2>4. FirstReport'
        BY <1>1, <1>5, <2>3 DEF IInv, Control, FirstReport, Truthful
  <2>5. Quiet' /\ Claims' /\ CloseCodeHonest'
        BY <1>1, <1>3, <1>5 DEF IInv, Control, Quiet, Claims, Truthful, CloseCodeHonest
  <2>6. Framed'
        BY <1>1, <2>1 DEF IInv, Framed
  <2> QED  BY <2>2, <2>4, <2>5, <2>6 DEF Control
<1> QED  BY <1>4, <1>5 DEF Finish

\* What holds of a WebSocket call that fails.
LEMMA SocketFailsRuns ==
  ASSUME IInv, NEW g \in Goroutine, SocketFails(g), pc[g] \in {"loop", "write", "ping"},
         UNCHANGED <<main, errc, cancelled, java, sessionLive, browser, javaEnded, closeCode>>
  PROVE  Runs(g) /\ pc' = [pc EXCEPT ![g] = "report"]
<1>1. ws' \in {"none", "open", "closed"}
      BY DEF SocketFails, IInv, Control, Typed
<1>2. \E error \in Failure \ {"none"} :
          Fail(g, error) /\ Truthful(error) /\ (error = "cancelled" => cancelled)
      BY DEF SocketFails, Failure, Truthful
<1> QED  BY <1>1, <1>2 DEF Runs, Fail

\* What a goroutine does to where it is, without the rest of the frames.
LEMMA PcFacts ==
  ASSUME IInv, NEW g \in Goroutine, NEW to \in {"loop", "write", "ping", "report"},
         pc' = [pc EXCEPT ![g] = to]
  PROVE  pc'[g] = to /\ \A h \in Goroutine \ {g} : pc'[h] = pc[h]
  BY DEF IInv, Control, Typed

LEMMA ReadBrowserKeeps == ASSUME IInv, ReadBrowser PROVE IInv'
<1>1. /\ pc[b2j] = "loop" /\ UNCHANGED <<browserSent, javaGot, javaSent, browserGot>>
      /\ UNCHANGED <<main, errc, cancelled, java, sessionLive, browser, javaEnded, closeCode>>
      BY DEF ReadBrowser, peers
<1>2. ws \in {"none", "open", "closed"}
      BY DEF IInv, Control, Typed
<1>3. CASE /\ ws = "open" /\ seen[b2j] < Len(browserSent) /\ UNCHANGED ws
           /\ BrowserFrame(browserSent[seen[b2j] + 1].kind)
           /\ seen' = [seen EXCEPT ![b2j] = @ + 1]
  <2>1. Runs(b2j)
    <3>1. \/ UNCHANGED <<pc, failure>>
          \/ pc' = [pc EXCEPT ![b2j] = "write"] /\ UNCHANGED failure
          \/ Fail(b2j, "violation")
          BY <1>3 DEF BrowserFrame
    <3>2. "violation" \in Failure \ {"none"} /\ Truthful("violation")
          BY DEF Failure, Truthful
    <3> QED  BY <1>1, <1>2, <1>3, <3>1, <3>2 DEF Runs
  <2>2. /\ seen' \in [{b2j, j2b} -> Nat] /\ seen'[b2j] = seen[b2j] + 1 /\ seen'[j2b] = seen[j2b]
        /\ seen[b2j] \in Nat
        BY <1>3 DEF IInv, Framed
  <2>3. pc'[j2b] = pc[j2b]
        BY <1>3, PcFacts DEF BrowserFrame, Fail
  <2>4. Framed'
        BY <1>1, <1>3, <2>2, <2>3 DEF IInv, Framed
  <2> QED  BY <2>1, <2>4, RunsKeeps DEF IInv
<1>4. ASSUME NEW error, error = IF browser = "left" THEN "normal" ELSE "violation",
             Fail(b2j, error), ws' = "closed", UNCHANGED seen
      PROVE  IInv'
  <2>1. Runs(b2j)
    <3>1. error \in Failure \ {"none"} /\ Truthful(error)
          BY <1>4 DEF Failure, Truthful
    <3> QED  BY <1>1, <1>4, <3>1 DEF Runs
  <2>2. pc'[b2j] = "report" /\ pc'[j2b] = pc[j2b]
        BY <1>4, PcFacts DEF Fail
  <2>3. Framed'
        BY <1>1, <1>4, <2>2 DEF IInv, Framed
  <2> QED  BY <2>1, <2>3, RunsKeeps DEF IInv
<1>5. CASE SocketFails(b2j) /\ UNCHANGED seen
  <2>1. Runs(b2j) /\ pc' = [pc EXCEPT ![b2j] = "report"]
        BY <1>1, <1>5, SocketFailsRuns
  <2>2. pc'[b2j] = "report" /\ pc'[j2b] = pc[j2b]
        BY <2>1, PcFacts
  <2>3. Framed'
        BY <1>1, <1>5, <2>2 DEF IInv, Framed
  <2> QED  BY <2>1, <2>3, RunsKeeps DEF IInv
<1> QED  BY <1>3, <1>4, <1>5 DEF ReadBrowser

LEMMA WriteJavaKeeps == ASSUME IInv, WriteJava PROVE IInv'
<1>1. /\ pc[b2j] = "write" /\ javaGot' = Append(javaGot, browserSent[seen[b2j]])
      /\ pc' = [pc EXCEPT ![b2j] = "loop"] /\ UNCHANGED <<failure, ws>>
      /\ UNCHANGED <<main, errc, cancelled, java, sessionLive, browser, javaEnded, closeCode>>
      /\ UNCHANGED <<browserSent, javaSent, browserGot, seen>>
      BY DEF WriteJava, peers
<1>2. Runs(b2j)
      BY <1>1 DEF Runs, IInv, Control, Typed
<1>3. pc'[b2j] = "loop" /\ pc'[j2b] = pc[j2b]
      BY <1>1, PcFacts
<1>4. browserSent[seen[b2j]] \in Frame
      BY <1>1 DEF IInv, Framed
<1>5. javaGot' \in Seq(Frame)
      BY <1>1, <1>4 DEF IInv, Framed
<1>6. Framed'
      BY <1>1, <1>3, <1>5 DEF IInv, Framed
<1> QED  BY <1>2, <1>6, RunsKeeps DEF IInv

LEMMA WriteJavaFailsKeeps == ASSUME IInv, WriteJavaFails PROVE IInv'
<1>1. /\ pc[b2j] = "write" /\ Fail(b2j, "violation") /\ UNCHANGED ws
      /\ UNCHANGED <<main, errc, cancelled, java, sessionLive, browser, javaEnded, closeCode>>
      /\ UNCHANGED <<browserSent, javaGot, javaSent, browserGot, seen>>
      BY DEF WriteJavaFails, peers, frames
<1>2. Runs(b2j)
      BY <1>1 DEF Runs, Failure, Truthful, IInv, Control, Typed
<1>3. pc'[b2j] = "report" /\ pc'[j2b] = pc[j2b]
      BY <1>1, PcFacts DEF Fail
<1>4. Framed'
      BY <1>1, <1>3 DEF IInv, Framed
<1> QED  BY <1>2, <1>4, RunsKeeps DEF IInv

LEMMA ReadJavaKeeps == ASSUME IInv, ReadJava PROVE IInv'
<1>1. /\ pc[j2b] = "loop" /\ UNCHANGED <<browserSent, javaGot, javaSent, browserGot, ws>>
      /\ UNCHANGED <<main, errc, cancelled, java, sessionLive, browser, javaEnded, closeCode>>
      BY DEF ReadJava, peers
<1>2. /\ \/ pc' = [pc EXCEPT ![j2b] = "write"] /\ UNCHANGED failure
         \/ Fail(j2b, "violation")
      /\ \/ /\ seen[j2b] < Len(javaSent) /\ seen' = [seen EXCEPT ![j2b] = @ + 1]
         \/ Fail(j2b, "violation") /\ UNCHANGED seen
      BY DEF ReadJava
<1>3. Runs(j2b)
  <2>1. "violation" \in Failure \ {"none"} /\ Truthful("violation")
        BY DEF Failure, Truthful
  <2>2. ws' \in {"none", "open", "closed"}
        BY <1>1 DEF IInv, Control, Typed
  <2> QED  BY <1>1, <1>2, <2>1, <2>2 DEF Runs
<1>4. pc'[b2j] = pc[b2j]
      BY <1>2, PcFacts DEF Fail
<1>5. Framed'
  <2>1. CASE seen[j2b] < Len(javaSent) /\ seen' = [seen EXCEPT ![j2b] = @ + 1]
    <3>1. /\ seen' \in [{b2j, j2b} -> Nat] /\ seen'[j2b] = seen[j2b] + 1 /\ seen'[b2j] = seen[b2j]
          /\ seen[j2b] \in Nat
          BY <2>1 DEF IInv, Framed
    <3> QED  BY <1>1, <1>4, <2>1, <3>1 DEF IInv, Framed
  <2>2. CASE Fail(j2b, "violation") /\ UNCHANGED seen
    <3>1. pc'[j2b] = "report"
          BY <2>2, PcFacts DEF Fail
    <3> QED  BY <1>1, <1>4, <2>2, <3>1 DEF IInv, Framed
  <2> QED  BY <1>2, <2>1, <2>2
<1> QED  BY <1>3, <1>5, RunsKeeps DEF IInv

LEMMA WriteBrowserKeeps == ASSUME IInv, WriteBrowser PROVE IInv'
<1>1. /\ pc[j2b] = "write" /\ UNCHANGED <<browserSent, javaGot, javaSent, seen>>
      /\ UNCHANGED <<main, errc, cancelled, java, sessionLive, browser, javaEnded, closeCode>>
      BY DEF WriteBrowser, peers
<1>2. CASE /\ browserGot' = Append(browserGot, javaSent[seen[j2b]])
           /\ pc' = [pc EXCEPT ![j2b] = "loop"] /\ UNCHANGED <<failure, ws>>
  <2>1. Runs(j2b)
        BY <1>1, <1>2 DEF Runs, IInv, Control, Typed
  <2>2. pc'[j2b] = "loop" /\ pc'[b2j] = pc[b2j]
        BY <1>2, PcFacts
  <2>3. javaSent[seen[j2b]] \in Frame
        BY <1>1 DEF IInv, Framed
  <2>4. browserGot' \in Seq(Frame)
        BY <1>2, <2>3 DEF IInv, Framed
  <2>5. Framed'
        BY <1>1, <2>2, <2>4 DEF IInv, Framed
  <2> QED  BY <2>1, <2>5, RunsKeeps DEF IInv
<1>3. CASE SocketFails(j2b) /\ UNCHANGED browserGot
  <2>1. Runs(j2b) /\ pc' = [pc EXCEPT ![j2b] = "report"]
        BY <1>1, <1>3, SocketFailsRuns
  <2>2. pc'[j2b] = "report" /\ pc'[b2j] = pc[b2j]
        BY <2>1, PcFacts
  <2>3. Framed'
        BY <1>1, <1>3, <2>2 DEF IInv, Framed
  <2> QED  BY <2>1, <2>3, RunsKeeps DEF IInv
<1> QED  BY <1>2, <1>3 DEF WriteBrowser

\* The keepalive touches no frame.
LEMMA KeepAliveKeeps ==
  ASSUME IInv, Runs(keepAlive), UNCHANGED frames,
         pc'[b2j] = pc[b2j], pc'[j2b] = pc[j2b]
  PROVE  IInv'
<1>1. Framed'
      BY DEF IInv, Framed, frames
<1> QED  BY <1>1, RunsKeeps DEF IInv

LEMMA SelectKeeps == ASSUME IInv, Select PROVE IInv'
<1>1. /\ pc[keepAlive] = "loop" /\ UNCHANGED <<ws, frames>>
      /\ UNCHANGED <<main, errc, cancelled, java, sessionLive, browser, javaEnded, closeCode>>
      /\ \/ pc' = [pc EXCEPT ![keepAlive] = "ping"] /\ UNCHANGED failure
         \/ cancelled /\ Fail(keepAlive, "cancelled")
      BY DEF Select, peers
<1>2. Runs(keepAlive)
  <2>1. "cancelled" \in Failure \ {"none"} /\ Truthful("cancelled")
        BY DEF Failure, Truthful
  <2>2. ws' \in {"none", "open", "closed"}
        BY <1>1 DEF IInv, Control, Typed
  <2> QED  BY <1>1, <2>1, <2>2 DEF Runs
<1>3. pc'[b2j] = pc[b2j] /\ pc'[j2b] = pc[j2b]
      BY <1>1, PcFacts DEF Fail
<1> QED  BY <1>1, <1>2, <1>3, KeepAliveKeeps

LEMMA PingAnsweredKeeps == ASSUME IInv, PingAnswered PROVE IInv'
<1>1. /\ pc[keepAlive] = "ping" /\ UNCHANGED <<ws, frames>>
      /\ UNCHANGED <<main, errc, cancelled, java, sessionLive, browser, javaEnded, closeCode>>
      /\ \/ pc' = [pc EXCEPT ![keepAlive] = "loop"] /\ UNCHANGED failure
         \/ ~sessionLive /\ Fail(keepAlive, "expired")
      BY DEF PingAnswered, Pong, TouchSession, peers
<1>2. Runs(keepAlive)
  <2>1. "expired" \in Failure \ {"none"} /\ (~sessionLive => Truthful("expired"))
        BY DEF Failure, Truthful
  <2>2. ws' \in {"none", "open", "closed"}
        BY <1>1 DEF IInv, Control, Typed
  <2> QED  BY <1>1, <2>1, <2>2 DEF Runs
<1>3. pc'[b2j] = pc[b2j] /\ pc'[j2b] = pc[j2b]
      BY <1>1, PcFacts DEF Fail
<1> QED  BY <1>1, <1>2, <1>3, KeepAliveKeeps

LEMMA PingFailsKeeps == ASSUME IInv, PingFails PROVE IInv'
<1>1. /\ pc[keepAlive] = "ping" /\ UNCHANGED frames /\ ws' \in {ws, "closed"}
      /\ UNCHANGED <<main, errc, cancelled, java, sessionLive, browser, javaEnded, closeCode>>
      /\ Fail(keepAlive, "heartbeat")
      BY DEF PingFails, peers
<1>2. Runs(keepAlive)
  <2>1. "heartbeat" \in Failure \ {"none"} /\ Truthful("heartbeat")
        BY DEF Failure, Truthful
  <2>2. ws' \in {"none", "open", "closed"}
        BY <1>1 DEF IInv, Control, Typed
  <2> QED  BY <1>1, <2>1, <2>2 DEF Runs
<1>3. pc'[b2j] = pc[b2j] /\ pc'[j2b] = pc[j2b]
      BY <1>1, PcFacts DEF Fail
<1> QED  BY <1>1, <1>2, <1>3, KeepAliveKeeps

LEMMA ExternalKeeps == ASSUME IInv, External PROVE IInv'
<1>1. UNCHANGED <<main, pc, failure, errc, cancelled, ws, java, closeCode, javaGot, browserGot, seen>>
      BY DEF External, BrowserSends, JavaSends, BrowserEnds, JavaEnds, SessionEnds, Peer
<1>2. /\ browser' \in {"here", "left", "away", "vanished"}
      /\ (browser = "left" => browser' = "left") /\ (~sessionLive => ~sessionLive')
  <2>1. browser \in {"here", "left", "away", "vanished"}
        BY DEF IInv, Control, Typed
  <2>2. CASE External /\ ~BrowserEnds
    <3>1. browser' = browser /\ (sessionLive' = sessionLive \/ sessionLive' = FALSE)
          BY <2>2 DEF External, BrowserSends, JavaSends, JavaEnds, SessionEnds, peers
    <3> QED  BY <2>1, <3>1
  <2>3. CASE BrowserEnds
        BY <2>1, <2>3 DEF BrowserEnds
  <2> QED  BY <2>2, <2>3
<1>3. Typed'
      BY <1>1, <1>2 DEF IInv, Control, Typed
<1>4. Quiet' /\ FirstReport' /\ Claims' /\ CloseCodeHonest'
      BY <1>1, <1>2 DEF IInv, Control, Quiet, FirstReport, Claims, Truthful, CloseCodeHonest
<1>5. Framed'
  <2>1. ASSUME NEW kind \in Kind, BrowserSends(kind) PROVE Framed'
    <3>1. browserSent \in Seq(Frame) /\ [n |-> Len(browserSent) + 1, kind |-> kind] \in Frame
          BY DEF IInv, Framed, Frame
    <3>2. browserSent' \in Seq(Frame) /\ Len(browserSent') = Len(browserSent) + 1
          BY <2>1, <3>1, AppendFacts DEF BrowserSends
    <3> QED  BY <1>1, <2>1, <3>1, <3>2 DEF BrowserSends, IInv, Framed
  <2>2. ASSUME NEW kind \in {"game", "bad"}, JavaSends(kind) PROVE Framed'
    <3>1. javaSent \in Seq(Frame) /\ [n |-> Len(javaSent) + 1, kind |-> kind] \in Frame
          BY DEF IInv, Framed, Frame, Kind
    <3>2. javaSent' \in Seq(Frame) /\ Len(javaSent') = Len(javaSent) + 1
          BY <2>2, <3>1, AppendFacts DEF JavaSends
    <3> QED  BY <1>1, <2>2, <3>1, <3>2 DEF JavaSends, IInv, Framed
  <2>3. CASE BrowserEnds \/ JavaEnds \/ SessionEnds
    <3>1. UNCHANGED <<browserSent, javaSent>>
          BY <2>3 DEF BrowserEnds, JavaEnds, SessionEnds
    <3> QED  BY <1>1, <3>1 DEF IInv, Framed
  <2> QED  BY <2>1, <2>2, <2>3 DEF External
<1> QED  BY <1>3, <1>4, <1>5 DEF IInv, Control

LEMMA IInvNext == IInv /\ [Next]_vars => IInv'
<1> SUFFICES ASSUME IInv, [Next]_vars PROVE IInv'
    OBVIOUS
<1>1. CASE UNCHANGED vars
  <2>1. UNCHANGED <<main, pc, failure, errc, cancelled, ws, java, sessionLive, browser, javaEnded, closeCode>>
        BY <1>1 DEF vars, peers
  <2>2. UNCHANGED <<browserSent, javaGot, javaSent, browserGot, seen>>
        BY <1>1 DEF vars, frames
  <2>3. Control'
    <3>1. Typed'
          BY <2>1 DEF IInv, Control, Typed
    <3>2. Quiet' /\ FirstReport' /\ Claims' /\ CloseCodeHonest'
          BY <2>1 DEF IInv, Control, Quiet, FirstReport, Claims, Truthful, CloseCodeHonest
    <3> QED  BY <3>1, <3>2 DEF Control
  <2>4. Framed'
        BY <2>1, <2>2 DEF IInv, Framed
  <2> QED  BY <2>3, <2>4 DEF IInv
<1>2. CASE Main
      BY <1>2, CheckSessionKeeps, BeginSessionKeeps, AcceptKeeps, CloseSocketKeeps, ReturnKeeps DEF Main
<1>3. CASE Next
      BY <1>2, <1>3, ExternalKeeps, FinishKeeps, ReadBrowserKeeps, WriteJavaKeeps, WriteJavaFailsKeeps,
         ReadJavaKeeps, WriteBrowserKeeps, SelectKeeps, PingAnsweredKeeps, PingFailsKeeps DEF Next
<1> QED  BY <1>1, <1>3

LEMMA IInvCorrect == Spec => []IInv
<1>1. IInv /\ [Next]_vars => IInv'
      BY IInvNext
<1> QED  BY <1>1, IInvInit, PTL DEF Spec

\* The flags are set to truth values.
LEMMA FlagsCorrect == Spec => []Flags
<1> DEFINE Set(flag, new) == new = flag \/ new = TRUE \/ new = FALSE
           Settings == Set(cancelled, cancelled') /\ Set(sessionLive, sessionLive') /\ Set(javaEnded, javaEnded')
<1>1. Init => Flags
      BY Zenon DEF Init, Flags
<1>2. Flags /\ Settings => Flags'
      BY Zenon DEF Flags
<1>3. [Next]_vars => Settings
  <2>1. Main => Settings
        BY Zenon DEF Main, CheckSession, BeginSession, Accept, CloseSocket, Return, peers
  <2>2. External => Settings
        BY Zenon DEF External, BrowserSends, JavaSends, BrowserEnds, JavaEnds, SessionEnds, Peer, peers
  <2>3. (\E g \in Goroutine : Finish(g)) => Settings
        BY Zenon DEF Finish, peers
  <2>4. ReadBrowser \/ WriteJava \/ WriteJavaFails => Settings
        BY Zenon DEF ReadBrowser, WriteJava, WriteJavaFails, peers
  <2>5. ReadJava \/ WriteBrowser => Settings
        BY Zenon DEF ReadJava, WriteBrowser, peers
  <2>6. Select \/ PingAnswered \/ PingFails => Settings
        BY Zenon DEF Select, PingAnswered, PingFails, peers
  <2>7. UNCHANGED vars => Settings
        BY Zenon DEF vars, peers
  <2> QED  BY <2>1, <2>2, <2>3, <2>4, <2>5, <2>6, <2>7 DEF Next
<1>4. Flags /\ [Next]_vars => Flags'
      BY <1>2, <1>3
<1> QED  BY <1>1, <1>4, PTL DEF Spec

\* Every variable has its type, and the channel never overflows.
THEOREM TypeCorrect == Spec => []TypeOK
<1>1. IInv /\ Flags => TypeOK
      BY DEF IInv, Control, Typed, Framed, Flags, TypeOK
<1> QED  BY <1>1, IInvCorrect, FlagsCorrect, PTL

\* The close code tells the truth, in whatever order the goroutines fail.
THEOREM CloseCodesAreHonest == Spec => []CloseCodeHonest
<1>1. IInv => CloseCodeHonest
      BY DEF IInv, Control
<1> QED  BY <1>1, IInvCorrect, PTL

---------------------------------------------------------------------------
(* The pumps.                                                              *)

\* The senders number their frames, and Java sends no client_debug.
Numbered ==
    /\ \A i \in 1..Len(browserSent) : browserSent[i].n = i
    /\ \A i \in 1..Len(javaSent) : javaSent[i].n = i /\ javaSent[i].kind \in {"game", "bad"}

\* A pump at p that has read k frames of sent has dealt with all of them, or
\* with all but the one it is about to write or has failed on.
Pumped(p, k, sent, got) ==
    \E m \in Nat :
        /\ Through(m, sent, got)
        /\ m <= k
        /\ p \in {"off", "loop"} => m = k
        /\ p = "write" => m = k - 1 /\ sent[k].kind = "game"

Pumps ==
    /\ Pumped(pc[b2j], seen[b2j], browserSent, javaGot)
    /\ Pumped(pc[j2b], seen[j2b], javaSent, browserGot)

RelayInv == IInv /\ Numbered /\ Pumps

\* What the sender sends next changes nothing about the frames before it.
LEMMA ThroughSend ==
  ASSUME NEW sent \in Seq(Frame), NEW got \in Seq(Frame), NEW m \in Nat, m <= Len(sent),
         Through(m, sent, got), NEW more \in Seq(Frame), Len(more) = Len(sent) + 1,
         \A i \in 1..Len(sent) : more[i] = sent[i]
  PROVE  Through(m, more, got)
<1>1. /\ \A n \in 1..m : sent[n].kind # "bad"
      /\ {got[i].n : i \in 1..Len(got)} = {n \in 1..m : sent[n].kind = "game"}
      /\ \A i \in 1..Len(got) : got[i] = sent[got[i].n]
      /\ \A i, j \in 1..Len(got) : i < j => got[i].n < got[j].n
      BY Zenon DEF Through
<1>2. \A n \in 1..m : n \in 1..Len(sent) /\ more[n] = sent[n]
      OBVIOUS
<1>3. {n \in 1..m : more[n].kind = "game"} = {n \in 1..m : sent[n].kind = "game"}
      BY <1>2
<1>4. \A i \in 1..Len(got) : got[i].n \in 1..m
      BY <1>1
<1>5. \A i \in 1..Len(got) : got[i] = more[got[i].n]
      BY <1>1, <1>2, <1>4
<1>6. \A n \in 1..m : more[n].kind # "bad"
      BY <1>1, <1>2
<1> QED  BY <1>1, <1>3, <1>5, <1>6, Zenon DEF Through

\* A frame that stays in the gateway.
LEMMA ThroughSkip ==
  ASSUME NEW sent \in Seq(Frame), NEW got \in Seq(Frame), NEW m \in Nat,
         Through(m, sent, got), sent[m + 1].kind \notin {"game", "bad"}
  PROVE  Through(m + 1, sent, got)
<1>1. /\ \A n \in 1..m : sent[n].kind # "bad"
      /\ {got[i].n : i \in 1..Len(got)} = {n \in 1..m : sent[n].kind = "game"}
      /\ \A i \in 1..Len(got) : got[i] = sent[got[i].n]
      /\ \A i, j \in 1..Len(got) : i < j => got[i].n < got[j].n
      BY Zenon DEF Through
<1>2. \A n : n \in 1..(m + 1) <=> n \in 1..m \/ n = m + 1
      OBVIOUS
<1>3. {n \in 1..(m + 1) : sent[n].kind = "game"} = {n \in 1..m : sent[n].kind = "game"}
      BY <1>2
<1>4. \A n \in 1..(m + 1) : sent[n].kind # "bad"
      BY <1>1, <1>2
<1> QED  BY <1>1, <1>3, <1>4, Zenon DEF Through

\* A frame that is written through.
LEMMA ThroughWrite ==
  ASSUME NEW sent \in Seq(Frame), NEW got \in Seq(Frame), NEW m \in Nat,
         Through(m, sent, got), NEW f \in Frame, f = sent[m + 1], f.n = m + 1, f.kind = "game"
  PROVE  Through(m + 1, sent, Append(got, f))
<1>1. /\ \A n \in 1..m : sent[n].kind # "bad"
      /\ {got[i].n : i \in 1..Len(got)} = {n \in 1..m : sent[n].kind = "game"}
      /\ \A i \in 1..Len(got) : got[i] = sent[got[i].n]
      /\ \A i, j \in 1..Len(got) : i < j => got[i].n < got[j].n
      BY Zenon DEF Through
<1> DEFINE more == Append(got, f)
<1>2. \A n : n \in 1..(m + 1) <=> n \in 1..m \/ n = m + 1
      OBVIOUS
<1>3. /\ Len(got) \in Nat /\ Len(more) = Len(got) + 1 /\ more[Len(got) + 1] = f
      /\ \A i \in 1..Len(got) : more[i] = got[i]
      OBVIOUS
<1>4. \A i : i \in 1..Len(more) <=> i \in 1..Len(got) \/ i = Len(got) + 1
      BY <1>3
<1>5. \A i \in 1..Len(got) : got[i].n \in 1..m /\ got[i].n < m + 1
      BY <1>1
<1> HIDE DEF more
<1>6. {more[i].n : i \in 1..Len(more)} = {got[i].n : i \in 1..Len(got)} \cup {m + 1}
      BY <1>3, <1>4
<1>7. {n \in 1..(m + 1) : sent[n].kind = "game"} = {n \in 1..m : sent[n].kind = "game"} \cup {m + 1}
      BY <1>2
<1>8. \A i \in 1..Len(more) : more[i] = sent[more[i].n]
      BY <1>1, <1>3, <1>4
<1>9. \A i, j \in 1..Len(more) : i < j => more[i].n < more[j].n
  <2> SUFFICES ASSUME NEW i \in 1..Len(more), NEW j \in 1..Len(more), i < j
               PROVE  more[i].n < more[j].n
      OBVIOUS
  <2>1. i \in 1..Len(got)
        BY <1>3
  <2>2. CASE j \in 1..Len(got)
        BY <1>1, <1>3, <2>1, <2>2
  <2>3. CASE j = Len(got) + 1
        BY <1>3, <1>5, <2>1, <2>3
  <2> QED  BY <1>4, <2>2, <2>3
<1>10. \A n \in 1..(m + 1) : sent[n].kind # "bad"
      BY <1>1, <1>2
<1>11. {more[i].n : i \in 1..Len(more)} = {n \in 1..(m + 1) : sent[n].kind = "game"}
      BY <1>1, <1>6, <1>7, Zenon
<1>12. Through(m + 1, sent, more)
      BY <1>8, <1>9, <1>10, <1>11, Zenon DEF Through
<1> QED  BY <1>12 DEF more

\* Where a pump may go without touching a frame.
Onward(p, q) == q = p \/ q \in {"report", "cancel", "done"} \/ (p = "off" /\ q = "loop")

LEMMA PumpedOnward ==
  ASSUME NEW p, NEW q, NEW k \in Nat, NEW sent, NEW got, Pumped(p, k, sent, got), Onward(p, q)
  PROVE  Pumped(q, k, sent, got)
  BY DEF Pumped, Onward

LEMMA PumpedSend ==
  ASSUME NEW p, NEW k \in Nat, NEW sent \in Seq(Frame), NEW got \in Seq(Frame),
         Pumped(p, k, sent, got), k <= Len(sent),
         NEW f \in Frame
  PROVE  Pumped(p, k, Append(sent, f), got)
<1>1. /\ Append(sent, f) \in Seq(Frame) /\ Len(Append(sent, f)) = Len(sent) + 1
      /\ \A i \in 1..Len(sent) : Append(sent, f)[i] = sent[i]
      /\ Len(sent) \in Nat
      OBVIOUS
<1>2. PICK m \in Nat : /\ Through(m, sent, got) /\ m <= k
                       /\ p \in {"off", "loop"} => m = k
                       /\ p = "write" => m = k - 1 /\ sent[k].kind = "game"
      BY DEF Pumped
<1>3. m <= Len(sent)
      BY <1>1, <1>2
<1>4. Through(m, Append(sent, f), got)
      BY <1>1, <1>2, <1>3, ThroughSend
<1>5. p = "write" => Append(sent, f)[k].kind = "game"
  <2>1. p = "write" => k \in 1..Len(sent)
        BY <1>1, <1>2
  <2> QED  BY <1>1, <1>2, <2>1
<1> QED  BY <1>2, <1>4, <1>5 DEF Pumped

LEMMA PumpedRead ==
  ASSUME NEW q, NEW k \in Nat, NEW sent \in Seq(Frame), NEW got \in Seq(Frame),
         Pumped("loop", k, sent, got),
         \/ q = "write" /\ sent[k + 1].kind = "game"
         \/ q = "loop" /\ sent[k + 1].kind \notin {"game", "bad"}
         \/ q = "report"
  PROVE  Pumped(q, k + 1, sent, got)
<1>1. Through(k, sent, got)
      BY DEF Pumped
<1>2. CASE q = "loop" /\ sent[k + 1].kind \notin {"game", "bad"}
      BY <1>1, <1>2, ThroughSkip DEF Pumped
<1>3. CASE q = "report" \/ (q = "write" /\ sent[k + 1].kind = "game")
      BY <1>1, <1>3 DEF Pumped
<1> QED  BY <1>2, <1>3

LEMMA PumpedWrite ==
  ASSUME NEW k \in Nat, NEW sent \in Seq(Frame), NEW got \in Seq(Frame),
         Pumped("write", k, sent, got), sent[k] \in Frame, sent[k].n = k
  PROVE  Pumped("loop", k, sent, Append(got, sent[k]))
<1>1. PICK m \in Nat : Through(m, sent, got) /\ m = k - 1 /\ sent[k].kind = "game"
      BY DEF Pumped
<1>2. m + 1 = k
      BY <1>1
<1>3. Through(k, sent, Append(got, sent[k]))
      BY <1>1, <1>2, ThroughWrite
<1> QED  BY <1>3 DEF Pumped

\* The steps that touch no frame.
LEMMA StaysRelayed ==
  ASSUME RelayInv, UNCHANGED frames, Onward(pc[b2j], pc'[b2j]), Onward(pc[j2b], pc'[j2b])
  PROVE  Numbered' /\ Pumps'
<1>1. /\ seen[b2j] \in Nat /\ seen[j2b] \in Nat
      /\ UNCHANGED <<browserSent, javaGot, javaSent, browserGot, seen>>
      BY DEF RelayInv, IInv, Framed, frames
<1>2. Pumped(pc'[b2j], seen[b2j], browserSent, javaGot) /\ Pumped(pc'[j2b], seen[j2b], javaSent, browserGot)
      BY <1>1, PumpedOnward DEF RelayInv, Pumps
<1> QED  BY <1>1, <1>2 DEF RelayInv, Numbered, Pumps

LEMMA ReadBrowserRelays == ASSUME RelayInv, ReadBrowser PROVE Numbered' /\ Pumps'
<1>1. /\ pc[b2j] = "loop" /\ UNCHANGED <<browserSent, javaGot, javaSent, browserGot>>
      /\ IInv /\ Framed /\ Numbered /\ Pumps
      BY DEF ReadBrowser, RelayInv, IInv
<1>2. CASE /\ BrowserFrame(browserSent[seen[b2j] + 1].kind)
           /\ seen' = [seen EXCEPT ![b2j] = @ + 1]
  <2>1. /\ seen'[b2j] = seen[b2j] + 1 /\ seen'[j2b] = seen[j2b] /\ seen[b2j] \in Nat
        BY <1>1, <1>2 DEF Framed
  <2>2. pc'[j2b] = pc[j2b]
        BY <1>1, <1>2, PcFacts DEF BrowserFrame, Fail
  <2>3. \/ pc'[b2j] = "write" /\ browserSent[seen[b2j] + 1].kind = "game"
        \/ pc'[b2j] = "loop" /\ browserSent[seen[b2j] + 1].kind \notin {"game", "bad"}
        \/ pc'[b2j] = "report"
        BY <1>1, <1>2, PcFacts DEF BrowserFrame, Fail
  <2>4. Pumped("loop", seen[b2j], browserSent, javaGot)
        BY <1>1 DEF Pumps
  <2>5. Pumped(pc'[b2j], seen[b2j] + 1, browserSent, javaGot)
        BY <1>1, <2>1, <2>3, <2>4, PumpedRead DEF Framed
  <2> QED  BY <1>1, <2>1, <2>2, <2>5 DEF Numbered, Pumps
<1>3. CASE \E error : Fail(b2j, error) /\ UNCHANGED seen
  <2>1. pc'[b2j] = "report" /\ pc'[j2b] = pc[j2b]
        BY <1>1, <1>3, PcFacts DEF Fail
  <2> QED  BY <1>1, <1>3, <2>1, StaysRelayed DEF frames, Onward
<1> QED  BY <1>2, <1>3 DEF ReadBrowser, SocketFails

LEMMA WriteJavaRelays == ASSUME RelayInv, WriteJava PROVE Numbered' /\ Pumps'
<1>1. /\ pc[b2j] = "write" /\ javaGot' = Append(javaGot, browserSent[seen[b2j]])
      /\ UNCHANGED <<browserSent, javaSent, browserGot, seen>>
      /\ pc' = [pc EXCEPT ![b2j] = "loop"]
      /\ IInv /\ Framed /\ Numbered /\ Pumps
      BY DEF WriteJava, RelayInv, IInv
<1>2. pc'[b2j] = "loop" /\ pc'[j2b] = pc[j2b]
      BY <1>1, PcFacts
<1>3. seen[b2j] \in Nat /\ browserSent[seen[b2j]] \in Frame /\ browserSent[seen[b2j]].n = seen[b2j]
      BY <1>1 DEF Framed, Numbered
<1>4. Pumped("write", seen[b2j], browserSent, javaGot)
      BY <1>1 DEF Pumps
<1>5. Pumped("loop", seen[b2j], browserSent, Append(javaGot, browserSent[seen[b2j]]))
      BY <1>1, <1>3, <1>4, PumpedWrite DEF Framed
<1> QED  BY <1>1, <1>2, <1>5 DEF Numbered, Pumps

LEMMA ReadJavaRelays == ASSUME RelayInv, ReadJava PROVE Numbered' /\ Pumps'
<1>1. /\ pc[j2b] = "loop" /\ UNCHANGED <<browserSent, javaGot, javaSent, browserGot>>
      /\ IInv /\ Framed /\ Numbered /\ Pumps
      BY DEF ReadJava, RelayInv, IInv
<1>2. CASE /\ seen[j2b] < Len(javaSent) /\ seen' = [seen EXCEPT ![j2b] = @ + 1]
           /\ \/ javaSent[seen[j2b] + 1].kind # "bad" /\ pc' = [pc EXCEPT ![j2b] = "write"]
              \/ Fail(j2b, "violation")
  <2>1. /\ seen'[j2b] = seen[j2b] + 1 /\ seen'[b2j] = seen[b2j] /\ seen[j2b] \in Nat
        /\ seen[j2b] + 1 \in 1..Len(javaSent)
        BY <1>1, <1>2 DEF Framed
  <2>2. pc'[b2j] = pc[b2j]
        BY <1>1, <1>2, PcFacts DEF Fail
  <2>3. \/ pc'[j2b] = "write" /\ javaSent[seen[j2b] + 1].kind = "game"
        \/ pc'[j2b] = "report"
        BY <1>1, <1>2, <2>1, PcFacts DEF Fail, Numbered
  <2>4. Pumped("loop", seen[j2b], javaSent, browserGot)
        BY <1>1 DEF Pumps
  <2>5. Pumped(pc'[j2b], seen[j2b] + 1, javaSent, browserGot)
        BY <1>1, <2>1, <2>3, <2>4, PumpedRead DEF Framed
  <2> QED  BY <1>1, <2>1, <2>2, <2>5 DEF Numbered, Pumps
<1>3. CASE Fail(j2b, "violation") /\ UNCHANGED seen
  <2>1. pc'[j2b] = "report" /\ pc'[b2j] = pc[b2j]
        BY <1>1, <1>3, PcFacts DEF Fail
  <2> QED  BY <1>1, <1>3, <2>1, StaysRelayed DEF frames, Onward
<1> QED  BY <1>2, <1>3 DEF ReadJava

LEMMA WriteBrowserRelays == ASSUME RelayInv, WriteBrowser PROVE Numbered' /\ Pumps'
<1>1. /\ pc[j2b] = "write" /\ UNCHANGED <<browserSent, javaGot, javaSent, seen>>
      /\ IInv /\ Framed /\ Numbered /\ Pumps
      BY DEF WriteBrowser, RelayInv, IInv
<1>2. CASE /\ browserGot' = Append(browserGot, javaSent[seen[j2b]])
           /\ pc' = [pc EXCEPT ![j2b] = "loop"]
  <2>1. pc'[j2b] = "loop" /\ pc'[b2j] = pc[b2j]
        BY <1>1, <1>2, PcFacts
  <2>2. seen[j2b] \in Nat /\ javaSent[seen[j2b]] \in Frame /\ javaSent[seen[j2b]].n = seen[j2b]
        BY <1>1 DEF Framed, Numbered
  <2>3. Pumped("write", seen[j2b], javaSent, browserGot)
        BY <1>1 DEF Pumps
  <2>4. Pumped("loop", seen[j2b], javaSent, Append(browserGot, javaSent[seen[j2b]]))
        BY <1>1, <2>2, <2>3, PumpedWrite DEF Framed
  <2> QED  BY <1>1, <1>2, <2>1, <2>4 DEF Numbered, Pumps
<1>3. CASE \E error : Fail(j2b, error) /\ UNCHANGED browserGot
  <2>1. pc'[j2b] = "report" /\ pc'[b2j] = pc[b2j]
        BY <1>1, <1>3, PcFacts DEF Fail
  <2> QED  BY <1>1, <1>3, <2>1, StaysRelayed DEF frames, Onward
<1> QED  BY <1>2, <1>3 DEF WriteBrowser, SocketFails

LEMMA ExternalRelays == ASSUME RelayInv, External PROVE Numbered' /\ Pumps'
<1>1. /\ UNCHANGED <<pc, javaGot, browserGot, seen>>
      /\ IInv /\ Framed /\ Numbered /\ Pumps
      BY DEF External, BrowserSends, JavaSends, BrowserEnds, JavaEnds, SessionEnds, Peer, RelayInv, IInv
<1>2. ASSUME NEW kind \in Kind, BrowserSends(kind) PROVE Numbered' /\ Pumps'
  <2>1. PICK f \in Frame : f = [n |-> Len(browserSent) + 1, kind |-> kind]
    <3>1. Len(browserSent) \in Nat
          BY <1>1 DEF Framed
    <3>2. [n |-> Len(browserSent) + 1, kind |-> kind] \in Frame
          BY <3>1 DEF Frame
    <3> QED  BY <3>2, Zenon
  <2>2. browserSent' = Append(browserSent, f) /\ UNCHANGED javaSent
        BY <1>2, <2>1 DEF BrowserSends
  <2>3. Pumped(pc[b2j], seen[b2j], Append(browserSent, f), javaGot)
        BY <1>1, PumpedSend DEF Framed, Pumps
  <2>4. Numbered'
        BY <1>1, <2>1, <2>2 DEF Framed, Numbered
  <2> QED  BY <1>1, <2>2, <2>3, <2>4 DEF Pumps
<1>3. ASSUME NEW kind \in {"game", "bad"}, JavaSends(kind) PROVE Numbered' /\ Pumps'
  <2>1. PICK f \in Frame : f = [n |-> Len(javaSent) + 1, kind |-> kind]
    <3>1. Len(javaSent) \in Nat
          BY <1>1 DEF Framed
    <3>2. [n |-> Len(javaSent) + 1, kind |-> kind] \in Frame
          BY <3>1 DEF Frame, Kind
    <3> QED  BY <3>2, Zenon
  <2>2. javaSent' = Append(javaSent, f) /\ UNCHANGED browserSent
        BY <1>3, <2>1 DEF JavaSends
  <2>3. Pumped(pc[j2b], seen[j2b], Append(javaSent, f), browserGot)
        BY <1>1, PumpedSend DEF Framed, Pumps
  <2>4. Numbered'
        BY <1>1, <2>1, <2>2 DEF Framed, Numbered
  <2> QED  BY <1>1, <2>2, <2>3, <2>4 DEF Pumps
<1>4. CASE BrowserEnds \/ JavaEnds \/ SessionEnds
  <2>1. UNCHANGED frames
        BY <1>1, <1>4 DEF BrowserEnds, JavaEnds, SessionEnds, frames
  <2> QED  BY <1>1, <2>1, StaysRelayed DEF Onward
<1> QED  BY <1>2, <1>3, <1>4 DEF External

LEMMA QuietRelays ==
  ASSUME RelayInv,
         \/ Main \/ WriteJavaFails \/ Select \/ PingAnswered \/ PingFails
         \/ (\E g \in Goroutine : Finish(g)) \/ UNCHANGED vars
  PROVE  Numbered' /\ Pumps'
<1>1. IInv /\ UNCHANGED frames
      BY DEF RelayInv, Main, CheckSession, BeginSession, Accept, CloseSocket, Return, WriteJavaFails,
             Select, PingAnswered, PingFails, Finish, vars
<1>2. \A g \in {b2j, j2b} : Onward(pc[g], pc'[g])
  <2>1. CASE CheckSession \/ BeginSession \/ CloseSocket \/ Return \/ UNCHANGED vars
        BY <2>1 DEF CheckSession, BeginSession, CloseSocket, Return, vars, Onward
  <2>2. CASE Accept
    <3>1. \A g \in Goroutine : pc[g] = "off"
          BY <1>1, <2>2 DEF Accept, IInv, Control, Quiet
    <3>2. pc' = [g \in Goroutine |-> "loop"] \/ pc' = pc
          BY <2>2 DEF Accept
    <3> QED  BY <3>1, <3>2 DEF Onward
  <2>3. CASE WriteJavaFails
    <3>1. pc' = [pc EXCEPT ![b2j] = "report"]
          BY <2>3 DEF WriteJavaFails, Fail
    <3>2. pc'[b2j] = "report" /\ pc'[j2b] = pc[j2b]
          BY <1>1, <3>1, PcFacts
    <3> QED  BY <3>2 DEF Onward
  <2>4. CASE Select \/ PingAnswered \/ PingFails
    <3>1. \E to \in {"loop", "write", "ping", "report"} : pc' = [pc EXCEPT ![keepAlive] = to]
          BY <2>4 DEF Select, PingAnswered, TouchSession, PingFails, Fail
    <3>2. pc'[b2j] = pc[b2j] /\ pc'[j2b] = pc[j2b]
          BY <1>1, <3>1, PcFacts
    <3> QED  BY <3>2 DEF Onward
  <2>5. ASSUME NEW g \in Goroutine, Finish(g) PROVE <1>2!:
    <3>1. PICK to \in {"cancel", "done"} : pc' = [pc EXCEPT ![g] = to]
          BY <2>5 DEF Finish
    <3>2. \A h \in Goroutine : pc'[h] = IF h = g THEN to ELSE pc[h]
          BY <1>1, <3>1 DEF IInv, Control, Typed
    <3> QED  BY <3>2 DEF Onward
  <2> QED  BY <2>1, <2>2, <2>3, <2>4, <2>5 DEF Main
<1> QED  BY <1>1, <1>2, StaysRelayed

LEMMA RelayInvCorrect == Spec => []RelayInv
<1>1. Init => RelayInv
  <2> SUFFICES ASSUME Init PROVE RelayInv
      OBVIOUS
  <2>1. /\ browserSent = <<>> /\ javaGot = <<>> /\ javaSent = <<>> /\ browserGot = <<>>
        /\ seen[b2j] = 0 /\ seen[j2b] = 0 /\ pc[b2j] = "off" /\ pc[j2b] = "off"
        BY DEF Init
  <2>2. Through(0, <<>>, <<>>)
        BY DEF Through
  <2> QED  BY <2>1, <2>2, IInvInit DEF RelayInv, Numbered, Pumps, Pumped
<1>2. RelayInv /\ [Next]_vars => RelayInv'
  <2> SUFFICES ASSUME RelayInv, [Next]_vars PROVE RelayInv'
      OBVIOUS
  <2>1. IInv'
        BY IInvNext DEF RelayInv
  <2>2. Numbered' /\ Pumps'
        BY QuietRelays, ExternalRelays, ReadBrowserRelays, WriteJavaRelays, ReadJavaRelays, WriteBrowserRelays
        DEF Next
  <2> QED  BY <2>1, <2>2 DEF RelayInv
<1> QED  BY <1>1, <1>2, PTL DEF Spec

\* Each side gets what the other sent, in order, nothing twice, nothing left
\* out, and nothing past the first malformed frame, however many frames are
\* under way when the connection goes down (server.go:614-666).
THEOREM FramesAreRelayed == Spec => []Relayed
<1>1. RelayInv => Relayed
  <2> SUFFICES ASSUME RelayInv PROVE Relayed
      OBVIOUS
  <2>1. /\ seen[b2j] \in Nat /\ seen[b2j] <= Len(browserSent) /\ Len(browserSent) \in Nat
        /\ seen[j2b] \in Nat /\ seen[j2b] <= Len(javaSent) /\ Len(javaSent) \in Nat
        BY DEF RelayInv, IInv, Framed
  <2>2. PICK m \in Nat : Through(m, browserSent, javaGot) /\ m <= seen[b2j]
        BY DEF RelayInv, Pumps, Pumped
  <2>3. PICK k \in Nat : Through(k, javaSent, browserGot) /\ k <= seen[j2b]
        BY DEF RelayInv, Pumps, Pumped
  <2>4. m \in 0..Len(browserSent) /\ k \in 0..Len(javaSent)
        BY <2>1, <2>2, <2>3
  <2> QED  BY <2>2, <2>3, <2>4 DEF Relayed
<1> QED  BY <1>1, RelayInvCorrect, PTL

---------------------------------------------------------------------------
(* The report channel.                                                     *)

\* Whether a goroutine has reported.
Reported(g) == IF pc[g] \in {"cancel", "done"} THEN 1 ELSE 0

\* Each goroutine reports once, so the channel holds no more reports than
\* there are goroutines past theirs.
OneReportEach == Len(errc) <= Reported(b2j) + Reported(j2b) + Reported(keepAlive)

LEMMA LenIsNatural == ASSUME NEW S, NEW s \in Seq(S) PROVE Len(s) \in Nat
  OBVIOUS

LEMMA OneReportEachNext == IInv /\ OneReportEach /\ [Next]_vars => OneReportEach'
<1> SUFFICES ASSUME IInv, OneReportEach, [Next]_vars PROVE OneReportEach'
    OBVIOUS
<1>1. /\ pc \in [Goroutine -> {"off", "loop", "write", "ping", "report", "cancel", "done"}]
      /\ errc \in Seq(Failure \ {"none"}) /\ Len(errc) \in Nat
  <2>1. Typed
        BY DEF IInv, Control
  <2> QED  BY <2>1, LenIsNatural DEF Typed
<1>2. ASSUME NEW g \in Goroutine, Finish(g) PROVE OneReportEach'
  <2>1. CASE /\ pc[g] = "report" /\ errc' = Append(errc, failure[g])
             /\ pc' = [pc EXCEPT ![g] = "cancel"]
    <3>1. failure[g] \in Failure \ {"none"}
          BY <2>1 DEF IInv, Control, Typed
    <3>2. Len(errc') = Len(errc) + 1
          BY <1>1, <2>1, <3>1, AppendFacts
    <3>3. \A h \in Goroutine : pc'[h] = IF h = g THEN "cancel" ELSE pc[h]
          BY <1>1, <2>1
    <3> QED  BY <1>1, <2>1, <3>2, <3>3 DEF OneReportEach, Reported
  <2>2. CASE pc[g] = "cancel" /\ pc' = [pc EXCEPT ![g] = "done"] /\ UNCHANGED errc
    <3>1. \A h \in Goroutine : pc'[h] = IF h = g THEN "done" ELSE pc[h]
          BY <1>1, <2>2
    <3> QED  BY <1>1, <2>2, <3>1 DEF OneReportEach, Reported
  <2> QED  BY <1>2, <2>1, <2>2 DEF Finish
<1>3. CASE CloseSocket
  <2>1. errc # <<>> /\ errc' = Tail(errc) /\ pc' = pc
        BY <1>3 DEF CloseSocket
  <2>2. Len(errc') = Len(errc) - 1
        BY <1>1, <2>1, TailFacts
  <2> QED  BY <1>1, <2>1, <2>2 DEF OneReportEach, Reported
<1>4. ASSUME errc' = errc, \A h \in Goroutine : pc'[h] = pc[h] \/ pc[h] \notin {"cancel", "done"}
      PROVE  OneReportEach'
  <2>1. ASSUME NEW h \in Goroutine
        PROVE  Reported(h) \in Nat /\ Reported(h)' \in Nat /\ Reported(h)' >= Reported(h)
        BY <1>4 DEF Reported
  <2> HIDE DEF Reported
  <2>2. b2j \in Goroutine /\ j2b \in Goroutine /\ keepAlive \in Goroutine
        BY DEF Goroutine
  <2> QED  BY <1>1, <1>4, <2>1, <2>2 DEF OneReportEach
<1>5. CASE CheckSession \/ BeginSession \/ Return \/ External \/ UNCHANGED vars
  <2>1. UNCHANGED <<pc, errc>>
        BY <1>5 DEF CheckSession, BeginSession, Return, External, BrowserSends, JavaSends, BrowserEnds,
           JavaEnds, SessionEnds, Peer, vars
  <2> QED  BY <1>4, <2>1
<1>6. CASE Accept
  <2>1. errc' = errc /\ \A h \in Goroutine : pc[h] = "off" /\ (pc'[h] = "loop" \/ pc' = pc)
        BY <1>6 DEF Accept, IInv, Control, Quiet
  <2> QED  BY <1>4, <2>1
<1>7. ASSUME NEW g \in Goroutine, pc[g] \in {"loop", "write", "ping"}, errc' = errc,
             \/ pc' = pc
             \/ \E to : pc' = [pc EXCEPT ![g] = to]
      PROVE  OneReportEach'
  <2>1. \A h \in Goroutine : h = g \/ pc'[h] = pc[h]
        BY <1>1, <1>7
  <2> QED  BY <1>4, <1>7, <2>1
<1>8. CASE ReadBrowser \/ WriteJava \/ WriteJavaFails
      BY <1>7, <1>8 DEF ReadBrowser, BrowserFrame, SocketFails, WriteJava, WriteJavaFails, Fail
<1>9. CASE ReadJava \/ WriteBrowser
      BY <1>7, <1>9 DEF ReadJava, WriteBrowser, SocketFails, Fail
<1>10. CASE Select \/ PingAnswered \/ PingFails
      BY <1>7, <1>10 DEF Select, PingAnswered, Pong, TouchSession, PingFails, Fail
<1> QED  BY <1>2, <1>3, <1>5, <1>6, <1>8, <1>9, <1>10 DEF Next, Main

\* A goroutine that fails never waits to say so, although playWS takes one
\* report only: this is why none is left behind (server.go:459-474).
THEOREM ReportsNeverBlock ==
  Spec => [](\A g \in Goroutine : pc[g] = "report" => Len(errc) < ErrcCapacity)
<1>1. Init => OneReportEach
  <2> SUFFICES ASSUME Init PROVE OneReportEach
      OBVIOUS
  <2>1. errc = <<>> /\ \A g \in Goroutine : pc[g] = "off"
        BY DEF Init
  <2> QED  BY <2>1 DEF OneReportEach, Reported
<1>2. IInv /\ OneReportEach => \A g \in Goroutine : pc[g] = "report" => Len(errc) < ErrcCapacity
  <2> SUFFICES ASSUME IInv, OneReportEach, NEW g \in Goroutine, pc[g] = "report"
               PROVE  Len(errc) < 3
      BY DEF ErrcCapacity
  <2>1. Reported(g) = 0 /\ \A h \in Goroutine : Reported(h) \in 0..1
        BY DEF Reported
  <2>2. Len(errc) \in Nat
    <3>1. Typed
          BY DEF IInv, Control
    <3> QED  BY <3>1, LenIsNatural DEF Typed
  <2> HIDE DEF Reported
  <2> QED  BY <2>1, <2>2 DEF OneReportEach
<1> QED  BY <1>1, <1>2, OneReportEachNext, IInvCorrect, PTL DEF Spec

---------------------------------------------------------------------------
(* What Teardown rests on: nothing is left to wait for.                    *)

\* playWS takes a report with the WebSocket closed, and is back only with
\* everything closed and cancelled, if anything was started.
Torn ==
    /\ main = "closing" => ws = "closed"
    /\ main = "returned" =>
          \/ \A g \in Goroutine : pc[g] = "off"
          \/ ws = "closed" /\ java = "closed" /\ cancelled

\* Goroutine g goes on without the browser or Java doing anything for it: its
\* report finds room, or its connection is closed, or its context cancelled.
WayOut(g) ==
    \/ pc[g] = "report" /\ Len(errc) < ErrcCapacity
    \/ pc[g] = "cancel"
    \/ g = b2j /\ pc[g] = "loop" /\ (ws = "closed" \/ cancelled)
    \/ g = b2j /\ pc[g] = "write" /\ java = "closed"
    \/ g = j2b /\ pc[g] = "loop" /\ java = "closed"
    \/ g = j2b /\ pc[g] = "write" /\ (ws = "closed" \/ cancelled)
    \/ g = keepAlive /\ pc[g] = "loop" /\ cancelled
    \/ g = keepAlive /\ pc[g] = "ping"

\* Where a goroutine can be.
PlacesOf(g) ==
    {"off", "loop", IF g = keepAlive THEN "ping" ELSE "write", "report", "cancel", "done"}

Placed ==
    /\ \A g \in Goroutine : pc[g] \in PlacesOf(g)
    /\ main \in {"wait", "closing"} => \A g \in Goroutine : pc[g] # "off"
    /\ \A g, h \in Goroutine : pc[g] = "off" => pc[h] = "off"

\* Once a goroutine has failed, it can report, or playWS can go on, or all is
\* closed and cancelled; and then every goroutine that is left has a way out,
\* whatever browser and Java do (server.go:459-491).
NeverStuck ==
    /\ (\E g \in Goroutine : pc[g] \in {"report", "cancel", "done"}) =>
          \/ \E g \in Goroutine : pc[g] = "report" /\ Len(errc) < ErrcCapacity
          \/ main = "wait" /\ errc # <<>>
          \/ main = "closing"
          \/ main = "returned" /\ ws = "closed" /\ java = "closed" /\ cancelled
    /\ main = "returned" =>
          \A g \in Goroutine : pc[g] \in {"off", "done"} \/ WayOut(g)

\* What a step of goroutine g leaves alone.
LEMMA GoroutineStep ==
  ASSUME IInv, Torn, Placed, NEW g \in Goroutine, pc[g] # "off",
         pc' = pc \/ (\E to \in PlacesOf(g) \ {"off"} : pc' = [pc EXCEPT ![g] = to]),
         UNCHANGED <<main, java>>, ws' \in {ws, "closed"}, cancelled' \in {cancelled, TRUE}
  PROVE  Torn' /\ Placed'
<1>1. pc \in [Goroutine -> {"off", "loop", "write", "ping", "report", "cancel", "done"}]
      BY DEF IInv, Control, Typed
<1>2. \A h \in Goroutine : pc'[h] = pc[h] \/ (h = g /\ pc'[h] \in PlacesOf(g) \ {"off"})
      BY <1>1
<1>3. \A h \in Goroutine : pc[h] # "off" /\ pc'[h] # "off"
  <2>1. \A h \in Goroutine : pc[h] # "off"
        BY DEF Placed
  <2> QED  BY <1>2, <2>1
<1>4. Placed'
  <2>1. \A h \in Goroutine : pc'[h] \in PlacesOf(h)
        BY <1>2 DEF Placed
  <2> QED  BY <1>3, <2>1 DEF Placed
<1>5. Torn'
  <2>1. main = "returned" => ws = "closed" /\ java = "closed" /\ cancelled
        BY DEF Torn
  <2> QED  BY <1>3, <2>1 DEF Torn
<1> QED  BY <1>4, <1>5

LEMMA TornNext == IInv /\ Torn /\ Placed /\ [Next]_vars => Torn' /\ Placed'
<1> SUFFICES ASSUME IInv, Torn, Placed, [Next]_vars PROVE Torn' /\ Placed'
    OBVIOUS
<1>1. CASE CheckSession \/ BeginSession
  <2>1. /\ main \in {"check", "begin"} /\ main' \in {"begin", "accept", "returned"}
        /\ UNCHANGED <<pc, cancelled, ws>>
        BY <1>1 DEF CheckSession, BeginSession
  <2>2. \A g \in Goroutine : pc[g] = "off"
        BY <2>1 DEF IInv, Control, Quiet
  <2> QED  BY <2>1, <2>2 DEF Torn, Placed
<1>2. CASE Accept
  <2>1. \A g \in Goroutine : pc[g] = "off"
        BY <1>2 DEF Accept, IInv, Control, Quiet
  <2>2. CASE main' = "wait" /\ pc' = [g \in Goroutine |-> "loop"]
    <3>1. \A g \in Goroutine : pc'[g] = "loop"
          BY <2>2
    <3> QED  BY <2>2, <3>1 DEF Torn, Placed, PlacesOf
  <2>3. CASE main' = "returned" /\ UNCHANGED pc
        BY <2>1, <2>3 DEF Torn, Placed
  <2> QED  BY <1>2, <2>2, <2>3 DEF Accept
<1>3. CASE CloseSocket
  <2>1. main = "wait" /\ main' = "closing" /\ ws' = "closed" /\ UNCHANGED pc
        BY <1>3 DEF CloseSocket
  <2> QED  BY <2>1 DEF Torn, Placed
<1>4. CASE Return
  <2>1. main = "closing" /\ main' = "returned" /\ cancelled' /\ java' = "closed" /\ UNCHANGED <<pc, ws>>
        BY <1>4 DEF Return
  <2> QED  BY <2>1 DEF Torn, Placed
<1>5. CASE External \/ UNCHANGED vars
  <2>1. UNCHANGED <<main, pc, cancelled, ws, java>>
        BY <1>5 DEF External, BrowserSends, JavaSends, BrowserEnds, JavaEnds, SessionEnds, Peer, vars
  <2> QED  BY <2>1 DEF Torn, Placed
<1>6. ASSUME NEW g \in Goroutine, Finish(g) PROVE Torn' /\ Placed'
  <2>1. /\ pc[g] \in {"report", "cancel"} /\ UNCHANGED <<main, ws, java>> /\ cancelled' \in {cancelled, TRUE}
        /\ pc' = [pc EXCEPT ![g] = "cancel"] \/ pc' = [pc EXCEPT ![g] = "done"]
        BY <1>6 DEF Finish
  <2> QED  BY <2>1, GoroutineStep DEF PlacesOf
<1>7. CASE ReadBrowser \/ WriteJava \/ WriteJavaFails
  <2>1. /\ pc[b2j] \in {"loop", "write"} /\ UNCHANGED <<main, java, cancelled>> /\ ws' \in {ws, "closed"}
        /\ \/ pc' = pc \/ pc' = [pc EXCEPT ![b2j] = "write"]
           \/ pc' = [pc EXCEPT ![b2j] = "loop"] \/ pc' = [pc EXCEPT ![b2j] = "report"]
        BY <1>7 DEF ReadBrowser, BrowserFrame, SocketFails, WriteJava, WriteJavaFails, Fail
  <2> QED  BY <2>1, GoroutineStep DEF PlacesOf
<1>8. CASE ReadJava \/ WriteBrowser
  <2>1. /\ pc[j2b] \in {"loop", "write"} /\ UNCHANGED <<main, java, cancelled>> /\ ws' \in {ws, "closed"}
        /\ \/ pc' = [pc EXCEPT ![j2b] = "write"]
           \/ pc' = [pc EXCEPT ![j2b] = "loop"] \/ pc' = [pc EXCEPT ![j2b] = "report"]
        BY <1>8 DEF ReadJava, WriteBrowser, SocketFails, Fail
  <2> QED  BY <2>1, GoroutineStep DEF PlacesOf
<1>9. CASE Select \/ PingAnswered \/ PingFails
  <2>1. /\ pc[keepAlive] \in {"loop", "ping"} /\ UNCHANGED <<main, java, cancelled>> /\ ws' \in {ws, "closed"}
        /\ \/ pc' = [pc EXCEPT ![keepAlive] = "ping"]
           \/ pc' = [pc EXCEPT ![keepAlive] = "loop"] \/ pc' = [pc EXCEPT ![keepAlive] = "report"]
        BY <1>9 DEF Select, PingAnswered, Pong, TouchSession, PingFails, Fail
  <2> QED  BY <2>1, GoroutineStep DEF PlacesOf
<1> QED  BY <1>1, <1>2, <1>3, <1>4, <1>5, <1>6, <1>7, <1>8, <1>9 DEF Next, Main

\* The safety half of Teardown: it never gets stuck, with any number of frames
\* under way (server.go:459-491).
THEOREM TeardownNeverStuck == Spec => []NeverStuck
<1>1. Init => Torn /\ Placed
  <2> SUFFICES ASSUME Init PROVE Torn /\ Placed
      OBVIOUS
  <2>1. main = "check" /\ \A g \in Goroutine : pc[g] = "off"
        BY DEF Init
  <2> QED  BY <2>1 DEF Torn, Placed, PlacesOf
<1>2. ASSUME IInv, Torn, Placed, \A g \in Goroutine : pc[g] = "report" => Len(errc) < ErrcCapacity
      PROVE  NeverStuck
  <2>1. ASSUME NEW g \in Goroutine, pc[g] \in {"report", "cancel", "done"}
        PROVE  \/ \E h \in Goroutine : pc[h] = "report" /\ Len(errc) < ErrcCapacity
               \/ main = "wait" /\ errc # <<>>
               \/ main = "closing"
               \/ main = "returned" /\ ws = "closed" /\ java = "closed" /\ cancelled
    <3>1. main \in {"wait", "closing", "returned"}
          BY <1>2, <2>1 DEF IInv, Control, Typed, Quiet
    <3>2. CASE main = "wait"
      <4>1. pc[g] = "report" \/ errc # <<>>
            BY <1>2, <2>1, <3>2 DEF IInv, Control, FirstReport
      <4> QED  BY <1>2, <3>2, <4>1
    <3>3. CASE main = "returned"
          BY <1>2, <2>1, <3>3 DEF Torn
    <3> QED  BY <3>1, <3>2, <3>3
  <2>2. ASSUME main = "returned", NEW g \in Goroutine PROVE pc[g] \in {"off", "done"} \/ WayOut(g)
    <3>1. CASE pc[g] = "off"
          BY <3>1
    <3>2. CASE pc[g] # "off"
      <4>1. ws = "closed" /\ java = "closed" /\ cancelled
            BY <1>2, <2>2, <3>2 DEF Torn
      <4>2. pc[g] \in PlacesOf(g) /\ (pc[g] = "report" => Len(errc) < ErrcCapacity)
            BY <1>2 DEF Placed
      <4> QED  BY <3>2, <4>1, <4>2 DEF PlacesOf, WayOut
    <3> QED  BY <3>1, <3>2
  <2> QED  BY <2>1, <2>2 DEF NeverStuck
<1> QED  BY <1>1, <1>2, TornNext, IInvCorrect, ReportsNeverBlock, PTL DEF Spec

---------------------------------------------------------------------------
(* What SocketEndsWithSession and VanishedBrowserNoticed rest on.          *)

\* From now on no pong keeps the socket open.
Doomed == ~sessionLive \/ browser = "vanished"

\* An open socket has its keepalive.
Watched == ws = "open" => pc[keepAlive] # "off"

\* The steps of the keepalive to its end.
KeepAliveLeft ==
    CASE pc[keepAlive] = "loop"   -> 4
      [] pc[keepAlive] = "ping"   -> 3
      [] pc[keepAlive] = "report" -> 2
      [] pc[keepAlive] = "cancel" -> 1
      [] OTHER                    -> 0

\* What is doomed stays so, and the keepalive that moves comes nearer to its
\* end, with a report on the way.
FindsOut ==
    Doomed /\ pc[keepAlive] # "off" => Doomed' /\ (pc'[keepAlive] = pc[keepAlive] \/ KeepAliveLeft' < KeepAliveLeft)

LEMMA KeepAliveStep ==
  ASSUME IInv, Watched, [Next]_vars
  PROVE  Watched' /\ FindsOut
<1>t. /\ pc \in [Goroutine -> {"off", "loop", "write", "ping", "report", "cancel", "done"}]
      /\ keepAlive \in Goroutine /\ keepAlive # b2j /\ keepAlive # j2b
      BY DEF IInv, Control, Typed, Goroutine, keepAlive, b2j, j2b
<1>1. CASE UNCHANGED pc /\ ws' \in {ws, "none", "closed"} /\ UNCHANGED peers
      BY <1>1 DEF Watched, FindsOut, Doomed, peers
<1>2. CASE CheckSession \/ BeginSession \/ CloseSocket \/ Return
  <2>1. UNCHANGED pc /\ ws' \in {ws, "none", "closed"} /\ UNCHANGED peers
        BY <1>2 DEF CheckSession, BeginSession, CloseSocket, Return
  <2> QED  BY <2>1, <1>1
<1>3. CASE Accept
  <2>1. pc[keepAlive] = "off"
        BY <1>3, <1>t DEF Accept, IInv, Control, Quiet
  <2>2. Watched'
        BY <1>3, <1>t DEF Accept, Watched
  <2> QED  BY <2>1, <2>2 DEF FindsOut
<1>4. CASE External
  <2>1. UNCHANGED <<pc, ws>>
        BY <1>4 DEF External, BrowserSends, JavaSends, BrowserEnds, JavaEnds, SessionEnds, Peer
  <2>2. Doomed => Doomed'
        BY <1>4 DEF External, BrowserSends, JavaSends, BrowserEnds, JavaEnds, SessionEnds, Peer, peers, Doomed
  <2> QED  BY <2>1, <2>2 DEF Watched, FindsOut
<1>5. ASSUME NEW g \in Goroutine, NEW to, g # keepAlive, pc' = pc \/ pc' = [pc EXCEPT ![g] = to],
             ws' \in {ws, "closed"}, UNCHANGED peers
      PROVE  Watched' /\ FindsOut
  <2>1. pc'[keepAlive] = pc[keepAlive]
        BY <1>5, <1>t
  <2> QED  BY <1>5, <2>1 DEF Watched, FindsOut, Doomed, peers
<1>6. CASE ReadBrowser \/ WriteJava \/ WriteJavaFails
  <2>1. /\ ws' \in {ws, "closed"} /\ UNCHANGED peers /\ b2j \in Goroutine
        /\ pc' = pc \/ \E to : pc' = [pc EXCEPT ![b2j] = to]
        BY <1>6 DEF ReadBrowser, BrowserFrame, SocketFails, WriteJava, WriteJavaFails, Fail, Goroutine
  <2> QED  BY <2>1, <1>5, <1>t
<1>7. CASE ReadJava \/ WriteBrowser
  <2>1. /\ ws' \in {ws, "closed"} /\ UNCHANGED peers /\ j2b \in Goroutine
        /\ pc' = pc \/ \E to : pc' = [pc EXCEPT ![j2b] = to]
        BY <1>7 DEF ReadJava, WriteBrowser, SocketFails, Fail, Goroutine
  <2> QED  BY <2>1, <1>5, <1>t
<1>8. ASSUME NEW g \in Goroutine, Finish(g) PROVE Watched' /\ FindsOut
  <2>1. /\ pc[g] \in {"report", "cancel"} /\ UNCHANGED <<ws, peers>>
        /\ pc' = [pc EXCEPT ![g] = "cancel"] \/ pc' = [pc EXCEPT ![g] = "done"]
        BY <1>8 DEF Finish
  <2>2. CASE g = keepAlive
    <3>1. \/ pc[keepAlive] = "report" /\ pc'[keepAlive] \in {"cancel", "done"}
          \/ pc[keepAlive] = "cancel" /\ pc'[keepAlive] = "done"
          BY <1>8, <2>2, <1>t DEF Finish
    <3>2. KeepAliveLeft' < KeepAliveLeft
          BY <3>1 DEF KeepAliveLeft
    <3> QED  BY <2>1, <3>1, <3>2 DEF Watched, FindsOut, Doomed, peers
  <2> QED  BY <2>1, <2>2, <1>5
<1>9. CASE Select \/ PingAnswered \/ PingFails
  <2>1. /\ ws' \in {ws, "closed"} /\ UNCHANGED peers
        /\ \/ pc[keepAlive] = "loop" /\ pc'[keepAlive] \in {"ping", "report"}
           \/ pc[keepAlive] = "ping" /\ pc'[keepAlive] = "report"
           \/ pc[keepAlive] = "ping" /\ pc'[keepAlive] = "loop" /\ ~Doomed
        BY <1>9, <1>t DEF Select, PingAnswered, Pong, TouchSession, PingFails, Fail, Doomed
  <2>2. Watched'
        BY <2>1 DEF Watched
  <2>3. Doomed => KeepAliveLeft' < KeepAliveLeft
        BY <2>1 DEF KeepAliveLeft
  <2>4. Doomed => Doomed'
        BY <2>1 DEF Doomed, peers
  <2> QED  BY <2>2, <2>3, <2>4 DEF FindsOut
<1>10. CASE UNCHANGED vars
      BY <1>1, <1>10 DEF vars
<1> QED  BY <1>2, <1>3, <1>4, <1>6, <1>7, <1>8, <1>9, <1>10 DEF Next, Main

\* The safety half of SocketEndsWithSession and VanishedBrowserNoticed: an open
\* socket is watched, and once its session has ended or its browser vanished
\* the keepalive is at most two steps from a failure report and four from its
\* end, which no frame, pong or other goroutine postpones (server.go:668-687).
THEOREM KeepAliveFindsOut == Spec => []Watched /\ [][FindsOut]_vars
<1>1. Init => Watched
      BY DEF Init, Watched
<1>2. IInv /\ Watched /\ [Next]_vars => Watched' /\ [FindsOut]_vars
      BY KeepAliveStep
<1> QED  BY <1>1, <1>2, IInvCorrect, PTL DEF Spec
=============================================================================
