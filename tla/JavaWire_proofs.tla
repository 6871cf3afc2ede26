-------------------------- MODULE JavaWire_proofs --------------------------
(* Theorems about JavaWire, for any number of lines from Java.             *)
EXTENDS JavaWire, TLAPS

\* What holds at each stage of the method; every line read before the reply
\* was a startup frame, and the counter counts them.
Staged ==
    /\ result = "none" <=> pc # "returned"
    /\ pc = "dial" => conn = "none" /\ deadline = "off"
    /\ pc \in {"write", "read"} => conn = "open" /\ deadline # "off"
    /\ pc \in {"dial", "write"} => read = 0 /\ buffered = 0 /\ skipped = 0 /\ ~request
    /\ pc = "read" => request /\ read = skipped
    /\ pc # "returned" => played = <<>> /\ ~playFailed
    /\ verdict # "none" => request
    /\ \A i \in 1..skipped : i <= Len(sent) /\ sent[i] = "startup"

\* A reply in the stream is Java's verdict; play follows an accepting reply.
Replied ==
    /\ \A i \in 1..Len(sent) :
          /\ sent[i] = "refused" => verdict = "refused"
          /\ sent[i] \in {"ok", "wrongAccount", "malformed"} => verdict = "executed"
          /\ sent[i] = "game" => \E j \in 1..i - 1 : sent[j] \in Reply
    /\ verdict # "none" /\ conn = "open" /\ ended = "open" =>
          \E j \in 1..Len(sent) : sent[j] \in Reply

\* What a result means, and what an open connection is good for.
Settled ==
    /\ result = "ok" => verdict = "executed"
    /\ result = "refused" => verdict = "refused"
    /\ result = "error" => ~request \/ Severed \/ ~Orderly
    /\ pc = "returned" /\ conn = "open" => kind = "begin" /\ result = "ok" /\ deadline = "off"
    /\ pc = "returned" /\ conn = "open" => read = skipped + 1 + Len(played)
    /\ pc = "returned" /\ conn # "open" => played = <<>> /\ ~playFailed
    /\ \A i \in 1..Len(played) : played[i] = skipped + 1 + i
    /\ playFailed => ended # "open"

IInv == TypeOK /\ Staged /\ Replied /\ Settled

\* What a line sent adds to the stream.
LEMMA SendFacts ==
  ASSUME TypeOK, NEW line \in Line, Send(line)
  PROVE  /\ sent' \in Seq(Line) /\ Len(sent') = Len(sent) + 1
         /\ \A i \in 1..Len(sent) : sent'[i] = sent[i]
         /\ sent'[Len(sent) + 1] = line
         /\ conn = "open" /\ ended = "open"
  BY DEF TypeOK, Send

\* A breach of the protocol is never undone.
LEMMA BreachStays ==
  ASSUME sent \in Seq(Line), sent' \in Seq(Line), Len(sent') >= Len(sent),
         \A i \in 1..Len(sent) : sent'[i] = sent[i], ~Orderly
  PROVE  ~Orderly'
<1>1. CASE \E i \in 1..Len(sent) : sent[i] \notin {"startup", "ok", "refused", "game"}
  <2>1. PICK i \in 1..Len(sent) : sent[i] \notin {"startup", "ok", "refused", "game"}
        BY <1>1
  <2>2. i \in 1..Len(sent') /\ sent'[i] = sent[i]
        OBVIOUS
  <2> QED  BY <2>1, <2>2 DEF Orderly
<1>2. CASE Len(sent) >= 8 /\ \A i \in 1..8 : sent[i] = "startup"
  <2>1. Len(sent) \in Nat /\ Len(sent') \in Nat
        OBVIOUS
  <2>2. Len(sent') >= 8
        BY <1>2, <2>1
  <2>3. ASSUME NEW i \in 1..8 PROVE sent'[i] = "startup"
    <3>1. i \in 1..Len(sent)
          BY <1>2, <2>1
    <3>2. sent'[i] = sent[i]
          BY <3>1
    <3> QED  BY <1>2, <3>2
  <2> QED  BY <2>2, <2>3 DEF Orderly
<1> QED  BY <1>1, <1>2 DEF Orderly

LEMMA IInvInit == Init => IInv
<1> SUFFICES ASSUME Init PROVE IInv
    OBVIOUS
<1> USE DEF Init
<1>1. TypeOK
  <2>1. sent \in Seq(Line) /\ played \in Seq(Nat) /\ Len(sent) = 0
        OBVIOUS
  <2>2. buffered \in 0..Len(sent) /\ read \in 0..buffered
        BY <2>1
  <2>3. playFailed \in BOOLEAN /\ request \in BOOLEAN
        BY Zenon
  <2> QED  BY <2>1, <2>2, <2>3 DEF TypeOK
<1>2. Staged
      BY DEF Staged
<1>3. Replied
      BY DEF Replied
<1>4. Settled
      BY DEF Settled
<1> QED  BY <1>1, <1>2, <1>3, <1>4 DEF IInv

LEMMA OpenKeeps ==
  ASSUME IInv, Open
  PROVE  IInv'
<1> USE DEF IInv, Open, stream, server, Return, Arm
<1>1. TypeOK'
      BY DEF TypeOK
<1>2. Staged'
      BY DEF Staged, TypeOK
<1>3. Replied'
      BY DEF Replied, Staged, TypeOK
<1>4. Settled'
      BY DEF Settled, Staged, TypeOK
<1> QED  BY <1>1, <1>2, <1>3, <1>4

LEMMA WriteKeeps ==
  ASSUME IInv, WriteSigned
  PROVE  IInv'
<1> USE DEF IInv, WriteSigned, stream, Fail, Return
<1>1. TypeOK'
      BY DEF TypeOK
<1>2. Staged'
      BY DEF Staged, TypeOK
<1>3. Replied'
      BY DEF Replied, Staged, TypeOK
<1>4. Settled'
      BY DEF Settled, Staged, TypeOK, Severed, Orderly
<1> QED  BY <1>1, <1>2, <1>3, <1>4

LEMMA FillKeeps ==
  ASSUME IInv, Fill
  PROVE  IInv'
<1> USE DEF IInv, Fill, client, server
<1>1. TypeOK'
      BY DEF TypeOK
<1>2. Staged'
      BY DEF Staged, TypeOK, Reading
<1>3. Replied'
      BY DEF Replied
<1>4. Settled'
      BY DEF Settled, Severed, Orderly
<1> QED  BY <1>1, <1>2, <1>3, <1>4

LEMMA PlayReadKeeps ==
  ASSUME IInv, PlayRead
  PROVE  IInv'
<1> USE DEF IInv, PlayRead, client, server
<1>1. TypeOK'
  <2>1. read' \in 0..buffered
        BY DEF TypeOK
  <2>3. played' \in Seq(Nat)
    <3>1. CASE UNCHANGED played
          BY <3>1 DEF TypeOK
    <3>2. CASE played' = Append(played, read + 1)
      <4>1. read + 1 \in Nat /\ played \in Seq(Nat)
            BY DEF TypeOK
      <4> QED  BY <3>2, <4>1
    <3> QED  BY <3>1, <3>2
  <2>2. playFailed' \in BOOLEAN
        BY DEF TypeOK
  <2> QED  BY <2>1, <2>2, <2>3 DEF TypeOK
<1>2. Staged'
      BY DEF Staged, TypeOK
<1>3. Replied'
      BY DEF Replied
<1>4. Settled'
  <2>1. CASE read < buffered /\ played' = Append(played, read + 1) /\ read' = read + 1 /\ UNCHANGED playFailed
    <3>1. /\ Len(played') = Len(played) + 1 /\ played'[Len(played) + 1] = read + 1
          /\ \A i \in 1..Len(played) : played'[i] = played[i]
          BY <2>1 DEF TypeOK
    <3>2. read = skipped + 1 + Len(played) /\ Len(played) \in Nat /\ skipped \in Nat
          BY DEF Settled, TypeOK
    <3>3. \A i \in 1..Len(played') : played'[i] = skipped' + 1 + i
          BY <3>1, <3>2 DEF Settled
    <3> QED  BY <2>1, <3>1, <3>2, <3>3 DEF Settled, Severed, Orderly
  <2>2. CASE NoLine /\ playFailed' = TRUE /\ UNCHANGED <<played, read>>
        BY <2>2 DEF Settled, Severed, Orderly, NoLine
  <2> QED  BY <2>1, <2>2
<1> QED  BY <1>1, <1>2, <1>3, <1>4

\* A turn of the loop that ends in an error has a reason.
LEMMA ReadFailsKeeps ==
  ASSUME IInv, ReadFails
  PROVE  IInv'
<1> USE DEF IInv, ReadFails, stream, server, Fail, Return
<1>1. TypeOK'
      BY DEF TypeOK
<1>2. Staged'
      BY DEF Staged, TypeOK
<1>3. Replied'
      BY DEF Replied
<1>4. Settled'
      BY DEF Settled, Staged, Severed, NoLine, TypeOK
<1> QED  BY <1>1, <1>2, <1>3, <1>4

LEMMA ReadTypedKeeps ==
  ASSUME IInv, ReadTyped
  PROVE  IInv'
<1> DEFINE line == sent[read + 1]
<1>t. /\ pc = "read" /\ read < buffered /\ read \in Nat /\ buffered \in Nat /\ read + 1 \in 1..Len(sent)
      /\ conn = "open" /\ read = skipped /\ sent \in Seq(Line) /\ Len(sent) \in Nat
      /\ played = <<>> /\ ~playFailed /\ line \in Line /\ request /\ result = "none"
      /\ \A i \in 1..skipped : sent[i] = "startup"
      /\ UNCHANGED <<buffered, played, playFailed, sent, request, verdict, ended>>
      BY DEF IInv, ReadTyped, TypeOK, Staged, server
<1>0. UNCHANGED kind /\ read' = read + 1
      BY DEF ReadTyped, ReadReply, HandOver, Return, Fail
<1>1. CASE line \in {"ok", "wrongAccount"} /\ result' = "ok"
  <2>1. /\ pc' = "returned" /\ UNCHANGED skipped
        /\ \/ kind = "begin" /\ line = "ok" /\ deadline' = "off" /\ UNCHANGED conn
           \/ kind = "roundTrip" /\ conn' = "closed" /\ UNCHANGED deadline
        BY <1>1 DEF ReadTyped, ReadReply, HandOver, Return, Fail
  <2>2. verdict = "executed"
        BY <1>1, <1>t DEF IInv, Replied
  <2>3. TypeOK'
        BY <1>t, <1>0, <1>1, <2>1 DEF IInv, TypeOK
  <2>4. Staged'
        BY <1>t, <1>0, <1>1, <2>1 DEF IInv, Staged
  <2>5. Replied'
        BY <1>t, <2>1 DEF IInv, Replied
  <2>6. Settled'
    <3>1. Len(played') = 0
          BY <1>t
    <3> QED  BY <1>t, <1>0, <1>1, <2>1, <2>2, <3>1 DEF Settled
  <2> QED  BY <2>3, <2>4, <2>5, <2>6 DEF IInv
<1>2. CASE line = "refused" /\ result' = "refused"
  <2>1. pc' = "returned" /\ conn' = "closed" /\ UNCHANGED <<skipped, deadline>>
        BY <1>2 DEF ReadTyped, ReadReply, Return, Fail
  <2>2. verdict = "refused"
        BY <1>2, <1>t DEF IInv, Replied
  <2>3. TypeOK' /\ Staged' /\ Replied'
        BY <1>t, <1>0, <1>2, <2>1 DEF IInv, TypeOK, Staged, Replied
  <2>4. Settled'
        BY <1>t, <1>0, <1>2, <2>1, <2>2 DEF Settled
  <2> QED  BY <2>3, <2>4 DEF IInv
<1>3. CASE Fail
  <2>1. pc' = "returned" /\ result' = "error" /\ conn' = "closed" /\ UNCHANGED <<skipped, deadline>>
        BY <1>3 DEF Fail, Return
  <2>2. \/ line \in {"malformed", "wrongAccount", "other", "game"}
        \/ line = "startup" /\ skipped + 1 >= 8
        BY <1>3 DEF ReadTyped, ReadReply, Fail, Return, MaxSkipped
  <2>3. ~Orderly
    <3>1. CASE line \in {"malformed", "wrongAccount", "other"}
          BY <1>t, <3>1 DEF Orderly
    <3>2. CASE line = "game"
      <4>1. PICK j \in 1..(read + 1) - 1 : sent[j] \in Reply
            BY <1>t, <3>2 DEF IInv, Replied
      <4>2. sent[j] = "startup"
            BY <1>t, <4>1
      <4> QED  BY <4>1, <4>2 DEF Reply
    <3>3. CASE line = "startup" /\ skipped + 1 >= 8
      <4>1. \A i \in 1..8 : sent[i] = "startup"
        <5>1. skipped \in 0..7
              BY DEF IInv, TypeOK
        <5> QED  BY <1>t, <3>3, <5>1
      <4> QED  BY <1>t, <3>3, <4>1 DEF Orderly
    <3> QED  BY <2>2, <3>1, <3>2, <3>3
  <2>4. ~Orderly'
        BY <1>t, <2>3 DEF Orderly
  <2>5. TypeOK' /\ Staged' /\ Replied'
        BY <1>t, <1>0, <2>1 DEF IInv, TypeOK, Staged, Replied
  <2>6. Settled'
        BY <1>t, <1>0, <2>1, <2>4 DEF Settled
  <2> QED  BY <2>5, <2>6 DEF IInv
<1>4. CASE line = "startup" /\ skipped + 1 < MaxSkipped /\ skipped' = skipped + 1
           /\ UNCHANGED <<kind, pc, result, conn, deadline>>
  <2>1. TypeOK'
        BY <1>t, <1>0, <1>4 DEF IInv, TypeOK, MaxSkipped
  <2>2. Staged'
    <3>1. \A i \in 1..skipped' : i <= Len(sent') /\ sent'[i] = "startup"
      <4>1. skipped \in Nat
            BY <1>t
      <4> QED  BY <1>t, <1>4, <4>1
    <3> QED  BY <1>t, <1>0, <1>4, <3>1 DEF IInv, Staged
  <2>3. Replied' /\ Settled'
        BY <1>t, <1>4 DEF IInv, Replied, Settled
  <2> QED  BY <2>1, <2>2, <2>3 DEF IInv
<1> QED  BY <1>1, <1>2, <1>3, <1>4 DEF ReadTyped, ReadReply, Return

\* Whatever Java says leaves what was said before it as it was.
LEMMA SendKeeps ==
  ASSUME IInv, NEW line \in Line, Send(line), Java, UNCHANGED <<request, ended>>, request \/ verdict' = "none",
         verdict = "none" \/ UNCHANGED verdict,
         line = "refused" => verdict' = "refused",
         line \in {"ok", "wrongAccount", "malformed"} => verdict' = "executed",
         line = "game" => verdict = "executed",
         verdict # verdict' => line \in Reply
  PROVE  IInv'
<1> USE DEF Java, client, stream
<1>1. /\ sent' \in Seq(Line) /\ Len(sent') = Len(sent) + 1 /\ Len(sent) \in Nat
      /\ \A i \in 1..Len(sent) : sent'[i] = sent[i]
      /\ sent'[Len(sent) + 1] = line /\ conn = "open" /\ ended = "open"
      BY SendFacts DEF IInv, TypeOK
<1>2. TypeOK'
  <2>1. verdict' \in {"none", "executed", "refused"}
        BY DEF IInv, TypeOK, Line, Reply
  <2> QED  BY <1>1, <2>1 DEF IInv, TypeOK
<1>3. Staged'
      BY <1>1 DEF IInv, Staged, TypeOK
<1>4. Replied'
  <2>1. \A i \in 1..Len(sent) : i \in 1..Len(sent')
        BY <1>1
  <2>2. (\E j \in 1..Len(sent) : sent[j] \in Reply) => \E j \in 1..Len(sent) : sent'[j] \in Reply
        BY <1>1
  <2>3. verdict' # "none" => \E j \in 1..Len(sent') : sent'[j] \in Reply
        BY <1>1, <2>1, <2>2 DEF IInv, Replied
  <2>4. ASSUME NEW i \in 1..Len(sent')
        PROVE  /\ sent'[i] = "refused" => verdict' = "refused"
               /\ sent'[i] \in {"ok", "wrongAccount", "malformed"} => verdict' = "executed"
               /\ sent'[i] = "game" => \E j \in 1..i - 1 : sent'[j] \in Reply
    <3>1. CASE i = Len(sent) + 1
          BY <1>1, <3>1, <2>2 DEF IInv, Replied
    <3>2. CASE i # Len(sent) + 1
      <4>1. i \in 1..Len(sent) /\ sent'[i] = sent[i]
            BY <1>1, <3>2
      <4>2. \A j \in 1..i - 1 : sent'[j] = sent[j]
            BY <1>1, <4>1
      <4> QED  BY <4>1, <4>2 DEF IInv, Replied
    <3> QED  BY <3>1, <3>2
  <2> QED  BY <2>3, <2>4 DEF Replied
<1>5. Settled'
  <2>1. ~Orderly => ~Orderly'
        BY <1>1, BreachStays DEF IInv, TypeOK
  <2> QED  BY <1>1, <2>1 DEF IInv, Settled, Severed, Staged
<1> QED  BY <1>2, <1>3, <1>4, <1>5 DEF IInv

LEMMA JavaKeeps ==
  ASSUME IInv, JavaTalks \/ JavaDecides \/ JavaPlays
  PROVE  IInv'
<1>1. CASE JavaTalks
      BY <1>1, SendKeeps DEF JavaTalks, Line
<1>2. CASE JavaPlays
      BY <1>2, SendKeeps DEF JavaPlays, Line, IInv, Staged
<1>3. CASE JavaDecides
  <2>1. ASSUME verdict' = "executed", NEW line \in Reply \ {"refused"}, Send(line) PROVE IInv'
        BY <1>3, <2>1, SendKeeps DEF JavaDecides, Line, Reply
  <2>2. ASSUME verdict' = "refused", Send("refused") PROVE IInv'
        BY <1>3, <2>2, SendKeeps DEF JavaDecides, Line, Reply
  <2>3. CASE conn = "closed" \/ ended # "open"
    <3>1. CASE verdict' \in {"executed", "refused"} /\ UNCHANGED sent
      <4> USE <1>3, <2>3, <3>1 DEF JavaDecides, Java, client, stream, IInv
      <4>1. TypeOK' /\ Staged'
            BY DEF TypeOK, Staged
      <4>2. Replied'
            BY DEF Replied
      <4>3. Settled'
            BY DEF Settled, Severed, Orderly
      <4> QED  BY <4>1, <4>2, <4>3
    <3> QED  BY <1>3, <2>1, <2>2, <3>1 DEF JavaDecides
  <2> QED  BY <1>3, <2>1, <2>2, <2>3 DEF JavaDecides
<1> QED  BY <1>1, <1>2, <1>3

LEMMA EnvironmentKeeps ==
  ASSUME IInv, StreamEnds \/ DeadlinePasses \/ UNCHANGED vars
  PROVE  IInv'
<1> USE DEF IInv
<1>1. CASE StreamEnds
      BY <1>1 DEF StreamEnds, Java, client, stream, TypeOK, Staged, Replied, Settled, Severed, Orderly
<1>2. CASE DeadlinePasses
      BY <1>2 DEF DeadlinePasses, client, stream, server, TypeOK, Staged, Replied, Settled, Severed, Orderly
<1>3. CASE UNCHANGED vars
      BY <1>3 DEF vars, client, stream, server, TypeOK, Staged, Replied, Settled, Severed, Orderly
<1> QED  BY <1>1, <1>2, <1>3

LEMMA IInvNext == IInv /\ [Next]_vars => IInv'
  BY OpenKeeps, WriteKeeps, ReadTypedKeeps, ReadFailsKeeps, FillKeeps, PlayReadKeeps, JavaKeeps,
     EnvironmentKeeps DEF Next, Client

LEMMA IInvCorrect == Spec => []IInv
<1>1. IInv /\ [Next]_vars => IInv'
      BY IInvNext
<1> QED  BY <1>1, IInvInit, PTL DEF Spec

\* Every variable of the client and of the stream has its type.
THEOREM TypeCorrect == Spec => []TypeOK
<1>1. IInv => TypeOK
      BY DEF IInv
<1> QED  BY <1>1, IInvCorrect, PTL

\* Java's acceptance is reported as an error only for a deadline, a lost
\* connection or a breach of the protocol.
THEOREM Reported == Spec => []AcceptedIsReported
<1>1. IInv => AcceptedIsReported
      BY DEF IInv, AcceptedIsReported, Settled, Staged
<1> QED  BY <1>1, IInvCorrect, PTL

\* The first line of play is the one after the reply, and none is lost.
THEOREM HandedOver == Spec => []PlayFollowsReply
<1>1. IInv => PlayFollowsReply
      BY DEF IInv, PlayFollowsReply, Settled
<1> QED  BY <1>1, IInvCorrect, PTL

\* The command's deadline never ends the play it opened.
THEOREM Undisturbed == Spec => []PlayOutlivesDeadline
<1>1. IInv => PlayOutlivesDeadline
      BY DEF IInv, PlayOutlivesDeadline, Settled
<1> QED  BY <1>1, IInvCorrect, PTL

\* No connection but that of an accepted session survives its command.
THEOREM NoLeak == Spec => []NothingLeaks
<1>1. IInv => NothingLeaks
      BY DEF IInv, NothingLeaks, Settled
<1> QED  BY <1>1, IInvCorrect, PTL

\* One step of the client, of Java or of the network is one step of the
\* abstract command, or none.
LEMMA StepRefines ==
  ASSUME IInv, IInv', [Next]_vars
  PROVE  [Command!Next]_<<verdict, result>>
<1> USE DEF Command!Next, Command!Decide, Command!Report, Command!Fail
<1>1. CASE Open \/ WriteSigned \/ ReadFails
      BY <1>1 DEF Open, WriteSigned, ReadFails, Fail, Return, server, IInv, Staged
<1>2. CASE ReadTyped
  <2>1. UNCHANGED verdict /\ result = "none"
        BY <1>2 DEF ReadTyped, server, IInv, Staged
  <2>2. result' \in {"none", "ok", "refused", "error"}
        BY DEF IInv, TypeOK
  <2> QED  BY <2>1, <2>2 DEF IInv, Settled
<1>3. CASE Fill \/ PlayRead \/ DeadlinePasses \/ StreamEnds \/ JavaTalks \/ JavaPlays \/ UNCHANGED vars
      BY <1>3 DEF Fill, PlayRead, DeadlinePasses, StreamEnds, JavaTalks, JavaPlays, Java, client, server, vars
<1>4. CASE JavaDecides
      BY <1>4 DEF JavaDecides, Java, client
<1> QED  BY <1>1, <1>2, <1>3, <1>4 DEF Next, Client

\* The client implements the abstract command.
THEOREM Refinement == Spec => ImplementsCommand
<1>1. Init => Command!Init
      BY DEF Init, Command!Init
<1>2. IInv /\ IInv' /\ [Next]_vars => [Command!Next]_<<verdict, result>>
      BY StepRefines
<1> QED  BY <1>1, <1>2, IInvCorrect, PTL DEF Spec, ImplementsCommand, Command!Spec

---------------------------------------------------------------------------
(* What CommandReturns rests on: every wait is timed and every loop ends.  *)

\* The method waits on an open connection with a deadline, has read fewer
\* lines than it may skip, and after the deadline has a line to look at or a
\* read that fails.
Timed ==
    /\ pc \in {"write", "read"} => conn = "open" /\ deadline # "off" /\ read < MaxSkipped
    /\ pc = "read" /\ deadline = "passed" => read < buffered \/ NoLine

\* After the deadline no more lines are taken from the socket, and a step of
\* the method returns or uses one up.
WindsUp ==
    [][pc = "read" /\ deadline = "passed" =>
          /\ buffered' = buffered /\ (deadline' = "passed" \/ pc' = "returned")
          /\ UNCHANGED client \/ pc' = "returned" \/ read' = read + 1]_vars

\* The safety half of CommandReturns: whatever Java sends, the method reads at
\* most eight lines before it decides, never waits without a deadline, and once
\* that has passed it is as many steps from its end as it has lines at hand
\* (client.go:239-254, 285-314).
THEOREM CommandsAreTimed == Spec => []Timed /\ WindsUp
<1>1. IInv => Timed
  <2> SUFFICES ASSUME IInv PROVE Timed
      OBVIOUS
  <2>1. skipped \in 0..7 /\ buffered \in Nat /\ read \in 0..buffered
        BY DEF IInv, TypeOK
  <2>2. pc \in {"write", "read"} => conn = "open" /\ deadline # "off" /\ read = skipped
        BY DEF IInv, Staged
  <2> QED  BY <2>1, <2>2 DEF Timed, NoLine, MaxSkipped
<1>2. ASSUME IInv, [Next]_vars, pc = "read", deadline = "passed"
      PROVE  /\ buffered' = buffered /\ (deadline' = "passed" \/ pc' = "returned")
             /\ UNCHANGED client \/ pc' = "returned" \/ read' = read + 1
  <2> USE <1>2
  <2>1. CASE Client
    <3>1. CASE ReadTyped
          BY <3>1 DEF ReadTyped, ReadReply, HandOver, Fail, Return
    <3>2. CASE ReadFails
          BY <3>2 DEF ReadFails, Fail, Return, stream
    <3> QED  BY <2>1, <3>1, <3>2 DEF Client, Open, WriteSigned
  <2>2. CASE JavaTalks \/ JavaDecides \/ JavaPlays \/ StreamEnds
        BY <2>2 DEF JavaTalks, JavaDecides, JavaPlays, StreamEnds, Java, stream
  <2>3. CASE UNCHANGED vars
        BY <2>3 DEF vars, stream
  <2> QED  BY <2>1, <2>2, <2>3 DEF Next, Fill, PlayRead, DeadlinePasses
<1>3. IInv /\ [Next]_vars =>
        [pc = "read" /\ deadline = "passed" =>
          /\ buffered' = buffered /\ (deadline' = "passed" \/ pc' = "returned")
          /\ UNCHANGED client \/ pc' = "returned" \/ read' = read + 1]_vars
      BY <1>2
<1> QED  BY <1>1, <1>3, IInvCorrect, PTL DEF Spec, WindsUp
============================================================================
