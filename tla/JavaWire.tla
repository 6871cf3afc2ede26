----------------------------- MODULE JavaWire -----------------------------
(***************************************************************************)
(* internal/javawire/client.go: one signed command on a connection of its  *)
(* own.  roundTrip reads one typed reply and closes; BeginSession keeps    *)
(* the connection, and the buffered reader that may already hold the       *)
(* first lines of play, for the play proxy.                                *)
(*                                                                         *)
(* A line is its kind.  The network and the Java server are external: Java *)
(* may greet with startup frames at any time before its reply, break the   *)
(* protocol, hang, or execute a command the client has given up on.        *)
(***************************************************************************)
EXTENDS Naturals, Sequences

CONSTANTS
    MaxStartup,  \* bound on the startup frames Java sends
    MaxGame      \* bound on the lines of play Java sends

ASSUME WireAssumption == MaxStartup \in Nat /\ MaxGame \in Nat

VARIABLES
    kind,      \* which method: roundTrip or begin
    pc,        \* where the method is
    skipped,   \* readTyped's counter
    result,    \* what the method returned
    conn,      \* the gateway's end of the connection
    deadline,  \* the connection's deadline: off, armed, passed
    sent,      \* the lines Java has sent
    buffered,  \* how many of them the bufio.Reader has taken from the socket
    read,      \* how many of them have been read from it
    played,    \* the lines the play proxy has read, by their place in sent
    playFailed,  \* a read by the play proxy failed
    request,   \* the command has reached Java
    verdict,   \* Java's decision
    ended      \* Java's side of the stream: open, eof, broken

client == <<kind, pc, skipped, result>>
stream == <<buffered, read, played, playFailed>>
server == <<sent, request, verdict, ended>>
vars == <<client, conn, deadline, stream, server>>

\* Replies of the expected type: accepted, refused, accepted but not of the
\* expected shape, accepted for another account.  Other lines: a startup
\* frame, a line of play, and anything else (another type, not JSON, empty,
\* too long), which no command survives.
Reply == {"ok", "refused", "malformed", "wrongAccount"}
Line == Reply \cup {"startup", "game", "other"}

Init ==
    /\ kind \in {"roundTrip", "begin"}
    /\ pc = "dial" /\ skipped = 0 /\ result = "none"
    /\ conn = "none" /\ deadline = "off"
    /\ sent = <<>> /\ buffered = 0 /\ read = 0
    /\ played = <<>> /\ playFailed = FALSE
    /\ request = FALSE /\ verdict = "none" /\ ended = "open"

---------------------------------------------------------------------------
(* The client                                                              *)

Return(outcome) == pc' = "returned" /\ result' = outcome /\ UNCHANGED kind

\* Mutant: an error return leaves the connection open.
Fail_Open == Return("error") /\ UNCHANGED <<conn, skipped, deadline>>

\* Every error return closes the connection.
Fail == Return("error") /\ conn' = "closed" /\ UNCHANGED <<skipped, deadline>>

\* Mutant: the connection has no deadline.
Arm_Never == deadline' = "off"

\* SetDeadline with what is left of the timeout.
Arm == deadline' = "armed"

\* open: the dial is cut off by the same timeout.
Open ==
    /\ pc = "dial"
    /\ \/ /\ pc' = "write" /\ conn' = "open" /\ Arm
          /\ UNCHANGED <<kind, skipped, result>>
       \/ /\ Return("error")
          /\ UNCHANGED <<skipped, conn, deadline>>
    /\ UNCHANGED <<stream, server>>

\* writeSigned: the line is signed and written whole, or it is not.
WriteSigned ==
    /\ pc = "write"
    /\ \/ /\ deadline # "passed" /\ ended # "broken"
          /\ pc' = "read" /\ request' = TRUE
          /\ UNCHANGED <<kind, skipped, result, conn, deadline>>
       \/ Fail /\ UNCHANGED request
    /\ UNCHANGED <<stream, sent, verdict, ended>>

Reading == conn = "open" /\ (pc = "read" \/ pc = "returned")

\* The bufio.Reader takes lines from the socket when it has none left.
Fill ==
    /\ Reading /\ buffered = read /\ deadline # "passed" /\ ended # "broken"
    /\ buffered' \in (read + 1)..Len(sent)
    /\ UNCHANGED <<client, conn, deadline, read, played, playFailed, server>>

\* Mutant: one startup frame less is skipped.
MaxSkipped_Seven == 7

MaxSkipped == 8

\* Mutant: the caller gets the connection without the reader.
HandOver_Unbuffered == deadline' = "off" /\ read' = buffered /\ UNCHANGED conn

\* Mutant: the deadline of the command stays on the stream of play.
HandOver_Deadline == read' = read + 1 /\ UNCHANGED <<conn, deadline>>

\* BeginSession clears the deadline and hands over connection and reader.
HandOver == deadline' = "off" /\ read' = read + 1 /\ UNCHANGED conn

\* Mutant: the reply is not looked into.
ReadReply_Unchecked(line) ==
    /\ line \in Reply
    /\ \/ kind = "begin" /\ HandOver
       \/ kind = "roundTrip" /\ conn' = "closed" /\ read' = read + 1 /\ UNCHANGED deadline
    /\ Return("ok") /\ UNCHANGED skipped

\* The reply decides; only an accepted session keeps the connection.
ReadReply(line) ==
    \/ /\ line = "ok" \/ (line = "wrongAccount" /\ kind = "roundTrip")
       /\ \/ kind = "begin" /\ HandOver
          \/ kind = "roundTrip" /\ conn' = "closed" /\ read' = read + 1 /\ UNCHANGED deadline
       /\ Return("ok") /\ UNCHANGED skipped
    \/ /\ line = "refused"
       /\ Return("refused") /\ conn' = "closed" /\ read' = read + 1
       /\ UNCHANGED <<skipped, deadline>>
    \/ /\ line = "malformed" \/ (line = "wrongAccount" /\ kind = "begin")
       /\ Fail /\ read' = read + 1

\* readTyped: one turn of its loop.
ReadTyped ==
    /\ pc = "read" /\ read < buffered
    /\ LET line == sent[read + 1]
       IN  \/ ReadReply(line)
           \/ /\ line = "startup" /\ skipped + 1 < MaxSkipped
              /\ skipped' = skipped + 1 /\ read' = read + 1
              /\ UNCHANGED <<kind, pc, result, conn, deadline>>
           \/ /\ line = "startup" /\ skipped + 1 >= MaxSkipped
              /\ Fail /\ read' = read + 1
           \/ line \in {"other", "game"} /\ Fail /\ read' = read + 1
    /\ UNCHANGED <<buffered, played, playFailed, server>>

\* A read finds nothing more, a broken connection, or the deadline.
NoLine ==
    /\ read = buffered
    /\ deadline = "passed" \/ ended = "broken" \/ (ended = "eof" /\ read = Len(sent))

ReadFails ==
    /\ pc = "read" /\ NoLine
    /\ Fail
    /\ UNCHANGED <<stream, server>>

---------------------------------------------------------------------------
(* The play proxy, through the reader it was handed                        *)

PlayRead ==
    /\ pc = "returned" /\ conn = "open"
    /\ \/ /\ read < buffered
          /\ played' = Append(played, read + 1) /\ read' = read + 1
          /\ UNCHANGED playFailed
       \/ NoLine /\ playFailed' = TRUE /\ UNCHANGED <<played, read>>
    /\ UNCHANGED <<client, conn, deadline, buffered, server>>

---------------------------------------------------------------------------
(* Java, the network and time                                              *)

Java == UNCHANGED <<client, conn, deadline, stream>>

Send(line) == conn = "open" /\ ended = "open" /\ sent' = Append(sent, line)

\* Java greets, prompts, or sends something no client expects, after which
\* nothing it says is read.
JavaTalks ==
    /\ verdict = "none" /\ Len(sent) < MaxStartup
    /\ sent # <<>> => sent[Len(sent)] # "other"
    /\ Send("startup") \/ Send("other")
    /\ UNCHANGED <<request, verdict, ended>> /\ Java

\* Java decides the command, whether or not anybody still waits for it.
JavaDecides ==
    /\ request /\ verdict = "none"
    /\ \/ verdict' = "executed" /\ \E line \in Reply \ {"refused"} : Send(line)
       \/ verdict' = "refused" /\ Send("refused")
       \/ /\ conn = "closed" \/ ended # "open"
          /\ verdict' \in {"executed", "refused"} /\ UNCHANGED sent
    /\ UNCHANGED <<request, ended>> /\ Java

\* An accepted session starts to play at once.
JavaPlays ==
    /\ verdict = "executed" /\ kind = "begin"
    /\ Len(sent) <= MaxStartup + MaxGame
    /\ Send("game")
    /\ UNCHANGED <<request, verdict, ended>> /\ Java

\* Java closes its side, or the connection is lost.
StreamEnds ==
    /\ conn = "open" /\ ended = "open"
    /\ ended' \in {"eof", "broken"}
    /\ UNCHANGED <<sent, request, verdict>> /\ Java

DeadlinePasses ==
    /\ deadline = "armed"
    /\ deadline' = "passed"
    /\ UNCHANGED <<client, conn, stream, server>>

Client == Open \/ WriteSigned \/ ReadTyped \/ ReadFails

Next ==
    \/ Client \/ Fill \/ PlayRead
    \/ JavaTalks \/ JavaDecides \/ JavaPlays \/ StreamEnds \/ DeadlinePasses

Spec == Init /\ [][Next]_vars

\* The client runs, what has arrived is read, and time passes; Java owes
\* nothing.
LiveSpec == Spec /\ WF_vars(Client) /\ WF_vars(Fill) /\ WF_vars(DeadlinePasses)

---------------------------------------------------------------------------
(* Properties                                                              *)

\* Every variable has its type; nothing is read before it has arrived
\* (client.go:45-58, 187-330).
TypeOK ==
    /\ kind \in {"roundTrip", "begin"}
    /\ pc \in {"dial", "write", "read", "returned"}
    /\ skipped \in 0..7
    /\ result \in {"none", "ok", "refused", "error"}
    /\ conn \in {"none", "open", "closed"} /\ deadline \in {"off", "armed", "passed"}
    /\ sent \in Seq(Line) /\ played \in Seq(Nat)
    /\ buffered \in 0..Len(sent) /\ read \in 0..buffered
    /\ playFailed \in BOOLEAN /\ request \in BOOLEAN
    /\ verdict \in {"none", "executed", "refused"} /\ ended \in {"open", "eof", "broken"}

Command == INSTANCE AbstractCommand WITH outcome <- result

\* What callers rely on: success means that Java executed the command, a
\* rejection that it refused it, and nothing else is claimed
\* (client.go:222-314).
ImplementsCommand == Command!Spec

\* Java kept to the protocol: up to seven startup frames, then a reply this
\* command can use.
Orderly ==
    /\ \A i \in 1..Len(sent) : sent[i] \in {"startup", "ok", "refused", "game"}
    /\ Len(sent) >= 8 => \E i \in 1..8 : sent[i] # "startup"

Severed == deadline = "passed" \/ ended # "open"

\* A command that Java executed is reported as failed only for a deadline, a
\* lost connection or a Java that does not keep to the protocol; eight
\* startup frames before the reply are one such breach (client.go:285-314).
AcceptedIsReported == verdict = "executed" /\ result = "error" => Severed \/ ~Orderly

\* The play proxy reads what Java sent after its reply, from the first line
\* on, although some of it was buffered with the reply (client.go:217-219).
PlayFollowsReply ==
    \A i \in 1..Len(played) : played[i] = skipped + 1 + i

\* A stream of play fails because of Java or the network, never because of
\* the deadline of the command that opened it (client.go:217).
PlayOutlivesDeadline == playFailed => ended # "open"

\* The only connection left open is that of an accepted session
\* (client.go:192-197, 227).
NothingLeaks == pc = "returned" /\ conn = "open" => kind = "begin" /\ verdict = "executed"

\* Every command returns, however Java behaves (client.go:239-254).
CommandReturns == <>(pc = "returned")
===========================================================================
