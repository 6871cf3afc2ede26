------------------------ MODULE PasskeyAuth_proofs ------------------------
(***************************************************************************)
(* Theorems about PasskeyAuth, for every value of its constants.  The      *)
(* inductive invariant says, of every request between two of its steps,    *)
(* what remains true of the reply it was given while others go on.         *)
(***************************************************************************)
EXTENDS PasskeyAuth, FiniteSetTheorems, TLAPS

USE AuthAssumption

\* make(map[...]...) is a map of any type.
LEMMA EmptyMapIsMap == ASSUME NEW K, NEW V PROVE IsMap(EmptyMap, K, V)
  BY DEF IsMap, EmptyMap

\* Storing a well-typed value keeps a map well-typed.
LEMMA PutIsMap ==
  ASSUME NEW m, NEW K, NEW V, IsMap(m, K, V), NEW k \in K, NEW v \in V
  PROVE  IsMap(Put(m, k, v), K, V)
  BY DEF IsMap, Put

\* Deleting keys keeps a map well-typed.
LEMMA DropIsMap ==
  ASSUME NEW m, NEW K, NEW V, IsMap(m, K, V), NEW ks
  PROVE  IsMap(Drop(m, ks), K, V)
  BY DEF IsMap, Drop

\* What a map holds after deletions.
LEMMA DropLookup ==
  ASSUME NEW m, NEW ks
  PROVE  /\ DOMAIN Drop(m, ks) = DOMAIN m \ ks
         /\ \A x \in DOMAIN m \ ks : Drop(m, ks)[x] = m[x]
  BY DEF Drop

---------------------------------------------------------------------------
(* The inductive invariant                                                 *)

\* What a reply still says when it is used: enrolments and accounts last, a
\* revocation since then is later than the ceremony.
ReplySound(j) ==
    /\ j.command.op # "claim" => j.reply.account = j.command.account
    /\ j.reply.verdict = "ok" => j.reply.account \in Account
    /\ j.command.op = "lookup" =>
          /\ j.reply.listed \subseteq enrolled[j.command.account]
          /\ j.reply.active \subseteq enrolled[j.command.account]
          /\ j.reply.verdict \notin {"unknown", "refused"} => j.command.account \in accounts
    /\ j.command.op # "lookup" => j.reply.listed = {}
    /\ j.command.op = "counter" /\ j.reply.verdict = "ok" =>
          revokedAt[j.cred] = 0 \/ j.began <= revokedAt[j.cred]
    /\ j.command.op \in {"register", "signup"} /\ j.reply.verdict = "ok" =>
          j.cred \in enrolled[j.command.account]
    /\ j.reply.verdict = "exists" => j.command.account \in accounts

\* Which commands a route sends, and what the gateway has established by then.
JobSound(j) ==
    /\ j.route \in {"login-options", "signup-options"} => j.command.op = "lookup"
    /\ j.route = "register-options" => j.command.op \in {"lookup", "claim"}
    /\ j.route = "login-verify" =>
          j.command.op \in {"lookup", "counter"} /\ j.cred \in Cred /\ j.began <= clock
    /\ j.route \in {"register-verify", "signup-verify"} =>
          j.command.op \in {"register", "signup"} /\ j.command.cred = j.cred
    /\ j.command.op = "counter" =>
          j.command.cred = j.cred /\ j.cred \in enrolled[j.command.account]
    /\ j.step = "replied" => ReplySound(j)

JobsSound == \A h \in Handler : handler[h] # Idle => JobSound(handler[h])

\* Ceremonies are dated, issued, and of one kind; an account login lists
\* credentials of its account only.
CeremoniesSound ==
    /\ \A id \in DOMAIN loginPending :
          /\ id \in issued
          /\ TTL <= loginPending[id].expires /\ loginPending[id].expires <= clock + TTL
          /\ loginPending[id].account # Nobody =>
                loginPending[id].credentials \subseteq enrolled[loginPending[id].account]
          /\ loginPending[id].account = Nobody => loginPending[id].credentials = {}
    /\ \A id \in DOMAIN regPending :
          /\ id \in issued
          /\ TTL <= regPending[id].expires /\ regPending[id].expires <= clock + TTL
    /\ DOMAIN loginPending \cap DOMAIN regPending = {}
    /\ nextPrune <= clock + TTL
    /\ PendingGarbageBound

SessionsSound ==
    /\ AccountBinding
    /\ RevokedBeforeChallengeRefused
    /\ \A s \in sessions : s.kind = "login" => s.began <= clock

IInv == TypeOK /\ JobsSound /\ CeremoniesSound /\ SessionsSound

---------------------------------------------------------------------------
(* What only ever moves forward                                            *)

\* Time, accounts and enrolments grow; a credential is revoked at most once,
\* and now.
Forward ==
    /\ clock' \in {clock, clock + 1}
    /\ accounts \subseteq accounts'
    /\ \A a \in Account : enrolled[a] \subseteq enrolled'[a]
    /\ \A c \in Cred : revokedAt'[c] = revokedAt[c] \/ (revokedAt[c] = 0 /\ revokedAt'[c] = clock)

LEMMA ExecuteForward ==
  ASSUME TypeOK, NEW command, Execute(command)
  PROVE  accounts \subseteq accounts' /\ \A a \in Account : enrolled[a] \subseteq enrolled'[a]
  BY DEF Execute, TypeOK

LEMMA StepForward == ASSUME TypeOK, [Next]_vars PROVE Forward
<1>1. CASE UNCHANGED <<javaVars, worldVars>>
      BY <1>1 DEF Forward, javaVars, worldVars, TypeOK
<1>2. CASE UNCHANGED <<javaVars, clock, revokedAt>>
      BY <1>2 DEF Forward, javaVars, TypeOK
<1>3. CASE Tick
      BY <1>3 DEF Forward, Tick, javaVars, TypeOK
<1>4. CASE Restart
      BY <1>2, <1>4 DEF Restart, javaVars
<1>5. ASSUME NEW c \in Cred, Revoke(c) PROVE Forward
      BY <1>5 DEF Revoke, Forward, javaVars, Active, TypeOK
<1>6. ASSUME NEW c \in late, JavaExecutesLate(c) PROVE Forward
  <2>1. Execute(c) /\ UNCHANGED worldVars
        BY <1>6 DEF JavaExecutesLate
  <2> QED  BY <2>1, ExecuteForward DEF Forward, worldVars, TypeOK
<1>7. ASSUME NEW h \in Handler, JavaExecutes(h) PROVE Forward
  <2>1. Execute(handler[h].command) /\ UNCHANGED worldVars
        BY <1>7 DEF JavaExecutes
  <2> QED  BY <2>1, ExecuteForward DEF Forward, worldVars, TypeOK
<1>8. ASSUME NEW h \in Handler, LoginRequest(h) PROVE Forward
      BY <1>8, <1>1 DEF LoginRequest, LoginOptions, discoverableLoginOptions, LoginVerify, GatewayOnly
<1>9. ASSUME NEW h \in Handler, RegistrationRequest(h) PROVE Forward
  <2>1. UNCHANGED <<javaVars, clock, revokedAt>>
        BY <1>9 DEF RegistrationRequest, RegistrationOptions, LocalRegistrationOptions,
                    SignupOptions, finishRegistration, GatewayOnly, worldVars
  <2> QED  BY <2>1, <1>2
<1>13. ASSUME NEW h \in Handler, JavaRefuses(h) PROVE Forward
      BY <1>1, <1>13 DEF JavaRefuses
<1>10. ASSUME NEW h \in Handler, Proceeds(h) PROVE Forward
      BY <1>10, <1>1 DEF Proceeds, accountLoginOptions, discoverableUser, finishLogin, pairingClaimed,
                         registrationLookedUp, signupLookedUp, registered, signedUp, GatewayOnly
<1>11. ASSUME NEW h \in Handler, CommandFails(h) PROVE Forward
      BY <1>11, <1>1 DEF CommandFails
<1>12. CASE UNCHANGED vars
      BY <1>12, <1>1 DEF vars
<1> QED  BY <1>3, <1>4, <1>5, <1>6, <1>7, <1>8, <1>9, <1>10, <1>11, <1>12, <1>13 DEF Next
---------------------------------------------------------------------------
(* Commands, replies, requests                                             *)

LEMMA CommandTypes ==
  /\ \A a \in Account : Lookup(a) \in Command
  /\ \A t \in Token \cup {Nobody} : ClaimPairing(t) \in Command
  /\ \A a \in Account, c \in Cred :
        /\ UpdateCounter(a, c) \in Command
        /\ RegisterPasskey(a, c) \in Command
        /\ SignupPasskey(a, c) \in Command
  BY DEF Lookup, ClaimPairing, UpdateCounter, RegisterPasskey, SignupPasskey, Command, Ops

LEMMA CommandFields ==
  ASSUME NEW c \in Command
  PROVE  /\ c.op \in Ops
         /\ c.account \in Account \cup {Nobody}
         /\ c.cred \in Cred \cup {Nobody}
         /\ c.token \in Token \cup {Nobody}
         /\ c.op # "claim" => c.account \in Account
         /\ c.op \notin {"claim", "lookup"} => c.cred \in Cred
  BY DEF Command

LEMMA JobFields ==
  ASSUME NEW j \in Job
  PROVE  /\ j # Idle /\ j.step # "idle" /\ j.step \in {"waiting", "replied"}
         /\ j.route \in Routes /\ j.command \in Command /\ j.cred \in Cred \cup {Nobody}
         /\ j.passes \in BOOLEAN /\ j.began \in Nat /\ j.reply \in Reply
  BY DEF Job, Idle

LEMMA RequestIsJob ==
  ASSUME NEW route \in Routes, NEW command \in Command, NEW cred \in Cred \cup {Nobody},
         NEW passes \in BOOLEAN, NEW began \in Nat
  PROVE  /\ Request(route, command, cred, passes, began) \in Job
         /\ Request(route, command, cred, passes, began).step = "waiting"
         /\ Request(route, command, cred, passes, began).route = route
         /\ Request(route, command, cred, passes, began).command = command
         /\ Request(route, command, cred, passes, began).cred = cred
         /\ Request(route, command, cred, passes, began).began = began
  BY DEF Request, Job, Reply, NoReply

\* A request that moves on to its next command.
LEMMA NextCommand ==
  ASSUME NEW j \in Job, NEW command \in Command
  PROVE  LET n == [j EXCEPT !.step = "waiting", !.reply = NoReply, !.command = command] IN
         /\ n \in Job /\ n.step = "waiting" /\ n.route = j.route /\ n.command = command
         /\ n.cred = j.cred /\ n.began = j.began
  BY DEF Job, Reply, NoReply

LEMMA ReplyTyped ==
  ASSUME TypeOK, NEW c \in Command
  PROVE  /\ ReplyTo(c) \in Reply
         /\ ReplyTo(c).verdict = Verdict(c)
         /\ c.op # "claim" => ReplyTo(c).account = c.account
         /\ Verdict(c) = "ok" => ReplyTo(c).account \in Account
         /\ c.op = "lookup" => /\ ReplyTo(c).listed \subseteq enrolled[c.account]
                               /\ ReplyTo(c).active \subseteq enrolled[c.account]
         /\ c.op # "lookup" => ReplyTo(c).listed = {}
<1>1. /\ c.op # "claim" => c.account \in Account
      /\ c.account \in Account \cup {Nobody}
      BY CommandFields
<1>2. unclaimed \subseteq Token /\ enrolled \in [Account -> SUBSET Cred]
      BY DEF TypeOK
<1>3. Verdict(c) \in {"ok", "unknown", "exists", "refused"} /\ (Verdict(c) = "ok" => Accepts(c))
      BY DEF Verdict
<1>4. c.op = "claim" /\ Accepts(c) => TokenAccount[c.token] \in Account
      BY <1>2 DEF Accepts
<1> DEFINE listed == IF c.op = "lookup" /\ Accepts(c) THEN enrolled[c.account] ELSE {}
           active == IF c.op = "lookup" /\ Accepts(c) THEN enrolled[c.account] \cap Active ELSE {}
           account == IF c.op = "claim" /\ Accepts(c) THEN TokenAccount[c.token] ELSE c.account
<1>5. /\ listed \subseteq Cred /\ active \subseteq Cred /\ account \in Account \cup {Nobody}
      /\ c.op = "lookup" => listed \subseteq enrolled[c.account] /\ active \subseteq enrolled[c.account]
      /\ c.op # "lookup" => listed = {}
      /\ c.op # "claim" => account = c.account
      /\ Accepts(c) => account \in Account
      BY <1>1, <1>2, <1>4
<1>6. ReplyTo(c) = [verdict |-> Verdict(c), account |-> account, listed |-> listed, active |-> active]
      BY DEF ReplyTo
<1> HIDE DEF listed, active, account
<1> QED  BY <1>3, <1>5, <1>6 DEF Reply

\* Java's verdicts mean what they say.
LEMMA VerdictFacts ==
  ASSUME NEW c
  PROVE  /\ Verdict(c) = "ok" => Accepts(c)
         /\ c.op = "lookup" /\ Verdict(c) # "unknown" => c.account \in accounts
         /\ Verdict(c) = "exists" => c.account \in accounts
  BY DEF Verdict, Accepts

\* What a request in progress may rely on survives every step of the others.
LEMMA JobSoundStays ==
  ASSUME TypeOK, TypeOK', Forward, NEW j \in Job, JobSound(j)
  PROVE  JobSound(j)'
<1>1. /\ j.step \in {"waiting", "replied"} /\ j.route \in Routes /\ j.command \in Command
      /\ j.cred \in Cred \cup {Nobody} /\ j.began \in Nat
      BY JobFields
<1>2. /\ j.command.op \in Ops
      /\ j.command.op # "claim" => j.command.account \in Account
      BY <1>1, CommandFields
<1>3. /\ j.command.op # "claim" => enrolled[j.command.account] \subseteq enrolled'[j.command.account]
      /\ accounts \subseteq accounts'
      /\ clock \in Nat /\ clock' \in Nat /\ clock <= clock'
      BY <1>2 DEF Forward, TypeOK
<1>4. j.command.op = "counter" => j.route = "login-verify" /\ j.cred \in Cred /\ j.began <= clock
      BY <1>1, <1>2 DEF JobSound, Routes
<1>5. ASSUME j.step = "replied" PROVE ReplySound(j)'
  <2>1. ReplySound(j)
        BY <1>5 DEF JobSound
  <2>2. ASSUME j.command.op = "counter", j.reply.verdict = "ok"
        PROVE  revokedAt'[j.cred] = 0 \/ j.began <= revokedAt'[j.cred]
    <3>1. revokedAt[j.cred] = 0 \/ j.began <= revokedAt[j.cred]
          BY <2>1, <2>2 DEF ReplySound
    <3> QED  BY <1>4, <2>2, <3>1 DEF Forward
  <2> QED  BY <1>2, <1>3, <2>1, <2>2 DEF ReplySound
<1>6. j.route = "login-verify" => j.began <= clock'
      BY <1>1, <1>3 DEF JobSound
<1> QED  BY <1>1, <1>2, <1>3, <1>5, <1>6 DEF JobSound
---------------------------------------------------------------------------
(* The handlers                                                            *)

\* What a step may do to a request: nothing, end it, or leave it sound.
Moved ==
    /\ handler' \in [Handler -> {Idle} \cup Job]
    /\ \A g \in Handler :
          \/ handler'[g] \in {handler[g], Idle}
          \/ \E r \in Job : handler'[g] = r /\ JobSound(r)'

AnswerTyped ==
    answer.account \in Account \cup {Nobody} /\ answer.status \in {"none", "ok", "unauthorized", "conflict"}

LEMMA SendMoves ==
  ASSUME TypeOK, NEW h \in Handler, NEW r \in Job, JobSound(r)', Send(h, r)
  PROVE  Moved /\ AnswerTyped'
<1>1. handler \in [Handler -> {Idle} \cup Job]
      BY DEF TypeOK
<1>2. handler' = [handler EXCEPT ![h] = r]
      BY DEF Send
<1>3. AnswerTyped'
      BY DEF Send, NoAnswer, AnswerTyped
<1> QED  BY <1>1, <1>2, <1>3 DEF Moved

LEMMA ReturnMoves ==
  ASSUME TypeOK, NEW h \in Handler, NEW status \in {"ok", "unauthorized", "conflict"},
         NEW account \in Account \cup {Nobody}, Return(h, status, account)
  PROVE  Moved /\ AnswerTyped'
<1>1. handler \in [Handler -> {Idle} \cup Job]
      BY DEF TypeOK
<1>2. handler' = [handler EXCEPT ![h] = Idle]
      BY DEF Return
<1>3. AnswerTyped'
      BY DEF Return, AnswerTyped
<1> QED  BY <1>1, <1>2, <1>3 DEF Moved

LEMMA RejectMoves ==
  ASSUME TypeOK, NEW h \in Handler, Reject(h)
  PROVE  Moved /\ AnswerTyped'
  BY ReturnMoves DEF Reject

\* A request that has a reply is a well-formed job with a sound reply.
LEMMA RepliedFacts ==
  ASSUME IInv, NEW h \in Handler, handler[h].step = "replied"
  PROVE  /\ handler[h] \in Job /\ handler[h].route \in Routes
         /\ handler[h].command \in Command /\ handler[h].reply \in Reply
         /\ handler[h].cred \in Cred \cup {Nobody} /\ handler[h].began \in Nat
         /\ JobSound(handler[h]) /\ ReplySound(handler[h])
<1>1. handler[h] \in {Idle} \cup Job
      BY DEF IInv, TypeOK
<1>2. handler[h] # Idle
      BY DEF Idle
<1>3. handler[h] \in Job
      BY <1>1, <1>2
<1>4. JobSound(handler[h])
      BY <1>2 DEF IInv, JobsSound
<1> QED  BY <1>3, <1>4, JobFields DEF JobSound

LEMMA ReplyFields ==
  ASSUME NEW r \in Reply
  PROVE  /\ r.account \in Account \cup {Nobody} /\ r.listed \subseteq Cred /\ r.active \subseteq Cred
         /\ r.verdict \in {"ok", "unknown", "exists", "refused"}
  BY DEF Reply

LEMMA JavaExecutesMoves ==
  ASSUME IInv, NEW h \in Handler, JavaExecutes(h)
  PROVE  Moved
<1> DEFINE j == handler[h]
           c == j.command
<1>1. j \in Job /\ JobSound(j) /\ j.step = "waiting"
  <2>1. j \in {Idle} \cup Job /\ j.step = "waiting"
        BY DEF JavaExecutes, Waiting, IInv, TypeOK
  <2>2. j # Idle
        BY <2>1 DEF Idle
  <2> QED  BY <2>1, <2>2 DEF IInv, JobsSound
<1>2. TypeOK /\ c \in Command /\ j.route \in Routes
      BY <1>1, JobFields DEF IInv
<1>3. c.op \in Ops /\ (c.op # "claim" => c.account \in Account)
      BY <1>2, CommandFields
<1>4. ReplyTo(c) \in Reply
      BY <1>2, ReplyTyped
<1>5. PICK r \in Job :
      /\ r = [j EXCEPT !.step = "replied", !.reply = ReplyTo(c)]
      /\ r.step = "replied" /\ r.reply = ReplyTo(c)
      /\ r.route = j.route /\ r.command = c /\ r.cred = j.cred /\ r.began = j.began
  <2> DEFINE x == [j EXCEPT !.step = "replied", !.reply = ReplyTo(c)]
  <2>1. /\ x \in Job /\ x.step = "replied" /\ x.reply = ReplyTo(c)
        /\ x.route = j.route /\ x.command = c /\ x.cred = j.cred /\ x.began = j.began
        BY <1>1, <1>4 DEF Job
  <2> QED  BY <2>1
<1>6. Execute(c) /\ UNCHANGED <<clock, revokedAt>> /\ handler' = [handler EXCEPT ![h] = r]
      BY <1>5 DEF JavaExecutes, worldVars
<1>7. /\ accounts \subseteq accounts'
      /\ \A a \in Account : enrolled[a] \subseteq enrolled'[a]
      BY <1>2, <1>6, ExecuteForward
<1>8. ReplySound(r)'
  <2>1. /\ ReplyTo(c).verdict = Verdict(c)
        /\ c.op # "claim" => ReplyTo(c).account = c.account
        /\ Verdict(c) = "ok" => ReplyTo(c).account \in Account
        /\ c.op = "lookup" => /\ ReplyTo(c).listed \subseteq enrolled[c.account]
                              /\ ReplyTo(c).active \subseteq enrolled[c.account]
        /\ c.op # "lookup" => ReplyTo(c).listed = {}
        BY <1>2, ReplyTyped
  <2>2. /\ Verdict(c) = "ok" => Accepts(c)
        /\ c.op = "lookup" /\ Verdict(c) # "unknown" => c.account \in accounts
        /\ Verdict(c) = "exists" => c.account \in accounts
        BY VerdictFacts
  <2>3. c.op = "counter" /\ Verdict(c) = "ok" => revokedAt'[j.cred] = 0
    <3>1. c.op = "counter" => c.cred = j.cred
          BY <1>1 DEF JobSound
    <3> QED  BY <2>2, <3>1, <1>6 DEF Accepts, Active
  <2>4. c.op \in {"register", "signup"} /\ Verdict(c) = "ok" => j.cred \in enrolled'[c.account]
    <3>1. c.op \in {"register", "signup"} => c.cred = j.cred
          BY <1>1, <1>2 DEF JobSound, Routes
    <3>2. ASSUME c.op \in {"register", "signup"}, Verdict(c) = "ok" PROVE j.cred \in enrolled'[c.account]
      <4>1. /\ c.account \in Account /\ Accepts(c) /\ c.cred = j.cred
            BY <1>3, <2>2, <3>1, <3>2
      <4>2. enrolled' = [a \in Account |-> enrolled[a] \cup
                {d \in {c.cred} : /\ a = c.account /\ c.op \in {"register", "signup"} /\ Accepts(c)}]
            BY <1>6 DEF Execute
      <4> QED  BY <3>2, <4>1, <4>2
    <3> QED  BY <3>2
  <2>5. c.op = "lookup" => enrolled[c.account] \subseteq enrolled'[c.account]
        BY <1>3, <1>7
  <2>6. /\ r.command = c /\ r.cred = j.cred /\ r.began = j.began
        /\ r.reply.verdict = Verdict(c) /\ r.reply.account = ReplyTo(c).account
        /\ r.reply.listed = ReplyTo(c).listed /\ r.reply.active = ReplyTo(c).active
        BY <1>5, <2>1
  <2> HIDE DEF c, j
  <2>7. c.op # "claim" => r.reply.account = c.account
        BY <2>1, <2>6
  <2>8. /\ r.reply.verdict = "ok" => r.reply.account \in Account
        /\ c.op # "lookup" => r.reply.listed = {}
        BY <2>1, <2>6
  <2>9. c.op = "lookup" => /\ r.reply.listed \subseteq enrolled'[c.account]
                           /\ r.reply.active \subseteq enrolled'[c.account]
        BY <2>1, <2>5, <2>6
  <2>10. /\ c.op = "lookup" /\ r.reply.verdict # "unknown" => c.account \in accounts'
         /\ r.reply.verdict = "exists" => c.account \in accounts'
        BY <1>7, <2>2, <2>6
  <2> QED  BY <2>3, <2>4, <2>6, <2>7, <2>8, <2>9, <2>10 DEF ReplySound
<1>9. JobSound(r)'
  <2>1. c.op = "counter" => enrolled[c.account] \subseteq enrolled'[c.account]
        BY <1>3, <1>7
  <2>2. JobSound(j) /\ clock' = clock
        BY <1>1, <1>6
  <2>3. /\ r.command = c /\ r.cred = j.cred /\ r.began = j.began /\ r.route = j.route
        BY <1>5
  <2> QED  BY <1>8, <2>1, <2>2, <2>3 DEF JobSound
<1>10. handler \in [Handler -> {Idle} \cup Job]
      BY DEF IInv, TypeOK
<1> QED  BY <1>5, <1>6, <1>9, <1>10 DEF Moved

\* What a refusal says: nothing but its verdict.
LEMMA RefusalFacts ==
  ASSUME NEW c \in Command, NEW v \in {"refused", "unknown"}
  PROVE  /\ Refusal(c, v) \in Reply
         /\ Refusal(c, v).verdict = v /\ Refusal(c, v).account = c.account
         /\ Refusal(c, v).listed = {} /\ Refusal(c, v).active = {}
<1>1. c.account \in Account \cup {Nobody}
      BY CommandFields
<1> QED  BY <1>1 DEF Refusal, NoReply, Reply

LEMMA RefusedReply ==
  ASSUME TypeOK, NEW h \in Handler, JavaRefuses(h)
  PROVE  \E v \in {"refused", "unknown"} :
            handler' = [handler EXCEPT ![h].step = "replied",
                                       ![h].reply = Refusal(handler[h].command, v)]
  BY RefusalsAssumption DEF JavaRefuses

LEMMA JavaRefusesMoves ==
  ASSUME IInv, NEW h \in Handler, JavaRefuses(h)
  PROVE  Moved
<1> DEFINE j == handler[h]
           c == j.command
<1>1. j \in Job /\ JobSound(j) /\ j.step = "waiting"
  <2>1. j \in {Idle} \cup Job /\ j.step = "waiting"
        BY DEF JavaRefuses, Waiting, IInv, TypeOK
  <2>2. j # Idle
        BY <2>1 DEF Idle
  <2> QED  BY <2>1, <2>2 DEF IInv, JobsSound
<1>2. TypeOK /\ c \in Command /\ j.route \in Routes
      BY <1>1, JobFields DEF IInv
<1>3. PICK v \in {"refused", "unknown"} :
         handler' = [handler EXCEPT ![h].step = "replied", ![h].reply = Refusal(c, v)]
      BY <1>2, RefusedReply
<1>4. PICK reply \in Reply : /\ reply = Refusal(c, v) /\ reply.verdict = v
                             /\ reply.account = c.account
                             /\ reply.listed = {} /\ reply.active = {}
      BY <1>2, RefusalFacts
<1>5. PICK r \in Job :
      /\ r = [j EXCEPT !.step = "replied", !.reply = reply]
      /\ r.step = "replied" /\ r.reply = reply
      /\ r.route = j.route /\ r.command = c /\ r.cred = j.cred /\ r.began = j.began
  <2> DEFINE x == [j EXCEPT !.step = "replied", !.reply = reply]
  <2>1. /\ x \in Job /\ x.step = "replied" /\ x.reply = reply
        /\ x.route = j.route /\ x.command = c /\ x.cred = j.cred /\ x.began = j.began
        BY <1>1, <1>4 DEF Job
  <2> QED  BY <2>1
<1>6. /\ handler' = [handler EXCEPT ![h] = r]
      /\ UNCHANGED <<clock, revokedAt, accounts, enrolled>>
      BY <1>3, <1>4, <1>5 DEF JavaRefuses, worldVars, javaVars
<1>7. JobSound(r)'
  <2>1. c = r.command /\ j.route = r.route /\ j.cred = r.cred /\ j.began = r.began /\ JobSound(j)
        BY <1>1, <1>5
  <2>2. /\ r.reply.verdict = v /\ r.reply.account = r.command.account
        /\ r.reply.listed = {} /\ r.reply.active = {}
        BY <1>4, <1>5
  <2>3. ReplySound(r)'
        BY <2>2 DEF ReplySound
  <2> QED  BY <1>6, <2>1, <2>3 DEF JobSound
<1>8. handler \in [Handler -> {Idle} \cup Job]
      BY DEF IInv, TypeOK
<1> QED  BY <1>5, <1>6, <1>7, <1>8 DEF Moved

\* A new request, or the next command of one, is sound if its command fits its
\* route and, for a counter update, the credential fits the account.
LEMMA WaitingMoves ==
  ASSUME TypeOK, NEW h \in Handler, NEW r \in Job, Send(h, r),
         r.step = "waiting",
         r.route \in {"login-options", "signup-options"} => r.command.op = "lookup",
         r.route = "register-options" => r.command.op \in {"lookup", "claim"},
         r.route = "login-verify" =>
            r.command.op \in {"lookup", "counter"} /\ r.cred \in Cred /\ r.began <= clock',
         r.route \in {"register-verify", "signup-verify"} =>
            r.command.op \in {"register", "signup"} /\ r.command.cred = r.cred,
         r.command.op = "counter" => r.command.cred = r.cred /\ r.cred \in enrolled'[r.command.account]
  PROVE  Moved /\ AnswerTyped'
<1>1. JobSound(r)'
      BY DEF JobSound
<1> QED  BY <1>1, SendMoves

\* The three routes that begin with a lookup.
LEMMA LookupMoves ==
  ASSUME TypeOK, NEW h \in Handler, NEW a \in Account,
         NEW route \in {"login-options", "register-options", "signup-options"},
         Send(h, Request(route, Lookup(a), Nobody, TRUE, 0))
  PROVE  Moved /\ AnswerTyped'
<1>1. route \in Routes /\ 0 \in Nat /\ TRUE \in BOOLEAN /\ Nobody \in Cred \cup {Nobody}
      BY DEF Routes
<1>2. Lookup(a) \in Command
      BY CommandTypes
<1>3. Request(route, Lookup(a), Nobody, TRUE, 0) \in Job
      BY <1>1, <1>2, RequestIsJob, Zenon
<1>4. PICK r \in Job : /\ r = Request(route, Lookup(a), Nobody, TRUE, 0)
                       /\ r.step = "waiting" /\ r.route = route /\ r.command.op = "lookup"
      BY <1>3 DEF Request, Lookup
<1>5. Send(h, r)
      BY <1>4, Zenon
<1> QED  BY <1>4, <1>5, WaitingMoves

\* The assertion of a discoverable login: a lookup first.
LEMMA AssertedMoves ==
  ASSUME TypeOK, NEW h \in Handler, NEW a \in Account, NEW c \in Cred, NEW valid \in BOOLEAN,
         NEW began \in Nat, began <= clock',
         Send(h, Request("login-verify", Lookup(a), c, valid, began))
  PROVE  Moved /\ AnswerTyped'
<1>1. "login-verify" \in Routes /\ c \in Cred \cup {Nobody}
      BY DEF Routes
<1>2. Lookup(a) \in Command
      BY CommandTypes
<1>3. Request("login-verify", Lookup(a), c, valid, began) \in Job
      BY <1>1, <1>2, RequestIsJob, Zenon
<1>4. PICK r \in Job : /\ r = Request("login-verify", Lookup(a), c, valid, began)
                       /\ r.step = "waiting" /\ r.route = "login-verify" /\ r.command.op = "lookup"
                       /\ r.cred = c /\ r.began = began
      BY <1>3 DEF Request, Lookup
<1>5. Send(h, r)
      BY <1>4, Zenon
<1> QED  BY <1>4, <1>5, WaitingMoves

\* The assertion of an account login: straight to the counter.
LEMMA CounterMoves ==
  ASSUME TypeOK, NEW h \in Handler, NEW a \in Account, NEW c \in Cred,
         NEW began \in Nat, began <= clock', c \in enrolled'[a],
         Send(h, Request("login-verify", UpdateCounter(a, c), c, TRUE, began))
  PROVE  Moved /\ AnswerTyped'
<1>1. "login-verify" \in Routes /\ c \in Cred \cup {Nobody} /\ TRUE \in BOOLEAN
      BY DEF Routes
<1>2. UpdateCounter(a, c) \in Command
      BY CommandTypes
<1>3. Request("login-verify", UpdateCounter(a, c), c, TRUE, began) \in Job
      BY <1>1, <1>2, RequestIsJob, Zenon
<1>4. PICK r \in Job : /\ r = Request("login-verify", UpdateCounter(a, c), c, TRUE, began)
                       /\ r.step = "waiting" /\ r.route = "login-verify"
                       /\ r.command.op = "counter" /\ r.command.account = a /\ r.command.cred = c
                       /\ r.cred = c /\ r.began = began
      BY <1>3 DEF Request, UpdateCounter
<1>5. Send(h, r)
      BY <1>4, Zenon
<1> QED  BY <1>4, <1>5, WaitingMoves

\* A login ceremony that can still be redeemed was opened by now, and lists
\* credentials only of the account it is for.
LEMMA OpenLogin ==
  ASSUME IInv, NEW id, Open(loginPending, id)
  PROVE  LET ceremony == loginPending[id] IN
         /\ ceremony.expires - TTL \in Nat /\ ceremony.expires - TTL <= clock
         /\ \/ ceremony.account = Nobody /\ ceremony.credentials = {}
            \/ /\ ceremony.account \in Account
               /\ ceremony.credentials \subseteq enrolled[ceremony.account]
<1> DEFINE ceremony == loginPending[id]
<1>1. ceremony \in LoginCeremony /\ id \in DOMAIN loginPending
      BY DEF Open, IInv, TypeOK, IsMap
<1>2. ceremony.account \in Account \cup {Nobody} /\ ceremony.expires \in Nat
      BY <1>1 DEF LoginCeremony
<1>3. /\ TTL <= ceremony.expires /\ ceremony.expires <= clock + TTL
      /\ ceremony.account # Nobody => ceremony.credentials \subseteq enrolled[ceremony.account]
      /\ ceremony.account = Nobody => ceremony.credentials = {}
      BY <1>1 DEF IInv, CeremoniesSound
<1>4. clock \in Nat
      BY DEF IInv, TypeOK
<1> HIDE DEF ceremony
<1>5. ceremony.expires - TTL \in Nat /\ ceremony.expires - TTL <= clock
      BY <1>2, <1>3, <1>4
<1> QED  BY <1>2, <1>3, <1>5 DEF ceremony

LEMMA LoginRequestMoves ==
  ASSUME IInv, NEW h \in Handler, LoginRequest(h)
  PROVE  Moved /\ AnswerTyped'
<1> TypeOK /\ clock \in Nat /\ Nobody \in Cred \cup {Nobody} /\ Nobody \in Account \cup {Nobody}
    BY DEF IInv, TypeOK
<1>1. ASSUME NEW a \in Account, LoginOptions(h, a) PROVE Moved /\ AnswerTyped'
      BY <1>1, LookupMoves DEF LoginOptions
<1>2. CASE discoverableLoginOptions(h)
  <2>1. Return(h, "ok", Nobody)
        BY <1>2 DEF discoverableLoginOptions
  <2> QED  BY <2>1, ReturnMoves
<1>3. ASSUME NEW id \in issued, LoginVerify(h, id)
      PROVE  Moved /\ AnswerTyped'
  <2>1. clock' = clock /\ enrolled' = enrolled
        BY <1>3 DEF LoginVerify, GatewayOnly, worldVars, javaVars
  <2>2. CASE Reject(h)
        BY <2>2, RejectMoves
  <2>3. ASSUME NEW account, account = loginPending[id].account,
               NEW began, began = loginPending[id].expires - TTL,
               Open(loginPending, id)
        PROVE  Moved /\ AnswerTyped'
    <3>1. began \in Nat /\ began <= clock'
          BY <2>1, <2>3, OpenLogin
    <3>2. ASSUME NEW c \in Cred, NEW a \in Account, NEW passes \in BOOLEAN,
                 Send(h, Request("login-verify", Lookup(a), c, passes, began))
          PROVE  Moved /\ AnswerTyped'
          BY <3>1, <3>2, AssertedMoves
    <3>3. ASSUME NEW c \in loginPending[id].credentials,
                 Send(h, Request("login-verify", UpdateCounter(account, c), c, TRUE, began))
          PROVE  Moved /\ AnswerTyped'
      <4>1. c \in Cred /\ account \in Account /\ c \in enrolled'[account]
            BY <2>1, <2>3, OpenLogin, TypeOK DEF TypeOK
      <4> QED  BY <3>1, <3>3, <4>1, CounterMoves
    <3> QED  BY <1>3, <2>2, <2>3, <3>2, <3>3 DEF LoginVerify
  <2> QED  BY <1>3, <2>2, <2>3 DEF LoginVerify
<1> QED  BY <1>1, <1>2, <1>3 DEF LoginRequest

LEMMA ClaimMoves ==
  ASSUME TypeOK, NEW h \in Handler, NEW t \in Token \cup {Nobody}, NEW labelOK \in BOOLEAN,
         Send(h, Request("register-options", ClaimPairing(t), Nobody, labelOK, 0))
  PROVE  Moved /\ AnswerTyped'
<1>1. "register-options" \in Routes /\ 0 \in Nat /\ Nobody \in Cred \cup {Nobody}
      BY DEF Routes
<1>2. ClaimPairing(t) \in Command
      BY CommandTypes
<1>3. Request("register-options", ClaimPairing(t), Nobody, labelOK, 0) \in Job
      BY <1>1, <1>2, RequestIsJob, Zenon
<1>4. PICK r \in Job : /\ r = Request("register-options", ClaimPairing(t), Nobody, labelOK, 0)
                       /\ r.step = "waiting" /\ r.route = "register-options" /\ r.command.op = "claim"
      BY <1>3 DEF Request, ClaimPairing
<1>5. Send(h, r)
      BY <1>4, Zenon
<1> QED  BY <1>4, <1>5, WaitingMoves

\* An attested credential: the command that enrols it.
LEMMA AttestedMoves ==
  ASSUME TypeOK, NEW h \in Handler, NEW c \in Cred,
         NEW route \in {"register-verify", "signup-verify"},
         NEW command \in Command, command.op \in {"register", "signup"}, command.cred = c,
         NEW began \in Nat, Send(h, Request(route, command, c, TRUE, began))
  PROVE  Moved /\ AnswerTyped'
<1>1. route \in Routes /\ c \in Cred \cup {Nobody} /\ TRUE \in BOOLEAN
      BY DEF Routes
<1>2. Request(route, command, c, TRUE, began) \in Job
      BY <1>1, RequestIsJob, Zenon
<1>3. PICK r \in Job : /\ r = Request(route, command, c, TRUE, began)
                       /\ r.step = "waiting" /\ r.route = route /\ r.command = command /\ r.cred = c
      BY <1>2 DEF Request
<1>4. Send(h, r)
      BY <1>3, Zenon
<1> QED  BY <1>3, <1>4, WaitingMoves

LEMMA OpenRegistration ==
  ASSUME IInv, NEW id, Open(regPending, id)
  PROVE  LET ceremony == regPending[id] IN
         ceremony.account \in Account /\ ceremony.expires - TTL \in Nat
<1> DEFINE ceremony == regPending[id]
<1>1. ceremony \in RegistrationCeremony /\ id \in DOMAIN regPending
      BY DEF Open, IInv, TypeOK, IsMap
<1>2. ceremony.account \in Account /\ ceremony.expires \in Nat
      BY <1>1 DEF RegistrationCeremony
<1>3. TTL <= ceremony.expires
      BY <1>1 DEF IInv, CeremoniesSound
<1> HIDE DEF ceremony
<1>4. ceremony.expires - TTL \in Nat
      BY <1>2, <1>3
<1> QED  BY <1>2, <1>4 DEF ceremony

LEMMA RegistrationRequestMoves ==
  ASSUME IInv, NEW h \in Handler, RegistrationRequest(h)
  PROVE  Moved /\ AnswerTyped'
<1> TypeOK
    BY DEF IInv
<1>1. ASSUME NEW t \in Token \cup {Nobody}, NEW labelOK \in BOOLEAN, RegistrationOptions(h, t, labelOK)
      PROVE  Moved /\ AnswerTyped'
      BY <1>1, ClaimMoves DEF RegistrationOptions
<1>2. ASSUME NEW a \in Account, LocalRegistrationOptions(h, a) \/ SignupOptions(h, a)
      PROVE  Moved /\ AnswerTyped'
  <2>1. PICK route \in {"login-options", "register-options", "signup-options"} :
           Send(h, Request(route, Lookup(a), Nobody, TRUE, 0))
        BY <1>2 DEF LocalRegistrationOptions, SignupOptions
  <2> QED  BY <2>1, LookupMoves
<1>3. ASSUME NEW route \in {"register-verify", "signup-verify"}, NEW id \in issued,
             finishRegistration(h, route, id)
      PROVE  Moved /\ AnswerTyped'
  <2>1. CASE Reject(h)
        BY <2>1, RejectMoves
  <2>2. ASSUME Open(regPending, id), NEW c \in Cred,
               NEW account, account = regPending[id].account,
               NEW command, command = IF regPending[id].signup THEN SignupPasskey(account, c)
                                                               ELSE RegisterPasskey(account, c),
               Send(h, Request(route, command, c, TRUE, 0))
        PROVE  Moved /\ AnswerTyped'
    <3>1. account \in Account /\ 0 \in Nat
          BY <2>2, OpenRegistration
    <3>2. command \in Command
          BY <2>2, <3>1, CommandTypes
    <3>3. command.op \in {"register", "signup"} /\ command.cred = c
          BY <2>2 DEF SignupPasskey, RegisterPasskey
    <3> QED  BY <2>2, <3>1, <3>2, <3>3, AttestedMoves
  <2> QED  BY <1>3, <2>1, <2>2 DEF finishRegistration
<1> QED  BY <1>1, <1>2, <1>3 DEF RegistrationRequest

LEMMA ProceedsMoves ==
  ASSUME IInv, NEW h \in Handler, Proceeds(h)
  PROVE  Moved /\ AnswerTyped'
<1> DEFINE reply == handler[h].reply
           command == handler[h].command
<1> TypeOK
    BY DEF IInv
<1>1. handler[h].step = "replied" /\ UNCHANGED <<clock, enrolled>>
      BY DEF Proceeds, accountLoginOptions, discoverableUser, finishLogin, pairingClaimed,
             registrationLookedUp, signupLookedUp, registered, signedUp, Replied, GatewayOnly,
             worldVars, javaVars
<1>2. /\ handler[h] \in Job /\ handler[h].route \in Routes /\ command \in Command /\ reply \in Reply
      /\ handler[h].cred \in Cred \cup {Nobody} /\ handler[h].began \in Nat
      /\ JobSound(handler[h]) /\ ReplySound(handler[h])
      BY <1>1, RepliedFacts
<1>3. /\ command.account \in Account \cup {Nobody} /\ command.op \in Ops
      /\ command.op # "claim" => command.account \in Account
      /\ reply.account \in Account \cup {Nobody}
      BY <1>2, CommandFields, ReplyFields
<1>4. ASSUME NEW status \in {"ok", "conflict"}, NEW account \in {reply.account, command.account},
             Return(h, status, account)
      PROVE  Moved /\ AnswerTyped'
  <2>1. account \in Account \cup {Nobody}
        BY <1>3
  <2> QED  BY <1>4, <2>1, ReturnMoves
<1>5. CASE Reject(h)
      BY <1>5, RejectMoves
<1>6. CASE discoverableUser(h)
  <2>1. ASSUME reply.account = command.account, handler[h].cred \in reply.active,
               NEW r, r = [handler[h] EXCEPT !.step = "waiting", !.reply = NoReply,
                                             !.command = UpdateCounter(reply.account, handler[h].cred)],
               Send(h, r)
        PROVE  Moved /\ AnswerTyped'
    <3>1. command.op = "lookup" /\ handler[h].route = "login-verify"
          BY <1>6 DEF discoverableUser, Replied
    <3>2. handler[h].cred \in Cred /\ handler[h].began <= clock' /\ reply.account \in Account
          BY <1>1, <1>2, <1>3, <2>1, <3>1 DEF JobSound
    <3>3. handler[h].cred \in enrolled'[reply.account]
          BY <1>1, <1>2, <2>1, <3>1 DEF ReplySound
    <3>4. PICK next \in Command : /\ next = UpdateCounter(reply.account, handler[h].cred)
                                  /\ next.op = "counter" /\ next.account = reply.account
                                  /\ next.cred = handler[h].cred
      <4>1. UpdateCounter(reply.account, handler[h].cred) \in Command
            BY <3>2, CommandTypes
      <4> QED  BY <4>1 DEF UpdateCounter
    <3>5. r = [handler[h] EXCEPT !.step = "waiting", !.reply = NoReply, !.command = next]
          BY <2>1, <3>4
    <3>6. /\ r \in Job /\ r.step = "waiting" /\ r.route = handler[h].route /\ r.command = next
          /\ r.cred = handler[h].cred /\ r.began = handler[h].began
          BY <1>2, <3>5, NextCommand
    <3> QED  BY <2>1, <3>1, <3>2, <3>3, <3>4, <3>6, WaitingMoves
  <2>2. handler[h].command.op = "lookup"
        BY <1>6 DEF discoverableUser
  <2>3. reply.account = command.account
        BY <1>2, <2>2 DEF ReplySound
  <2> QED  BY <1>5, <1>6, <2>1, <2>3 DEF discoverableUser
<1>7. CASE pairingClaimed(h)
  <2>1. ASSUME reply.verdict = "ok",
               NEW r, r = [handler[h] EXCEPT !.step = "waiting", !.reply = NoReply,
                                             !.command = Lookup(reply.account)],
               Send(h, r)
        PROVE  Moved /\ AnswerTyped'
    <3>1. reply.account \in Account /\ handler[h].route = "register-options"
          BY <1>2, <1>7, <2>1 DEF ReplySound, pairingClaimed, Replied
    <3>2. PICK next \in Command : next = Lookup(reply.account) /\ next.op = "lookup"
          BY <3>1, CommandTypes DEF Lookup
    <3>3. r = [handler[h] EXCEPT !.step = "waiting", !.reply = NoReply, !.command = next]
          BY <2>1, <3>2
    <3>4. r \in Job /\ r.step = "waiting" /\ r.route = handler[h].route /\ r.command = next
          BY <1>2, <3>3, NextCommand
    <3> QED  BY <2>1, <3>1, <3>2, <3>4, WaitingMoves
  <2> QED  BY <1>5, <1>7, <2>1 DEF pairingClaimed
<1>8. CASE accountLoginOptions(h) \/ registrationLookedUp(h)
      BY <1>4, <1>5, <1>8 DEF accountLoginOptions, registrationLookedUp
<1>9. CASE finishLogin(h) \/ signupLookedUp(h) \/ registered(h) \/ signedUp(h)
      BY <1>4, <1>5, <1>9 DEF finishLogin, signupLookedUp, registered, signedUp
<1> QED  BY <1>6, <1>7, <1>8, <1>9 DEF Proceeds

LEMMA CommandFailsMoves ==
  ASSUME IInv, NEW h \in Handler, CommandFails(h)
  PROVE  Moved /\ AnswerTyped' /\ late' \subseteq Command
<1>1. TypeOK
      BY DEF IInv
<1>2. Moved /\ AnswerTyped'
      BY <1>1, RejectMoves DEF CommandFails
<1>3. handler[h] \in Job
  <2>1. handler[h] \in {Idle} \cup Job
        BY <1>1 DEF TypeOK
  <2>2. handler[h] # Idle
        BY DEF CommandFails, idle, Idle
  <2> QED  BY <2>1, <2>2
<1>4. handler[h].command \in Command /\ late \subseteq Command
      BY <1>1, <1>3, JobFields DEF TypeOK
<1>5. late' \subseteq Command
      BY <1>4 DEF CommandFails
<1> QED  BY <1>2, <1>5
---------------------------------------------------------------------------
(* The pending ceremonies                                                  *)

CeremoniesTyped ==
    /\ nextPrune \in Nat
    /\ IsMap(loginPending, CeremonyId, LoginCeremony)
    /\ IsMap(regPending, CeremonyId, RegistrationCeremony)
    /\ issued \subseteq CeremonyId /\ redeemed \subseteq issued

\* A sweep keeps a part of a map, and after it nothing kept had expired.
LEMMA PrunedFacts ==
  ASSUME NEW m, NEW V, IsMap(m, CeremonyId, V)
  PROVE  /\ IsMap(Pruned(m), CeremonyId, V)
         /\ DOMAIN Pruned(m) \subseteq DOMAIN m
         /\ \A id \in DOMAIN Pruned(m) : Pruned(m)[id] = m[id]
         /\ PruneDue => \A id \in DOMAIN Pruned(m) : ~(clock >= m[id].expires)
<1>1. CASE ~PruneDue
      BY <1>1 DEF Pruned
<1>2. CASE PruneDue
  <2> DEFINE stale == {id \in DOMAIN m : clock >= m[id].expires}
  <2>1. Pruned(m) = Drop(m, stale)
        BY <1>2 DEF Pruned
  <2>2. IsMap(Drop(m, stale), CeremonyId, V)
        BY DropIsMap
  <2>3. /\ DOMAIN Drop(m, stale) = DOMAIN m \ stale
        /\ \A id \in DOMAIN m \ stale : Drop(m, stale)[id] = m[id]
        BY DropLookup
  <2> QED  BY <2>1, <2>2, <2>3
<1> QED  BY <1>1, <1>2

\* The arithmetic of a deadline: what begins now outlives the sweep after next.
LEMMA DeadlineFacts ==
  ASSUME TypeOK, nextPrune <= clock + TTL
  PROVE  /\ clock \in Nat \ {0} /\ TTL \in Nat \ {0} /\ nextPrune \in Nat
         /\ NextPrune \in Nat /\ NextPrune <= clock + TTL /\ NextPrune # 0
         /\ clock + TTL \in Nat /\ TTL <= clock + TTL
         /\ clock + TTL + TTL > NextPrune
         /\ PruneDue => NextPrune = clock + TTL
         /\ ~PruneDue => NextPrune = nextPrune /\ nextPrune # 0
<1>1. clock \in Nat \ {0} /\ TTL \in Nat \ {0} /\ nextPrune \in Nat
      BY DEF TypeOK
<1> QED  BY <1>1 DEF NextPrune, PruneDue

\* What is kept of a map when another ceremony begins.
LEMMA KeptFacts ==
  ASSUME TypeOK, nextPrune <= clock + TTL, NEW m, NEW V, IsMap(m, CeremonyId, V),
         \A id \in DOMAIN m : m[id].expires \in Nat,
         nextPrune # 0 => \A id \in DOMAIN m : m[id].expires + TTL > nextPrune
  PROVE  \A id \in DOMAIN Pruned(m) : m[id].expires + TTL > NextPrune
<1>1. /\ clock \in Nat /\ TTL \in Nat
      /\ PruneDue => NextPrune = clock + TTL
      /\ ~PruneDue => NextPrune = nextPrune /\ nextPrune # 0
      BY DeadlineFacts
<1>2. /\ DOMAIN Pruned(m) \subseteq DOMAIN m
      /\ PruneDue => \A id \in DOMAIN Pruned(m) : ~(clock >= m[id].expires)
      BY PrunedFacts
<1> QED  BY <1>1, <1>2

LEMMA PendingTyped ==
  ASSUME IInv
  PROVE  /\ \A id \in DOMAIN loginPending :
                /\ loginPending[id] \in LoginCeremony /\ loginPending[id].expires \in Nat
                /\ loginPending[id].account \in Account \cup {Nobody}
         /\ \A id \in DOMAIN regPending :
                regPending[id] \in RegistrationCeremony /\ regPending[id].expires \in Nat
<1>1. /\ \A id \in DOMAIN loginPending : loginPending[id] \in LoginCeremony
      /\ \A id \in DOMAIN regPending : regPending[id] \in RegistrationCeremony
      BY DEF IInv, TypeOK, IsMap
<1> QED  BY <1>1 DEF LoginCeremony, RegistrationCeremony

\* What a sweep leaves of both maps.
LEMMA SweptFacts ==
  ASSUME IInv
  PROVE  /\ IsMap(Pruned(loginPending), CeremonyId, LoginCeremony)
         /\ IsMap(Pruned(regPending), CeremonyId, RegistrationCeremony)
         /\ \A id \in DOMAIN Pruned(loginPending) :
               /\ id \in DOMAIN loginPending /\ Pruned(loginPending)[id] = loginPending[id]
               /\ loginPending[id].expires + TTL > NextPrune
         /\ \A id \in DOMAIN Pruned(regPending) :
               /\ id \in DOMAIN regPending /\ Pruned(regPending)[id] = regPending[id]
               /\ regPending[id].expires + TTL > NextPrune
<1>1. /\ TypeOK /\ nextPrune <= clock + TTL
      /\ nextPrune # 0 => \A id \in DOMAIN loginPending : loginPending[id].expires + TTL > nextPrune
      /\ nextPrune # 0 => \A id \in DOMAIN regPending : regPending[id].expires + TTL > nextPrune
      BY DEF IInv, CeremoniesSound, PendingGarbageBound
<1>2. /\ IsMap(loginPending, CeremonyId, LoginCeremony)
      /\ IsMap(regPending, CeremonyId, RegistrationCeremony)
      BY <1>1 DEF TypeOK
<1>3. /\ \A id \in DOMAIN loginPending : loginPending[id].expires \in Nat
      /\ \A id \in DOMAIN regPending : regPending[id].expires \in Nat
      BY PendingTyped
<1>4. \A id \in DOMAIN Pruned(loginPending) : loginPending[id].expires + TTL > NextPrune
      BY <1>1, <1>2, <1>3, KeptFacts
<1>5. \A id \in DOMAIN Pruned(regPending) : regPending[id].expires + TTL > NextPrune
      BY <1>1, <1>2, <1>3, KeptFacts
<1>6. /\ IsMap(Pruned(loginPending), CeremonyId, LoginCeremony)
      /\ DOMAIN Pruned(loginPending) \subseteq DOMAIN loginPending
      /\ \A id \in DOMAIN Pruned(loginPending) : Pruned(loginPending)[id] = loginPending[id]
      BY <1>2, PrunedFacts
<1>7. /\ IsMap(Pruned(regPending), CeremonyId, RegistrationCeremony)
      /\ DOMAIN Pruned(regPending) \subseteq DOMAIN regPending
      /\ \A id \in DOMAIN Pruned(regPending) : Pruned(regPending)[id] = regPending[id]
      BY <1>2, PrunedFacts
<1> QED  BY <1>4, <1>5, <1>6, <1>7

LEMMA BeginLoginSound ==
  ASSUME IInv, Forward, clock' = clock, NEW id, NEW account \in Account \cup {Nobody},
         NEW credentials \in SUBSET Cred,
         account # Nobody => credentials \subseteq enrolled'[account],
         account = Nobody => credentials = {},
         BeginLogin(id, account, credentials)
  PROVE  CeremoniesTyped' /\ CeremoniesSound'
<1> DEFINE kept == Pruned(loginPending)
<1>1. PICK new \in LoginCeremony :
         /\ new = [account |-> account, credentials |-> credentials, expires |-> clock + TTL]
         /\ new.account = account /\ new.credentials = credentials /\ new.expires = clock + TTL
  <2>1. clock \in Nat /\ TTL \in Nat
        BY DEF IInv, TypeOK
  <2>2. clock + TTL \in Nat
        BY <2>1
  <2>3. [account |-> account, credentials |-> credentials, expires |-> clock + TTL] \in LoginCeremony
        BY <2>2 DEF LoginCeremony
  <2> QED  BY <2>3
<1>2. /\ id \in CeremonyId \ issued /\ issued' = issued \cup {id} /\ redeemed' = redeemed
      /\ loginPending' = Put(kept, id, new) /\ regPending' = Pruned(regPending)
      /\ nextPrune' = NextPrune
      BY <1>1 DEF BeginLogin
<1>3. /\ DOMAIN loginPending' = DOMAIN kept \cup {id} /\ loginPending'[id] = new
      /\ \A x \in DOMAIN kept : x # id => loginPending'[x] = kept[x]
  <2> DEFINE stored == Put(kept, id, new)
  <2>1. /\ DOMAIN stored = DOMAIN kept \cup {id} /\ stored[id] = new
        /\ \A x \in DOMAIN kept : x # id => stored[x] = kept[x]
        BY DEF Put
  <2> HIDE DEF stored
  <2>2. loginPending' = stored
        BY <1>2 DEF stored
  <2> QED  BY <2>1, <2>2
<1>4. /\ TypeOK /\ CeremoniesSound /\ nextPrune <= clock + TTL
      /\ issued \subseteq CeremonyId /\ redeemed \subseteq issued
      BY DEF IInv, TypeOK, CeremoniesSound
<1>5. /\ NextPrune \in Nat /\ NextPrune <= clock + TTL /\ NextPrune # 0
      /\ TTL <= clock + TTL /\ clock + TTL + TTL > NextPrune /\ clock + TTL \in Nat
      BY <1>4, DeadlineFacts
<1>6. CeremoniesTyped'
  <2>1. IsMap(loginPending', CeremonyId, LoginCeremony)
        BY <1>2, SweptFacts, PutIsMap
  <2> QED  BY <1>2, <1>4, <1>5, <2>1, SweptFacts DEF CeremoniesTyped
<1>7. \A x \in DOMAIN kept : x # id /\ x \in DOMAIN loginPending /\ loginPending'[x] = loginPending[x]
      BY <1>2, <1>3, <1>4, SweptFacts DEF CeremoniesSound
<1>8. \A x \in DOMAIN regPending' : /\ x # id /\ x \in DOMAIN regPending
                                     /\ regPending'[x] = regPending[x]
      BY <1>2, <1>4, SweptFacts DEF CeremoniesSound
<1> HIDE DEF kept
<1>9. ASSUME NEW x \in DOMAIN loginPending'
      PROVE  /\ x \in issued'
             /\ TTL <= loginPending'[x].expires /\ loginPending'[x].expires <= clock' + TTL
             /\ loginPending'[x].account # Nobody =>
                   loginPending'[x].credentials \subseteq enrolled'[loginPending'[x].account]
             /\ loginPending'[x].account = Nobody => loginPending'[x].credentials = {}
             /\ loginPending'[x].expires + TTL > nextPrune'
  <2>1. CASE x = id
        BY <1>1, <1>2, <1>3, <1>5, <2>1
  <2>2. CASE x \in DOMAIN kept
    <3>1. x \in DOMAIN loginPending /\ loginPending'[x] = loginPending[x]
          BY <1>7, <2>2
    <3>2. loginPending[x].expires + TTL > NextPrune
          BY <2>2, SweptFacts DEF kept
    <3>3. /\ loginPending[x].account \in Account \cup {Nobody}
          /\ x \in issued /\ TTL <= loginPending[x].expires /\ loginPending[x].expires <= clock + TTL
          /\ loginPending[x].account # Nobody =>
                loginPending[x].credentials \subseteq enrolled[loginPending[x].account]
          /\ loginPending[x].account = Nobody => loginPending[x].credentials = {}
          BY <1>4, <3>1, PendingTyped DEF CeremoniesSound
    <3>4. loginPending[x].account # Nobody =>
             loginPending[x].credentials \subseteq enrolled'[loginPending[x].account]
          BY <3>3 DEF Forward
    <3> QED  BY <1>2, <3>1, <3>2, <3>3, <3>4
  <2> QED  BY <1>3, <2>1, <2>2
<1>10. ASSUME NEW x \in DOMAIN regPending'
       PROVE  /\ x \in issued' /\ x # id /\ x \in DOMAIN regPending
              /\ TTL <= regPending'[x].expires /\ regPending'[x].expires <= clock' + TTL
              /\ regPending'[x].expires + TTL > nextPrune'
  <2>1. regPending[x].expires + TTL > NextPrune
        BY <1>2, SweptFacts
  <2> QED  BY <1>2, <1>4, <1>8, <2>1 DEF CeremoniesSound
<1>11. DOMAIN loginPending' \cap DOMAIN regPending' = {}
  <2>1. DOMAIN loginPending \cap DOMAIN regPending = {}
        BY <1>4 DEF CeremoniesSound
  <2> QED  BY <1>3, <1>7, <1>10, <2>1
<1> QED  BY <1>2, <1>5, <1>6, <1>9, <1>10, <1>11 DEF CeremoniesSound, PendingGarbageBound

LEMMA BeginRegistrationSound ==
  ASSUME IInv, Forward, clock' = clock, NEW id, NEW account \in Account, NEW signup \in BOOLEAN,
         beginRegistration(id, account, signup)
  PROVE  CeremoniesTyped' /\ CeremoniesSound'
<1> DEFINE kept == Pruned(regPending)
<1>1. PICK new \in RegistrationCeremony :
         /\ new = [account |-> account, signup |-> signup, expires |-> clock + TTL]
         /\ new.expires = clock + TTL
  <2>1. clock \in Nat /\ TTL \in Nat
        BY DEF IInv, TypeOK
  <2>2. clock + TTL \in Nat
        BY <2>1
  <2>3. [account |-> account, signup |-> signup, expires |-> clock + TTL] \in RegistrationCeremony
        BY <2>2 DEF RegistrationCeremony
  <2> QED  BY <2>3
<1>2. /\ id \in CeremonyId \ issued /\ issued' = issued \cup {id} /\ redeemed' = redeemed
      /\ regPending' = Put(kept, id, new) /\ loginPending' = Pruned(loginPending)
      /\ nextPrune' = NextPrune
      BY <1>1 DEF beginRegistration
<1>3. /\ DOMAIN regPending' = DOMAIN kept \cup {id} /\ regPending'[id] = new
      /\ \A x \in DOMAIN kept : x # id => regPending'[x] = kept[x]
  <2> DEFINE stored == Put(kept, id, new)
  <2>1. /\ DOMAIN stored = DOMAIN kept \cup {id} /\ stored[id] = new
        /\ \A x \in DOMAIN kept : x # id => stored[x] = kept[x]
        BY DEF Put
  <2> HIDE DEF stored
  <2>2. regPending' = stored
        BY <1>2 DEF stored
  <2> QED  BY <2>1, <2>2
<1>4. /\ TypeOK /\ CeremoniesSound /\ nextPrune <= clock + TTL
      /\ issued \subseteq CeremonyId /\ redeemed \subseteq issued
      BY DEF IInv, TypeOK, CeremoniesSound
<1>5. /\ NextPrune \in Nat /\ NextPrune <= clock + TTL /\ NextPrune # 0
      /\ TTL <= clock + TTL /\ clock + TTL + TTL > NextPrune /\ clock + TTL \in Nat
      BY <1>4, DeadlineFacts
<1>6. CeremoniesTyped'
  <2>1. IsMap(regPending', CeremonyId, RegistrationCeremony)
        BY <1>2, SweptFacts, PutIsMap
  <2> QED  BY <1>2, <1>4, <1>5, <2>1, SweptFacts DEF CeremoniesTyped
<1>7. \A x \in DOMAIN kept : x # id /\ x \in DOMAIN regPending /\ regPending'[x] = regPending[x]
      BY <1>2, <1>3, <1>4, SweptFacts DEF CeremoniesSound
<1>8. \A x \in DOMAIN loginPending' : /\ x # id /\ x \in DOMAIN loginPending
                                       /\ loginPending'[x] = loginPending[x]
      BY <1>2, <1>4, SweptFacts DEF CeremoniesSound
<1> HIDE DEF kept
<1>9. ASSUME NEW x \in DOMAIN loginPending'
      PROVE  /\ x \in issued' /\ x # id /\ x \in DOMAIN loginPending
             /\ TTL <= loginPending'[x].expires /\ loginPending'[x].expires <= clock' + TTL
             /\ loginPending'[x].account # Nobody =>
                   loginPending'[x].credentials \subseteq enrolled'[loginPending'[x].account]
             /\ loginPending'[x].account = Nobody => loginPending'[x].credentials = {}
             /\ loginPending'[x].expires + TTL > nextPrune'
  <2>1. x # id /\ x \in DOMAIN loginPending /\ loginPending'[x] = loginPending[x]
        BY <1>8
  <2>2. loginPending[x].expires + TTL > NextPrune
        BY <1>2, SweptFacts
  <2>3. /\ loginPending[x].account \in Account \cup {Nobody}
        /\ x \in issued /\ TTL <= loginPending[x].expires /\ loginPending[x].expires <= clock + TTL
        /\ loginPending[x].account # Nobody =>
              loginPending[x].credentials \subseteq enrolled[loginPending[x].account]
        /\ loginPending[x].account = Nobody => loginPending[x].credentials = {}
        BY <1>4, <2>1, PendingTyped DEF CeremoniesSound
  <2>4. loginPending[x].account # Nobody =>
           loginPending[x].credentials \subseteq enrolled'[loginPending[x].account]
        BY <2>3 DEF Forward
  <2> QED  BY <1>2, <2>1, <2>2, <2>3, <2>4
<1>10. ASSUME NEW x \in DOMAIN regPending'
       PROVE  /\ x \in issued'
              /\ TTL <= regPending'[x].expires /\ regPending'[x].expires <= clock' + TTL
              /\ regPending'[x].expires + TTL > nextPrune'
  <2>1. CASE x = id
        BY <1>1, <1>2, <1>3, <1>5, <2>1
  <2>2. CASE x \in DOMAIN kept
    <3>1. x \in DOMAIN regPending /\ regPending'[x] = regPending[x]
          BY <1>7, <2>2
    <3>2. regPending[x].expires + TTL > NextPrune
          BY <2>2, SweptFacts DEF kept
    <3> QED  BY <1>2, <1>4, <3>1, <3>2 DEF CeremoniesSound
  <2> QED  BY <1>3, <2>1, <2>2
<1>11. DOMAIN loginPending' \cap DOMAIN regPending' = {}
  <2>1. DOMAIN loginPending \cap DOMAIN regPending = {}
        BY <1>4 DEF CeremoniesSound
  <2> QED  BY <1>3, <1>7, <1>9, <2>1
<1> QED  BY <1>2, <1>5, <1>6, <1>9, <1>10, <1>11 DEF CeremoniesSound, PendingGarbageBound

\* A map that only loses ceremonies.
Shrinks(m, n) == DOMAIN n \subseteq DOMAIN m /\ \A id \in DOMAIN n : n[id] = m[id]

\* Steps that begin nothing: time, takes, restarts, and all that touch neither map.
LEMMA ShrinkSound ==
  ASSUME IInv, Forward, clock' \in Nat, issued' = issued, redeemed' \subseteq issued,
         nextPrune' \in {nextPrune, 0},
         IsMap(loginPending', CeremonyId, LoginCeremony), Shrinks(loginPending, loginPending'),
         IsMap(regPending', CeremonyId, RegistrationCeremony), Shrinks(regPending, regPending')
  PROVE  CeremoniesTyped' /\ CeremoniesSound'
<1>1. /\ clock \in Nat /\ TTL \in Nat /\ nextPrune \in Nat /\ issued \subseteq CeremonyId
      /\ CeremoniesSound /\ clock <= clock'
      BY DEF IInv, TypeOK, Forward
<1>2. CeremoniesTyped'
      BY <1>1 DEF CeremoniesTyped
<1>3. ASSUME NEW x \in DOMAIN loginPending'
      PROVE  /\ x \in issued' /\ x \in DOMAIN loginPending
             /\ TTL <= loginPending'[x].expires /\ loginPending'[x].expires <= clock' + TTL
             /\ loginPending'[x].account # Nobody =>
                   loginPending'[x].credentials \subseteq enrolled'[loginPending'[x].account]
             /\ loginPending'[x].account = Nobody => loginPending'[x].credentials = {}
             /\ nextPrune' # 0 => loginPending'[x].expires + TTL > nextPrune'
  <2>1. x \in DOMAIN loginPending /\ loginPending'[x] = loginPending[x]
        BY DEF Shrinks
  <2>2. /\ loginPending[x].account \in Account \cup {Nobody} /\ loginPending[x].expires \in Nat
        /\ x \in issued /\ TTL <= loginPending[x].expires /\ loginPending[x].expires <= clock + TTL
        /\ loginPending[x].account # Nobody =>
              loginPending[x].credentials \subseteq enrolled[loginPending[x].account]
        /\ loginPending[x].account = Nobody => loginPending[x].credentials = {}
        /\ nextPrune # 0 => loginPending[x].expires + TTL > nextPrune
        BY <1>1, <2>1, PendingTyped DEF CeremoniesSound, PendingGarbageBound
  <2>3. loginPending[x].account # Nobody =>
           loginPending[x].credentials \subseteq enrolled'[loginPending[x].account]
        BY <2>2 DEF Forward
  <2>4. loginPending[x].expires <= clock' + TTL
        BY <1>1, <2>2
  <2> QED  BY <2>1, <2>2, <2>3, <2>4
<1>4. ASSUME NEW x \in DOMAIN regPending'
      PROVE  /\ x \in issued' /\ x \in DOMAIN regPending
             /\ TTL <= regPending'[x].expires /\ regPending'[x].expires <= clock' + TTL
             /\ nextPrune' # 0 => regPending'[x].expires + TTL > nextPrune'
  <2>1. x \in DOMAIN regPending /\ regPending'[x] = regPending[x]
        BY DEF Shrinks
  <2>2. /\ regPending[x].expires \in Nat
        /\ x \in issued /\ TTL <= regPending[x].expires /\ regPending[x].expires <= clock + TTL
        /\ nextPrune # 0 => regPending[x].expires + TTL > nextPrune
        BY <1>1, <2>1, PendingTyped DEF CeremoniesSound, PendingGarbageBound
  <2>3. regPending[x].expires <= clock' + TTL
        BY <1>1, <2>2
  <2> QED  BY <2>1, <2>2, <2>3
<1>5. DOMAIN loginPending' \cap DOMAIN regPending' = {}
      BY <1>1, <1>3, <1>4 DEF CeremoniesSound
<1>6. nextPrune' <= clock' + TTL
      BY <1>1 DEF CeremoniesSound
<1> QED  BY <1>2, <1>3, <1>4, <1>5, <1>6 DEF CeremoniesSound, PendingGarbageBound

\* Taking a ceremony, from either map, leaves the rest.
LEMMA TakeSound ==
  ASSUME IInv, Forward, clock' = clock, NEW id \in issued, takeLogin(id) \/ takeRegistration(id)
  PROVE  CeremoniesTyped' /\ CeremoniesSound'
<1>1. /\ IsMap(loginPending, CeremonyId, LoginCeremony)
      /\ IsMap(regPending, CeremonyId, RegistrationCeremony)
      /\ clock \in Nat /\ redeemed \subseteq issued
      BY DEF IInv, TypeOK
<1>2. /\ IsMap(Drop(loginPending, {id}), CeremonyId, LoginCeremony)
      /\ Shrinks(loginPending, Drop(loginPending, {id}))
      /\ IsMap(Drop(regPending, {id}), CeremonyId, RegistrationCeremony)
      /\ Shrinks(regPending, Drop(regPending, {id}))
  <2>1. /\ Shrinks(loginPending, Drop(loginPending, {id}))
        /\ Shrinks(regPending, Drop(regPending, {id}))
        BY DEF Shrinks, Drop
  <2> QED  BY <1>1, <2>1, DropIsMap
<1>3. Shrinks(loginPending, loginPending) /\ Shrinks(regPending, regPending)
      BY DEF Shrinks
<1>4. CASE takeLogin(id)
  <2>1. /\ loginPending' = Drop(loginPending, {id}) /\ regPending' = regPending
        /\ nextPrune' = nextPrune /\ issued' = issued /\ redeemed' \subseteq issued
        BY <1>1, <1>4 DEF takeLogin
  <2> QED  BY <1>1, <1>2, <1>3, <2>1, ShrinkSound
<1>5. CASE takeRegistration(id)
  <2>1. /\ regPending' = Drop(regPending, {id}) /\ loginPending' = loginPending
        /\ nextPrune' = nextPrune /\ issued' = issued /\ redeemed' \subseteq issued
        BY <1>1, <1>5 DEF takeRegistration
  <2> QED  BY <1>1, <1>2, <1>3, <2>1, ShrinkSound
<1> QED  BY <1>4, <1>5

LEMMA IdleCeremoniesSound ==
  ASSUME IInv, Forward, clock' \in Nat, UNCHANGED ceremonyVars
  PROVE  CeremoniesTyped' /\ CeremoniesSound'
<1>1. /\ IsMap(loginPending, CeremonyId, LoginCeremony)
      /\ IsMap(regPending, CeremonyId, RegistrationCeremony)
      /\ redeemed \subseteq issued
      BY DEF IInv, TypeOK
<1>2. Shrinks(loginPending, loginPending) /\ Shrinks(regPending, regPending)
      BY DEF Shrinks
<1>3. /\ loginPending' = loginPending /\ regPending' = regPending
      /\ nextPrune' = nextPrune /\ issued' = issued /\ redeemed' = redeemed
      BY DEF ceremonyVars
<1> QED  BY <1>1, <1>2, <1>3, ShrinkSound

LEMMA OptionsSound ==
  ASSUME IInv, Forward, clock' = clock, NEW h \in Handler,
         accountLoginOptions(h) \/ registrationLookedUp(h) \/ signupLookedUp(h)
  PROVE  CeremoniesTyped' /\ CeremoniesSound'
<1> DEFINE reply == handler[h].reply
           command == handler[h].command
<1>1. handler[h].step = "replied"
      BY DEF accountLoginOptions, registrationLookedUp, signupLookedUp, Replied
<1>2. /\ command \in Command /\ reply \in Reply
      /\ JobSound(handler[h]) /\ ReplySound(handler[h])
      BY <1>1, RepliedFacts
<1>3. /\ command.op # "claim" => command.account \in Account
      /\ reply.account \in Account \cup {Nobody} /\ reply.listed \subseteq Cred
      BY <1>2, CommandFields, ReplyFields
<1>4. CASE UNCHANGED ceremonyVars
  <2>1. clock' \in Nat
        BY DEF IInv, TypeOK
  <2> QED  BY <1>4, <2>1, IdleCeremoniesSound
<1>5. ASSUME accountLoginOptions(h), NEW id \in CeremonyId, BeginLogin(id, reply.account, reply.listed)
      PROVE  CeremoniesTyped' /\ CeremoniesSound'
  <2>1. command.op = "lookup"
        BY <1>2, <1>5 DEF JobSound, accountLoginOptions, Replied
  <2>2. reply.account = command.account /\ reply.listed \subseteq enrolled[command.account]
        BY <1>2, <2>1 DEF ReplySound
  <2>3. /\ reply.account \in Account /\ reply.account # Nobody
        /\ reply.listed \subseteq enrolled'[reply.account]
        BY <1>3, <2>1, <2>2 DEF Forward
  <2> QED  BY <1>3, <1>5, <2>3, BeginLoginSound
<1>6. ASSUME NEW id \in CeremonyId, NEW account \in Account, NEW signup \in BOOLEAN,
             beginRegistration(id, account, signup)
      PROVE  CeremoniesTyped' /\ CeremoniesSound'
      BY <1>6, BeginRegistrationSound
<1>7. ASSUME registrationLookedUp(h), reply.verdict = "ok",
             NEW id \in CeremonyId, beginRegistration(id, reply.account, FALSE)
      PROVE  CeremoniesTyped' /\ CeremoniesSound'
  <2>1. reply.account \in Account /\ FALSE \in BOOLEAN
        BY <1>2, <1>7 DEF ReplySound
  <2> QED  BY <1>6, <1>7, <2>1, Zenon
<1>8. ASSUME signupLookedUp(h), NEW id \in CeremonyId, beginRegistration(id, command.account, TRUE)
      PROVE  CeremoniesTyped' /\ CeremoniesSound'
  <2>1. command.op = "lookup"
        BY <1>2, <1>8 DEF JobSound, signupLookedUp, Replied
  <2>2. command.account \in Account /\ TRUE \in BOOLEAN
        BY <1>3, <2>1
  <2> QED  BY <1>6, <1>8, <2>2, Zenon
<1>9. CASE accountLoginOptions(h)
      BY <1>4, <1>5, <1>9 DEF accountLoginOptions
<1>10. CASE registrationLookedUp(h)
      BY <1>4, <1>7, <1>10, Zenon DEF registrationLookedUp
<1>11. CASE signupLookedUp(h)
      BY <1>4, <1>8, <1>11, Zenon DEF signupLookedUp
<1> QED  BY <1>9, <1>10, <1>11

\* The maps of pending ceremonies stay sound.
LEMMA CeremoniesNext ==
  ASSUME IInv, Forward, [Next]_vars
  PROVE  CeremoniesTyped' /\ CeremoniesSound'
<1>1. clock \in Nat
      BY DEF IInv, TypeOK
<1>2. CASE UNCHANGED ceremonyVars /\ clock' \in Nat
      BY <1>2, IdleCeremoniesSound
<1>3. CASE Tick
      BY <1>1, <1>2, <1>3 DEF Tick
<1>4. CASE Restart
  <2>1. /\ IsMap(EmptyMap, CeremonyId, LoginCeremony)
        /\ IsMap(EmptyMap, CeremonyId, RegistrationCeremony)
        BY EmptyMapIsMap
  <2>2. Shrinks(loginPending, EmptyMap) /\ Shrinks(regPending, EmptyMap)
        BY DEF Shrinks, EmptyMap
  <2>3. /\ loginPending' = EmptyMap /\ regPending' = EmptyMap /\ nextPrune' = 0
        /\ issued' = issued /\ redeemed' = redeemed /\ clock' = clock /\ redeemed \subseteq issued
        BY <1>4 DEF Restart, IInv, TypeOK
  <2> QED  BY <1>1, <2>1, <2>2, <2>3, ShrinkSound
<1>5. CASE \/ \E c \in Cred : Revoke(c)
           \/ \E c \in late : JavaExecutesLate(c)
           \/ \E h \in Handler : JavaExecutes(h) \/ JavaRefuses(h) \/ CommandFails(h)
           \/ UNCHANGED vars
      BY <1>1, <1>2, <1>5 DEF Revoke, JavaExecutesLate, JavaExecutes, JavaRefuses, CommandFails, worldVars, vars
<1>6. ASSUME NEW h \in Handler, LoginRequest(h) PROVE CeremoniesTyped' /\ CeremoniesSound'
  <2>1. clock' = clock
        BY <1>6 DEF LoginRequest, LoginOptions, discoverableLoginOptions, LoginVerify, GatewayOnly, worldVars
  <2>2. ASSUME NEW id \in CeremonyId, BeginLogin(id, Nobody, {})
        PROVE  CeremoniesTyped' /\ CeremoniesSound'
        BY <2>1, <2>2, BeginLoginSound
  <2>3. ASSUME NEW id \in issued, takeLogin(id) PROVE CeremoniesTyped' /\ CeremoniesSound'
        BY <2>1, <2>3, TakeSound
  <2> QED  BY <1>1, <1>2, <1>6, <2>1, <2>2, <2>3
           DEF LoginRequest, LoginOptions, discoverableLoginOptions, LoginVerify
<1>7. ASSUME NEW h \in Handler, RegistrationRequest(h) PROVE CeremoniesTyped' /\ CeremoniesSound'
  <2>1. clock' = clock
        BY <1>7 DEF RegistrationRequest, RegistrationOptions, LocalRegistrationOptions, SignupOptions,
                    finishRegistration, GatewayOnly, worldVars
  <2>2. ASSUME NEW id \in issued, takeRegistration(id) PROVE CeremoniesTyped' /\ CeremoniesSound'
        BY <2>1, <2>2, TakeSound
  <2> QED  BY <1>1, <1>2, <1>7, <2>1, <2>2
           DEF RegistrationRequest, RegistrationOptions, LocalRegistrationOptions, SignupOptions,
               finishRegistration
<1>8. ASSUME NEW h \in Handler, Proceeds(h) PROVE CeremoniesTyped' /\ CeremoniesSound'
  <2>1. clock' = clock
        BY <1>8 DEF Proceeds, accountLoginOptions, discoverableUser, finishLogin, pairingClaimed,
                    registrationLookedUp, signupLookedUp, registered, signedUp, GatewayOnly, worldVars
  <2>2. CASE discoverableUser(h) \/ finishLogin(h) \/ pairingClaimed(h) \/ registered(h) \/ signedUp(h)
        BY <1>1, <1>2, <2>1, <2>2 DEF discoverableUser, finishLogin, pairingClaimed, registered, signedUp
  <2> QED  BY <1>8, <2>1, <2>2, OptionsSound DEF Proceeds
<1> QED  BY <1>3, <1>4, <1>5, <1>6, <1>7, <1>8 DEF Next
---------------------------------------------------------------------------
(* Requests in progress, sessions and answers                              *)

LEMMA HandlersNext ==
  ASSUME IInv, [Next]_vars
  PROVE  Moved /\ AnswerTyped'
<1>1. handler \in [Handler -> {Idle} \cup Job] /\ AnswerTyped
      BY DEF IInv, TypeOK, AnswerTyped
<1>2. handler' = handler => Moved
      BY <1>1 DEF Moved
<1>3. handler' = [h \in Handler |-> Idle] => Moved
      BY DEF Moved
<1>4. answer' = NoAnswer => AnswerTyped'
      BY DEF AnswerTyped, NoAnswer
<1>5. CASE Tick \/ (\E c \in Cred : Revoke(c)) \/ (\E c \in late : JavaExecutesLate(c))
      BY <1>2, <1>4, <1>5 DEF Tick, Revoke, JavaExecutesLate
<1>6. CASE Restart
      BY <1>3, <1>4, <1>6 DEF Restart
<1>7. ASSUME NEW h \in Handler, JavaExecutes(h) PROVE Moved /\ AnswerTyped'
  <2>1. AnswerTyped'
        BY <1>4, <1>7 DEF JavaExecutes
  <2> QED  BY <1>7, <2>1, JavaExecutesMoves
<1>8. CASE UNCHANGED vars
      BY <1>1, <1>2, <1>8 DEF vars, AnswerTyped
<1>9. ASSUME NEW h \in Handler, JavaRefuses(h) PROVE Moved /\ AnswerTyped'
  <2>1. AnswerTyped'
        BY <1>4, <1>9 DEF JavaRefuses
  <2> QED  BY <1>9, <2>1, JavaRefusesMoves
<1> QED  BY <1>5, <1>6, <1>7, <1>8, <1>9, LoginRequestMoves, RegistrationRequestMoves, ProceedsMoves,
            CommandFailsMoves DEF Next

LEMMA JobsNext ==
  ASSUME TypeOK, TypeOK', Forward, JobsSound, Moved
  PROVE  JobsSound'
<1> SUFFICES ASSUME NEW h \in Handler, NEW r, r = handler'[h], r # Idle
             PROVE  JobSound(r)'
    BY DEF JobsSound
<1>1. CASE r = handler[h]
  <2>1. r \in Job /\ JobSound(r)
        BY <1>1 DEF TypeOK, JobsSound
  <2> QED  BY <2>1, JobSoundStays
<1>2. CASE \E j \in Job : handler'[h] = j /\ JobSound(j)'
  <2>1. PICK j \in Job : handler'[h] = j /\ JobSound(j)'
        BY <1>2
  <2>2. j = r
        BY <2>1
  <2> QED  BY <2>1, <2>2, Zenon
<1> QED  BY <1>1, <1>2 DEF Moved

\* The one thing that may be added to the sessions.
SessionFits(s) ==
    /\ s \in Session
    /\ s.cred \in enrolled[s.account]
    /\ s.kind = "login" => s.began <= clock /\ (revokedAt[s.cred] = 0 \/ s.began <= revokedAt[s.cred])

LEMMA SessionsGrow ==
  ASSUME IInv, [Next]_vars
  PROVE  \A s \in sessions' : s \in sessions \/ SessionFits(s)
<1>1. CASE sessions' \subseteq sessions
      BY <1>1
<1>2. ASSUME NEW h \in Handler, finishLogin(h) \/ signedUp(h), NEW s \in sessions', s \notin sessions
      PROVE  SessionFits(s)
  <2> DEFINE job == handler[h]
  <2>1. handler[h].step = "replied"
        BY <1>2 DEF finishLogin, signedUp, Replied
  <2>2. /\ job.command \in Command /\ job.cred \in Cred \cup {Nobody} /\ job.began \in Nat
        /\ JobSound(job) /\ ReplySound(job)
        BY <2>1, RepliedFacts
  <2>3. job.command.op # "claim" => job.command.account \in Account
        BY <2>2, CommandFields
  <2>4. enrolled \in [Account -> SUBSET Cred]
        BY DEF IInv, TypeOK
  <2> HIDE DEF job
  <2>5. CASE finishLogin(h)
    <3>1. job.command.op = "counter" /\ job.route = "login-verify"
          BY <2>5 DEF finishLogin, Replied, job
    <3>2. s = [account |-> job.command.account, cred |-> job.cred, kind |-> "login", began |-> job.began]
          /\ job.reply.verdict = "ok"
          BY <1>2, <2>5 DEF finishLogin, job
    <3>3. /\ job.cred \in Cred /\ job.began <= clock /\ job.cred \in enrolled[job.command.account]
          /\ job.command.account \in Account
          BY <2>2, <2>3, <3>1 DEF JobSound
    <3>4. revokedAt[job.cred] = 0 \/ job.began <= revokedAt[job.cred]
          BY <2>2, <3>1, <3>2 DEF ReplySound
    <3>5. /\ s \in Session /\ s.account = job.command.account /\ s.cred = job.cred
          /\ s.began = job.began
          BY <2>2, <3>2, <3>3 DEF Session
    <3> QED  BY <3>3, <3>4, <3>5 DEF SessionFits
  <2>6. CASE signedUp(h)
    <3>1. job.route = "signup-verify"
          BY <2>6 DEF signedUp, Replied, job
    <3>2. job.command.op \in {"register", "signup"}
          BY <2>2, <3>1 DEF JobSound
    <3>3. s = [account |-> job.command.account, cred |-> job.cred, kind |-> job.command.op,
               began |-> job.began]
          /\ job.reply.verdict = "ok"
          BY <1>2, <2>6 DEF signedUp, job
    <3>4. job.cred \in enrolled[job.command.account] /\ job.command.account \in Account
          BY <2>2, <2>3, <3>2, <3>3 DEF ReplySound
    <3>5. job.cred \in Cred
          BY <2>4, <3>4
    <3>6. /\ s \in Session /\ s.account = job.command.account /\ s.cred = job.cred
          /\ s.kind = job.command.op
          BY <2>2, <3>2, <3>3, <3>4, <3>5 DEF Session
    <3> QED  BY <3>2, <3>4, <3>6 DEF SessionFits
  <2> QED  BY <1>2, <2>5, <2>6
<1>3. CASE Tick \/ Restart \/ (\E c \in Cred : Revoke(c)) \/ (\E c \in late : JavaExecutesLate(c))
      BY <1>1, <1>3 DEF Tick, Restart, Revoke, JavaExecutesLate
<1>4. ASSUME NEW h \in Handler, LoginRequest(h) PROVE sessions' = sessions
      BY <1>4 DEF LoginRequest, LoginOptions, discoverableLoginOptions, LoginVerify
<1>5. ASSUME NEW h \in Handler, RegistrationRequest(h) PROVE sessions' = sessions
      BY <1>5 DEF RegistrationRequest, RegistrationOptions, LocalRegistrationOptions, SignupOptions,
                  finishRegistration
<1>6. ASSUME NEW h \in Handler, JavaExecutes(h) \/ JavaRefuses(h) \/ CommandFails(h)
      PROVE  sessions' = sessions
      BY <1>6 DEF JavaExecutes, JavaRefuses, CommandFails
<1>7. ASSUME NEW h \in Handler, Proceeds(h), ~finishLogin(h), ~signedUp(h) PROVE sessions' = sessions
      BY <1>7 DEF Proceeds, accountLoginOptions, discoverableUser, pairingClaimed, registrationLookedUp,
                  signupLookedUp, registered
<1>8. CASE UNCHANGED vars
      BY <1>1, <1>8 DEF vars
<1> QED  BY <1>1, <1>2, <1>3, <1>4, <1>5, <1>6, <1>7, <1>8 DEF Next, Proceeds

LEMMA SessionsNext ==
  ASSUME IInv, Forward, [Next]_vars
  PROVE  sessions' \subseteq Session /\ SessionsSound'
<1>1. /\ sessions \subseteq Session /\ SessionsSound /\ clock \in Nat /\ clock' \in {clock, clock + 1}
      BY DEF IInv, TypeOK, Forward
<1>2. ASSUME NEW s \in sessions' PROVE SessionFits(s)
  <2>1. CASE s \in sessions
        BY <1>1, <2>1 DEF SessionsSound, AccountBinding, RevokedBeforeChallengeRefused, SessionFits
  <2> QED  BY <2>1, SessionsGrow
<1>3. ASSUME NEW s \in sessions'
      PROVE  /\ s \in Session /\ s.cred \in enrolled'[s.account]
             /\ s.kind = "login" => /\ s.began <= clock'
                                    /\ revokedAt'[s.cred] = 0 \/ s.began <= revokedAt'[s.cred]
  <2>1. SessionFits(s)
        BY <1>2
  <2>2. s.account \in Account /\ s.cred \in Cred /\ s.began \in Nat
        BY <2>1 DEF SessionFits, Session
  <2>3. s.cred \in enrolled'[s.account]
        BY <2>1, <2>2 DEF SessionFits, Forward
  <2>4. revokedAt'[s.cred] = revokedAt[s.cred] \/ revokedAt'[s.cred] = clock
        BY <2>2 DEF Forward
  <2>5. clock' \in Nat /\ clock <= clock'
        BY <1>1
  <2>6. s.kind = "login" => s.began <= clock'
        BY <1>1, <2>1, <2>2, <2>5 DEF SessionFits
  <2> QED  BY <2>1, <2>3, <2>4, <2>6 DEF SessionFits
<1> QED  BY <1>3 DEF SessionsSound, AccountBinding, RevokedBeforeChallengeRefused

---------------------------------------------------------------------------
(* The invariant and what follows from it                                  *)

\* What is left of the type invariant.
WorldTyped ==
    /\ clock \in Nat \ {0} /\ crashes \in Nat
    /\ accounts \subseteq Account
    /\ enrolled \in [Account -> SUBSET Cred]
    /\ revokedAt \in [Cred -> Nat]
    /\ unclaimed \subseteq Token
    /\ late \subseteq Command

LEMMA ExecuteTyped ==
  ASSUME TypeOK, NEW command \in Command, Execute(command)
  PROVE  /\ accounts' \subseteq Account /\ enrolled' \in [Account -> SUBSET Cred]
         /\ unclaimed' \subseteq Token
<1>1. /\ command.op = "signup" => command.account \in Account
      /\ command.op \in {"register", "signup"} => command.cred \in Cred
      BY CommandFields
<1>2. accounts \subseteq Account /\ enrolled \in [Account -> SUBSET Cred] /\ unclaimed \subseteq Token
      BY DEF TypeOK
<1>3. accounts' \subseteq Account /\ unclaimed' \subseteq Token
      BY <1>1, <1>2 DEF Execute
<1>4. enrolled' \in [Account -> SUBSET Cred]
      BY <1>1, <1>2 DEF Execute
<1> QED  BY <1>3, <1>4

LEMMA WaitingIsJob ==
  ASSUME TypeOK, NEW h \in Handler, Waiting(h)
  PROVE  handler[h].command \in Command
<1>1. handler[h] \in {Idle} \cup Job /\ handler[h] # Idle
      BY DEF TypeOK, Waiting, Idle
<1> QED  BY <1>1, JobFields

LEMMA WorldNext == ASSUME IInv, [Next]_vars PROVE WorldTyped'
<1> TypeOK /\ WorldTyped
    BY DEF IInv, TypeOK, WorldTyped
<1>1. CASE UNCHANGED <<javaVars, worldVars>> /\ late' \subseteq Command
      BY <1>1 DEF javaVars, worldVars, WorldTyped
<1>2. CASE Tick
      BY <1>2 DEF Tick, javaVars, WorldTyped
<1>3. CASE Restart
  <2>1. {handler[h].command : h \in {g \in Handler : Waiting(g)}} \subseteq Command
        BY WaitingIsJob
  <2>2. late' \subseteq Command
        BY <1>3, <2>1 DEF Restart, WorldTyped
  <2> QED  BY <1>3, <2>2 DEF Restart, javaVars, WorldTyped
<1>4. ASSUME NEW c \in Cred, Revoke(c) PROVE WorldTyped'
      BY <1>4 DEF Revoke, javaVars, WorldTyped
<1>5. ASSUME NEW c \in late, JavaExecutesLate(c) PROVE WorldTyped'
  <2>1. c \in Command
        BY DEF WorldTyped
  <2>2. Execute(c) /\ UNCHANGED worldVars /\ late' \subseteq late
        BY <1>5 DEF JavaExecutesLate
  <2> QED  BY <2>1, <2>2, ExecuteTyped DEF worldVars, WorldTyped
<1>6. ASSUME NEW h \in Handler, JavaExecutes(h) PROVE WorldTyped'
  <2>1. handler[h].command \in Command
        BY <1>6, WaitingIsJob DEF JavaExecutes
  <2>2. Execute(handler[h].command) /\ UNCHANGED worldVars /\ late' = late
        BY <1>6 DEF JavaExecutes
  <2> QED  BY <2>1, <2>2, ExecuteTyped DEF worldVars, WorldTyped
<1>12. ASSUME NEW h \in Handler, JavaRefuses(h) PROVE WorldTyped'
      BY <1>1, <1>12 DEF JavaRefuses, WorldTyped
<1>7. ASSUME NEW h \in Handler, LoginRequest(h) PROVE WorldTyped'
      BY <1>1, <1>7 DEF LoginRequest, LoginOptions, discoverableLoginOptions, LoginVerify, GatewayOnly,
                        WorldTyped
<1>8. ASSUME NEW h \in Handler, RegistrationRequest(h) PROVE WorldTyped'
  <2>1. /\ UNCHANGED <<javaVars, clock, crashes, revokedAt, late>>
        BY <1>8 DEF RegistrationRequest, RegistrationOptions, LocalRegistrationOptions,
                    SignupOptions, finishRegistration, GatewayOnly, worldVars
  <2> QED  BY <2>1 DEF javaVars, WorldTyped
<1>9. ASSUME NEW h \in Handler, Proceeds(h) PROVE WorldTyped'
      BY <1>1, <1>9 DEF Proceeds, accountLoginOptions, discoverableUser, finishLogin, pairingClaimed,
                        registrationLookedUp, signupLookedUp, registered, signedUp, GatewayOnly, WorldTyped
<1>10. ASSUME NEW h \in Handler, CommandFails(h) PROVE WorldTyped'
      BY <1>1, <1>10, CommandFailsMoves DEF CommandFails
<1>11. CASE UNCHANGED vars
      BY <1>1, <1>11 DEF vars, WorldTyped
<1> QED  BY <1>2, <1>3, <1>4, <1>5, <1>6, <1>7, <1>8, <1>9, <1>10, <1>11, <1>12 DEF Next

LEMMA InvariantNext == ASSUME IInv, [Next]_vars PROVE IInv'
<1>1. TypeOK /\ JobsSound
      BY DEF IInv
<1>2. Forward
      BY <1>1, StepForward
<1>3. Moved /\ AnswerTyped'
      BY HandlersNext
<1>4. WorldTyped'
      BY WorldNext
<1>5. CeremoniesTyped' /\ CeremoniesSound'
      BY <1>2, CeremoniesNext
<1>6. sessions' \subseteq Session /\ SessionsSound'
      BY <1>2, SessionsNext
<1>7. TypeOK'
      BY <1>3, <1>4, <1>5, <1>6 DEF TypeOK, Moved, AnswerTyped, WorldTyped, CeremoniesTyped
<1>8. JobsSound'
      BY <1>1, <1>2, <1>3, <1>7, JobsNext
<1> QED  BY <1>5, <1>6, <1>7, <1>8 DEF IInv

LEMMA InvariantInit == Init => IInv
<1> SUFFICES ASSUME Init PROVE IInv
    OBVIOUS
<1>1. IsMap(loginPending, CeremonyId, LoginCeremony) /\ IsMap(regPending, CeremonyId, RegistrationCeremony)
      BY EmptyMapIsMap DEF Init
<1>2. DOMAIN loginPending = {} /\ DOMAIN regPending = {}
      BY DEF Init, EmptyMap
<1>3. clock = 1 /\ nextPrune = 0 /\ TTL \in Nat
      BY DEF Init
<1>4. CeremoniesSound
      BY <1>2, <1>3 DEF CeremoniesSound, PendingGarbageBound
<1>5. accounts \subseteq Account /\ enrolled \in [Account -> SUBSET Cred]
      BY DEF Init
<1>6. TypeOK
      BY <1>1, <1>5 DEF Init, TypeOK, NoAnswer
<1>7. SessionsSound
      BY DEF Init, SessionsSound, AccountBinding, RevokedBeforeChallengeRefused
<1>8. JobsSound
      BY DEF Init, JobsSound
<1> QED  BY <1>4, <1>6, <1>7, <1>8 DEF IInv

\* Everything below follows from it: types, sound requests in progress, sound
\* ceremonies, sound sessions and honest answers hold at every step together.
THEOREM Invariant == Spec => []IInv
<1>1. IInv /\ [Next]_vars => IInv'
      BY InvariantNext
<1> QED  BY <1>1, InvariantInit, PTL DEF Spec

\* Every variable keeps its type; no session and no pending registration ever
\* lacks an account (passkeys.go:102-129).
THEOREM TypeCorrect == Spec => []TypeOK
  BY Invariant, PTL DEF IInv

\* A browser session is for the account its credential is enrolled for,
\* whatever the browser claimed and however stale the lookup it passed
\* (passkeys.go:240-250, 267-302, 407-414).
THEOREM SessionsBound == Spec => []AccountBinding
<1>1. IInv => AccountBinding
      BY DEF IInv, SessionsSound
<1> QED  BY <1>1, Invariant, PTL

\* A credential revoked before a login ceremony was opened gets no session
\* from it: the counter update re-checks what the stale lookup cannot know
\* (passkeys.go:204-219, 247).
THEOREM RevocationHonoured == Spec => []RevokedBeforeChallengeRefused
<1>1. IInv => RevokedBeforeChallengeRefused
      BY DEF IInv, SessionsSound
<1> QED  BY <1>1, Invariant, PTL

\* A ceremony outlives its deadline in the maps by less than one sweep period
\* (passkeys.go:439-455).
THEOREM GarbageBounded == Spec => []PendingGarbageBound
<1>1. IInv => PendingGarbageBound
      BY DEF IInv, CeremoniesSound
<1> QED  BY <1>1, Invariant, PTL

\* What the next answer may say of a name.
Honest ==
    answer'.status = "conflict" =>
          \/ answer'.account \in accounts
          \/ \E h \in Handler :
                /\ handler[h].step = "replied" /\ handler[h].reply.verdict = "refused"
                /\ handler[h].command.op = "lookup"
                /\ handler[h].command.account = answer'.account /\ idle(h)'

LEMMA ConflictNext ==
  ASSUME IInv, Next
  PROVE  Honest
<1>2. CASE answer'.status # "conflict"
      BY <1>2 DEF Honest
<1>3. CASE answer' = NoAnswer
      BY <1>2, <1>3 DEF NoAnswer
<1>4. ASSUME NEW h \in Handler, Reject(h) PROVE Honest
      BY <1>2, <1>4 DEF Reject, Return
<1>5. ASSUME NEW h \in Handler, NEW r, Send(h, r) PROVE Honest
      BY <1>3, <1>5 DEF Send
<1>6. ASSUME NEW h \in Handler, NEW account, Return(h, "ok", account) PROVE Honest
      BY <1>2, <1>6 DEF Return
<1>7. CASE Tick \/ Restart \/ (\E c \in Cred : Revoke(c)) \/ (\E c \in late : JavaExecutesLate(c))
      BY <1>3, <1>7 DEF Tick, Restart, Revoke, JavaExecutesLate
<1>8. ASSUME NEW h \in Handler, JavaExecutes(h) \/ JavaRefuses(h) \/ CommandFails(h) PROVE Honest
      BY <1>3, <1>4, <1>8 DEF JavaExecutes, JavaRefuses, CommandFails
<1>9. ASSUME NEW h \in Handler, LoginRequest(h) PROVE Honest
      BY <1>4, <1>5, <1>6, <1>9, Zenon
      DEF LoginRequest, LoginOptions, discoverableLoginOptions, LoginVerify
<1>10. ASSUME NEW h \in Handler, RegistrationRequest(h) PROVE Honest
      BY <1>4, <1>5, <1>10, Zenon
      DEF RegistrationRequest, RegistrationOptions, LocalRegistrationOptions, SignupOptions,
          finishRegistration
<1>11. ASSUME NEW h \in Handler, signupLookedUp(h) \/ signedUp(h),
              Return(h, "conflict", handler[h].command.account)
       PROVE  Honest
  <2>1. handler[h].step = "replied"
        BY <1>11 DEF signupLookedUp, signedUp, Replied
  <2>2. JobSound(handler[h]) /\ ReplySound(handler[h])
        BY <2>1, RepliedFacts
  <2>3. answer'.account = handler[h].command.account /\ answer'.status = "conflict"
        BY <1>11 DEF Return
  <2>4. CASE signupLookedUp(h) /\ handler[h].reply.verdict # "unknown"
    <3>1. handler[h].command.op = "lookup"
          BY <2>2, <2>4 DEF JobSound, signupLookedUp, Replied
    <3>2. CASE handler[h].reply.verdict = "refused"
      <4>1. idle(h)'
        <5>1. handler' = [handler EXCEPT ![h] = Idle] /\ handler \in [Handler -> {Idle} \cup Job]
              BY <1>11 DEF Return, IInv, TypeOK
        <5>2. handler'[h].step = "idle"
              BY <5>1 DEF Idle
        <5> QED  BY <5>2 DEF idle
      <4> QED  BY <2>1, <2>3, <3>1, <3>2, <4>1 DEF Honest
    <3>3. CASE handler[h].reply.verdict # "refused"
      <4>1. handler[h].command.account \in accounts
            BY <2>2, <2>4, <3>1, <3>3 DEF ReplySound
      <4> QED  BY <2>3, <4>1 DEF Honest
    <3> QED  BY <3>2, <3>3
  <2>5. CASE handler[h].reply.verdict = "exists"
    <3>1. handler[h].command.account \in accounts
          BY <2>2, <2>5 DEF ReplySound
    <3> QED  BY <2>3, <3>1 DEF Honest
  <2>7. CASE signedUp(h)
        BY <2>3, <2>5, <2>7 DEF signedUp, Reject, Return
  <2>8. CASE signupLookedUp(h)
    <3>1. handler[h].reply.verdict # "unknown" \/ Return(h, "ok", handler[h].command.account)
          BY <2>8, Zenon DEF signupLookedUp
    <3>2. ~Return(h, "ok", handler[h].command.account)
          BY <2>3 DEF Return
    <3> QED  BY <2>4, <2>8, <3>1, <3>2
  <2> QED  BY <1>11, <2>7, <2>8
<1>12. ASSUME NEW h \in Handler, Proceeds(h) PROVE Honest
  <2>1. CASE signupLookedUp(h)
        BY <1>6, <1>11, <2>1, Zenon DEF signupLookedUp
  <2>2. CASE signedUp(h)
        BY <1>4, <1>6, <1>11, <2>2, Zenon DEF signedUp
  <2> QED  BY <1>4, <1>5, <1>6, <1>12, <2>1, <2>2, Zenon
           DEF Proceeds, accountLoginOptions, discoverableUser, finishLogin, pairingClaimed,
               registrationLookedUp, registered
<1> QED  BY <1>7, <1>8, <1>9, <1>10, <1>12 DEF Next

\* A browser is told that a name is taken only if Java knows the account, or
\* refused the lookup this very request made of it, for whatever reason; never
\* because a command failed or a signup was refused otherwise
\* (passkeys.go:29-41, 329-335; server.go:573-578).
THEOREM ConflictsAreJavas == Spec => ConflictOnJavasWord
<1>1. IInv /\ [Next]_vars => [Honest]_vars
      BY ConflictNext
<1> QED  BY <1>1, Invariant, PTL DEF Spec, ConflictOnJavasWord, Honest
---------------------------------------------------------------------------
(* The maps implement the abstract ceremonies                              *)

OpenIds == {i \in CeremonyId : Open(loginPending, i) \/ Open(regPending, i)}

\* What the refinement mapping yields, in terms of the two maps.
LEMMA OpenCeremoniesAre ==
  ASSUME CeremoniesSound
  PROVE  /\ OpenCeremonies = [i \in OpenIds |-> OpenCeremonies[i]]
         /\ \A i \in OpenIds : /\ Open(loginPending, i) => OpenCeremonies[i] = loginPending[i].expires
                               /\ Open(regPending, i) => OpenCeremonies[i] = regPending[i].expires
<1>1. DOMAIN loginPending \cap DOMAIN regPending = {}
      BY DEF CeremoniesSound
<1>2. OpenCeremonies = [i \in OpenIds |-> IF i \in DOMAIN loginPending THEN loginPending[i].expires
                                                                       ELSE regPending[i].expires]
      BY DEF OpenCeremonies, OpenIds
<1> QED  BY <1>1, <1>2 DEF Open

LEMMA OpenCeremoniesBecome ==
  ASSUME CeremoniesSound'
  PROVE  /\ OpenCeremonies' = [i \in OpenIds' |-> OpenCeremonies'[i]]
         /\ \A i \in OpenIds' :
               /\ Open(loginPending, i)' => OpenCeremonies'[i] = loginPending'[i].expires
               /\ Open(regPending, i)' => OpenCeremonies'[i] = regPending'[i].expires
<1>1. DOMAIN loginPending' \cap DOMAIN regPending' = {}
      BY DEF CeremoniesSound
<1>2. OpenCeremonies' = [i \in OpenIds' |-> IF i \in DOMAIN loginPending' THEN loginPending'[i].expires
                                                                         ELSE regPending'[i].expires]
      BY DEF OpenCeremonies, OpenIds
<1> QED  BY <1>1, <1>2 DEF Open

\* A ceremony neither begun nor taken stays as open as it was.
Persists(i) ==
    /\ Open(loginPending, i)' <=> Open(loginPending, i)
    /\ Open(regPending, i)' <=> Open(regPending, i)
    /\ Open(loginPending, i) => loginPending'[i] = loginPending[i]
    /\ Open(regPending, i) => regPending'[i] = regPending[i]

LEMMA PersistsKeeps ==
  ASSUME CeremoniesSound, CeremoniesSound', NEW i \in CeremonyId, Persists(i)
  PROVE  /\ i \in OpenIds' <=> i \in OpenIds
         /\ i \in OpenIds => OpenCeremonies'[i] = OpenCeremonies[i]
<1>1. i \in OpenIds' <=> i \in OpenIds
      BY DEF Persists, OpenIds
<1>2. i \in OpenIds <=> Open(loginPending, i) \/ Open(regPending, i)
      BY DEF OpenIds
<1> QED  BY <1>1, <1>2, OpenCeremoniesAre, OpenCeremoniesBecome DEF Persists

\* Nothing begins, nothing is taken: the abstract state is unchanged.
LEMMA AllPersist ==
  ASSUME CeremoniesSound, CeremoniesSound', \A i \in CeremonyId : Persists(i)
  PROVE  OpenCeremonies' = OpenCeremonies
<1>1. OpenIds' = OpenIds
  <2>1. \A i \in CeremonyId : i \in OpenIds' <=> i \in OpenIds
        BY PersistsKeeps
  <2> QED  BY <2>1 DEF OpenIds
<1>2. \A i \in OpenIds : OpenCeremonies'[i] = OpenCeremonies[i]
      BY PersistsKeeps DEF OpenIds
<1> QED  BY <1>1, <1>2, OpenCeremoniesAre, OpenCeremoniesBecome

\* One begins.
LEMMA OneBegins ==
  ASSUME CeremoniesSound, CeremoniesSound', NEW id \in CeremonyId, NEW deadline,
         \A i \in CeremonyId : i # id => Persists(i),
         id \in OpenIds', OpenCeremonies'[id] = deadline
  PROVE  OpenCeremonies' = Put(OpenCeremonies, id, deadline)
<1>1. ASSUME NEW i \in CeremonyId, i # id
      PROVE  /\ i \in OpenIds' <=> i \in OpenIds
             /\ i \in OpenIds => OpenCeremonies'[i] = OpenCeremonies[i]
  <2>1. Persists(i)
        BY <1>1
  <2> QED  BY <2>1, PersistsKeeps
<1>2. OpenIds \subseteq CeremonyId /\ OpenIds' \subseteq CeremonyId
      BY DEF OpenIds
<1>3. OpenIds' = OpenIds \cup {id}
      BY <1>1, <1>2
<1>4. DOMAIN OpenCeremonies = OpenIds
      BY OpenCeremoniesAre
<1>5. OpenCeremonies' = [i \in OpenIds' |-> OpenCeremonies'[i]]
      BY OpenCeremoniesBecome
<1>6. \A i \in OpenIds' : OpenCeremonies'[i] = IF i = id THEN deadline ELSE OpenCeremonies[i]
      BY <1>1, <1>2, <1>3
<1> QED  BY <1>3, <1>4, <1>5, <1>6 DEF Put

\* One is over.
LEMMA OneEnds ==
  ASSUME CeremoniesSound, CeremoniesSound', NEW id \in CeremonyId,
         \A i \in CeremonyId : i # id => Persists(i), id \notin OpenIds'
  PROVE  OpenCeremonies' = Drop(OpenCeremonies, {id})
<1>1. ASSUME NEW i \in CeremonyId, i # id
      PROVE  /\ i \in OpenIds' <=> i \in OpenIds
             /\ i \in OpenIds => OpenCeremonies'[i] = OpenCeremonies[i]
  <2>1. Persists(i)
        BY <1>1
  <2> QED  BY <2>1, PersistsKeeps
<1>2. OpenIds \subseteq CeremonyId /\ OpenIds' \subseteq CeremonyId
      BY DEF OpenIds
<1>3. OpenIds' = OpenIds \ {id}
      BY <1>1, <1>2
<1>4. DOMAIN OpenCeremonies = OpenIds
      BY OpenCeremoniesAre
<1>5. OpenCeremonies' = [i \in OpenIds' |-> OpenCeremonies'[i]]
      BY OpenCeremoniesBecome
<1>6. \A i \in OpenIds' : OpenCeremonies'[i] = OpenCeremonies[i]
      BY <1>1, <1>2, <1>3
<1> QED  BY <1>3, <1>4, <1>5, <1>6 DEF Drop

\* A sweep keeps what is open.
LEMMA PrunedOpen ==
  ASSUME TypeOK, NEW m, \A id \in DOMAIN m : m[id].expires \in Nat, NEW i
  PROVE  /\ Open(Pruned(m), i) <=> Open(m, i)
         /\ Open(m, i) => Pruned(m)[i] = m[i]
<1>1. clock \in Nat
      BY DEF TypeOK
<1>2. CASE ~PruneDue
      BY <1>2 DEF Pruned
<1>3. CASE PruneDue
  <2> DEFINE stale == {id \in DOMAIN m : clock >= m[id].expires}
  <2>1. Pruned(m) = [x \in DOMAIN m \ stale |-> m[x]]
        BY <1>3 DEF Pruned, Drop
  <2> QED  BY <1>1, <2>1 DEF Open
<1> QED  BY <1>2, <1>3

LEMMA PutOpen ==
  ASSUME NEW m, NEW k, NEW v, NEW i, i # k
  PROVE  /\ Open(Put(m, k, v), i) <=> Open(m, i)
         /\ Open(m, i) => Put(m, k, v)[i] = m[i]
  BY DEF Put, Open

\* What is open after a step, when the clock stands still.
LEMMA OpenBecomes ==
  ASSUME clock' = clock, NEW i
  PROVE  /\ Open(loginPending, i)' <=> i \in DOMAIN loginPending' /\ clock < loginPending'[i].expires
         /\ Open(regPending, i)' <=> i \in DOMAIN regPending' /\ clock < regPending'[i].expires
  BY DEF Open

LEMMA BeginPersists ==
  ASSUME IInv, clock' = clock, NEW id, NEW new, NEW i, i # id,
         \/ /\ loginPending' = Put(Pruned(loginPending), id, new)
            /\ regPending' = Pruned(regPending)
         \/ /\ regPending' = Put(Pruned(regPending), id, new)
            /\ loginPending' = Pruned(loginPending)
  PROVE  Persists(i)
<1>1. /\ Open(Pruned(loginPending), i) <=> Open(loginPending, i)
      /\ Open(loginPending, i) => Pruned(loginPending)[i] = loginPending[i]
      BY PrunedOpen, PendingTyped DEF IInv
<1>2. /\ Open(Pruned(regPending), i) <=> Open(regPending, i)
      /\ Open(regPending, i) => Pruned(regPending)[i] = regPending[i]
      BY PrunedOpen, PendingTyped DEF IInv
<1>3. /\ Open(Put(Pruned(loginPending), id, new), i) <=> Open(Pruned(loginPending), i)
      /\ Open(Pruned(loginPending), i) =>
            Put(Pruned(loginPending), id, new)[i] = Pruned(loginPending)[i]
      BY PutOpen
<1>4. /\ Open(Put(Pruned(regPending), id, new), i) <=> Open(Pruned(regPending), i)
      /\ Open(Pruned(regPending), i) => Put(Pruned(regPending), id, new)[i] = Pruned(regPending)[i]
      BY PutOpen
<1>5. /\ Open(loginPending, i)' <=> i \in DOMAIN loginPending' /\ clock < loginPending'[i].expires
      /\ Open(regPending, i)' <=> i \in DOMAIN regPending' /\ clock < regPending'[i].expires
      BY OpenBecomes
<1>6. \A m : Open(m, i) <=> i \in DOMAIN m /\ clock < m[i].expires
      BY DEF Open
<1>7. Open(loginPending, i)' <=> Open(loginPending, i)
      BY <1>1, <1>3, <1>5, <1>6
<1>8. Open(regPending, i)' <=> Open(regPending, i)
      BY <1>2, <1>4, <1>5, <1>6
<1>9. /\ Open(loginPending, i) => loginPending'[i] = loginPending[i]
      /\ Open(regPending, i) => regPending'[i] = regPending[i]
      BY <1>1, <1>2, <1>3, <1>4
<1> QED  BY <1>7, <1>8, <1>9 DEF Persists

LEMMA BeginImplements ==
  ASSUME IInv, IInv', clock' = clock, NEW id \in CeremonyId,
         \/ \E account, credentials : BeginLogin(id, account, credentials)
         \/ \E account, signup : beginRegistration(id, account, signup)
  PROVE  Abstract!Begin(id)
<1>1. /\ CeremoniesSound /\ CeremoniesSound' /\ clock \in Nat /\ TTL \in Nat \ {0}
      BY DEF IInv, TypeOK
<1>2. clock < clock + TTL
      BY <1>1
<1>3. id \notin issued /\ issued' = issued \cup {id} /\ redeemed' = redeemed
      BY DEF BeginLogin, beginRegistration
<1>4. PICK new : /\ new.expires = clock + TTL
                 /\ \/ /\ loginPending' = Put(Pruned(loginPending), id, new)
                       /\ regPending' = Pruned(regPending)
                    \/ /\ regPending' = Put(Pruned(regPending), id, new)
                       /\ loginPending' = Pruned(loginPending)
      BY DEF BeginLogin, beginRegistration
<1>5. \A i \in CeremonyId : i # id => Persists(i)
      BY <1>4, BeginPersists
<1>6. \/ id \in DOMAIN loginPending' /\ loginPending'[id] = new
      \/ id \in DOMAIN regPending' /\ regPending'[id] = new
      BY <1>4 DEF Put
<1>7. \/ Open(loginPending, id)' /\ loginPending'[id].expires = clock + TTL
      \/ Open(regPending, id)' /\ regPending'[id].expires = clock + TTL
      BY <1>2, <1>4, <1>6, OpenBecomes
<1>8. id \in OpenIds'
      BY <1>7 DEF OpenIds
<1>9. OpenCeremonies'[id] = clock + TTL
      BY <1>1, <1>7, <1>8, OpenCeremoniesBecome
<1>10. OpenCeremonies' = Put(OpenCeremonies, id, clock + TTL)
      BY <1>1, <1>5, <1>8, <1>9, OneBegins
<1> QED  BY <1>3, <1>10 DEF Abstract!Begin, Abstract!Put, Put

\* A take redeems what is open and otherwise changes nothing that shows.
LEMMA TakeImplements ==
  ASSUME IInv, IInv', clock' = clock, NEW id \in issued, takeLogin(id) \/ takeRegistration(id)
  PROVE  Abstract!Redeem(id) \/ UNCHANGED <<clock, OpenCeremonies, issued, redeemed>>
<1>1. /\ CeremoniesSound /\ CeremoniesSound' /\ id \in CeremonyId /\ issued' = issued
      /\ DOMAIN loginPending \cap DOMAIN regPending = {}
      BY DEF IInv, TypeOK, CeremoniesSound, takeLogin, takeRegistration
<1>2. \A i : Open(loginPending, i) <=> i \in DOMAIN loginPending /\ clock < loginPending[i].expires
      BY DEF Open
<1>3. \A i : Open(regPending, i) <=> i \in DOMAIN regPending /\ clock < regPending[i].expires
      BY DEF Open
<1>4. \A i \in CeremonyId : i # id => Persists(i)
  <2>1. ASSUME NEW i \in CeremonyId, i # id PROVE Persists(i)
    <3>1. /\ Open(loginPending, i)' <=> i \in DOMAIN loginPending' /\ clock < loginPending'[i].expires
          /\ Open(regPending, i)' <=> i \in DOMAIN regPending' /\ clock < regPending'[i].expires
          BY OpenBecomes
    <3>2. /\ i \in DOMAIN loginPending' <=> i \in DOMAIN loginPending
          /\ i \in DOMAIN loginPending => loginPending'[i] = loginPending[i]
          /\ i \in DOMAIN regPending' <=> i \in DOMAIN regPending
          /\ i \in DOMAIN regPending => regPending'[i] = regPending[i]
          BY <2>1 DEF takeLogin, takeRegistration, Drop
    <3> QED  BY <1>2, <1>3, <3>1, <3>2 DEF Persists
  <2> QED  BY <2>1
<1>5. CASE \/ takeLogin(id) /\ Open(loginPending, id)
           \/ takeRegistration(id) /\ Open(regPending, id)
  <2>1. redeemed' = redeemed \cup {id}
        BY <1>5 DEF takeLogin, takeRegistration
  <2>2. id \in OpenIds
        BY <1>1, <1>5 DEF OpenIds
  <2>3. id \notin DOMAIN loginPending' /\ id \notin DOMAIN regPending'
        BY <1>1, <1>2, <1>3, <1>5 DEF takeLogin, takeRegistration, Drop
  <2>4. id \notin OpenIds'
        BY <2>3 DEF OpenIds, Open
  <2>5. OpenCeremonies' = Drop(OpenCeremonies, {id})
        BY <1>1, <1>4, <2>4, OneEnds
  <2>6. id \in DOMAIN OpenCeremonies
        BY <1>1, <2>2, OpenCeremoniesAre
  <2> QED  BY <1>1, <2>1, <2>5, <2>6 DEF Abstract!Redeem, Abstract!Drop, Drop
<1>6. CASE \/ takeLogin(id) /\ ~Open(loginPending, id)
           \/ takeRegistration(id) /\ ~Open(regPending, id)
  <2>1. redeemed' = redeemed
        BY <1>6 DEF takeLogin, takeRegistration
  <2>2. /\ Open(loginPending, id)' <=> id \in DOMAIN loginPending' /\ clock < loginPending'[id].expires
        /\ Open(regPending, id)' <=> id \in DOMAIN regPending' /\ clock < regPending'[id].expires
        BY OpenBecomes
  <2>3. ASSUME takeLogin(id), ~Open(loginPending, id) PROVE Persists(id)
    <3>1. id \notin DOMAIN loginPending' /\ regPending' = regPending
          BY <2>3 DEF takeLogin, Drop
    <3> QED  BY <1>3, <2>2, <2>3, <3>1 DEF Persists
  <2>4. ASSUME takeRegistration(id), ~Open(regPending, id) PROVE Persists(id)
    <3>1. id \notin DOMAIN regPending' /\ loginPending' = loginPending
          BY <2>4 DEF takeRegistration, Drop
    <3> QED  BY <1>2, <2>2, <2>4, <3>1 DEF Persists
  <2>5. Persists(id)
        BY <1>6, <2>3, <2>4
  <2>6. OpenCeremonies' = OpenCeremonies
        BY <1>1, <1>4, <2>5, AllPersist
  <2> QED  BY <1>1, <2>1, <2>6
<1> QED  BY <1>5, <1>6

LEMMA TickImplements ==
  ASSUME IInv, IInv', Tick
  PROVE  Abstract!Tick
<1>1. /\ CeremoniesSound /\ CeremoniesSound' /\ clock \in Nat /\ clock' = clock + 1
      /\ loginPending' = loginPending /\ regPending' = regPending
      /\ issued' = issued /\ redeemed' = redeemed
      BY DEF IInv, TypeOK, Tick, ceremonyVars
<1>2. /\ \A i : Open(loginPending, i) <=> i \in DOMAIN loginPending /\ clock < loginPending[i].expires
      /\ \A i : Open(regPending, i) <=> i \in DOMAIN regPending /\ clock < regPending[i].expires
      /\ \A i : Open(loginPending, i)' <=> i \in DOMAIN loginPending /\ clock' < loginPending[i].expires
      /\ \A i : Open(regPending, i)' <=> i \in DOMAIN regPending /\ clock' < regPending[i].expires
      BY <1>1 DEF Open
<1>3. /\ \A i \in DOMAIN loginPending : loginPending[i].expires \in Nat
      /\ \A i \in DOMAIN regPending : regPending[i].expires \in Nat
      BY PendingTyped
<1>4. /\ \A i \in OpenIds : i \in CeremonyId /\ (Open(loginPending, i) \/ Open(regPending, i))
      /\ \A i \in CeremonyId : i \in OpenIds' <=> Open(loginPending, i)' \/ Open(regPending, i)'
      /\ OpenIds' \subseteq CeremonyId
      BY DEF OpenIds
<1>5. ASSUME NEW i \in OpenIds
      PROVE  i \in OpenIds' <=> ~(clock' >= OpenCeremonies[i])
  <2>1. DOMAIN loginPending \cap DOMAIN regPending = {}
        BY <1>1 DEF CeremoniesSound
  <2>2. CASE Open(loginPending, i)
    <3>1. OpenCeremonies[i] = loginPending[i].expires
          BY <1>1, <2>2, OpenCeremoniesAre
    <3> QED  BY <1>1, <1>2, <1>3, <1>4, <2>1, <2>2, <3>1
  <2>3. CASE Open(regPending, i)
    <3>1. OpenCeremonies[i] = regPending[i].expires
          BY <1>1, <2>3, OpenCeremoniesAre
    <3> QED  BY <1>1, <1>2, <1>3, <1>4, <2>1, <2>3, <3>1
  <2> QED  BY <1>4, <2>2, <2>3
<1>6. ASSUME NEW i \in OpenIds'
      PROVE  i \in OpenIds /\ OpenCeremonies'[i] = OpenCeremonies[i]
  <2>1. i \in CeremonyId /\ (Open(loginPending, i)' \/ Open(regPending, i)')
        BY <1>4
  <2>2. CASE Open(loginPending, i)'
    <3>1. Open(loginPending, i)
          BY <1>1, <1>2, <1>3, <2>2
    <3>2. i \in OpenIds
          BY <2>1, <3>1 DEF OpenIds
    <3> QED  BY <1>1, <2>2, <3>1, <3>2, OpenCeremoniesAre, OpenCeremoniesBecome
  <2>3. CASE Open(regPending, i)'
    <3>1. Open(regPending, i)
          BY <1>1, <1>2, <1>3, <2>3
    <3>2. i \in OpenIds
          BY <2>1, <3>1 DEF OpenIds
    <3> QED  BY <1>1, <2>3, <3>1, <3>2, OpenCeremoniesAre, OpenCeremoniesBecome
  <2> QED  BY <2>1, <2>2, <2>3
<1>7. DOMAIN OpenCeremonies = OpenIds
      BY <1>1, OpenCeremoniesAre
<1>8. OpenIds' = DOMAIN OpenCeremonies \ {i \in DOMAIN OpenCeremonies : clock' >= OpenCeremonies[i]}
      BY <1>5, <1>6, <1>7
<1>9. OpenCeremonies' = [i \in OpenIds' |-> OpenCeremonies[i]]
      BY <1>1, <1>6, OpenCeremoniesBecome
<1> QED  BY <1>1, <1>8, <1>9 DEF Abstract!Tick, Abstract!Drop

LEMMA RestartImplements ==
  ASSUME IInv', Restart
  PROVE  Abstract!Restart
<1>1. /\ loginPending' = EmptyMap /\ regPending' = EmptyMap /\ UNCHANGED <<clock, issued, redeemed>>
      /\ CeremoniesSound'
      BY DEF IInv, Restart
<1>2. OpenIds' = {}
      BY <1>1 DEF OpenIds, Open, EmptyMap
<1>3. OpenCeremonies' = [i \in {} |-> OpenCeremonies'[i]]
      BY <1>1, <1>2, OpenCeremoniesBecome
<1> QED  BY <1>1, <1>3 DEF Abstract!Restart, Abstract!EmptyMap

LEMMA RefinementStep ==
  ASSUME IInv, IInv', [Next]_vars
  PROVE  [Abstract!Next]_(Abstract!vars)
<1> SUFFICES Abstract!Next \/ UNCHANGED <<clock, OpenCeremonies, issued, redeemed>>
    BY DEF Abstract!vars
<1>1. CASE UNCHANGED ceremonyVars /\ clock' = clock
      BY <1>1 DEF ceremonyVars, OpenCeremonies, Open
<1>2. ASSUME clock' = clock, NEW id \in CeremonyId,
             \/ \E account, credentials : BeginLogin(id, account, credentials)
             \/ \E account, signup : beginRegistration(id, account, signup)
      PROVE  Abstract!Next
      BY <1>2, BeginImplements DEF Abstract!Next
<1>3. ASSUME clock' = clock, NEW id \in issued, takeLogin(id) \/ takeRegistration(id)
      PROVE  Abstract!Next \/ UNCHANGED <<clock, OpenCeremonies, issued, redeemed>>
  <2>1. id \in CeremonyId
        BY DEF IInv, TypeOK
  <2> QED  BY <1>3, <2>1, TakeImplements DEF Abstract!Next
<1>4. CASE Tick
      BY <1>4, TickImplements DEF Abstract!Next
<1>5. CASE Restart
      BY <1>5, RestartImplements DEF Abstract!Next
<1>6. CASE \/ \E c \in Cred : Revoke(c)
           \/ \E c \in late : JavaExecutesLate(c)
           \/ \E h \in Handler : JavaExecutes(h) \/ JavaRefuses(h) \/ CommandFails(h)
           \/ UNCHANGED vars
      BY <1>1, <1>6 DEF Revoke, JavaExecutesLate, JavaExecutes, JavaRefuses, CommandFails, worldVars, vars
<1>7. ASSUME NEW h \in Handler, LoginRequest(h)
      PROVE  Abstract!Next \/ UNCHANGED <<clock, OpenCeremonies, issued, redeemed>>
  <2>1. clock' = clock
        BY <1>7 DEF LoginRequest, LoginOptions, discoverableLoginOptions, LoginVerify, GatewayOnly, worldVars
  <2> QED  BY <1>1, <1>2, <1>3, <1>7, <2>1
           DEF LoginRequest, LoginOptions, discoverableLoginOptions, LoginVerify
<1>8. ASSUME NEW h \in Handler, RegistrationRequest(h)
      PROVE  Abstract!Next \/ UNCHANGED <<clock, OpenCeremonies, issued, redeemed>>
  <2>1. clock' = clock
        BY <1>8 DEF RegistrationRequest, RegistrationOptions, LocalRegistrationOptions, SignupOptions,
                    finishRegistration, GatewayOnly, worldVars
  <2> QED  BY <1>1, <1>3, <1>8, <2>1
           DEF RegistrationRequest, RegistrationOptions, LocalRegistrationOptions, SignupOptions,
               finishRegistration
<1>9. ASSUME NEW h \in Handler, Proceeds(h)
      PROVE  Abstract!Next \/ UNCHANGED <<clock, OpenCeremonies, issued, redeemed>>
  <2>1. clock' = clock
        BY <1>9 DEF Proceeds, accountLoginOptions, discoverableUser, finishLogin, pairingClaimed,
                    registrationLookedUp, signupLookedUp, registered, signedUp, GatewayOnly, worldVars
  <2>2. \/ UNCHANGED ceremonyVars
        \/ \E id \in CeremonyId : \E account, credentials : BeginLogin(id, account, credentials)
        \/ \E id \in CeremonyId : \E account, signup : beginRegistration(id, account, signup)
        BY <1>9, Zenon DEF Proceeds, accountLoginOptions, discoverableUser, finishLogin, pairingClaimed,
                    registrationLookedUp, signupLookedUp, registered, signedUp
  <2> QED  BY <1>1, <1>2, <2>1, <2>2
<1> QED  BY <1>4, <1>5, <1>6, <1>7, <1>8, <1>9 DEF Next

\* Two maps, lazy pruning, failed takes and restarts are invisible: what a
\* browser sees of a challenge is what AbstractCeremonies promises
\* (passkeys.go:166-227, 339-370, 417-455).
THEOREM Refinement == Spec => ImplementsAbstractCeremonies
<1>1. Init => Abstract!Init
  <2> SUFFICES ASSUME Init PROVE Abstract!Init
      OBVIOUS
  <2>1. OpenCeremonies = EmptyMap
        BY DEF Init, OpenCeremonies, Open, EmptyMap
  <2> QED  BY <2>1 DEF Init, Abstract!Init, Abstract!EmptyMap, EmptyMap
<1>2. IInv /\ IInv' /\ [Next]_vars => [Abstract!Next]_(Abstract!vars)
      BY RefinementStep
<1> QED  BY <1>1, <1>2, Invariant, PTL DEF Spec, ImplementsAbstractCeremonies, Abstract!Spec

---------------------------------------------------------------------------
(* Enrolments: the authority to enrol a credential for an account, from    *)
(* the claim of a pairing token until Java takes the command, is in one    *)
(* place at a time.                                                        *)

\* Whether a request carries the authority of a claimed token for an account.
Carries(j, a) ==
    \/ /\ j.route = "register-options" /\ j.command.op = "claim" /\ j.step = "replied"
       /\ j.reply.verdict = "ok" /\ j.reply.account = a
    \/ j.route = "register-options" /\ j.command.op = "lookup" /\ j.command.account = a
    \/ j.step = "waiting" /\ j.command.op = "register" /\ j.command.account = a

Carriers(a) == {h \in Handler : handler[h] # Idle /\ Carries(handler[h], a)}
Granted(a) == {id \in DOMAIN regPending : ~regPending[id].signup /\ regPending[id].account = a}
Delayed(a) == {c \in late : c.op = "register" /\ c.account = a}

\* The authority an account was given: its first credentials, its claimed
\* tokens, its signup.
Owned(a) == {c \in Cred : OwnerOf[c] = a}
Claimed(a) == {t \in Token \ unclaimed : TokenAccount[t] = a}
SignedUp(a) == IF a \in accounts \ InitialAccounts THEN 1 ELSE 0
Budget(a) == Cardinality(Owned(a)) + Cardinality(Claimed(a)) + SignedUp(a)

\* No authority is spent twice.
WithinBudget(a) ==
    /\ IsFiniteSet(Carriers(a)) /\ IsFiniteSet(Granted(a)) /\ IsFiniteSet(Delayed(a))
    /\ Cardinality(enrolled[a]) + Cardinality(Carriers(a)) + Cardinality(Granted(a))
          + Cardinality(Delayed(a)) <= Budget(a)

Authorised ==
    /\ InitialAccounts \subseteq accounts
    /\ ~AllowLocalAccountPairing => \A a \in Account : WithinBudget(a)

---------------------------------------------------------------------------
(* Counting                                                               *)

\* What is lost, kept or gained by at most one element.
LEMMA CountBounds ==
  ASSUME NEW X, IsFiniteSet(X), NEW Y
  PROVE  /\ Cardinality(X) \in Nat
         /\ Y \subseteq X => /\ IsFiniteSet(Y) /\ Cardinality(Y) \in Nat
                             /\ Cardinality(Y) <= Cardinality(X)
         /\ \A z : Y \subseteq X \cup {z} => /\ IsFiniteSet(Y) /\ Cardinality(Y) \in Nat
                                             /\ Cardinality(Y) <= Cardinality(X) + 1
         /\ \A z \in X : Y \subseteq X \ {z} => /\ IsFiniteSet(Y) /\ Cardinality(Y) \in Nat
                                                /\ Cardinality(Y) <= Cardinality(X) - 1
<1>1. Cardinality(X) \in Nat
      BY FS_CardinalityType
<1>2. ASSUME Y \subseteq X
      PROVE  IsFiniteSet(Y) /\ Cardinality(Y) \in Nat /\ Cardinality(Y) <= Cardinality(X)
      BY <1>2, FS_Subset, FS_CardinalityType
<1>3. ASSUME NEW z, Y \subseteq X \cup {z}
      PROVE  IsFiniteSet(Y) /\ Cardinality(Y) \in Nat /\ Cardinality(Y) <= Cardinality(X) + 1
  <2>1. IsFiniteSet(X \cup {z}) /\ Cardinality(X \cup {z}) <= Cardinality(X) + 1
    <3>1. /\ IsFiniteSet(X \cup {z})
          /\ Cardinality(X \cup {z}) = IF z \in X THEN Cardinality(X) ELSE Cardinality(X) + 1
          BY FS_AddElement, Zenon
    <3> QED  BY <1>1, <3>1
  <2>2. IsFiniteSet(Y) /\ Cardinality(Y) <= Cardinality(X \cup {z})
        BY <1>3, <2>1, FS_Subset
  <2>3. Cardinality(Y) \in Nat /\ Cardinality(X \cup {z}) \in Nat
        BY <2>1, <2>2, FS_CardinalityType
  <2> QED  BY <1>1, <2>1, <2>2, <2>3
<1>4. ASSUME NEW z \in X, Y \subseteq X \ {z}
      PROVE  IsFiniteSet(Y) /\ Cardinality(Y) \in Nat /\ Cardinality(Y) <= Cardinality(X) - 1
  <2>1. IsFiniteSet(X \ {z}) /\ Cardinality(X \ {z}) = Cardinality(X) - 1
    <3>1. /\ IsFiniteSet(X \ {z})
          /\ Cardinality(X \ {z}) = IF z \in X THEN Cardinality(X) - 1 ELSE Cardinality(X)
          BY FS_RemoveElement, Zenon
    <3> QED  BY <1>1, <3>1
  <2>2. IsFiniteSet(Y) /\ Cardinality(Y) <= Cardinality(X \ {z})
        BY <1>4, <2>1, FS_Subset
  <2>3. Cardinality(Y) \in Nat
        BY <2>2, FS_CardinalityType
  <2> QED  BY <2>1, <2>2, <2>3
<1> QED  BY <1>1, <1>2, <1>3, <1>4

\* The sets a budget counts are finite, whatever happens to them.
LEMMA BudgetTyped ==
  ASSUME TypeOK, NEW a \in Account
  PROVE  /\ IsFiniteSet(Owned(a)) /\ IsFiniteSet(Claimed(a)) /\ IsFiniteSet(enrolled[a])
         /\ Cardinality(Owned(a)) \in Nat /\ Cardinality(Claimed(a)) \in Nat /\ SignedUp(a) \in Nat
         /\ Cardinality(enrolled[a]) \in Nat
<1>1. Owned(a) \subseteq Cred /\ Claimed(a) \subseteq Token /\ enrolled[a] \subseteq Cred
      BY DEF Owned, Claimed, TypeOK
<1>2. IsFiniteSet(Owned(a)) /\ IsFiniteSet(Claimed(a)) /\ IsFiniteSet(enrolled[a])
      BY <1>1, FS_Subset
<1> QED  BY <1>2, FS_CardinalityType DEF SignedUp

\* What an account was given never shrinks.
LEMMA BudgetGrows ==
  ASSUME TypeOK, TypeOK', accounts \subseteq accounts', unclaimed' \subseteq unclaimed, NEW a \in Account
  PROVE  /\ Owned(a)' = Owned(a)
         /\ Cardinality(Claimed(a)) <= Cardinality(Claimed(a)')
         /\ SignedUp(a) <= SignedUp(a)'
<1>1. Claimed(a) \subseteq Claimed(a)'
      BY DEF Claimed
<1>2. IsFiniteSet(Claimed(a)')
      BY BudgetTyped, FS_Subset DEF TypeOK, Claimed
<1>3. Cardinality(Claimed(a)) <= Cardinality(Claimed(a)')
      BY <1>1, <1>2, FS_Subset
<1>4. SignedUp(a) <= SignedUp(a)'
      BY DEF SignedUp, InitialAccounts
<1> QED  BY <1>3, <1>4 DEF Owned

\* An account stays within its budget when a step adds no more authority than
\* it is given: the four counts change by e, c, g and d at most.
LEMMA BudgetKept ==
  ASSUME TypeOK, TypeOK', accounts \subseteq accounts', unclaimed' \subseteq unclaimed,
         NEW a \in Account, WithinBudget(a),
         NEW e \in Int, NEW c \in Int, NEW g \in Int, NEW d \in Int,
         IsFiniteSet(Carriers(a)'), IsFiniteSet(Granted(a)'), IsFiniteSet(Delayed(a)'),
         Cardinality(enrolled'[a]) <= Cardinality(enrolled[a]) + e,
         Cardinality(Carriers(a)') <= Cardinality(Carriers(a)) + c,
         Cardinality(Granted(a)') <= Cardinality(Granted(a)) + g,
         Cardinality(Delayed(a)') <= Cardinality(Delayed(a)) + d,
         \/ e + c + g + d <= 0
         \/ e + c + g + d <= 1 /\ Cardinality(Claimed(a)') > Cardinality(Claimed(a))
         \/ e + c + g + d <= 1 /\ SignedUp(a)' > SignedUp(a)
  PROVE  WithinBudget(a)'
<1>1. /\ Cardinality(Owned(a)) \in Nat /\ Cardinality(Claimed(a)) \in Nat /\ SignedUp(a) \in Nat
      /\ Cardinality(enrolled[a]) \in Nat
      BY BudgetTyped
<1>2. /\ IsFiniteSet(Claimed(a)') /\ IsFiniteSet(enrolled'[a])
  <2>1. Claimed(a)' \subseteq Token /\ enrolled'[a] \subseteq Cred
        BY DEF Claimed, TypeOK
  <2> QED  BY <2>1, FS_Subset
<1>3. SignedUp(a)' \in Nat
      BY DEF SignedUp
<1>4. Cardinality(Claimed(a)') \in Nat /\ Cardinality(enrolled'[a]) \in Nat
      BY <1>2, FS_CardinalityType
<1>5. /\ Cardinality(Carriers(a)) \in Nat /\ Cardinality(Granted(a)) \in Nat
      /\ Cardinality(Delayed(a)) \in Nat
      BY FS_CardinalityType DEF WithinBudget
<1>6. /\ Cardinality(Carriers(a)') \in Nat /\ Cardinality(Granted(a)') \in Nat
      /\ Cardinality(Delayed(a)') \in Nat
      BY FS_CardinalityType
<1>7. /\ Owned(a)' = Owned(a)
      /\ Cardinality(Claimed(a)) <= Cardinality(Claimed(a)')
      /\ SignedUp(a) <= SignedUp(a)'
      BY BudgetGrows
<1>8. Cardinality(enrolled[a]) + Cardinality(Carriers(a)) + Cardinality(Granted(a))
          + Cardinality(Delayed(a)) <= Cardinality(Owned(a)) + Cardinality(Claimed(a)) + SignedUp(a)
      BY DEF WithinBudget, Budget
<1>9. Cardinality(enrolled'[a]) + Cardinality(Carriers(a)') + Cardinality(Granted(a)')
          + Cardinality(Delayed(a)') <= Cardinality(Owned(a)') + Cardinality(Claimed(a)') + SignedUp(a)'
      BY <1>1, <1>3, <1>4, <1>5, <1>6, <1>7, <1>8
<1> QED  BY <1>9 DEF WithinBudget, Budget

\* A step that hands no authority to anyone.
LEMMA QuietStep ==
  ASSUME TypeOK, TypeOK', accounts \subseteq accounts', unclaimed' \subseteq unclaimed,
         NEW a \in Account, WithinBudget(a), enrolled'[a] = enrolled[a],
         Carriers(a)' \subseteq Carriers(a), Granted(a)' \subseteq Granted(a),
         Delayed(a)' \subseteq Delayed(a)
  PROVE  WithinBudget(a)'
<1>1. /\ IsFiniteSet(Carriers(a)') /\ Cardinality(Carriers(a)') <= Cardinality(Carriers(a)) + 0
      /\ IsFiniteSet(Granted(a)') /\ Cardinality(Granted(a)') <= Cardinality(Granted(a)) + 0
      /\ IsFiniteSet(Delayed(a)') /\ Cardinality(Delayed(a)') <= Cardinality(Delayed(a)) + 0
  <2>1. IsFiniteSet(Carriers(a)) /\ IsFiniteSet(Granted(a)) /\ IsFiniteSet(Delayed(a))
        BY DEF WithinBudget
  <2> QED  BY <2>1, CountBounds
<1>2. Cardinality(enrolled'[a]) <= Cardinality(enrolled[a]) + 0
      BY BudgetTyped
<1>3. 0 \in Int /\ 0 + 0 + 0 + 0 <= 0
      OBVIOUS
<1> QED  BY <1>1, <1>2, <1>3, BudgetKept

---------------------------------------------------------------------------
(* Who carries what after a step of one request                          *)

LEMMA CarriersBecome ==
  ASSUME TypeOK, NEW a \in Account, NEW h \in Handler, NEW r, handler' = [handler EXCEPT ![h] = r]
  PROVE  /\ Carriers(a)' \subseteq Carriers(a) \cup {h}
         /\ r = Idle \/ ~Carries(r, a) => Carriers(a)' \subseteq Carriers(a) \ {h}
         /\ h \in Carriers(a) => Carriers(a)' \subseteq Carriers(a)
<1>1. handler'[h] = r /\ \A g \in Handler \ {h} : handler'[g] = handler[g]
      BY DEF TypeOK
<1>2. \A g : g \in Carriers(a)' <=> g \in Handler /\ handler'[g] # Idle /\ Carries(handler'[g], a)
      BY DEF Carriers, Carries
<1>3. \A g : g \in Carriers(a) <=> g \in Handler /\ handler[g] # Idle /\ Carries(handler[g], a)
      BY DEF Carriers
<1> QED  BY <1>1, <1>2, <1>3

LEMMA GrantedBecomes ==
  ASSUME TypeOK, NEW a \in Account
  PROVE  /\ regPending' \in {regPending, Pruned(regPending)} => Granted(a)' \subseteq Granted(a)
         /\ \A id, account, signup : beginRegistration(id, account, signup) =>
               /\ Granted(a)' \subseteq Granted(a) \cup {id}
               /\ signup \/ account # a => Granted(a)' \subseteq Granted(a)
         /\ \A id : takeRegistration(id) => Granted(a)' \subseteq Granted(a) \ {id}
<1>1. /\ DOMAIN Pruned(regPending) \subseteq DOMAIN regPending
      /\ \A id \in DOMAIN Pruned(regPending) : Pruned(regPending)[id] = regPending[id]
      BY PrunedFacts DEF TypeOK
<1>2. ASSUME regPending' \in {regPending, Pruned(regPending)} PROVE Granted(a)' \subseteq Granted(a)
      BY <1>1, <1>2 DEF Granted
<1>3. ASSUME NEW id, NEW account, NEW signup, beginRegistration(id, account, signup)
      PROVE  /\ Granted(a)' \subseteq Granted(a) \cup {id}
             /\ signup \/ account # a => Granted(a)' \subseteq Granted(a)
  <2> DEFINE new == [account |-> account, signup |-> signup, expires |-> clock + TTL]
             swept == Pruned(regPending)
  <2>1. regPending' = Put(swept, id, new) /\ new.account = account /\ new.signup = signup
        BY <1>3 DEF beginRegistration
  <2>2. PICK m : m = swept
        OBVIOUS
  <2>3. PICK v : v = new
        OBVIOUS
  <2>4. /\ DOMAIN regPending' = DOMAIN m \cup {id} /\ regPending'[id] = v
        /\ \A i \in DOMAIN m \ {id} : regPending'[i] = m[i]
    <3>1. regPending' = Put(m, id, v)
          BY <2>1, <2>2, <2>3
    <3> QED  BY <3>1 DEF Put
  <2> HIDE DEF new, swept
  <2>5. /\ \A i \in DOMAIN regPending' \ {id} : i \in DOMAIN regPending /\ regPending'[i] = regPending[i]
        /\ regPending'[id].account = account /\ regPending'[id].signup = signup
        BY <1>1, <2>1, <2>2, <2>3, <2>4 DEF swept
  <2> QED  BY <2>5 DEF Granted
<1>4. ASSUME NEW id, takeRegistration(id) PROVE Granted(a)' \subseteq Granted(a) \ {id}
  <2>1. /\ DOMAIN regPending' = DOMAIN regPending \ {id}
        /\ \A i \in DOMAIN regPending \ {id} : regPending'[i] = regPending[i]
        BY <1>4 DEF takeRegistration, Drop
  <2> QED  BY <2>1 DEF Granted
<1> QED  BY <1>2, <1>3, <1>4

\* What a command does to the account, and to any other.
LEMMA ExecuteEffect ==
  ASSUME TypeOK, NEW command \in Command, Execute(command), NEW a \in Account
  PROVE  /\ accounts \subseteq accounts' /\ unclaimed' \subseteq unclaimed
         /\ enrolled'[a] \subseteq enrolled[a] \cup {command.cred}
         /\ \/ command.op \notin {"register", "signup"} \/ command.account # a \/ ~Accepts(command)
            => enrolled'[a] = enrolled[a]
         /\ command.op = "signup" /\ Accepts(command) /\ command.account = a
            => a \notin accounts /\ a \in accounts'
         /\ command.op = "claim" /\ Accepts(command)
            => command.token \in unclaimed /\ command.token \notin unclaimed'
<1>1. /\ accounts' = accounts \cup
            {x \in {command.account} : command.op = "signup" /\ Accepts(command)}
      /\ unclaimed' = unclaimed \ {command.token}
      BY DEF Execute
<1>2. enrolled'[a] = enrolled[a] \cup
          {c \in {command.cred} : /\ a = command.account
                                  /\ command.op \in {"register", "signup"}
                                  /\ Accepts(command)}
      BY DEF Execute
<1>3. /\ command.op = "signup" /\ Accepts(command) => command.account \notin accounts
      /\ command.op = "claim" /\ Accepts(command) => command.token \in unclaimed
      BY DEF Accepts
<1> QED  BY <1>1, <1>2, <1>3

\* A signup that Java accepts gives the account the credential it enrols.
LEMMA SignupKeeps ==
  ASSUME TypeOK, TypeOK', InitialAccounts \subseteq accounts, NEW a \in Account, WithinBudget(a),
         NEW command \in Command, Execute(command), command.op # "register", command.op # "claim",
         Carriers(a)' \subseteq Carriers(a), Granted(a)' \subseteq Granted(a),
         Delayed(a)' \subseteq Delayed(a)
  PROVE  WithinBudget(a)'
<1>1. accounts \subseteq accounts' /\ unclaimed' \subseteq unclaimed
      BY ExecuteEffect
<1>2. CASE enrolled'[a] = enrolled[a]
      BY <1>1, <1>2, QuietStep
<1>3. CASE command.op = "signup" /\ Accepts(command) /\ command.account = a
  <2>1. a \notin accounts /\ a \in accounts' /\ enrolled'[a] \subseteq enrolled[a] \cup {command.cred}
        BY <1>3, ExecuteEffect
  <2>2. SignedUp(a)' > SignedUp(a)
    <3>1. SignedUp(a) = 0 /\ SignedUp(a)' = 1
          BY <2>1 DEF SignedUp, InitialAccounts
    <3> QED  BY <3>1
  <2>3. /\ IsFiniteSet(Carriers(a)') /\ Cardinality(Carriers(a)') <= Cardinality(Carriers(a)) + 0
        /\ IsFiniteSet(Granted(a)') /\ Cardinality(Granted(a)') <= Cardinality(Granted(a)) + 0
        /\ IsFiniteSet(Delayed(a)') /\ Cardinality(Delayed(a)') <= Cardinality(Delayed(a)) + 0
    <3>1. IsFiniteSet(Carriers(a)) /\ IsFiniteSet(Granted(a)) /\ IsFiniteSet(Delayed(a))
          BY DEF WithinBudget
    <3> QED  BY <3>1, CountBounds
  <2>4. Cardinality(enrolled'[a]) <= Cardinality(enrolled[a]) + 1
        BY <2>1, BudgetTyped, CountBounds
  <2>5. 1 \in Int /\ 0 \in Int /\ 1 + 0 + 0 + 0 <= 1
        OBVIOUS
  <2> QED  BY <1>1, <2>2, <2>3, <2>4, <2>5, BudgetKept
<1>4. command.op \notin {"register", "signup"} \/ command.account # a \/ ~Accepts(command)
         => enrolled'[a] = enrolled[a]
      BY ExecuteEffect
<1> QED  BY <1>2, <1>3, <1>4

LEMMA WaitingFacts ==
  ASSUME IInv, NEW h \in Handler, Waiting(h)
  PROVE  /\ handler[h] \in Job /\ handler[h] # Idle /\ handler[h].command \in Command
         /\ handler[h].command.op \in Ops
         /\ handler[h].command.op \in {"register", "signup"} => handler[h].route # "register-options"
         /\ handler[h].command.op = "claim" => handler[h].route = "register-options"
<1>1. handler[h] \in {Idle} \cup Job /\ handler[h] # Idle /\ JobSound(handler[h])
      BY DEF IInv, TypeOK, JobsSound, Waiting, Idle
<1>2. handler[h].command \in Command /\ handler[h].route \in Routes
      BY <1>1, JobFields
<1>3. handler[h].command.op \in Ops
      BY <1>2, CommandFields
<1> QED  BY <1>1, <1>2, <1>3 DEF JobSound, Routes, Ops

\* Java executes the command of a waiting request.
LEMMA JavaExecutesKeeps ==
  ASSUME IInv, TypeOK', InitialAccounts \subseteq accounts, NEW a \in Account, WithinBudget(a),
         NEW h \in Handler, JavaExecutes(h)
  PROVE  WithinBudget(a)'
<1> DEFINE j == handler[h]
           c == j.command
<1> TypeOK
    BY DEF IInv
<1>1. /\ j \in Job /\ j # Idle /\ c \in Command /\ c.op \in Ops /\ j.step = "waiting"
      /\ c.op \in {"register", "signup"} => j.route # "register-options"
      /\ c.op = "claim" => j.route = "register-options"
      BY WaitingFacts DEF JavaExecutes, Waiting
<1>2. PICK r : /\ handler' = [handler EXCEPT ![h] = r]
               /\ r # Idle /\ r.step = "replied" /\ r.reply = ReplyTo(c)
               /\ r.route = j.route /\ r.command = c
  <2> DEFINE x == [j EXCEPT !.step = "replied", !.reply = ReplyTo(c)]
  <2>1. /\ x # Idle /\ x.step = "replied" /\ x.reply = ReplyTo(c)
        /\ x.route = j.route /\ x.command = c
        BY <1>1 DEF Job, Idle
  <2>2. handler' = [handler EXCEPT ![h] = x]
        BY DEF JavaExecutes
  <2> QED  BY <2>1, <2>2
<1>3. Execute(c) /\ late' = late /\ regPending' = regPending
      BY DEF JavaExecutes, ceremonyVars
<1>4. Granted(a)' \subseteq Granted(a) /\ Delayed(a)' \subseteq Delayed(a)
      BY <1>3, GrantedBecomes DEF Delayed
<1>5. accounts \subseteq accounts' /\ unclaimed' \subseteq unclaimed
      BY <1>1, <1>3, ExecuteEffect
<1>6. /\ IsFiniteSet(Carriers(a)) /\ IsFiniteSet(Granted(a)) /\ IsFiniteSet(Delayed(a))
      BY DEF WithinBudget
<1>7. /\ IsFiniteSet(Granted(a)') /\ Cardinality(Granted(a)') <= Cardinality(Granted(a)) + 0
      /\ IsFiniteSet(Delayed(a)') /\ Cardinality(Delayed(a)') <= Cardinality(Delayed(a)) + 0
      BY <1>4, <1>6, CountBounds
<1>8. /\ Carriers(a)' \subseteq Carriers(a) \cup {h}
      /\ r = Idle \/ ~Carries(r, a) => Carriers(a)' \subseteq Carriers(a) \ {h}
      /\ h \in Carriers(a) => Carriers(a)' \subseteq Carriers(a)
      BY <1>2, CarriersBecome
<1>9. CASE c.op = "claim"
  <2>1. enrolled'[a] = enrolled[a]
        BY <1>1, <1>3, <1>9, ExecuteEffect
  <2>2. CASE ~Carries(r, a)
        BY <1>4, <1>5, <1>8, <2>1, <2>2, QuietStep
  <2>3. CASE Carries(r, a)
    <3>1. ReplyTo(c).verdict = "ok" /\ ReplyTo(c).account = a
          BY <1>2, <1>9, <2>3 DEF Carries
    <3>2. Accepts(c)
          BY <1>1, <3>1, ReplyTyped, VerdictFacts
    <3>3. TokenAccount[c.token] = a
          BY <1>9, <3>1, <3>2 DEF ReplyTo
    <3>4. c.token \in unclaimed /\ c.token \notin unclaimed' /\ c.token \in Token
          BY <1>1, <1>3, <1>9, <3>2, ExecuteEffect DEF TypeOK
    <3>5. Cardinality(Claimed(a)') > Cardinality(Claimed(a))
      <4>1. c.token \in Claimed(a)' /\ Claimed(a) \subseteq Claimed(a)' \ {c.token}
            BY <1>5, <3>3, <3>4 DEF Claimed
      <4>2. IsFiniteSet(Claimed(a)')
        <5>1. Claimed(a)' \subseteq Token
              BY DEF Claimed
        <5> QED  BY <5>1, FS_Subset
      <4>3. Cardinality(Claimed(a)) <= Cardinality(Claimed(a)') - 1 /\ Cardinality(Claimed(a)) \in Nat
            BY <4>1, <4>2, CountBounds
      <4>4. Cardinality(Claimed(a)') \in Nat
            BY <4>2, FS_CardinalityType
      <4> QED  BY <4>3, <4>4
    <3>6. IsFiniteSet(Carriers(a)') /\ Cardinality(Carriers(a)') <= Cardinality(Carriers(a)) + 1
          BY <1>6, <1>8, CountBounds
    <3>7. Cardinality(enrolled'[a]) <= Cardinality(enrolled[a]) + 0
          BY <2>1, BudgetTyped
    <3>8. 1 \in Int /\ 0 \in Int /\ 0 + 1 + 0 + 0 <= 1
          OBVIOUS
    <3> QED  BY <1>5, <1>7, <3>5, <3>6, <3>7, <3>8, BudgetKept
  <2> QED  BY <2>2, <2>3
<1>10. CASE c.op = "register"
  <2>1. ~Carries(r, a)
        BY <1>1, <1>2, <1>10 DEF Carries
  <2>2. CASE c.account = a
    <3>1. h \in Carriers(a)
          BY <1>1, <1>10, <2>2 DEF Carriers, Carries
    <3>2. IsFiniteSet(Carriers(a)') /\ Cardinality(Carriers(a)') <= Cardinality(Carriers(a)) + (-1)
      <4>1. /\ IsFiniteSet(Carriers(a)') /\ Cardinality(Carriers(a)') <= Cardinality(Carriers(a)) - 1
            /\ Cardinality(Carriers(a)) \in Nat
            BY <1>6, <1>8, <2>1, <3>1, CountBounds
      <4> QED  BY <4>1
    <3>3. Cardinality(enrolled'[a]) <= Cardinality(enrolled[a]) + 1
          BY <1>1, <1>3, ExecuteEffect, BudgetTyped, CountBounds
    <3>4. 1 \in Int /\ 0 \in Int /\ (-1) \in Int /\ 1 + (-1) + 0 + 0 <= 0
          OBVIOUS
    <3> QED  BY <1>5, <1>7, <3>2, <3>3, <3>4, BudgetKept
  <2>3. CASE c.account # a
    <3>1. enrolled'[a] = enrolled[a]
          BY <1>1, <1>3, <2>3, ExecuteEffect
    <3> QED  BY <1>4, <1>5, <1>8, <2>1, <3>1, QuietStep
  <2> QED  BY <2>2, <2>3
<1>11. CASE c.op \notin {"claim", "register"}
  <2>1. Carries(r, a) => h \in Carriers(a)
        BY <1>1, <1>2, <1>11 DEF Carriers, Carries
  <2>2. Carriers(a)' \subseteq Carriers(a)
        BY <1>8, <2>1
  <2> QED  BY <1>1, <1>3, <1>4, <1>11, <2>2, SignupKeeps
<1> QED  BY <1>9, <1>10, <1>11

\* Java refuses the command of a waiting request: no authority is gained.
LEMMA JavaRefusesKeeps ==
  ASSUME IInv, TypeOK', NEW a \in Account, WithinBudget(a), NEW h \in Handler, JavaRefuses(h)
  PROVE  WithinBudget(a)'
<1> DEFINE j == handler[h]
           c == j.command
<1> TypeOK
    BY DEF IInv
<1>1. j \in Job /\ j # Idle /\ c \in Command /\ j.step = "waiting"
      BY WaitingFacts DEF JavaRefuses, Waiting
<1>2. PICK v \in {"refused", "unknown"} :
         handler' = [handler EXCEPT ![h].step = "replied", ![h].reply = Refusal(c, v)]
      BY RefusedReply
<1>3. PICK reply \in Reply : reply = Refusal(c, v) /\ reply.verdict # "ok"
      BY <1>1, RefusalFacts
<1>4. PICK r : /\ handler' = [handler EXCEPT ![h] = r]
               /\ r # Idle /\ r.step = "replied" /\ r.reply = reply
               /\ r.route = j.route /\ r.command = c
  <2> DEFINE x == [j EXCEPT !.step = "replied", !.reply = reply]
  <2>1. /\ x # Idle /\ x.step = "replied" /\ x.reply = reply
        /\ x.route = j.route /\ x.command = c
        BY <1>1 DEF Job, Idle
  <2>2. handler' = [handler EXCEPT ![h] = x]
        BY <1>2, <1>3
  <2> QED  BY <2>1, <2>2
<1>5. /\ UNCHANGED <<accounts, enrolled, unclaimed, late>> /\ regPending' = regPending
      BY DEF JavaRefuses, javaVars, ceremonyVars
<1>6. Granted(a)' \subseteq Granted(a) /\ Delayed(a)' \subseteq Delayed(a)
      BY <1>5, GrantedBecomes DEF Delayed
<1>7. Carries(r, a) => h \in Carriers(a)
      BY <1>1, <1>3, <1>4 DEF Carriers, Carries
<1>8. Carriers(a)' \subseteq Carriers(a)
      BY <1>4, <1>7, CarriersBecome
<1> QED  BY <1>5, <1>6, <1>8, QuietStep

\* Java executes a command nobody waits for any more.
LEMMA JavaExecutesLateKeeps ==
  ASSUME IInv, TypeOK', InitialAccounts \subseteq accounts, NEW a \in Account, WithinBudget(a),
         NEW c \in late, JavaExecutesLate(c)
  PROVE  WithinBudget(a)'
<1> TypeOK /\ c \in Command
    BY DEF IInv, TypeOK
<1>1. /\ Execute(c) /\ late' = late \ {c} /\ regPending' = regPending /\ handler' = handler
      BY DEF JavaExecutesLate, ceremonyVars
<1>2. /\ Granted(a)' \subseteq Granted(a) /\ Carriers(a)' \subseteq Carriers(a)
      /\ Delayed(a)' \subseteq Delayed(a)
      BY <1>1, GrantedBecomes DEF Delayed, Carriers, Carries
<1>3. accounts \subseteq accounts' /\ unclaimed' \subseteq unclaimed
      BY <1>1, ExecuteEffect
<1>4. CASE c.op = "register" /\ c.account = a
  <2>1. c \in Delayed(a) /\ Delayed(a)' \subseteq Delayed(a) \ {c}
        BY <1>1, <1>4 DEF Delayed
  <2>2. IsFiniteSet(Carriers(a)) /\ IsFiniteSet(Granted(a)) /\ IsFiniteSet(Delayed(a))
        BY DEF WithinBudget
  <2>3. /\ IsFiniteSet(Carriers(a)') /\ Cardinality(Carriers(a)') <= Cardinality(Carriers(a)) + 0
        /\ IsFiniteSet(Granted(a)') /\ Cardinality(Granted(a)') <= Cardinality(Granted(a)) + 0
        BY <1>2, <2>2, CountBounds
  <2>4. IsFiniteSet(Delayed(a)') /\ Cardinality(Delayed(a)') <= Cardinality(Delayed(a)) + (-1)
    <3>1. /\ IsFiniteSet(Delayed(a)') /\ Cardinality(Delayed(a)') <= Cardinality(Delayed(a)) - 1
          /\ Cardinality(Delayed(a)) \in Nat
          BY <2>1, <2>2, CountBounds
    <3> QED  BY <3>1
  <2>5. Cardinality(enrolled'[a]) <= Cardinality(enrolled[a]) + 1
        BY <1>1, ExecuteEffect, BudgetTyped, CountBounds
  <2>6. 1 \in Int /\ 0 \in Int /\ (-1) \in Int /\ 1 + 0 + 0 + (-1) <= 0
        OBVIOUS
  <2> QED  BY <1>3, <2>3, <2>4, <2>5, <2>6, BudgetKept
<1>5. CASE c.op \in {"register", "claim"} /\ ~(c.op = "register" /\ c.account = a)
  <2>1. enrolled'[a] = enrolled[a]
        BY <1>1, <1>5, ExecuteEffect
  <2> QED  BY <1>2, <1>3, <2>1, QuietStep
<1>6. CASE c.op \notin {"register", "claim"}
      BY <1>1, <1>2, <1>6, SignupKeeps
<1> QED  BY <1>4, <1>5, <1>6

\* The gateway gives up on a command, which Java may yet execute.
LEMMA CommandFailsKeeps ==
  ASSUME IInv, TypeOK', NEW a \in Account, WithinBudget(a), NEW h \in Handler, CommandFails(h)
  PROVE  WithinBudget(a)'
<1> TypeOK
    BY DEF IInv
<1>0. PICK c : c = handler[h].command
      OBVIOUS
<1>1. /\ handler' = [handler EXCEPT ![h] = Idle] /\ regPending' = regPending
      /\ UNCHANGED <<accounts, enrolled, unclaimed>>
      BY DEF CommandFails, Reject, Return, ceremonyVars, javaVars
<1>2. late' = late \/ (Waiting(h) /\ late' = late \cup {c})
      BY <1>0 DEF CommandFails
<1>3. Granted(a)' \subseteq Granted(a) /\ Carriers(a)' \subseteq Carriers(a) \ {h}
      BY <1>1, GrantedBecomes, CarriersBecome
<1>4. CASE Delayed(a)' \subseteq Delayed(a)
      BY <1>1, <1>3, <1>4, QuietStep
<1>5. CASE ~(Delayed(a)' \subseteq Delayed(a))
  <2>1. /\ Waiting(h) /\ late' = late \cup {c} /\ c.op = "register" /\ c.account = a
        BY <1>2, <1>5 DEF Delayed
  <2>2. h \in Carriers(a)
    <3>1. handler[h] # Idle
          BY <2>1, WaitingFacts
    <3> QED  BY <1>0, <2>1, <3>1 DEF Carriers, Carries, Waiting
  <2>3. Delayed(a)' \subseteq Delayed(a) \cup {c}
        BY <2>1 DEF Delayed
  <2>4. IsFiniteSet(Carriers(a)) /\ IsFiniteSet(Granted(a)) /\ IsFiniteSet(Delayed(a))
        BY DEF WithinBudget
  <2>5. IsFiniteSet(Carriers(a)') /\ Cardinality(Carriers(a)') <= Cardinality(Carriers(a)) + (-1)
    <3>1. /\ IsFiniteSet(Carriers(a)') /\ Cardinality(Carriers(a)') <= Cardinality(Carriers(a)) - 1
          /\ Cardinality(Carriers(a)) \in Nat
          BY <1>3, <2>2, <2>4, CountBounds
    <3> QED  BY <3>1
  <2>6. /\ IsFiniteSet(Granted(a)') /\ Cardinality(Granted(a)') <= Cardinality(Granted(a)) + 0
        /\ IsFiniteSet(Delayed(a)') /\ Cardinality(Delayed(a)') <= Cardinality(Delayed(a)) + 1
    <3>1. IsFiniteSet(Granted(a)') /\ Cardinality(Granted(a)') <= Cardinality(Granted(a)) + 0
      <4>1. /\ IsFiniteSet(Granted(a)') /\ Cardinality(Granted(a)') <= Cardinality(Granted(a))
            /\ Cardinality(Granted(a)) \in Nat
            BY <1>3, <2>4, CountBounds
      <4> QED  BY <4>1
    <3>2. IsFiniteSet(Delayed(a)') /\ Cardinality(Delayed(a)') <= Cardinality(Delayed(a)) + 1
          BY <2>3, <2>4, CountBounds
    <3> QED  BY <3>1, <3>2
  <2>7. Cardinality(enrolled'[a]) <= Cardinality(enrolled[a]) + 0
        BY <1>1, BudgetTyped
  <2>8. 1 \in Int /\ 0 \in Int /\ (-1) \in Int /\ 0 + (-1) + 0 + 1 <= 0
        OBVIOUS
  <2>9. accounts \subseteq accounts' /\ unclaimed' \subseteq unclaimed
        BY <1>1
  <2> QED  BY <2>5, <2>6, <2>7, <2>8, <2>9, BudgetKept
<1> QED  BY <1>4, <1>5

\* A restart forgets the ceremonies; of the requests it interrupts, those whose
\* command is under way may still reach Java, each once.
LEMMA RestartKeeps ==
  ASSUME IInv, TypeOK', NEW a \in Account, WithinBudget(a), Restart
  PROVE  WithinBudget(a)'
<1> DEFINE sent == {handler[h].command : h \in Carriers(a)}
<1> TypeOK
    BY DEF IInv
<1>1. /\ handler' = [h \in Handler |-> Idle] /\ regPending' = EmptyMap
      /\ UNCHANGED <<accounts, enrolled, unclaimed>>
      BY DEF Restart, javaVars
<1>2. PICK S \in SUBSET {handler[h].command : h \in {g \in Handler : Waiting(g)}} : late' = late \cup S
      BY DEF Restart
<1>3. Carriers(a)' = {} /\ Granted(a)' = {}
      BY <1>1 DEF Carriers, Carries, Granted, EmptyMap
<1>4. Delayed(a)' \subseteq Delayed(a) \cup sent
  <2> SUFFICES ASSUME NEW c \in late', c.op = "register", c.account = a, c \notin late PROVE c \in sent
      BY DEF Delayed
  <2>1. PICK g \in Handler : Waiting(g) /\ c = handler[g].command
        BY <1>2
  <2>2. handler[g] # Idle
        BY <2>1, WaitingFacts
  <2>3. g \in Carriers(a)
        BY <2>1, <2>2 DEF Carriers, Carries, Waiting
  <2> QED  BY <2>1, <2>3
<1>5. IsFiniteSet(Carriers(a)) /\ IsFiniteSet(Granted(a)) /\ IsFiniteSet(Delayed(a))
      BY DEF WithinBudget
<1>6. IsFiniteSet(sent) /\ Cardinality(sent) <= Cardinality(Carriers(a))
  <2> DEFINE f == [h \in Carriers(a) |-> handler[h].command]
  <2>1. f \in Surjection(Carriers(a), sent)
        BY DEF Surjection
  <2> QED  BY <1>5, <2>1, FS_Surjection
<1> HIDE DEF sent
<1>7. /\ IsFiniteSet(Delayed(a)') /\ Cardinality(Delayed(a)') <= Cardinality(Delayed(a)) + Cardinality(Carriers(a))
  <2>1. /\ IsFiniteSet(Delayed(a) \cup sent)
        /\ Cardinality(Delayed(a) \cup sent)
              = Cardinality(Delayed(a)) + Cardinality(sent) - Cardinality(Delayed(a) \cap sent)
        BY <1>5, <1>6, FS_Union
  <2>2. IsFiniteSet(Delayed(a) \cap sent)
        BY <1>5, FS_Intersection
  <2>3. /\ Cardinality(Delayed(a)) \in Nat /\ Cardinality(sent) \in Nat
        /\ Cardinality(Delayed(a) \cap sent) \in Nat /\ Cardinality(Carriers(a)) \in Nat
        BY <1>5, <1>6, <2>2, FS_CardinalityType
  <2>4. /\ IsFiniteSet(Delayed(a)') /\ Cardinality(Delayed(a)') <= Cardinality(Delayed(a) \cup sent)
        /\ Cardinality(Delayed(a)') \in Nat
        BY <1>4, <2>1, CountBounds
  <2> QED  BY <1>6, <2>1, <2>3, <2>4
<1>8. Cardinality(Carriers(a)) \in Nat /\ Cardinality(Granted(a)) \in Nat
      BY <1>5, FS_CardinalityType
<1>9. PICK n \in Nat : n = Cardinality(Carriers(a))
      BY <1>8
<1>10. /\ IsFiniteSet(Carriers(a)') /\ IsFiniteSet(Granted(a)')
       /\ Cardinality(Carriers(a)') <= Cardinality(Carriers(a)) + (-n)
       /\ Cardinality(Granted(a)') <= Cardinality(Granted(a)) + 0
  <2>1. IsFiniteSet({}) /\ Cardinality({}) = 0
        BY FS_EmptySet
  <2> QED  BY <1>3, <1>8, <1>9, <2>1
<1>11. Cardinality(enrolled'[a]) <= Cardinality(enrolled[a]) + 0
      BY <1>1, BudgetTyped
<1>12. n \in Int /\ 0 \in Int /\ (-n) \in Int /\ 0 + (-n) + 0 + n <= 0
      OBVIOUS
<1>13. accounts \subseteq accounts' /\ unclaimed' \subseteq unclaimed
      BY <1>1
<1> QED  BY <1>7, <1>9, <1>10, <1>11, <1>12, <1>13, BudgetKept

\* A browser's request: only a redeemed pairing ceremony carries authority.
LEMMA LoginRequestKeeps ==
  ASSUME IInv, TypeOK', NEW a \in Account, WithinBudget(a), NEW h \in Handler, LoginRequest(h)
  PROVE  WithinBudget(a)'
<1> TypeOK
    BY DEF IInv
<1>1. /\ UNCHANGED <<accounts, enrolled, unclaimed, late>>
      /\ regPending' \in {regPending, Pruned(regPending)}
      BY DEF LoginRequest, LoginOptions, discoverableLoginOptions, LoginVerify, GatewayOnly, javaVars,
             ceremonyVars, BeginLogin, takeLogin
<1>2. PICK r : handler' = [handler EXCEPT ![h] = r] /\ (r = Idle \/ ~Carries(r, a))
  <2>1. ASSUME NEW route \in {"login-options", "login-verify"},
               NEW command, command.op \in {"lookup", "counter"},
               NEW cred, NEW passes, NEW began, Send(h, Request(route, command, cred, passes, began))
        PROVE  \E r : handler' = [handler EXCEPT ![h] = r] /\ (r = Idle \/ ~Carries(r, a))
    <3>1. ~Carries(Request(route, command, cred, passes, began), a)
          BY <2>1 DEF Request, Carries
    <3> QED  BY <2>1, <3>1 DEF Send
  <2>2. ASSUME NEW status, NEW account, Return(h, status, account)
        PROVE  \E r : handler' = [handler EXCEPT ![h] = r] /\ (r = Idle \/ ~Carries(r, a))
        BY <2>2 DEF Return
  <2>3. \A x, c : Lookup(x).op = "lookup" /\ UpdateCounter(x, c).op = "counter"
        BY DEF Lookup, UpdateCounter
  <2>4. \/ \E status, account : Return(h, status, account)
        \/ \E route \in {"login-options", "login-verify"} : \E x, c, cred, passes, began :
              \/ Send(h, Request(route, Lookup(x), cred, passes, began))
              \/ Send(h, Request(route, UpdateCounter(x, c), cred, passes, began))
        BY Zenon DEF LoginRequest, LoginOptions, discoverableLoginOptions, LoginVerify, Reject
  <2> QED  BY <2>1, <2>2, <2>3, <2>4
<1>3. Granted(a)' \subseteq Granted(a)
      BY <1>1, GrantedBecomes
<1>4. Carriers(a)' \subseteq Carriers(a)
      BY <1>2, CarriersBecome
<1> QED  BY <1>1, <1>3, <1>4, QuietStep DEF Delayed

LEMMA RegistrationRequestKeeps ==
  ASSUME IInv, TypeOK', ~AllowLocalAccountPairing, NEW a \in Account, WithinBudget(a),
         NEW h \in Handler, RegistrationRequest(h)
  PROVE  WithinBudget(a)'
<1> TypeOK
    BY DEF IInv
<1>1. UNCHANGED <<accounts, enrolled, unclaimed, late>>
      BY DEF RegistrationRequest, RegistrationOptions, LocalRegistrationOptions, SignupOptions,
             finishRegistration, GatewayOnly, javaVars
<1>2. ASSUME NEW r, handler' = [handler EXCEPT ![h] = r], r = Idle \/ ~Carries(r, a),
             Granted(a)' \subseteq Granted(a)
      PROVE  WithinBudget(a)'
      BY <1>1, <1>2, CarriersBecome, QuietStep DEF Delayed
<1>3. ASSUME NEW t \in Token \cup {Nobody}, NEW labelOK \in BOOLEAN, RegistrationOptions(h, t, labelOK)
      PROVE  WithinBudget(a)'
  <2> DEFINE r == Request("register-options", ClaimPairing(t), Nobody, labelOK, 0)
  <2>1. ~Carries(r, a)
        BY DEF Request, ClaimPairing, Carries
  <2>2. handler' = [handler EXCEPT ![h] = r] /\ regPending' = regPending
        BY <1>3 DEF RegistrationOptions, Send, ceremonyVars
  <2> QED  BY <1>2, <2>1, <2>2, GrantedBecomes
<1>4. ASSUME NEW x \in Account, LocalRegistrationOptions(h, x) \/ SignupOptions(h, x)
      PROVE  WithinBudget(a)'
  <2> DEFINE r == Request("signup-options", Lookup(x), Nobody, TRUE, 0)
  <2>1. ~Carries(r, a)
        BY DEF Request, Lookup, Carries
  <2>2. handler' = [handler EXCEPT ![h] = r] /\ regPending' = regPending
        BY <1>4 DEF LocalRegistrationOptions, SignupOptions, Send, ceremonyVars
  <2> QED  BY <1>2, <2>1, <2>2, GrantedBecomes
<1>5. ASSUME NEW route \in {"register-verify", "signup-verify"}, NEW id \in issued,
             finishRegistration(h, route, id)
      PROVE  WithinBudget(a)'
  <2>1. Granted(a)' \subseteq Granted(a) \ {id}
        BY <1>5, GrantedBecomes DEF finishRegistration
  <2>2. CASE Reject(h)
    <3>1. handler' = [handler EXCEPT ![h] = Idle]
          BY <2>2 DEF Reject, Return
    <3> QED  BY <1>2, <2>1, <3>1
  <2>3. ASSUME Open(regPending, id), NEW c \in Cred,
               NEW account, account = regPending[id].account,
               NEW command, command = IF regPending[id].signup THEN SignupPasskey(account, c)
                                                               ELSE RegisterPasskey(account, c),
               Send(h, Request(route, command, c, TRUE, 0))
        PROVE  WithinBudget(a)'
    <3> DEFINE r == Request(route, command, c, TRUE, 0)
    <3>1. /\ command.account = account
          /\ regPending[id].signup => command.op = "signup"
          BY <2>3 DEF SignupPasskey, RegisterPasskey
    <3>2. /\ handler' = [handler EXCEPT ![h] = r]
          /\ r.step = "waiting" /\ r.route = route /\ r.command = command
          BY <2>3 DEF Send, Request
    <3>3. CASE ~Carries(r, a)
          BY <1>2, <2>1, <3>2, <3>3
    <3>4. CASE Carries(r, a)
      <4> HIDE DEF r
      <4>1. command.op = "register" /\ account = a /\ ~regPending[id].signup
            BY <3>1, <3>2, <3>4 DEF Carries
      <4>2. id \in Granted(a)
            BY <2>3, <4>1 DEF Granted, Open
      <4>3. IsFiniteSet(Carriers(a)) /\ IsFiniteSet(Granted(a)) /\ IsFiniteSet(Delayed(a))
            BY DEF WithinBudget
      <4>4. IsFiniteSet(Granted(a)') /\ Cardinality(Granted(a)') <= Cardinality(Granted(a)) + (-1)
        <5>1. /\ IsFiniteSet(Granted(a)') /\ Cardinality(Granted(a)') <= Cardinality(Granted(a)) - 1
              /\ Cardinality(Granted(a)) \in Nat
              BY <2>1, <4>2, <4>3, CountBounds
        <5> QED  BY <5>1
      <4>5. IsFiniteSet(Carriers(a)') /\ Cardinality(Carriers(a)') <= Cardinality(Carriers(a)) + 1
        <5>1. Carriers(a)' \subseteq Carriers(a) \cup {h}
              BY <3>2, CarriersBecome
        <5> QED  BY <4>3, <5>1, CountBounds
      <4>6. IsFiniteSet(Delayed(a)') /\ Cardinality(Delayed(a)') <= Cardinality(Delayed(a)) + 0
        <5>1. Delayed(a)' \subseteq Delayed(a)
              BY <1>1 DEF Delayed
        <5> QED  BY <4>3, <5>1, CountBounds
      <4>7. Cardinality(enrolled'[a]) <= Cardinality(enrolled[a]) + 0
            BY <1>1, BudgetTyped
      <4>8. 1 \in Int /\ 0 \in Int /\ (-1) \in Int /\ 0 + 1 + (-1) + 0 <= 0
            OBVIOUS
      <4>9. accounts \subseteq accounts' /\ unclaimed' \subseteq unclaimed
            BY <1>1
      <4> QED  BY <4>4, <4>5, <4>6, <4>7, <4>8, <4>9, BudgetKept
    <3> QED  BY <3>3, <3>4
  <2> QED  BY <1>5, <2>2, <2>3 DEF finishRegistration
<1> QED  BY <1>3, <1>4, <1>5 DEF RegistrationRequest

\* A reply: the lookup after a claim hands its authority to a ceremony.
LEMMA ProceedsKeeps ==
  ASSUME IInv, TypeOK', NEW a \in Account, WithinBudget(a), NEW h \in Handler, Proceeds(h)
  PROVE  WithinBudget(a)'
<1> DEFINE j == handler[h]
<1> TypeOK
    BY DEF IInv
<1>1. UNCHANGED <<accounts, enrolled, unclaimed, late>> /\ handler[h].step = "replied"
      BY DEF Proceeds, accountLoginOptions, discoverableUser, finishLogin, pairingClaimed,
             registrationLookedUp, signupLookedUp, registered, signedUp, GatewayOnly, javaVars, Replied
<1>2. /\ j \in Job /\ j # Idle /\ ReplySound(j)
      BY <1>1, RepliedFacts, JobFields
<1>3. ASSUME NEW r, handler' = [handler EXCEPT ![h] = r],
             r = Idle \/ ~Carries(r, a) \/ h \in Carriers(a),
             Granted(a)' \subseteq Granted(a)
      PROVE  WithinBudget(a)'
      BY <1>1, <1>3, CarriersBecome, QuietStep DEF Delayed
<1>4. ASSUME NEW status, NEW account, Return(h, status, account), Granted(a)' \subseteq Granted(a)
      PROVE  WithinBudget(a)'
      BY <1>3, <1>4 DEF Return
<1>5. ASSUME NEW command, NEW r, r = [j EXCEPT !.step = "waiting", !.reply = NoReply, !.command = command]
      PROVE  r.step = "waiting" /\ r.route = j.route /\ r.command = command
      BY <1>2, <1>5 DEF Job
<1>6. ASSUME \E status, account : Return(h, status, account),
             regPending' \in {regPending, Pruned(regPending)}
      PROVE  WithinBudget(a)'
      BY <1>4, <1>6, GrantedBecomes
<1>7. CASE accountLoginOptions(h) \/ finishLogin(h) \/ registered(h) \/ signedUp(h)
      BY <1>6, <1>7 DEF accountLoginOptions, finishLogin, registered, signedUp, Reject, BeginLogin, ceremonyVars
<1>8. CASE discoverableUser(h)
  <2>1. regPending' = regPending /\ j.route = "login-verify"
        BY <1>8 DEF discoverableUser, ceremonyVars, Replied
  <2>2. CASE Reject(h)
        BY <1>6, <2>1, <2>2 DEF Reject
  <2>3. ASSUME NEW command, command = UpdateCounter(j.reply.account, j.cred),
               Send(h, [j EXCEPT !.step = "waiting", !.reply = NoReply, !.command = command])
        PROVE  WithinBudget(a)'
    <3>1. PICK r : /\ r = [j EXCEPT !.step = "waiting", !.reply = NoReply, !.command = command]
                   /\ handler' = [handler EXCEPT ![h] = r]
          BY <2>3 DEF Send
    <3>2. r.step = "waiting" /\ r.route = j.route /\ r.command = command /\ command.op = "counter"
          BY <1>5, <2>3, <3>1 DEF UpdateCounter
    <3>3. ~Carries(r, a)
          BY <2>1, <3>2 DEF Carries
    <3> QED  BY <1>3, <2>1, <3>1, <3>3, GrantedBecomes
  <2> QED  BY <1>8, <2>2, <2>3 DEF discoverableUser
<1>9. CASE pairingClaimed(h)
  <2>1. regPending' = regPending /\ j.route = "register-options" /\ j.command.op = "claim"
        BY <1>9 DEF pairingClaimed, ceremonyVars, Replied
  <2>2. CASE Reject(h)
        BY <1>6, <2>1, <2>2 DEF Reject
  <2>3. ASSUME NEW command, command = Lookup(j.reply.account), j.reply.verdict = "ok",
               Send(h, [j EXCEPT !.step = "waiting", !.reply = NoReply, !.command = command])
        PROVE  WithinBudget(a)'
    <3>1. PICK r : /\ r = [j EXCEPT !.step = "waiting", !.reply = NoReply, !.command = command]
                   /\ handler' = [handler EXCEPT ![h] = r]
          BY <2>3 DEF Send
    <3>2. /\ r.step = "waiting" /\ r.route = j.route /\ r.command = command
          /\ command.op = "lookup" /\ command.account = j.reply.account
      <4>1. r.step = "waiting" /\ r.route = j.route /\ r.command = command
            BY <1>5, <3>1
      <4>2. command.op = "lookup" /\ command.account = j.reply.account
            BY <2>3 DEF Lookup
      <4> QED  BY <4>1, <4>2
    <3>3. Carries(r, a) => h \in Carriers(a)
          BY <1>1, <1>2, <2>1, <2>3, <3>2 DEF Carries, Carriers
    <3> QED  BY <1>3, <2>1, <3>1, <3>3, GrantedBecomes
  <2> QED  BY <1>9, <2>2, <2>3 DEF pairingClaimed
<1>10. CASE registrationLookedUp(h)
  <2>1. j.route = "register-options" /\ j.command.op = "lookup" /\ j.reply.account = j.command.account
        BY <1>2, <1>10 DEF registrationLookedUp, Replied, ReplySound
  <2>2. CASE Reject(h) /\ UNCHANGED ceremonyVars
        BY <1>6, <2>2 DEF Reject, ceremonyVars
  <2>3. ASSUME NEW account, account = j.reply.account, Return(h, "ok", account),
               NEW id, beginRegistration(id, account, FALSE)
        PROVE  WithinBudget(a)'
    <3>0. /\ Granted(a)' \subseteq Granted(a) \cup {id}
          /\ account # a => Granted(a)' \subseteq Granted(a)
      <4>1. beginRegistration(id, account, FALSE)
            BY <2>3
      <4>2. /\ Granted(a)' \subseteq Granted(a) \cup {id}
            /\ FALSE \/ account # a => Granted(a)' \subseteq Granted(a)
            BY <4>1, GrantedBecomes
      <4> QED  BY <4>2
    <3>1. CASE account # a
          BY <1>4, <2>3, <3>0, <3>1
    <3>2. CASE account = a
      <4>1. h \in Carriers(a)
            BY <1>2, <2>1, <2>3, <3>2 DEF Carriers, Carries
      <4>2. handler' = [handler EXCEPT ![h] = Idle]
            BY <2>3 DEF Return
      <4>3. IsFiniteSet(Carriers(a)) /\ IsFiniteSet(Granted(a)) /\ IsFiniteSet(Delayed(a))
            BY DEF WithinBudget
      <4>4. IsFiniteSet(Carriers(a)') /\ Cardinality(Carriers(a)') <= Cardinality(Carriers(a)) + (-1)
        <5>1. Carriers(a)' \subseteq Carriers(a) \ {h}
              BY <4>2, CarriersBecome
        <5>2. /\ IsFiniteSet(Carriers(a)') /\ Cardinality(Carriers(a)') <= Cardinality(Carriers(a)) - 1
              /\ Cardinality(Carriers(a)) \in Nat
              BY <4>1, <4>3, <5>1, CountBounds
        <5> QED  BY <5>2
      <4>5. IsFiniteSet(Granted(a)') /\ Cardinality(Granted(a)') <= Cardinality(Granted(a)) + 1
            BY <3>0, <4>3, CountBounds
      <4>6. IsFiniteSet(Delayed(a)') /\ Cardinality(Delayed(a)') <= Cardinality(Delayed(a)) + 0
        <5>1. Delayed(a)' \subseteq Delayed(a)
              BY <1>1 DEF Delayed
        <5> QED  BY <4>3, <5>1, CountBounds
      <4>7. Cardinality(enrolled'[a]) <= Cardinality(enrolled[a]) + 0
            BY <1>1, BudgetTyped
      <4>8. 1 \in Int /\ 0 \in Int /\ (-1) \in Int /\ 0 + (-1) + 1 + 0 <= 0
            OBVIOUS
      <4>9. accounts \subseteq accounts' /\ unclaimed' \subseteq unclaimed
            BY <1>1
      <4> QED  BY <4>4, <4>5, <4>6, <4>7, <4>8, <4>9, BudgetKept
    <3> QED  BY <3>1, <3>2
  <2> QED  BY <1>10, <2>2, <2>3 DEF registrationLookedUp
<1>11. CASE signupLookedUp(h)
  <2>1. CASE UNCHANGED ceremonyVars
        BY <1>6, <1>11, <2>1 DEF signupLookedUp, ceremonyVars
  <2>2. ASSUME NEW account, Return(h, "ok", account), NEW id, beginRegistration(id, account, TRUE)
        PROVE  WithinBudget(a)'
    <3>1. Granted(a)' \subseteq Granted(a)
          BY <2>2, GrantedBecomes
    <3> QED  BY <1>4, <2>2, <3>1
  <2> QED  BY <1>11, <2>1, <2>2 DEF signupLookedUp
<1> QED  BY <1>7, <1>8, <1>9, <1>10, <1>11 DEF Proceeds

LEMMA AuthorisedNext ==
  ASSUME IInv, IInv', Authorised, [Next]_vars
  PROVE  Authorised'
<1> TypeOK /\ TypeOK' /\ InitialAccounts \subseteq accounts
    BY DEF IInv, Authorised
<1>1. InitialAccounts' \subseteq accounts'
  <2>1. accounts \subseteq accounts'
        BY StepForward DEF Forward
  <2> QED  BY <2>1 DEF InitialAccounts
<1>2. ASSUME ~AllowLocalAccountPairing, NEW a \in Account PROVE WithinBudget(a)'
  <2>1. WithinBudget(a)
        BY <1>2 DEF Authorised
  <2>2. CASE UNCHANGED <<javaVars, handler, regPending, late>>
    <3>1. UNCHANGED <<accounts, enrolled, unclaimed, handler, regPending, late>>
          BY <2>2 DEF javaVars
    <3>2. Granted(a)' \subseteq Granted(a)
          BY <3>1 DEF Granted
    <3>3. Carriers(a)' \subseteq Carriers(a) /\ Delayed(a)' \subseteq Delayed(a)
          BY <3>1 DEF Carriers, Carries, Delayed
    <3> QED  BY <2>1, <3>1, <3>2, <3>3, QuietStep
  <2>3. CASE Tick \/ (\E c \in Cred : Revoke(c)) \/ UNCHANGED vars
        BY <2>2, <2>3 DEF Tick, Revoke, vars, ceremonyVars
  <2>4. CASE Restart
        BY <2>1, <2>4, RestartKeeps
  <2>5. ASSUME NEW c \in late, JavaExecutesLate(c) PROVE WithinBudget(a)'
        BY <2>1, <2>5, JavaExecutesLateKeeps
  <2>6. ASSUME NEW h \in Handler, LoginRequest(h) PROVE WithinBudget(a)'
        BY <2>1, <2>6, LoginRequestKeeps
  <2>7. ASSUME NEW h \in Handler, RegistrationRequest(h) PROVE WithinBudget(a)'
        BY <1>2, <2>1, <2>7, RegistrationRequestKeeps
  <2>8. ASSUME NEW h \in Handler, JavaExecutes(h) PROVE WithinBudget(a)'
        BY <2>1, <2>8, JavaExecutesKeeps
  <2>11. ASSUME NEW h \in Handler, JavaRefuses(h) PROVE WithinBudget(a)'
        BY <2>1, <2>11, JavaRefusesKeeps
  <2>9. ASSUME NEW h \in Handler, Proceeds(h) PROVE WithinBudget(a)'
        BY <2>1, <2>9, ProceedsKeeps
  <2>10. ASSUME NEW h \in Handler, CommandFails(h) PROVE WithinBudget(a)'
        BY <2>1, <2>10, CommandFailsKeeps
  <2> QED  BY <2>3, <2>4, <2>5, <2>6, <2>7, <2>8, <2>9, <2>10, <2>11 DEF Next
<1> QED  BY <1>1, <1>2 DEF Authorised

LEMMA AuthorisedInit == Init => Authorised
<1> SUFFICES ASSUME Init PROVE Authorised
    OBVIOUS
<1>1. InitialAccounts \subseteq accounts
      BY DEF Init, InitialAccounts
<1>2. ASSUME NEW a \in Account PROVE WithinBudget(a)
  <2>1. Carriers(a) = {} /\ Granted(a) = {} /\ Delayed(a) = {}
        BY DEF Init, Carriers, Granted, Delayed, EmptyMap
  <2>2. IsFiniteSet({}) /\ Cardinality({}) = 0
        BY FS_EmptySet
  <2>3. enrolled[a] = Owned(a)
        BY DEF Init, Owned
  <2>4. Cardinality(Owned(a)) \in Nat /\ Cardinality(Claimed(a)) \in Nat /\ SignedUp(a) \in Nat
        BY InvariantInit, BudgetTyped DEF IInv
  <2> QED  BY <2>1, <2>2, <2>3, <2>4 DEF WithinBudget, Budget
<1> QED  BY <1>1, <1>2 DEF Authorised

\* Whatever is repeated, raced, lost or executed late, an account never has
\* more credentials than its first ones, one for each of its tokens that was
\* claimed, and one if it was signed up (passkeys.go:304-318, 380-415).
THEOREM EnrolmentsAuthorised == Spec => []EnrolmentAuthorised
<1>1. Init => IInv /\ Authorised
      BY InvariantInit, AuthorisedInit
<1>2. IInv /\ Authorised /\ [Next]_vars => (IInv /\ Authorised)'
      BY InvariantNext, AuthorisedNext
<1>3. IInv /\ Authorised => EnrolmentAuthorised
  <2> SUFFICES ASSUME IInv, Authorised, ~AllowLocalAccountPairing, NEW a \in Account
               PROVE  Cardinality(enrolled[a]) <= Cardinality(Owned(a)) + Cardinality(Claimed(a)) + SignedUp(a)
      BY DEF EnrolmentAuthorised, Owned, Claimed, SignedUp
  <2>1. WithinBudget(a) /\ TypeOK
        BY DEF IInv, Authorised
  <2>2. /\ Cardinality(Carriers(a)) \in Nat /\ Cardinality(Granted(a)) \in Nat
        /\ Cardinality(Delayed(a)) \in Nat
        BY <2>1, FS_CardinalityType DEF WithinBudget
  <2>3. /\ Cardinality(Owned(a)) \in Nat /\ Cardinality(Claimed(a)) \in Nat /\ SignedUp(a) \in Nat
        /\ Cardinality(enrolled[a]) \in Nat
        BY <2>1, BudgetTyped
  <2> QED  BY <2>1, <2>2, <2>3 DEF WithinBudget, Budget
<1> QED  BY <1>1, <1>2, <1>3, PTL DEF Spec

---------------------------------------------------------------------------
(* What HandlerReturns rests on: every step of a request brings its answer *)
(* nearer.                                                                 *)

\* The commands a request may still wait for: a pairing claim and the lookup
\* of a discoverable user are followed by one more.
CommandsLeft(j) ==
    IF j.command.op = "claim" \/ (j.route = "login-verify" /\ j.command.op = "lookup") THEN 2 ELSE 1

StepsLeft(j) ==
    CASE j.step = "idle"    -> 0
      [] j.step = "replied" -> 2 * CommandsLeft(j) - 1
      [] OTHER              -> 2 * CommandsLeft(j)

\* A request that was begun is where it was, or nearer to its answer.
Nearer(h) == idle(h) \/ handler'[h] = handler[h] \/ StepsLeft(handler'[h]) < StepsLeft(handler[h])

LEMMA StepsLeftBound ==
  ASSUME NEW j \in {Idle} \cup Job
  PROVE  StepsLeft(j) \in 0..4 /\ (j.step # "idle" => StepsLeft(j) > 0)
<1>1. j.step \in {"idle", "waiting", "replied"}
      BY JobFields DEF Idle
<1>2. CommandsLeft(j) \in {1, 2}
      BY DEF CommandsLeft
<1> QED  BY <1>1, <1>2 DEF StepsLeft

\* A request whose command or answer changes does so by one of these.
LEMMA RequestSteps ==
  ASSUME IInv, [Next]_vars, NEW h \in Handler, ~idle(h), handler'[h] # handler[h]
  PROVE  handler'[h] = Idle \/ JavaExecutes(h) \/ JavaRefuses(h) \/ discoverableUser(h) \/ pairingClaimed(h)
<1>t. handler \in [Handler -> {Idle} \cup Job]
      BY DEF IInv, TypeOK
<1>1. CASE Restart
      BY <1>1 DEF Restart
<1>2. CASE UNCHANGED handler
      BY <1>2
<1>3. ASSUME NEW g \in Handler, NEW r, handler' = [handler EXCEPT ![g] = r], idle(g)
      PROVE  FALSE
      BY <1>t, <1>3 DEF idle
<1>4. ASSUME NEW g \in Handler, LoginRequest(g) PROVE FALSE
      BY <1>3, <1>4 DEF LoginRequest, LoginOptions, discoverableLoginOptions, LoginVerify, Send, Return, Reject
<1>5. ASSUME NEW g \in Handler, RegistrationRequest(g) PROVE FALSE
      BY <1>3, <1>5 DEF RegistrationRequest, RegistrationOptions, LocalRegistrationOptions,
                        SignupOptions, finishRegistration, Send, Return, Reject
<1>6. ASSUME NEW g \in Handler, handler' = [handler EXCEPT ![g] = Idle] PROVE handler'[h] = Idle
      BY <1>t, <1>6
<1>7. ASSUME NEW g \in Handler, CommandFails(g) PROVE handler'[h] = Idle
      BY <1>6, <1>7 DEF CommandFails, Reject, Return
<1>8. ASSUME NEW g \in Handler, JavaExecutes(g) \/ JavaRefuses(g) \/ discoverableUser(g) \/ pairingClaimed(g)
      PROVE  g = h
  <2>1. \A x \in Handler : x # g => handler'[x] = handler[x]
        BY <1>t, <1>8 DEF JavaExecutes, JavaRefuses, discoverableUser, pairingClaimed, Send, Reject, Return
  <2> QED  BY <2>1
<1>9. ASSUME NEW g \in Handler, Proceeds(g)
      PROVE  handler'[h] = Idle \/ discoverableUser(g) \/ pairingClaimed(g)
      BY <1>6, <1>9 DEF Proceeds, accountLoginOptions, finishLogin, registrationLookedUp,
                        signupLookedUp, registered, signedUp, Return, Reject
<1>10. CASE Tick \/ (\E c \in Cred : Revoke(c)) \/ (\E c \in late : JavaExecutesLate(c)) \/ UNCHANGED vars
      BY <1>2, <1>10 DEF Tick, Revoke, JavaExecutesLate, vars
<1> QED  BY <1>1, <1>4, <1>5, <1>7, <1>8, <1>9, <1>10 DEF Next

LEMMA StepsNearer ==
  ASSUME IInv, [Next]_vars, NEW h \in Handler
  PROVE  Nearer(h)
<1> SUFFICES ASSUME ~idle(h), handler'[h] # handler[h]
             PROVE  StepsLeft(handler'[h]) < StepsLeft(handler[h])
    BY DEF Nearer
<1>t. handler \in [Handler -> {Idle} \cup Job]
      BY DEF IInv, TypeOK
<1>j. handler[h] \in Job
      BY <1>t DEF idle, Idle
<1>p. StepsLeft(handler[h]) \in 0..4 /\ StepsLeft(handler[h]) > 0
      BY <1>j, StepsLeftBound DEF idle
<1>1. ASSUME handler'[h] = Idle PROVE StepsLeft(handler'[h]) < StepsLeft(handler[h])
  <2>1. StepsLeft(Idle) = 0
        BY DEF StepsLeft, Idle
  <2> QED  BY <1>1, <1>p, <2>1
<1>2. ASSUME JavaExecutes(h) \/ JavaRefuses(h) PROVE StepsLeft(handler'[h]) < StepsLeft(handler[h])
  <2>1. PICK j \in Job : j = handler[h] /\ j.step = "waiting"
        BY <1>2, <1>j DEF JavaExecutes, JavaRefuses, Waiting
  <2>2. PICK n : /\ n = handler'[h] /\ n.step = "replied" /\ n.route = j.route /\ n.command = j.command
    <3>0. PICK reply : handler' = [handler EXCEPT ![h].step = "replied", ![h].reply = reply]
          BY <1>2 DEF JavaExecutes, JavaRefuses
    <3>1. PICK x : /\ x = [j EXCEPT !.step = "replied", !.reply = reply]
                   /\ x.step = "replied" /\ x.route = j.route /\ x.command = j.command
      <4> DEFINE y == [j EXCEPT !.step = "replied", !.reply = reply]
      <4>1. y.step = "replied" /\ y.route = j.route /\ y.command = j.command
            BY DEF Job
      <4> QED  BY <4>1
    <3>2. x = [handler[h] EXCEPT !.step = "replied", !.reply = reply]
          BY <2>1, <3>1, Zenon
    <3>3. handler' = [handler EXCEPT ![h] = x]
          BY <3>0, <3>2
    <3> QED  BY <1>t, <3>1, <3>3
  <2>3. CommandsLeft(n) = CommandsLeft(j) /\ CommandsLeft(j) \in {1, 2}
        BY <2>2 DEF CommandsLeft
  <2>4. StepsLeft(n) = 2 * CommandsLeft(n) - 1 /\ StepsLeft(j) = 2 * CommandsLeft(j)
        BY <2>1, <2>2 DEF StepsLeft
  <2>5. StepsLeft(n) < StepsLeft(j)
        BY <2>3, <2>4
  <2> QED  BY <2>1, <2>2, <2>5, Zenon
<1>3. ASSUME discoverableUser(h) \/ pairingClaimed(h), handler'[h] # Idle
      PROVE  StepsLeft(handler'[h]) < StepsLeft(handler[h])
  <2>1. PICK j \in Job : j = handler[h]
        BY <1>j
  <2>2. j.step = "replied" /\ CommandsLeft(j) = 2
        BY <1>3, <2>1 DEF discoverableUser, pairingClaimed, Replied, CommandsLeft
  <2>3. PICK c : /\ handler'[h] = [j EXCEPT !.step = "waiting", !.reply = NoReply, !.command = c]
                 /\ \/ c = UpdateCounter(j.reply.account, j.cred)
                    \/ j.route = "register-options" /\ c = Lookup(j.reply.account)
        BY <1>3, <1>t, <2>1 DEF discoverableUser, pairingClaimed, Replied, Send, Reject, Return
  <2>4. PICK n : n = handler'[h] /\ n.step = "waiting" /\ n.route = j.route /\ n.command = c
        BY <2>3 DEF Job
  <2>5. c.op = "counter" \/ (c.op = "lookup" /\ j.route = "register-options")
        BY <2>3 DEF UpdateCounter, Lookup
  <2>6. CommandsLeft(n) = 1
        BY <2>4, <2>5 DEF CommandsLeft
  <2>7. StepsLeft(n) = 2 * CommandsLeft(n) /\ StepsLeft(j) = 2 * CommandsLeft(j) - 1
        BY <2>2, <2>4 DEF StepsLeft
  <2>8. StepsLeft(n) < StepsLeft(j)
        BY <2>2, <2>6, <2>7
  <2> QED  BY <2>1, <2>4, <2>8, Zenon
<1> QED  BY <1>1, <1>2, <1>3, RequestSteps

\* The safety half of HandlerReturns: with any number of requests, a request
\* has at most four steps to its answer, two commands among them, and each
\* step it or Java takes for it is one less; no step of another request, no
\* revocation and no late command sends it back (passkeys.go:158-164, 193-202,
\* 229-337, 380-415).
THEOREM RequestsAdvance ==
  Spec => /\ [](\A h \in Handler : StepsLeft(handler[h]) \in 0..4)
          /\ [][\A h \in Handler : Nearer(h)]_vars
<1>1. IInv => \A h \in Handler : StepsLeft(handler[h]) \in 0..4
      BY StepsLeftBound DEF IInv, TypeOK
<1>2. IInv /\ [Next]_vars => [\A h \in Handler : Nearer(h)]_vars
      BY StepsNearer
<1> QED  BY <1>1, <1>2, Invariant, PTL DEF Spec
===========================================================================
