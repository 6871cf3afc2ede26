---------------------------- MODULE PasskeyAuth ----------------------------
(***************************************************************************)
(* internal/passkeys/passkeys.go and the six /auth/passkey handlers of     *)
(* internal/httpapi/server.go: WebAuthn ceremonies held in two maps under  *)
(* one mutex, and between an options or verify request and its answer one  *)
(* or two blocking commands to the Java server, on which every request may *)
(* be overtaken by others, by time, by a revocation or by a restart.       *)
(*                                                                         *)
(* A handler goroutine is idle, waits for Java to execute its command, or  *)
(* has Java's reply under way.  Everything it does between two commands    *)
(* touches shared state in one critical section, so it is one action.      *)
(*                                                                         *)
(* The Java server and the WebAuthn library are external: Java refuses a   *)
(* command, whatever it is, or executes it atomically, at most once,       *)
(* possibly after the gateway gave up on it; an assertion passes only for  *)
(* the challenge it was made for.                                          *)
(***************************************************************************)
EXTENDS Naturals, FiniteSets, GoMaps

CONSTANTS
    Account,      \* account names
    Cred,         \* passkey credentials
    CeremonyId,   \* identifiers randomID can return
    Token,        \* pairing tokens Java has minted
    Handler,      \* concurrent requests
    OwnerOf,      \* [Cred -> Account or Nobody]: who had enrolled it at start
    TokenAccount, \* [Token -> Account]: the account a token pairs with
    Refusals,     \* verdicts of a lookup that Java refuses without looking
    TTL,          \* WebAuthnService.ttl
    AllowLocalAccountPairing,
    MaxTime,      \* bound on the clock
    MaxCrashes,   \* bound on gateway restarts
    Nobody        \* no account, no credential, no token

ASSUME AuthAssumption ==
    /\ OwnerOf \in [Cred -> Account \cup {Nobody}]
    /\ TokenAccount \in [Token -> Account]
    /\ TTL \in Nat \ {0}
    /\ AllowLocalAccountPairing \in BOOLEAN
    /\ MaxTime \in Nat /\ MaxCrashes \in Nat
    /\ Nobody \notin Account /\ Nobody \notin Cred /\ Nobody \notin Token
    /\ IsFiniteSet(Cred) /\ IsFiniteSet(Token)

ASSUME RefusalsAssumption == Refusals \subseteq {"refused", "unknown"}

VARIABLES
    clock,         \* what s.now() returns
    loginPending,  \* WebAuthnService.loginPending
    regPending,    \* WebAuthnService.regPending
    nextPrune,     \* WebAuthnService.nextPruneTime; 0 is the zero time
    issued,        \* ceremony identifiers handed out
    redeemed,      \* history: ceremonies a verify request took in time
    handler,       \* what each request is doing
    answer,        \* the answer the latest step gave to a browser
    sessions,      \* the browser sessions created since the gateway started
    crashes,       \* restarts so far
    accounts,      \* Java: existing accounts
    enrolled,      \* Java: account -> its credentials
    revokedAt,     \* Java: credential -> when it was deactivated (0: active)
    unclaimed,     \* Java: pairing tokens not claimed yet
    late           \* commands the gateway gave up on and Java may yet execute

ceremonyVars == <<loginPending, regPending, nextPrune, issued, redeemed>>
javaVars == <<accounts, enrolled, unclaimed>>
worldVars == <<clock, crashes, revokedAt>>
vars == <<ceremonyVars, javaVars, worldVars, handler, answer, sessions, late>>

---------------------------------------------------------------------------
(* Requests, commands and replies                                          *)

Routes == {"login-options", "login-verify", "register-options",
           "register-verify", "signup-options", "signup-verify"}

Ops == {"lookup", "claim", "counter", "register", "signup"}

\* Only a pairing claim names no account; only a claim or a lookup names no
\* credential.
Command ==
    {c \in [op : Ops, account : Account \cup {Nobody},
            cred : Cred \cup {Nobody}, token : Token \cup {Nobody}] :
        /\ c.op # "claim" => c.account \in Account
        /\ c.op \notin {"claim", "lookup"} => c.cred \in Cred}

Lookup(a) == [op |-> "lookup", account |-> a, cred |-> Nobody, token |-> Nobody]
ClaimPairing(t) == [op |-> "claim", account |-> Nobody, cred |-> Nobody, token |-> t]
UpdateCounter(a, c) == [op |-> "counter", account |-> a, cred |-> c, token |-> Nobody]
RegisterPasskey(a, c) == [op |-> "register", account |-> a, cred |-> c, token |-> Nobody]
SignupPasskey(a, c) == [op |-> "signup", account |-> a, cred |-> c, token |-> Nobody]

\* Verdicts of Java: accepted, rejected as an unknown account or without any
\* message, which the gateway takes alike, rejected as an account that exists,
\* rejected with another message.
Reply == [verdict : {"ok", "unknown", "exists", "refused"}, account : Account \cup {Nobody},
          listed : SUBSET Cred, active : SUBSET Cred]

NoReply == [verdict |-> "refused", account |-> Nobody, listed |-> {}, active |-> {}]

Refusal(command, verdict) == [NoReply EXCEPT !.verdict = verdict, !.account = command.account]

Idle == [step |-> "idle"]

\* A request blocked on a command: cred is the credential presented, passes
\* whether the label or the assertion will pass the check that follows the
\* reply, began when the login ceremony under verification was opened.
Request(route, command, cred, passes, began) ==
    [step |-> "waiting", route |-> route, command |-> command, cred |-> cred,
     passes |-> passes, began |-> began, reply |-> NoReply]

NoAnswer == [status |-> "none", account |-> Nobody]

\* Block on a command.
Send(h, request) ==
    /\ handler' = [handler EXCEPT ![h] = request]
    /\ answer' = NoAnswer

\* Answer the browser.
Return(h, status, account) ==
    /\ handler' = [handler EXCEPT ![h] = Idle]
    /\ answer' = [status |-> status, account |-> account]

Reject(h) == Return(h, "unauthorized", Nobody)

---------------------------------------------------------------------------
(* The pending ceremonies                                                  *)

LoginCeremony == [account : Account \cup {Nobody}, credentials : SUBSET Cred,
                  expires : Nat]
RegistrationCeremony == [account : Account, signup : BOOLEAN, expires : Nat]

PruneDue == nextPrune = 0 \/ clock >= nextPrune

\* pruneLocked, for one of the two maps.
Pruned(pending) ==
    IF PruneDue THEN Drop(pending, {id \in DOMAIN pending : clock >= pending[id].expires})
                ELSE pending

NextPrune == IF PruneDue THEN clock + TTL ELSE nextPrune

\* Prune, then store a login ceremony under a fresh identifier.  The account
\* of a discoverable ceremony is Nobody.
BeginLogin(id, account, credentials) ==
    /\ id \in CeremonyId \ issued
    /\ issued' = issued \cup {id}
    /\ loginPending' = Put(Pruned(loginPending), id,
          [account |-> account, credentials |-> credentials, expires |-> clock + TTL])
    /\ regPending' = Pruned(regPending)
    /\ nextPrune' = NextPrune
    /\ UNCHANGED redeemed

\* Mutant: each kind of ceremony sweeps its own map only.
beginRegistration_OwnMap(id, account, signup) ==
    /\ id \in CeremonyId \ issued
    /\ issued' = issued \cup {id}
    /\ regPending' = Put(Pruned(regPending), id,
          [account |-> account, signup |-> signup, expires |-> clock + TTL])
    /\ nextPrune' = NextPrune
    /\ UNCHANGED <<loginPending, redeemed>>

beginRegistration(id, account, signup) ==
    /\ id \in CeremonyId \ issued
    /\ issued' = issued \cup {id}
    /\ regPending' = Put(Pruned(regPending), id,
          [account |-> account, signup |-> signup, expires |-> clock + TTL])
    /\ loginPending' = Pruned(loginPending)
    /\ nextPrune' = NextPrune
    /\ UNCHANGED redeemed

\* A ceremony that a verify request may still redeem.
Open(pending, id) == id \in DOMAIN pending /\ clock < pending[id].expires

\* Mutant: the ceremony stays in the map when it is taken.
takeLogin_Kept(id) ==
    /\ redeemed' = redeemed \cup {i \in {id} : Open(loginPending, i)}
    /\ UNCHANGED <<loginPending, regPending, nextPrune, issued>>

\* Whatever the outcome the ceremony is gone; it is redeemed if still open.
takeLogin(id) ==
    /\ loginPending' = Drop(loginPending, {id})
    /\ redeemed' = redeemed \cup {i \in {id} : Open(loginPending, i)}
    /\ UNCHANGED <<regPending, nextPrune, issued>>

takeRegistration(id) ==
    /\ regPending' = Drop(regPending, {id})
    /\ redeemed' = redeemed \cup {i \in {id} : Open(regPending, i)}
    /\ UNCHANGED <<loginPending, nextPrune, issued>>

---------------------------------------------------------------------------
(* The Java server                                                         *)

Active == {c \in Cred : revokedAt[c] = 0}

\* Java checks a counter update against the credential alone: that the
\* credential belongs to the account is left to the gateway to establish.
Accepts(command) ==
    \/ command.op = "lookup" /\ command.account \in accounts
    \/ command.op = "claim" /\ command.token \in unclaimed
    \/ command.op = "counter" /\ command.cred \in Active
    \/ command.op = "register" /\ command.account \in accounts
    \/ command.op = "signup" /\ command.account \notin accounts

Verdict(command) ==
    CASE Accepts(command) -> "ok"
      [] command.op = "lookup" /\ command.account \notin accounts -> "unknown"
      [] command.op = "signup" /\ command.account \in accounts -> "exists"
      [] OTHER -> "refused"

ReplyTo(command) ==
    [verdict |-> Verdict(command),
     account |-> IF command.op = "claim" /\ Accepts(command)
                 THEN TokenAccount[command.token] ELSE command.account,
     listed |-> IF command.op = "lookup" /\ Accepts(command)
                THEN enrolled[command.account] ELSE {},
     active |-> IF command.op = "lookup" /\ Accepts(command)
                THEN enrolled[command.account] \cap Active ELSE {}]

\* What a command changes on the Java side.
Execute(command) ==
    /\ accounts' = accounts \cup
          {a \in {command.account} : command.op = "signup" /\ Accepts(command)}
    /\ enrolled' = [a \in Account |-> enrolled[a] \cup
          {c \in {command.cred} : /\ a = command.account
                                  /\ command.op \in {"register", "signup"}
                                  /\ Accepts(command)}]
    /\ unclaimed' = unclaimed \ {command.token}

\* The commands worth remembering once nobody waits for them.
Mutating(command) == command.op \in {"claim", "register", "signup"}

Waiting(h) == handler[h].step = "waiting"
Replied(h, route) == handler[h].step = "replied" /\ handler[h].route = route

JavaExecutes(h) ==
    /\ Waiting(h)
    /\ Execute(handler[h].command)
    /\ handler' = [handler EXCEPT ![h].step = "replied",
                                  ![h].reply = ReplyTo(handler[h].command)]
    /\ answer' = NoAnswer
    /\ UNCHANGED <<ceremonyVars, worldVars, sessions, late>>

\* Java refuses any command: it finds it stale, replayed or wrongly signed, or
\* the name reserved.  A lookup it refuses with a message or without one.
JavaRefuses(h) ==
    /\ Waiting(h)
    /\ \E verdict \in IF handler[h].command.op = "lookup" THEN Refusals ELSE {"refused"} :
          handler' = [handler EXCEPT ![h].step = "replied",
                                     ![h].reply = Refusal(handler[h].command, verdict)]
    /\ answer' = NoAnswer
    /\ UNCHANGED <<ceremonyVars, javaVars, worldVars, sessions, late>>

\* Java executes a command whose handler has already failed.
JavaExecutesLate(command) ==
    /\ command \in late
    /\ Execute(command)
    /\ late' = late \ {command}
    /\ answer' = NoAnswer
    /\ UNCHANGED <<ceremonyVars, worldVars, handler, sessions>>

\* Java deactivates a credential.
Revoke(cred) ==
    /\ cred \in Active /\ \E a \in Account : cred \in enrolled[a]
    /\ revokedAt' = [revokedAt EXCEPT ![cred] = clock]
    /\ answer' = NoAnswer
    /\ UNCHANGED <<ceremonyVars, javaVars, clock, crashes, handler, sessions, late>>

---------------------------------------------------------------------------
(* The handlers                                                            *)

idle(h) == handler[h].step = "idle"

\* Only the shared state of the ceremonies (and a session) is touched.
GatewayOnly == UNCHANGED <<javaVars, worldVars, late>>

LoginOptions(h, account) ==
    /\ idle(h)
    /\ Send(h, Request("login-options", Lookup(account), Nobody, TRUE, 0))
    /\ UNCHANGED <<ceremonyVars, sessions>> /\ GatewayOnly

\* A discoverable login names no account and needs no lookup.
discoverableLoginOptions(h) ==
    /\ idle(h)
    /\ \E id \in CeremonyId : BeginLogin(id, Nobody, {})
    /\ Return(h, "ok", Nobody)
    /\ UNCHANGED sessions /\ GatewayOnly

accountLoginOptions(h) ==
    /\ Replied(h, "login-options")
    /\ LET reply == handler[h].reply IN
       \/ /\ reply.listed # {}
          /\ \E id \in CeremonyId : BeginLogin(id, reply.account, reply.listed)
          /\ Return(h, "ok", reply.account)
       \/ /\ reply.listed = {}
          /\ Reject(h)
          /\ UNCHANGED ceremonyVars
    /\ UNCHANGED sessions /\ GatewayOnly

\* The browser presents an assertion and the ceremony is gone.  A malformed one
\* is refused at once.  In a discoverable ceremony the account that the user
\* handle names is looked up before the assertion can be verified (passes: it
\* was made for this challenge); otherwise it must be one, made for this
\* challenge, by a credential of the account.
LoginVerify(h, id) ==
    /\ idle(h)
    /\ takeLogin(id)
    /\ LET ceremony == loginPending[id]
           opened   == ceremony.expires - TTL
       IN
       \/ Reject(h)
       \/ /\ Open(loginPending, id) /\ ceremony.account = Nobody
          /\ \E cred \in Cred, userHandle \in Account, passes \in BOOLEAN :
                Send(h, Request("login-verify", Lookup(userHandle), cred, passes, opened))
       \/ /\ Open(loginPending, id) /\ ceremony.account # Nobody
          /\ \E cred \in ceremony.credentials :
                Send(h, Request("login-verify", UpdateCounter(ceremony.account, cred),
                                cred, TRUE, opened))
    /\ UNCHANGED sessions /\ GatewayOnly

\* Mutant: any existing account will do.
discoverableUser_AnyAccount(h) ==
    /\ Replied(h, "login-verify") /\ handler[h].command.op = "lookup"
    /\ LET job == handler[h]
           good == job.reply.verdict = "ok" /\ job.passes
       IN
       \/ /\ good
          /\ Send(h, [job EXCEPT !.step = "waiting", !.reply = NoReply,
                                 !.command = UpdateCounter(job.reply.account, job.cred)])
       \/ /\ ~good
          /\ Reject(h)
    /\ UNCHANGED <<ceremonyVars, sessions>> /\ GatewayOnly

\* discoverableUser: the account the user handle names must list the
\* credential as active; then the assertion is verified and the signature
\* counter reported.
discoverableUser(h) ==
    /\ Replied(h, "login-verify") /\ handler[h].command.op = "lookup"
    /\ LET job == handler[h]
           good == job.cred \in job.reply.active /\ job.passes
       IN
       \/ /\ good
          /\ Send(h, [job EXCEPT !.step = "waiting", !.reply = NoReply,
                                 !.command = UpdateCounter(job.reply.account, job.cred)])
       \/ /\ ~good
          /\ Reject(h)
    /\ UNCHANGED <<ceremonyVars, sessions>> /\ GatewayOnly

\* Mutant: the error of UpdateCounter is dropped.
finishLogin_CounterIgnored(h) ==
    /\ Replied(h, "login-verify") /\ handler[h].command.op = "counter"
    /\ LET job == handler[h] IN
       /\ sessions' = sessions \cup {[account |-> job.command.account, cred |-> job.cred,
                                      kind |-> "login", began |-> job.began]}
       /\ Return(h, "ok", job.command.account)
    /\ UNCHANGED ceremonyVars /\ GatewayOnly

\* Java accepted the counter: the browser gets a session.
finishLogin(h) ==
    /\ Replied(h, "login-verify") /\ handler[h].command.op = "counter"
    /\ LET job == handler[h] IN
       \/ /\ job.reply.verdict = "ok"
          /\ sessions' = sessions \cup {[account |-> job.command.account, cred |-> job.cred,
                                         kind |-> "login", began |-> job.began]}
          /\ Return(h, "ok", job.command.account)
       \/ /\ job.reply.verdict # "ok"
          /\ Reject(h)
          /\ UNCHANGED sessions
    /\ UNCHANGED ceremonyVars /\ GatewayOnly

\* The pairing token is claimed before the label is looked at; Nobody stands
\* for a token Java has never minted.
RegistrationOptions(h, token, labelOK) ==
    /\ idle(h)
    /\ Send(h, Request("register-options", ClaimPairing(token), Nobody, labelOK, 0))
    /\ UNCHANGED <<ceremonyVars, sessions>> /\ GatewayOnly

\* pairingToken=account:<name>, where the configuration allows it.
LocalRegistrationOptions(h, account) ==
    /\ idle(h) /\ AllowLocalAccountPairing
    /\ Send(h, Request("register-options", Lookup(account), Nobody, TRUE, 0))
    /\ UNCHANGED <<ceremonyVars, sessions>> /\ GatewayOnly

\* Mutant: the error of ClaimPairing is dropped.
pairingClaimed_ErrorIgnored(h) ==
    /\ Replied(h, "register-options") /\ handler[h].command.op = "claim"
    /\ LET job == handler[h] IN
       \/ /\ job.passes
          /\ Send(h, [job EXCEPT !.step = "waiting", !.reply = NoReply,
                                 !.command = Lookup(job.reply.account)])
       \/ /\ ~job.passes
          /\ Reject(h)
    /\ UNCHANGED <<ceremonyVars, sessions>> /\ GatewayOnly

pairingClaimed(h) ==
    /\ Replied(h, "register-options") /\ handler[h].command.op = "claim"
    /\ LET job == handler[h]
           good == job.reply.verdict = "ok" /\ job.passes
       IN
       \/ /\ good
          /\ Send(h, [job EXCEPT !.step = "waiting", !.reply = NoReply,
                                 !.command = Lookup(job.reply.account)])
       \/ /\ ~good
          /\ Reject(h)
    /\ UNCHANGED <<ceremonyVars, sessions>> /\ GatewayOnly

registrationLookedUp(h) ==
    /\ Replied(h, "register-options") /\ handler[h].command.op = "lookup"
    /\ LET reply == handler[h].reply IN
       \/ /\ reply.verdict = "ok"
          /\ \E id \in CeremonyId : beginRegistration(id, reply.account, FALSE)
          /\ Return(h, "ok", reply.account)
       \/ /\ reply.verdict # "ok"
          /\ Reject(h)
          /\ UNCHANGED ceremonyVars
    /\ UNCHANGED sessions /\ GatewayOnly

SignupOptions(h, account) ==
    /\ idle(h)
    /\ Send(h, Request("signup-options", Lookup(account), Nobody, TRUE, 0))
    /\ UNCHANGED <<ceremonyVars, sessions>> /\ GatewayOnly

\* A name whose lookup Java accepts, or refuses with any message but that the
\* account is unknown, counts as taken.
signupLookedUp(h) ==
    /\ Replied(h, "signup-options")
    /\ LET job == handler[h] IN
       \/ /\ job.reply.verdict = "unknown"
          /\ \E id \in CeremonyId : beginRegistration(id, job.command.account, TRUE)
          /\ Return(h, "ok", job.command.account)
       \/ /\ job.reply.verdict # "unknown"
          /\ Return(h, "conflict", job.command.account)
          /\ UNCHANGED ceremonyVars
    /\ UNCHANGED sessions /\ GatewayOnly

\* Mutant: the route decides which command follows.
finishRegistration_ByRoute(h, route, id) ==
    /\ idle(h)
    /\ takeRegistration(id)
    /\ LET ceremony == regPending[id] IN
       \/ Reject(h)
       \/ /\ Open(regPending, id)
          /\ \E cred \in Cred :
                Send(h, Request(route, IF route = "signup-verify"
                                       THEN SignupPasskey(ceremony.account, cred)
                                       ELSE RegisterPasskey(ceremony.account, cred),
                                cred, TRUE, 0))
    /\ UNCHANGED sessions /\ GatewayOnly

\* RegistrationVerify and SignupVerify: the ceremony is gone; unless it had
\* expired and if the browser's response answers its challenge, the ceremony,
\* not the route, decides which command follows.  The credential is one the
\* browser has just made, or presents again.
finishRegistration(h, route, id) ==
    /\ idle(h)
    /\ takeRegistration(id)
    /\ LET ceremony == regPending[id] IN
       \/ Reject(h)
       \/ /\ Open(regPending, id)
          /\ \E cred \in Cred :
                Send(h, Request(route, IF ceremony.signup
                                       THEN SignupPasskey(ceremony.account, cred)
                                       ELSE RegisterPasskey(ceremony.account, cred),
                                cred, TRUE, 0))
    /\ UNCHANGED sessions /\ GatewayOnly

\* registerVerify: no session.
registered(h) ==
    /\ Replied(h, "register-verify")
    /\ LET job == handler[h] IN
       \/ job.reply.verdict = "ok" /\ Return(h, "ok", job.command.account)
       \/ job.reply.verdict # "ok" /\ Reject(h)
    /\ UNCHANGED <<ceremonyVars, sessions>> /\ GatewayOnly

\* signupVerify: a session; a name taken in the meantime is a conflict.
signedUp(h) ==
    /\ Replied(h, "signup-verify")
    /\ LET job == handler[h] IN
       \/ /\ job.reply.verdict = "ok"
          /\ sessions' = sessions \cup {[account |-> job.command.account, cred |-> job.cred,
                                         kind |-> job.command.op, began |-> job.began]}
          /\ Return(h, "ok", job.command.account)
       \/ /\ job.reply.verdict = "exists"
          /\ Return(h, "conflict", job.command.account)
          /\ UNCHANGED sessions
       \/ /\ job.reply.verdict \notin {"ok", "exists"}
          /\ Reject(h)
          /\ UNCHANGED sessions
    /\ UNCHANGED ceremonyVars /\ GatewayOnly

\* Mutant: any failed command of a signup counts as a taken name.
CommandFails_AsTaken(h) ==
    /\ ~idle(h)
    /\ late' \in {late, late \cup {c \in {handler[h].command} : Waiting(h) /\ Mutating(c)}}
    /\ IF handler[h].route = "signup-options"
       THEN Return(h, "conflict", handler[h].command.account) ELSE Reject(h)
    /\ UNCHANGED <<ceremonyVars, javaVars, worldVars, sessions>>

\* Mutant: no deadline covers the wait for Java.
CommandFails_NoDeadline(h) ==
    /\ ~idle(h) /\ ~Waiting(h)
    /\ Reject(h)
    /\ UNCHANGED <<ceremonyVars, javaVars, worldVars, sessions, late>>

\* The command of a handler fails: no connection, deadline, broken reply.
\* Java may or may not get to execute it afterwards.
CommandFails(h) ==
    /\ ~idle(h)
    /\ late' \in {late, late \cup {c \in {handler[h].command} : Waiting(h) /\ Mutating(c)}}
    /\ Reject(h)
    /\ UNCHANGED <<ceremonyVars, javaVars, worldVars, sessions>>

---------------------------------------------------------------------------
(* Time and restarts                                                       *)

Tick ==
    /\ clock < MaxTime
    /\ clock' = clock + 1
    /\ answer' = NoAnswer
    /\ UNCHANGED <<ceremonyVars, javaVars, crashes, revokedAt, handler, sessions, late>>

\* The gateway restarts with empty maps; its unanswered commands may still
\* reach Java.
Restart ==
    /\ crashes < MaxCrashes
    /\ crashes' = crashes + 1
    /\ loginPending' = EmptyMap /\ regPending' = EmptyMap /\ nextPrune' = 0
    /\ handler' = [h \in Handler |-> Idle]
    /\ answer' = NoAnswer
    /\ sessions' = {}
    /\ late' \in {late \cup S :
          S \in SUBSET {handler[h].command : h \in {g \in Handler : Waiting(g)}}}
    /\ \A c \in late' \ late : Mutating(c)
    /\ UNCHANGED <<issued, redeemed, javaVars, clock, revokedAt>>

Init ==
    /\ clock = 1 /\ crashes = 0
    /\ loginPending = EmptyMap /\ regPending = EmptyMap /\ nextPrune = 0
    /\ issued = {} /\ redeemed = {}
    /\ handler = [h \in Handler |-> Idle]
    /\ answer = NoAnswer
    /\ sessions = {}
    /\ enrolled = [a \in Account |-> {c \in Cred : OwnerOf[c] = a}]
    /\ accounts = {TokenAccount[t] : t \in Token} \cup ({OwnerOf[c] : c \in Cred} \ {Nobody})
    /\ revokedAt = [c \in Cred |-> 0]
    /\ unclaimed = Token
    /\ late = {}

LoginRequest(h) ==
    \/ \E a \in Account : LoginOptions(h, a)
    \/ discoverableLoginOptions(h)
    \/ \E id \in issued : LoginVerify(h, id)

RegistrationRequest(h) ==
    \/ \E t \in Token \cup {Nobody}, labelOK \in BOOLEAN : RegistrationOptions(h, t, labelOK)
    \/ \E a \in Account : LocalRegistrationOptions(h, a) \/ SignupOptions(h, a)
    \/ \E route \in {"register-verify", "signup-verify"}, id \in issued :
          finishRegistration(h, route, id)

Proceeds(h) ==
    \/ accountLoginOptions(h) \/ discoverableUser(h) \/ finishLogin(h)
    \/ pairingClaimed(h) \/ registrationLookedUp(h) \/ signupLookedUp(h)
    \/ registered(h) \/ signedUp(h)

Next ==
    \/ Tick \/ Restart
    \/ \E c \in Cred : Revoke(c)
    \/ \E c \in late : JavaExecutesLate(c)
    \/ \E h \in Handler :
          LoginRequest(h) \/ RegistrationRequest(h) \/ JavaExecutes(h) \/ JavaRefuses(h)
          \/ Proceeds(h) \/ CommandFails(h)

Spec == Init /\ [][Next]_vars

\* Goroutines are scheduled, and every command runs under a connection
\* deadline (javawire.Client.open); Java owes nothing.
LiveSpec == Spec /\ \A h \in Handler : WF_vars(CommandFails(h) \/ Proceeds(h))

---------------------------------------------------------------------------
(* Properties                                                              *)

Job == [step : {"waiting", "replied"}, route : Routes, command : Command,
        cred : Cred \cup {Nobody}, passes : BOOLEAN, began : Nat, reply : Reply]

Session == [account : Account, cred : Cred,
            kind : {"login", "signup", "register"}, began : Nat]

\* Every variable has its type; in particular no session and no pending
\* registration ever lacks an account, unlike a discoverable login and its
\* answer (passkeys.go:102-129).
TypeOK ==
    /\ clock \in Nat \ {0} /\ nextPrune \in Nat /\ crashes \in Nat
    /\ IsMap(loginPending, CeremonyId, LoginCeremony)
    /\ IsMap(regPending, CeremonyId, RegistrationCeremony)
    /\ issued \subseteq CeremonyId /\ redeemed \subseteq issued
    /\ handler \in [Handler -> {Idle} \cup Job]
    /\ answer.account \in Account \cup {Nobody}
    /\ answer.status \in {"none", "ok", "unauthorized", "conflict"}
    /\ sessions \subseteq Session
    /\ accounts \subseteq Account
    /\ enrolled \in [Account -> SUBSET Cred]
    /\ revokedAt \in [Cred -> Nat]
    /\ unclaimed \subseteq Token
    /\ late \subseteq Command

\* The ceremonies a verify request can still redeem, with their deadlines.
OpenCeremonies ==
    [id \in {i \in CeremonyId : Open(loginPending, i) \/ Open(regPending, i)} |->
        IF id \in DOMAIN loginPending THEN loginPending[id].expires
                                      ELSE regPending[id].expires]

Abstract == INSTANCE AbstractCeremonies WITH open <- OpenCeremonies, used <- issued

\* Two maps, lazy pruning, failed takes and restarts are invisible: a
\* challenge is issued once, redeemed at most once, only before its deadline,
\* and nothing but redemption, time or a restart makes it unusable
\* (passkeys.go:166-227, 339-370, 417-455).
ImplementsAbstractCeremonies == Abstract!Spec

\* What the maps retain: no ceremony, of either kind, had expired when the
\* latest sweep ran (passkeys.go:439-455).
PendingGarbageBound ==
    nextPrune # 0 =>
        /\ \A id \in DOMAIN loginPending : loginPending[id].expires + TTL > nextPrune
        /\ \A id \in DOMAIN regPending : regPending[id].expires + TTL > nextPrune

\* The credential of every browser session is enrolled for the account of the
\* session, whatever user handle the browser sent, however stale the lookup
\* (passkeys.go:240-250, 267-302, 407-414).
AccountBinding == \A s \in sessions : s.cred \in enrolled[s.account]

\* A credential that Java deactivated before a login ceremony was opened gets
\* no session from that ceremony, although an account login lists it and
\* verifies it against a stale lookup (passkeys.go:204-219, 247).
RevokedBeforeChallengeRefused ==
    \A s \in sessions :
        s.kind = "login" /\ revokedAt[s.cred] # 0 => s.began <= revokedAt[s.cred]

InitialAccounts ==
    {TokenAccount[t] : t \in Token} \cup ({OwnerOf[c] : c \in Cred} \ {Nobody})

\* One pairing token enrols at most one credential, one signup exactly one:
\* whatever is repeated, raced, lost or executed late, an account never has
\* more credentials than it was given authority for (passkeys.go:304-318,
\* 380-415).
EnrolmentAuthorised ==
    ~AllowLocalAccountPairing =>
        \A a \in Account :
            Cardinality(enrolled[a]) <=
                Cardinality({c \in Cred : OwnerOf[c] = a})
                + Cardinality({t \in Token \ unclaimed : TokenAccount[t] = a})
                + (IF a \in accounts \ InitialAccounts THEN 1 ELSE 0)

\* A browser is told that a name is taken only on Java's word: the account
\* exists, or Java refused the lookup this request made of it, which it may do
\* for reasons of its own; never because Java did not answer, nor because it
\* refused the signup itself for any other reason (passkeys.go:29-41, 329-335;
\* server.go:573-578).
ConflictOnJavasWord ==
    [][answer'.status = "conflict" =>
          \/ answer'.account \in accounts
          \/ \E h \in Handler :
                /\ handler[h].step = "replied" /\ handler[h].reply.verdict = "refused"
                /\ handler[h].command.op = "lookup"
                /\ handler[h].command.account = answer'.account /\ idle(h)']_vars

\* Every request is answered, whatever Java does (javawire/client.go:239-254).
HandlerReturns == \A h \in Handler : ~idle(h) ~> idle(h)

\* README.md:65: "Login or signup creates a short-lived opaque browser
\* session"; a pairing registration does not.
SessionOnlyFromLoginOrSignup == \A s \in sessions : s.kind \in {"login", "signup"}
===========================================================================
