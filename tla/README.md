# A TLA+ model of the Incarnate web gateway

The gateway is a single Go process between browsers and a Java game server.
Browsers reach it over HTTPS and one WebSocket; it reaches Java over TCP, one
connection per command and one long connection per game session. It keeps no
state on disk. This directory models the parts of it whose correctness depends
on the order in which things happen, checks them with TLC on small instances
and proves what matters most with TLAPS for every instance.

Paths are relative to the repository; line numbers refer to the files under
`src/`.

## The system

| Component | State it keeps | Operations | Talks to |
|---|---|---|---|
| Session store (`internal/session/store.go`) | `records`, `nextPrune`, one mutex | `Create`, `Get`, `Touch`, `Delete`, lazy pruning | called by the verify handlers, by `playWS`, by the keepalive |
| Passkey ceremonies (`internal/passkeys/passkeys.go`) | `loginPending`, `regPending`, `nextPruneTime`, one mutex | options and verify for login, pairing and signup | WebAuthn library; Java, up to two blocking commands per request |
| Auth handlers (`internal/httpapi/server.go:252-425`) | none of their own | six POST routes and their preflights | limiter, ceremonies, session store |
| Rate limiter (`internal/ratelimit/limiter.go`) | `buckets`, `nextPrune`, one mutex | `Allow`, lazy pruning | called first by each auth handler |
| Play proxy (`internal/httpapi/server.go:427-491, 614-702`) | two connections, a context, a channel of reports | three goroutines per socket and the close | session store, Java, browser |
| Java wire client (`internal/javawire/`) | one connection and its buffered reader per command | signed request, startup frames, typed reply, hand-over to play | Java |
| HTTP perimeter (`server.go:118-264, 497-567, 704-804`; `config/origin.go`) | none | HTTPS redirect, origin, client address, rate limit key, content | every request |
| Configuration and entry point (`internal/config/config.go`, `cmd/incarnate-web-gateway`) | none after start-up | read, validate, set up, listen | start-up |
| Latency probe (`cmd/latency-probe`) | a worker pool and a channel of samples | warm-up, measurement, report, exit code | a gateway, from outside |
| Audit log (`internal/audit`) | none | logging | |

What is hard about it, and what each component must guarantee:

* **Session store.** `Create` reads the clock before it takes the mutex
  (`store.go:52` against `62`), so the record it stores and the sweep it runs may
  be dated in the past. Expired records stay until somebody looks them up or a
  sweep is due. Callers must not notice: a session lives until its deadline and
  never comes back.
* **Ceremonies.** A challenge must be redeemed at most once and in time, although
  requests run concurrently and the ceremony is judged, verified and reported to
  Java in separate steps. What Java said may be stale when it is used. A command
  may be executed though the gateway believes it failed.
* **Rate limiter.** Any call may sweep every bucket; this must never change what
  another key gets. Adjacent windows must not add up to more than they may.
* **Play proxy.** Three goroutines fail in the wake of one another in any order.
  The first failure must take everything down, the close code must tell the
  browser the truth, and a session that ends during play must end the socket even
  when the browser is silent and Java takes no data. A session that is played must not end
  for idleness, although touches, sweeps and requests interleave.
* **Java wire.** Java may say anything at any time. The caller must learn Java's
  verdict or an error and never a verdict Java did not give; lines of play that
  arrive with the reply must not be lost, nor may the command's deadline end the
  game. What is signed as a Go map is verified as decoded JSON.
* **Perimeter.** Headers are the proxy's word or anybody's. A client is charged
  for its own requests and refused for nobody else's, and a browser is not
  redirected in circles, as long as the proxy keeps its clients' own headers out.
* **Configuration.** What is absent has a default; what is wrong stops the gateway.
  What `FromEnv` checks is named at once; what `NewServer` checks comes after that,
  one problem at a time.
* **Latency probe.** Nobody reads the samples before every worker is done; no
  failure may be lost between a worker and the exit code.

`PROJECT.json` lists each hazard at its line with the properties that would
catch it going wrong.

## Modules

| Module | Models | Lines of code it stands for |
|---|---|---|
| `GoMaps` | assignment, deletion and type of a Go map as a TLA+ function | Go's `map` |
| `SessionStore` | the session store | `store.go` |
| `AbstractSessions` | what it promises: sessions that end by themselves | |
| `PasskeyAuth` | ceremonies and auth handlers, with Java and WebAuthn as environment | `passkeys.go`, `server.go:266-425`, `client.go:114-260` |
| `AbstractCeremonies` | what the pending maps promise: single-use challenges with a deadline | |
| `RateLimiter` | the limiter, with the admitted calls of each key as history | `limiter.go` |
| `PlayProxy` | one `/play/ws` connection to its last goroutine | `server.go:427-491, 614-702`, `client.go:187-220` |
| `PlaySessions` | several play sockets over `SessionStore`, with the time each wait may take | `server.go:427-491, 668-687` |
| `JavaWire` | one command over one connection, and the reads of play behind it | `client.go:187-338` |
| `AbstractCommand` | what a command promises: one verdict, reported or not | |
| `Signing` | canonical payloads, MACs and their verification | `signing.go` |
| `Perimeter` | a request up to its handler, over `RateLimiter` | `server.go:118-264, 497-567, 704-792` |
| `Configuration` | from the environment to a listening server | `config.go`, `server.go:54-116, 599-612`, `main.go` |
| `LatencyProbe`, `LatencySummary` | the measuring tool; its percentiles | `cmd/latency-probe/main.go` |
| `MC...` | small sets for TLC | |
| `..._proofs` | lemmas and theorems: `PlaySessions` (with `SessionStore`), `PasskeyAuth`, `Perimeter` (with `RateLimiter`), `PlayProxy`, `JavaWire`, `Signing`, `Configuration`, `LatencyProbe` | |

How they fit together: `PlaySessions` extends `SessionStore` and `Perimeter`
extends `RateLimiter`, so that every step of the one is a step of the other
with the actions of its callers around it. `JavaWire` implements
`AbstractCommand`, which is what `PasskeyAuth` (each command) and `PlayProxy`
(`BeginSession`) assume of Java's answers. The admitted requests of
`Perimeter` are the requests of `PasskeyAuth`.

### How state and steps correspond

*Atomicity.* A method body that runs under a mutex is one action. Code between
two blocking calls that touches shared state once is one action. Every blocking
call is a point where others may move: `CreateStamp`/`CreateStore` around the
mutex of `Create`; each command to Java in `PasskeyAuth`, where a handler is
idle, waiting, or has a reply under way; each read, write, ping, channel send and
cancellation in `PlayProxy`.

*Time* is a number, advanced by `Tick`. Time zero is Go's zero time, so clocks
start at 1. Deadlines are compared exactly as in the code: absolute deadlines
and windows end at their instant, the idle deadline just after it.

*Identifiers.* `randomID` returns an identifier never issued before.

*Sessions.* `records` holds account, creation, last activity and absolute
deadline; the credential and its label are constant payload and left out.
Callers name only identifiers that a `Create` has returned (`Known`). The abstract
store remembers those too (`used`), and never gives one out again.

*Ceremonies.* A login ceremony keeps the account (none if discoverable), the
credentials Java listed and the deadline; a registration keeps the account, the
deadline and whether it is a signup. `issued` and `redeemed` are histories.
Session data and challenge of the WebAuthn library become the fact that an
assertion is valid or not for the ceremony it is presented to, which is the
browser's choice. So are the credential it enrols, new or presented again, and
the account a user handle names. That account is looked up before the assertion
is verified, as in the library's callback.

*Sessions made by the auth handlers* are recorded in `sessions` with the account,
the credential, the kind of command that preceded them and, for a login, the date
of its ceremony; their life afterwards is `SessionStore`'s matter.

*Java* (external) executes a command atomically and answers, in time or not, or
refuses it (`JavaRefuses`): any command, for reasons of its own such as a stale
timestamp, a replayed nonce, a bad signature or a reserved name
(`docs/security.md:68-71`). `CommandFails` covers a failed connection, the
deadline, and a reply that is lost or broken; a command with an effect on Java may
then still be executed later, at most once (`late`). Accounts, enrolled credentials,
revocations and unclaimed pairing tokens are Java's state. Rules assumed of it: a
lookup is refused for an unknown account, a claim for a used or unknown token, a
counter update for a deactivated credential, a registration for an unknown account
and a signup for an existing one. A counter update is *not* assumed to check that
the credential belongs to the account: the gateway has to. Nor is an enrolment
assumed to check that nobody else has the credential.

What the gateway makes of a refused lookup during signup is the code's and is
modelled as it is (`signupLookedUp`, `passkeys.go:331-335`): "Unknown account." or
no message at all starts a registration, as in
`TestSignupOptionsStartsRegistrationForNewNormalAccount`
(`passkeys_test.go:79-95`); any other message is reported as a taken name, although
Java may have rejected a stale or badly signed lookup of a free one. `Refusals` says
which of the two a Java that refuses without looking may choose.

*Limiter.* One bucket per key. `admitted` is a history: the instants at which
calls of a key were admitted.

*Play proxy.* Frames are numbered and are game JSON, `client_debug` JSON or
malformed (binary, oversized and invalid are treated alike by the code). The
browser leaves with close code 1000, with another one (a page that goes away sends
1001), which the code treats like a failure (`server.go:475-490`), or without a
word. A goroutine loops, writes, pings, reports, cancels, or is done. Library facts
assumed: cancelling a context during a WebSocket operation breaks the socket;
a pong is noticed only while the socket is being read; only closing the Java
connection interrupts a read or a write on it.

*Play sessions.* Each wait has a deadline: the Java timeout, the next tick, the
ping timeout, each with `MaxLag` for a goroutine that is ready but not running.
`Advance` lets time pass only while no deadline is due, so that a socket is
always in time; it need not be early. A tick that falls due while a ping is under
way is taken afterwards, as a Go ticker does.

*Java wire.* A line is its kind: a reply (accepted, refused, accepted but not of
the expected shape, for another account), a startup frame, a line of play, or
something no command survives. `sent` is what Java has written, `buffered` how
much of it the reader has taken from the socket, `read` how much was read from
it; a caller without the reader loses what lies between. Java (external) talks,
decides, hangs, breaks the connection or decides after the client has gone.

*Signing.* A field is a value with its form, that of a Go map or that of a JSON
decoder. A MAC is the pair of secret and canonical payload, which is what an
ideal MAC amounts to. Lines under way may be altered with fields of other lines.

*Perimeter.* A request is its route, its peer, whether it names the public host,
carries one allowed origin and decodable content, and the lines of its two proxy
headers. Peers inside the trusted CIDRs are one proxy. How it is set up is fixed
for a behaviour: it sends each header once, twice or never (`proxySends`), and drops
the lines its client sent under that name or passes them on before its own
(`proxyKeeps`). A proxy that sends none and passes its clients' on lets every client
choose the address it is charged under (`server.go:706-708, 757-763`): nothing in the
gateway can prevent it, and the properties of the perimeter say that they are about
proxies that drop them. The theorems are about every set-up, with that condition;
the run has the set-ups that meet it.

*Configuration.* A variable is unset, blank, good, out of range (`bad`) or
unparsable (`junk`); what a validation of text decides in detail is the class
of the text.

*Latency probe.* A worker is receiving, probing, sending the sample it holds, or
done. A sample is one of a small set, with a duration (none if the request could
not be made) and with an error or without. `outcomes` is a history: how the
measured requests of each target ended. The mean and the deltas of the report are
left out.

## Runs

| Run | Question | Bounds | States |
|---|---|---|---|
| `session_store` | Do a map, lazy sweeps and an early clock reading behave like sessions that end by themselves, and what stays in the map? | 3 sessions, 2 goroutines in `Create`, lifetimes 4 and 2, 8 instants, delay at most 1 | 0.4 million |
| `auth_enrol` | Who gets a session, what may be enrolled? | 2 requests, 1 pairing token, 1 free name, 2 new passkeys, 2 ceremonies, lifetime 1, 2 instants; Java refuses lookups with a message | 1.8 million, up to symmetry |
| `auth_ceremonies` | Are both maps single-use challenges with a deadline, over sweeps and a restart, and is every request answered? | 1 request, 2 ceremonies, 1 account, lifetime 2, 3 instants, 1 restart, local pairing; Java refuses lookups in either way | 0.8 million |
| `auth_routes` | Does only login or signup create a session? | as `auth_enrol` | violated |
| `limiter` | Bursts, denials, isolation, retention | 2 keys, limit 2, window 3, 8 instants | two full windows and a part |
| `play_proxy` | Order, honesty, and does everything end? | 2 frames in all, either way, all kinds | 0.8 million |
| `play_sessions` | Do sockets keep their sessions, and end with them? | 2 sessions, 2 sockets, 1 late `Create`, lifetimes 9 and 7, a round of 7, 17 instants | 2.9 million, up to symmetry |
| `java_wire` | Is what a command returns true, and is play handed over whole? | 9 startup frames, 2 lines of play | 0.1 million |
| `signing` | What does Java accept? | 3 lines, 2 values, 2 nonces, 3 secrets of which one short | 10 thousand |
| `perimeter` | Who is charged, refused, redirected? | 2 browsers behind a proxy of three set-ups, 1 direct peer, limit 1, window 2, 4 instants | 26 thousand, up to symmetry |
| `configuration` | What can be started with? | any 3 of 23 variables set | 0.1 million |
| `latency_probe` | Is every failure reported, does the tool end, are the percentiles right? | 3 requests, 1 warm-up, 2 workers, 1 or 2 targets, 4 kinds of samples | 0.2 million |

Why the bounds are enough. Two goroutines are what a race in these components
needs: each critical section involves the caller and the state it left or found,
and a third request only adds another caller of the same kind. The lifetimes are
chosen more than one apart so that an idle session expires before its absolute
deadline and a session in use does not, and the clock runs over a sweep, an
expiry and a second sweep. `auth_ceremonies` has two ceremonies: one schedules
the sweep, the other triggers it; what a sweep leaves alone is proved. It has one
request at a time; two that present the same challenge at once are covered by the
proof of the refinement.
`auth_enrol` has exactly as many passkeys as it takes to enrol one too many, and
a passkey enrolled there can log in, name the other account, and be revoked. In
`limiter`, eight instants hold two adjacent windows and the start of a third, so
that a burst of `2 * Limit` can span a boundary. In `play_proxy` two frames in
one direction allow reordering, duplication and a good frame after a bad one,
one in each lets either goroutine hang in a write while the other fails. In
`play_sessions` the idle lifetime is exactly one round of the keepalive, the
shortest the assumption allows, and the clock passes the absolute deadline by a
round. `readTyped` reads eight lines, so a reply behind seven startup frames is
found and one behind eight is not; with nine frames both happen. In
`perimeter` limit 1 makes any request too many that is charged to the wrong key.
Three variables are what it takes for two of them to hide a third. Three
requests over two workers give one worker more jobs than another, and a buffer
of one place per worker would block; up to three durations of two lengths put the
percentiles of a target on either of them. Every safety property is proved for
all bounds; the runs show of them that they are not empty, and that the mistakes
the mutants make are caught.

Symmetry is used in `auth_enrol` and `auth_routes`, among requests, passkeys and
ceremonies: they are interchangeable there, and only invariants and a step property
are checked.
It is also used in `play_sessions` and
`perimeter`, which check nothing temporal but step properties. Deadlock is checked
in `SessionStore`, `PasskeyAuth`, `RateLimiter` and `Perimeter`, where somebody can
always make a request. The others stop when they are done: a finished connection or
command, a program that has exited, a bounded clock.

### What the properties say

* `ImplementsAbstractSessions`, `ImplementsAbstractCeremonies`: refinement. The
  live part of the concrete maps, seen at the current instant, behaves like the
  abstract map. Lazy deletion, sweeps, late `Create`s, failed redemptions and the
  split into two maps are stutters or ordinary abstract steps.
* `OnlyTimeOrDeleteEnds`: no sweep, however late its clock, ends a live session.
  `EndedForGood` and `SweepsMoveForward` (no ended session returns, sweeps are not
  pulled back) follow from the invariant of the proofs and have no run.
* `GarbageBound`, `PendingGarbageBound`, `BucketBound`: memory. Nothing that had
  expired at the latest sweep is retained. For sessions this needs the assumption
  that `Create` waits for its lock for less than the shorter lifetime; with longer
  waits a sweep dated in the past may keep what it should have removed.
* `AccountBinding`, `RevokedBeforeChallengeRefused`: a session's credential is
  enrolled for the session's account; a credential deactivated before the
  challenge was opened yields no session, although a stale listing may contain it.
* `EnrolmentAuthorised`: passkeys on an account never exceed those it had, one per
  claimed token and one for a signup, whatever is repeated, raced or executed
  late.
* `ConflictOnJavasWord`: a name is reported as taken only if it is or if Java refused
  the lookup of it, for whatever reason; a failure on the way to Java never is.
* `HandlerReturns`: every auth request is answered.
* `SlidingBound`, `DenialsJustified`, `KeysIsolated`: at most `2 * Limit - 1`
  admissions in any span shorter than a window; no denial without `Limit`
  admissions in the last window; no influence between keys.
* `Relayed`, `CloseCodeHonest`, `Teardown`, `SocketEndsWithSession`,
  `VanishedBrowserNoticed`: the play proxy's promises listed above.
* `KeptAlive`, `NoOverstay`: a played session lives until its absolute deadline,
  and its sockets no longer than one round of the keepalive past it, even if it
  ended while Java was being asked.
* `ImplementsCommand`: refinement. Success means that Java executed the command,
  refusal that it refused, an error nothing. `AcceptedIsReported`: an executed
  command is reported as failed only for the deadline, the network, or a Java that
  breaks the protocol, eight startup frames before a reply included.
* `PlayFollowsReply`, `PlayOutlivesDeadline`, `NothingLeaks`, `CommandReturns`:
  the hand-over to play, and the end of everything else.
* `Authentic`, `Verifiable`: what verifies was signed as it is, and what was signed
  verifies. That a repeated command is another command, `RepetitionsDiffer`, is
  proved only.
* `AllowancePerClient`, `DenialIsOwn`: the limiter's promises for clients instead
  of keys, whatever they send, behind a proxy that drops its clients' own lines of
  its headers; the second for clients whose address reaches the gateway.
  `NoRedirectLoop`: one redirect is enough, if such a proxy tells the scheme.
* `FailsClosed`, `AllReported`: no combination of settings lets a malformed one
  through, and a start that `FromEnv` refuses names all of those it checks that are
  malformed (only a bad Java host may hide behind a bad Java port). The secret, its
  file and the static directory may hide behind them, since `NewServer` has not been
  reached; a start it refuses is refused for those alone. Nobody looks at the cookie
  name.
* `ReportComplete`, `ZeroMeansClean`, `Terminates`: no failed request is lost on its
  way to the report and the exit code, and no worker blocks. `NearestRank`: each
  percentile in a target's report is the least duration that so many of its own
  requests do not exceed.

### Fairness

Liveness is claimed under weak fairness of what the Go runtime and the code's
own timers guarantee, and nothing else. In `PasskeyAuth` a handler's next step
or the failure of its command: every command runs under a connection deadline
(`client.go:239-254`). In `PlayProxy` the own steps of each goroutine, among
them the outcome of a ping, which has a timeout (`server.go:676`). A frame, a
pong, a close frame or a read by Java need never come; a write to Java may hang
for ever. Browser requests, revocation and time carry no fairness. In `JavaWire`
the client runs, bytes that have arrived are read and the connection's deadline
passes; Java owes nothing. In `LatencyProbe` every goroutine that can run does,
and each request ends, at the latest by the client's timeout
(`latency-probe/main.go:240, 305`).

### What was found

`auth_routes` (violated by design of the run): `README.md:65` says that login or
signup creates a browser session. A pairing registration finished at the signup
route also creates one, because `SignupVerify` and `RegistrationVerify` are the
same function and neither route compares the ceremony's kind with its own
(`passkeys.go:372-378`, `server.go:416-423`).

## Proofs

The proof modules assume only the `ASSUME`s of the modules they extend (lifetimes,
limits and windows are positive numbers; `Nobody` is not an account; the set-ups of
the proxy and the refusals of Java are among those described above; a sample has a
duration), which TLC evaluates on every run.

`PlaySessions_proofs`, first part: about `SessionStore` alone, type correctness,
the three action properties, the garbage bound and the refinement, for any set of identifiers, goroutines and accounts and
any lifetimes. The properties are not inductive. The invariant behind them dates
everything: no record was created or touched in the future, deadlines are
creation plus lifetime, identifiers of goroutines inside `Create` are issued and
not yet in the map. That a late sweep spares live sessions then follows from
expiry being monotone in time: what is expired at an earlier instant, given
activity no later than now, is expired now. For the garbage bound the invariant
adds that pending creations are no older than `MaxStall`.

`Perimeter_proofs`, first part: about `RateLimiter` alone, type correctness,
`SlidingBound`, `BucketBound`, `DenialsJustified`, `KeysIsolated`, for any keys, limit and window. `SlidingBound`
is about a history that the program does not keep; the inductive invariant ties
the two. `Counted`: a bucket with `used` calls began at the `used`-th latest
admission, and the `Limit`-th admission before that is a window older still.
`Forgotten`: a key without a bucket has its `Limit`-th latest admission at least
a window ago, so that forgetting it is harmless. `PruneKeepsWindows` says that a sweep
is invisible to open windows; isolation rests on it.

Second part: `AllowancePerClient`, `NoRedirectLoop`, `DenialIsOwn`, for any clients,
proxies, limit and window. What one client is charged is a history, and so is what
the limiter admits under one key; several clients may share a key, but no client is
spread over two as long as the proxy drops what clients send of its headers
(`ChargedAs`). `Traced` says that the first history is found within
the second, in order: an embedding that keeps at least its distances, so that two
charges of the client that are `2 * Limit - 1` apart lie at least as far apart under
the key, and `SlidingBound` carries over. For a client whose address reaches the
gateway the two histories are equal, and a denial of the key is the client's own.
`PerimeterUsesLimiter`: every step of the perimeter is a step of the limiter or none,
so that what the first part proves of the limiter holds for the limiter as it is used
(`LimiterHoldsBehindPerimeter`).

`PasskeyAuth_proofs`: type correctness, `AccountBinding`,
`RevokedBeforeChallengeRefused`, `PendingGarbageBound`, `ConflictOnJavasWord` and
the refinement, for any accounts, credentials, tokens, number of concurrent
requests, restarts and lifetime. The difficulty is the request that holds a
reply while everybody else moves on. The argument has three parts. `Forward`
says what no step undoes: the clock, accounts and enrolments only grow, and a
credential is revoked at most once, at the present instant. `ReplySound` says
what a reply still proves when it is used, and is written so that `Forward`
preserves it: that a listed credential is enrolled, that an accepted counter
belongs to a credential not revoked before the ceremony began. `JobSound` ties a
route to the commands it sends, and a counter update to a credential the gateway
has already established as the account's, the link that Java does not check.
Each action then has a lemma that it leaves its own request sound, and
`JobSoundStays` covers all the others. For the maps, the invariant dates every
ceremony, keeps the two domains disjoint and inside `issued`, and keeps the next
sweep within one lifetime; the refinement shows that every ceremony which a step
neither begins nor takes `Persists`.

`EnrolmentAuthorised` is proved by counting, for any finite sets of credentials
and tokens. The authority an account was given (`Budget`: what it started with,
its claimed tokens, its signup) covers not only its enrolments but everything
that may yet become one: requests that carry a claim's answer or ask Java to
register (`Carriers`), pairing ceremonies (`Granted`), and commands that Java
executes after the gateway gave them up (`Delayed`). `WithinBudget` adds these up.
A claim raises budget and carriers together; opening a ceremony, sending the
command, losing its answer and executing it late each move one unit from one
account of the sum to the next, and a failure drops it. A restart empties the
pending map, and of a request that dies at most the command survives, with Java.
A signup pays for itself once, because Java refuses a name that is taken.

`RequestsAdvance` is the safety half of `HandlerReturns`. `StepsLeft` counts what a
request has before it, two steps for each command it may still send, of which a
pairing claim and the lookup of a discoverable user are followed by one more. It is
at most four and each step of the request lowers it; that a request which waits for
ever is failed by its deadline is the fairness of the run.

`JavaWire_proofs`: type correctness, `AcceptedIsReported`, `PlayFollowsReply`,
`PlayOutlivesDeadline`, `NothingLeaks` and the refinement, for any number of startup
frames and lines of play. The invariant describes the stream: a reply appears at
most once and agrees with the verdict, only startup frames and breaches come before
it, lines of play after it; the frames read so far were all startup frames, and
`skipped` counts them. The same invariant gives the safety half of `CommandReturns`
(`CommandsAreTimed`): the method writes and reads only under a deadline, and once that
has passed nothing more arrives and each of its steps returns or uses up a line.

`Signing_proofs`: `Authentic`, `Verifiable`, `RepetitionsDiffer`, for any commands,
secrets and alterations. The invariant says of every line under way that a
signature in it is the MAC of some signed content, wherever the line's other fields
come from; equality of MACs is then equality of contents. That nonces differ
carries over to commands because a nonce the caller does not supply is stamped.

`PlaySessions_proofs`, second part: type correctness, `KeptAlive`, `NoOverstay`,
for any lifetimes, intervals and sockets with one round of the keepalive within the idle
lifetime. The invariant bounds, phase by phase, how long ago the session was
last touched; from it a session in use is never idle for too long, and by the
argument of the first part no sweep with an old clock reading ends it. The sockets
use the store by its methods alone (`SocketsUseStore`), so that the refinement holds
for the composition (`SocketsSeeAbstractSessions`), and since no handler calls
`Delete`, a live session ends by time alone (`OnlyTimeEnds`).

`PlayProxy_proofs`: type correctness, `CloseCodeHonest` and `Relayed`, for any
number of frames. `CloseCodeHonest` alone is not inductive, since the close code is taken from
a report made earlier. The invariant adds `Claims` (what a goroutine is about to
report is true, and stays true: a browser that left does not come back, a session
that ended does not live again) and `FirstReport`: while `playWS` waits, nothing is
cancelled before the channel holds a report, so the first one is never
"cancelled", which would be sent as a normal closure. This is where the order
`errc <- err`, `cancel()` in each goroutine matters (`server.go:462-474`). One lemma,
`RunsKeeps`, covers every step of a goroutine up to its report; `Framed` says that
a goroutine which writes has read the frame it writes. For `Relayed` the invariant
says of each pump, by where it is, how many frames it has dealt with (`Pumped`):
all it has read while it loops, all but one while it writes, and after a failure
one of the two, so that a teardown between a read and a write loses at most the
frame in hand. `ThroughSkip` and `ThroughWrite` are what one frame adds.
The safety half of `Teardown` has two parts. `ReportsNeverBlock`: each goroutine
reports once (`OneReportEach`), so that `errc <- err` always finds a slot in a channel
of three. `TeardownNeverStuck`: from the first failure on somebody can report, or
`playWS` can go on, or everything is closed and cancelled; and once `playWS` has
returned, whatever a goroutine waits for is closed to it or cancelled (`WayOut`),
which rests on `Torn`, what `playWS` has closed by the time it gets where it is.
`KeepAliveFindsOut` is that of `SocketEndsWithSession` and `VanishedBrowserNoticed`:
an open socket has its keepalive (`Watched`), and once its session has ended or its
browser vanished, which nothing undoes, the keepalive is at most two steps from
a failure report, whatever the others do.

`Configuration_proofs`: `FailsClosed` and `AllReported`, for any number of variables
set. The invariant keeps what was read (`config` and `errors` are functions of the
environment once it is read) and what `NewServer` has let through; `MalformedFound`
follows a malformed variable through `Read` and `Invalid` to the error that names
it.

`LatencyProbe_proofs`: `ReportComplete` and `ZeroMeansClean`, for any number of
workers, requests and warm-up requests. `Delivered`: of every kind of sample, those the
current target has met are in the channel or in the hands of the worker that met them,
so that none is missing when all workers are done; `Ahead` orders targets and reports.
`WorkersNeverBlock` and `EveryRequestCollected` follow from `Conserved`: each request
handed out is in the hands of one worker or is one sample in the channel, so a worker
with a sample leaves a place free for it. With them `EveryStepIsProgress`, the safety
half of `Terminates`: before the end some goroutine has its guard open (`CanMove`), and
every step of any of them moves the main goroutine to a later stage or leaves less to
do in this one (`Stage`, `Left`).

The percentiles are proved for durations of any number, mix and order of arrival.
`Sorted` puts each value where its rank says, the rank being the number of values that
are smaller or equal and earlier, so that it is a function and no recursion:
`RanksArePlaces` shows that ranks are the places from one to the number of values, and
`SortedSorts` and `SortedIsPermutation` what any sort has to do, all that the code
relies on (`sort.Slice`, `main.go:338`). `PercentileIsNearestRank` is then the
arithmetic of the index: a fraction `p` of the values at least is within the percentile
and less than that below it. `SummaryIsNearestRank` carries that over to the reports of
a run: by `Delivered` the channel that is summarised holds as many samples of each kind
as the target has met (`SameKinds`), whatever their order.

Model-checked only: the six liveness properties (`HandlerReturns`, `CommandReturns`,
`Teardown`, `SocketEndsWithSession`, `VanishedBrowserNoticed`, `Terminates`), which
rest on fairness and `ENABLED`, both outside what TLAPS proves here. Of each of them
the safety half is proved, as said above: what remains to the run is that a step which
stays possible is taken. The finding of
`auth_routes` is a counterexample and has nothing to prove.

## Not modelled

* Audit log: output only. Security headers, CORS headers and CSP, the health check's
  and the static files' contents: text without state.
* WebAuthn cryptography, attestation formats, names, labels, signature counters;
  SHA-256 and HMAC themselves.
* Contents and sizes of frames and lines beyond their kinds: how `readLineBounded`
  and `readJavaLine` cut bytes into lines and enforce the two limits
  (`client.go:325-338`, `server.go:689-702`), and the WebSocket library's own read
  limit, a default that is not in the repository.
* Whether the name of the session cookie can be sent at all: no code looks at it
  (`config.go:119`).
* The grammars of origins, RP IDs, header names and CIDRs; address forms (an IPv6
  address in two spellings is one address here, as `netip` makes it).
* Two commands of ten seconds in one request against the write timeout of fifteen
  (`server.go:147`): to the browser a lost answer. That a request sends no more
  than two is proved (`RequestsAdvance`).
* Flags and layout of the latency probe.
* `SetClock` (a test hook) and a failing random source, which has no effect.

## Plan

Done: the core (session store, ceremonies and handlers, limiter, play proxy) with
its abstract specifications; the Java wire and its signatures; play
sockets over the session store and the perimeter over the limiter; configuration;
the latency probe; theorems for every component, which cover all safety
properties of the runs, and the safety half of each liveness property.

Left:

1. *Composition:* `PasskeyAuth` over `AbstractCommand` as a module of its own,
   instead of the same assumption written into its commands.
2. *Lines:* a byte-level reader below `JavaWire` and `PlayProxy`.
