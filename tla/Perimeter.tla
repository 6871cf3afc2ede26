----------------------------- MODULE Perimeter -----------------------------
(***************************************************************************)
(* internal/httpapi/server.go and internal/config/origin.go: what happens  *)
(* to a request before its handler sees it.  browserHardening may redirect *)
(* it to https; an auth route then checks the Origin header, charges the   *)
(* rate limiter under the client's address, and checks content type and    *)
(* body, in this order.  The limiter is RateLimiter, with keys made of an  *)
(* action and an address.                                                  *)
(*                                                                         *)
(* Clients are browsers behind the reverse proxy, or programs that connect *)
(* to the gateway themselves and send the proxy's headers as they like.    *)
(* The proxy is external.  However it is set up, it sends each of its own  *)
(* headers properly, twice or not at all, and drops the lines its client   *)
(* sent under that name or passes them on before its own.                  *)
(***************************************************************************)
EXTENDS RateLimiter

CONSTANTS
    Action,   \* the rate-limited auth routes
    Proxied,  \* addresses of browsers behind the proxy
    Direct,   \* addresses of peers outside the trusted CIDRs
    Proxy,    \* the proxy's own address, inside them
    SetUps    \* how the proxy may be set up: proxySends and proxyKeeps

Client == Proxied \cup Direct
Address == Client \cup {Proxy}

ASSUME PerimeterAssumption ==
    /\ Proxy \notin Client /\ Proxied \cap Direct = {}
    /\ Key = Action \X Address

ASSUME SetUpsAssumption == SetUps \subseteq (0..2) \X BOOLEAN

\* Bound on the redirects counted; more than one in a row is a loop.
MaxHops == 2

VARIABLES
    proxySends,  \* how many of each header the proxy sends: 0, 1 or 2
    proxyKeeps,  \* whether it passes on what its client sent of them
    charged,     \* history: action and client -> when it was charged
    refused,     \* the action and client the limiter has just refused
    hops         \* browser -> https redirects followed in a row

proxySetUp == <<proxySends, proxyKeeps>>
perimeterVars == <<vars, proxySetUp, charged, refused, hops>>

\* "page" stands for the health check and the static files.
Route == Action \cup {"preflight", "play", "page"}

\* n header lines with the value v.
Lines(n, v) == [i \in 1..n |-> v]

\* The lines of a header a client may send itself, with values in V.
OwnLines(V) == {Lines(n, v) : n \in 0..1, v \in V}

\* The lines of it that reach the gateway; the proxy's word is v.
HeaderLines(c, V, v) ==
    IF c \in Direct THEN OwnLines(V)
    ELSE {own \o Lines(proxySends, v) : own \in IF proxyKeeps THEN OwnLines(V) ELSE {<<>>}}

\* What reaches the gateway when client c asks for something over scheme: a
\* route, from some peer, for the public host or another, with the lines of
\* the two proxy headers, and an Origin header that is one allowed origin or not.
Arriving(c, scheme) ==
    [route : Route, publicHost : BOOLEAN, origin : BOOLEAN,
     peer  : {IF c \in Proxied THEN Proxy ELSE c},
     proto : HeaderLines(c, {"https"}, scheme),
     ip    : HeaderLines(c, Client, c)]

---------------------------------------------------------------------------
(* The checks, in the order of the code                                    *)

trustsProxy(peer) == peer = Proxy

\* Mutant: the proxy's word on the scheme is not heard.
isEffectivelyHTTPS_TLSOnly(r) == FALSE

\* The public origin is https and the server itself has no TLS: only the
\* trusted proxy can say that the browser came over https.
isEffectivelyHTTPS(r) == trustsProxy(r.peer) /\ r.proto = <<"https">>

shouldRedirectHTTPS(r) == r.publicHost /\ ~isEffectivelyHTTPS(r)

\* Mutant: the header is believed whoever sends it.
clientIP_Gullible(r) == IF Len(r.ip) = 1 THEN r.ip[1] ELSE r.peer

\* Mutant: the header is never believed.
clientIP_PeerOnly(r) == r.peer

\* One header line from a trusted peer names the client; otherwise the peer.
clientIP(r) == IF trustsProxy(r.peer) /\ Len(r.ip) = 1 THEN r.ip[1] ELSE r.peer

ChargeKey(r) == <<r.route, clientIP(r)>>

Answered(c, status) ==
    /\ hops' = IF c \notin Proxied THEN hops ELSE
          [hops EXCEPT ![c] = IF status # "308" THEN 0 ELSE IF @ = MaxHops THEN @ ELSE @ + 1]
    /\ UNCHANGED proxySetUp

Redirect(c, r) ==
    /\ shouldRedirectHTTPS(r)
    /\ Answered(c, "308") /\ refused' = <<>>
    /\ UNCHANGED <<vars, charged>>

\* requireOrigin: exactly one Origin, unpadded and in the allowlist.
RefuseOrigin(c, r) ==
    /\ ~shouldRedirectHTTPS(r) /\ ~r.origin /\ r.route # "page"
    /\ Answered(c, "403") /\ refused' = <<>>
    /\ UNCHANGED <<vars, charged>>

\* Pages are for everybody.  authPreflight and playWS are not rate-limited: the
\* first answers by itself, the second goes on to the session check.
PassUncharged(c, r) ==
    /\ ~shouldRedirectHTTPS(r) /\ r.route \notin Action
    /\ r.origin \/ r.route = "page"
    /\ Answered(c, "passed") /\ refused' = <<>>
    /\ UNCHANGED <<vars, charged>>

RefuseRate(c, r) ==
    /\ ~shouldRedirectHTTPS(r) /\ r.origin /\ r.route \in Action
    /\ Allow(ChargeKey(r)) /\ reply' = <<ChargeKey(r), FALSE>>
    /\ Answered(c, "429") /\ refused' = <<r.route, c>>
    /\ UNCHANGED charged

\* Admitted, and charged, whether or not its content is refused afterwards.
Charge(c, r) ==
    /\ ~shouldRedirectHTTPS(r) /\ r.origin /\ r.route \in Action
    /\ Allow(ChargeKey(r)) /\ reply' = <<ChargeKey(r), TRUE>>
    /\ charged' = [charged EXCEPT ![<<r.route, c>>] = Append(@, clock)]
    /\ Answered(c, "admitted")
    /\ refused' = <<>>

Redirected(c) == c \in Proxied /\ hops[c] > 0

\* A browser that was redirected asks the public host again, over https.
Scheme(c) == IF Redirected(c) THEN {"https"} ELSE {"http", "https"}

Serve(c) ==
    \E scheme \in Scheme(c) : \E r \in Arriving(c, scheme) :
        /\ Redirected(c) => r.publicHost
        /\ \/ Redirect(c, r) \/ RefuseOrigin(c, r) \/ PassUncharged(c, r)
           \/ RefuseRate(c, r) \/ Charge(c, r)

PerimeterInit ==
    /\ Init
    /\ \E s \in SetUps : proxySends = s[1] /\ proxyKeeps = s[2]
    /\ charged = [k \in Action \X Client |-> <<>>]
    /\ refused = <<>>
    /\ hops = [c \in Proxied |-> 0]

PerimeterTick == Tick /\ UNCHANGED <<proxySetUp, charged, refused, hops>>

PerimeterNext == PerimeterTick \/ \E c \in Client : Serve(c)

PerimeterSpec == PerimeterInit /\ [][PerimeterNext]_perimeterVars

---------------------------------------------------------------------------
(* Properties                                                              *)

\* Behind a proxy that drops what its clients send of its headers, whether or
\* not it sends them itself, and however a client dresses its requests up,
\* fewer than twice Limit of them reach a handler within any span of one window.
\* Behind one that passes them on the gateway cannot promise it: it would take
\* the client's word for its address (server.go:525-532, 704-712, 757-763;
\* limiter.go:37-65).
AllowancePerClient ==
    ~proxyKeeps => \A k \in DOMAIN charged : \A i \in 1..Len(charged[k]) :
        i + 2 * Limit - 1 <= Len(charged[k]) =>
            charged[k][i + 2 * Limit - 1] - charged[k][i] >= Window

NamedByAddress(c) == ~proxyKeeps /\ (c \in Direct \/ proxySends = 1)

\* A client whose address reaches the gateway, the proxy passing nothing on
\* from its clients, is refused for its own requests only: nobody else, behind
\* the same proxy or with forged headers, can use its allowance up
\* (server.go:525-532, 704-712).
DenialIsOwn ==
    [][\A c \in Client, a \in Action :
          NamedByAddress(c) /\ clock' = clock /\ refused' = <<a, c>> =>
              LET times == charged[a, c] IN
              Len(times) >= Limit /\ clock - times[Len(times) - Limit + 1] < Window]_perimeterVars

\* A browser behind a proxy that tells the scheme, in its own words only, is
\* redirected to https once and not again (server.go:159-168, 229-250).
NoRedirectLoop ==
    proxySends = 1 /\ ~proxyKeeps => \A c \in Proxied : hops[c] <= 1
===========================================================================
