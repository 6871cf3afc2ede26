------------------------------ MODULE Signing ------------------------------
(***************************************************************************)
(* internal/javawire/signing.go: how a command is signed, and Verify, the  *)
(* reference for what Java does with it.  A command is a Go map; it is     *)
(* signed before it is encoded and verified after it has been decoded, so  *)
(* that values change their form on the way (an int64 becomes a            *)
(* json.Number).  A MAC is the pair of what it was made from.  Lines may   *)
(* be altered, and fields of one moved to another, on their way.           *)
(***************************************************************************)
EXTENDS Naturals, Sequences, FiniteSets, GoMaps

CONSTANTS
    Field,     \* the fields callers put into a command
    Value,     \* and their values
    Nonce,     \* what randomNonce can return
    Secret,    \* secrets
    Weak,      \* those shorter than 32 bytes
    Gateway,   \* Signer.GatewayID
    MaxTime,   \* bound on the clock
    MaxLines   \* bound on the lines under way

ASSUME SigningAssumption ==
    /\ {"gatewayId", "issuedAt", "nonce", "signature"} \cap Field = {}
    /\ Weak \subseteq Secret
    /\ MaxTime \in Nat /\ MaxLines \in Nat

VARIABLES
    clock,     \* what Signer.Now returns
    ours,      \* the gateway's secret
    theirs,    \* Java's secret
    drawn,     \* the nonces drawn so far
    lines,     \* the lines under way
    signed,    \* history: what the gateway signed, in order
    accepted   \* what Java accepted

vars == <<clock, ours, theirs, drawn, lines, signed, accepted>>

\* A value in a Go map, or in a map decoded from JSON.
Native(v) == [form |-> "go", v |-> v]
Decoded(x) == [form |-> "json", v |-> x.v]

\* What a command says.
Content(m) == [f \in DOMAIN m \ {"signature"} |-> m[f].v]

\* Mutants: the form of a value shows in the canonical payload; the time of
\* signing does not.
CanonicalPayload_AsIs(m) == [f \in DOMAIN m \ {"signature"} |-> m[f]]
CanonicalPayload_Undated(m) == [f \in DOMAIN m \ {"signature", "issuedAt"} |-> Decoded(m[f])]

\* Everything but the signature, in one form.
CanonicalPayload(m) == [f \in DOMAIN m \ {"signature"} |-> Decoded(m[f])]

\* hmac.New(sha256.New, secret) over the canonical payload.
Mac(secret, canonical) == Native(<<secret, canonical>>)

\* The fields the signer adds; a nonce of the caller's is kept.
Stamp(payload, now, nonce) ==
    LET stamped == Put(Put(payload, "gatewayId", Native(Gateway)), "issuedAt", Native(now))
    IN  IF "nonce" \in DOMAIN payload THEN stamped ELSE Put(stamped, "nonce", Native(nonce))

\* SignWithNonce.
SignWithNonce(secret, payload, now, nonce) ==
    LET stamped == Stamp(payload, now, nonce)
    IN  Put(stamped, "signature", Mac(secret, CanonicalPayload(stamped)))

Verify(secret, m) ==
    /\ secret \notin Weak
    /\ "signature" \in DOMAIN m
    /\ m["signature"].v = Mac(secret, CanonicalPayload(m)).v

\* json.Marshal on one side, a JSON decoder on the other.
Transmit(m) == [f \in DOMAIN m |-> Decoded(m[f])]

Init ==
    /\ clock = 0 /\ drawn = {} /\ lines = {} /\ signed = <<>> /\ accepted = {}
    /\ ours \in Secret /\ theirs \in Secret

Tick ==
    /\ clock < MaxTime
    /\ clock' = clock + 1
    /\ UNCHANGED <<ours, theirs, drawn, lines, signed, accepted>>

\* randomNonce returns what it has never returned before.
Draw(nonce) == nonce \in Nonce \ drawn

\* The gateway signs a command and writes it; a weak secret signs nothing.
Send(payload, nonce) ==
    /\ ours \notin Weak
    /\ Cardinality(lines) < MaxLines /\ Len(signed) < MaxLines
    /\ Draw(nonce)
    /\ LET command == SignWithNonce(ours, payload, clock, nonce)
       IN  /\ lines' = lines \cup {Transmit(command)}
           /\ signed' = Append(signed, Content(command))
    /\ drawn' = drawn \cup {nonce}
    /\ UNCHANGED <<clock, ours, theirs, accepted>>

\* A line arrives with a field that is another's, or without it.
Alter(m, f) ==
    /\ m \in lines /\ f \in DOMAIN m
    /\ Cardinality(lines) < MaxLines
    /\ \/ lines' = lines \cup {Drop(m, {f})}
       \/ \E other \in lines : f \in DOMAIN other /\ lines' = lines \cup {Put(m, f, other[f])}
    /\ UNCHANGED <<clock, ours, theirs, drawn, signed, accepted>>

Accept(m) ==
    /\ m \in lines /\ Verify(theirs, m)
    /\ accepted' = accepted \cup {Content(m)}
    /\ UNCHANGED <<clock, ours, theirs, drawn, lines, signed>>

Command == [Field -> {Native(v) : v \in Value}]

Next ==
    \/ Tick
    \/ \E payload \in Command, nonce \in Nonce : Send(payload, nonce)
    \/ \E m \in lines : Accept(m) \/ \E f \in DOMAIN m : Alter(m, f)

Spec == Init /\ [][Next]_vars

---------------------------------------------------------------------------
(* Properties                                                              *)

\* Java accepts only what the gateway signed, every field of it, whatever is
\* cut from or moved between lines, and only under a common secret
\* (signing.go:48-92).
Authentic ==
    \A content \in accepted : ours = theirs /\ \E i \in 1..Len(signed) : signed[i] = content

\* What the gateway signed and nobody altered verifies on the other side,
\* although the values have changed their form (signing.go:78-92).
Verifiable ==
    \A i \in 1..Len(signed) : ours = theirs =>
        \E m \in lines : Content(m) = signed[i] /\ Verify(theirs, m)

\* No two commands are the same line: the same command repeated within one
\* millisecond is told from the first by its nonce, so that Java can refuse
\* a replay and still serve a repetition (signing.go:38-47).
RepetitionsDiffer ==
    \A i, j \in 1..Len(signed) : i # j => signed[i] # signed[j]
============================================================================
