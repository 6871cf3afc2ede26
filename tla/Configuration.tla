--------------------------- MODULE Configuration ---------------------------
(***************************************************************************)
(* internal/config/config.go, NewServer and main: from the environment to  *)
(* a listening server or a refusal to start.  Of a variable's value only   *)
(* its class matters.                                                      *)
(*                                                                         *)
(* FromEnv and Validate look at their variables together and join the      *)
(* errors; NewServer looks at the secret and the static directory, and     *)
(* stops at the first problem.  Nobody looks at the cookie name.           *)
(***************************************************************************)
EXTENDS Naturals, FiniteSets

CONSTANT MaxSet  \* bound on how many variables are set at once

ASSUME ConfigurationAssumption == MaxSet \in Nat

\* Typed variables: parsed, then compared with a range; booleans have none.
Bool == {"cookieSecure", "localPairing"}
Number == {"javaPort", "sessionTTL", "idleTTL", "javaTimeout", "maxBody", "maxFrame", "maxHeader"}
Typed == Number \cup Bool

\* Text with a default and a validation; text with a default only; lists that
\* may be empty; and what NewServer looks up.
Text == {"bind", "publicOrigin", "allowedOrigins", "rpId", "javaHost", "ipHeader"}
FreeText == {"rpName", "gatewayId", "cookieName"}
Lists == {"assetOrigins", "proxies"}
Looked == {"secret", "secretFile", "staticDir"}

\* What FromEnv and Validate check.
Checked == Typed \cup Text \cup Lists

Variable == Typed \cup Text \cup FreeText \cup Lists \cup Looked

\* A blank value, one that is well formed, one that is not, and for typed
\* variables one that cannot be parsed.
Class(v) ==
    CASE v \in Number                   -> {"blank", "good", "bad", "junk"}
      [] v \in Bool                     -> {"blank", "good", "junk"}
      [] v \in {"rpName", "gatewayId"}  -> {"blank", "good"}
      [] OTHER                          -> {"blank", "good", "bad"}

VARIABLES
    env,      \* variable -> its class, or "unset"
    phase,    \* "environment", "setup", "bound", "listening", or how main exits
    config,   \* variable -> "default", "none", "zero", or the class it was set to
    errors    \* the variables the joined error of FromEnv is due to

vars == <<env, phase, config, errors>>

Init ==
    /\ env = [v \in Variable |-> "unset"]
    /\ phase = "environment"
    /\ config = [v \in Variable |-> "none"]
    /\ errors = {}

\* Somebody writes the unit file.
SetVariable(v, class) ==
    /\ phase = "environment"
    /\ env[v] = "unset" /\ Cardinality({u \in Variable : env[u] # "unset"}) < MaxSet
    /\ env' = [env EXCEPT ![v] = class]
    /\ UNCHANGED <<phase, config, errors>>

Blank(v) == env[v] \in {"unset", "blank"}

\* Mutant: a blank typed variable counts as unset.
Unparsable_BlankIsUnset == {v \in Typed : env[v] = "junk"}

\* getenvInt, getenvDuration, getenvBool: unset is the default; anything set
\* must parse, and a blank value does not.
Unparsable == {v \in Typed : env[v] \in {"blank", "junk"}}

\* getenv, getenvCSV and the three above: what a variable is read as.
Read(v) ==
    CASE v \in Unparsable                       -> "zero"
      [] v = "proxies" /\ env[v] = "unset"      -> "default"
      [] v \in Lists \cup Looked /\ Blank(v)    -> "none"
      [] v \notin Lists \cup Looked /\ Blank(v) -> "default"
      [] OTHER                                  -> env[v]

\* Mutant: the first problem found is the only one reported.
Invalid_FirstOnly(c) ==
    LET all == {v \in Text \cup Lists \cup Number : c[v] \in {"bad", "zero"}}
    IN  IF all = {} THEN {} ELSE {CHOOSE v \in all : TRUE}

\* Validate: text and lists must be well formed, numbers in range.  The Java
\* host is looked at only if the port is in range.
Invalid(c) ==
    {v \in Text \cup Lists \cup Number :
        c[v] \in {"bad", "zero"} /\ (v = "javaHost" => c["javaPort"] \notin {"bad", "zero"})}

\* FromEnv reads everything, validates everything, and joins the errors.
FromEnv ==
    /\ phase = "environment"
    /\ config' = [v \in Variable |-> Read(v)]
    /\ errors' = Unparsable \cup Invalid(config')
    /\ phase' = IF errors' = {} THEN "setup" ELSE "exit 2"
    /\ UNCHANGED env

\* loadHMACSecret: the inline secret unless blank, then the file; a short
\* secret and an unreadable file are errors.
SecretLoads ==
    \/ config["secret"] = "good"
    \/ config["secret"] = "none" /\ config["secretFile"] = "good"

\* NewServer: a usable secret, and a static directory that exists if named.
NewServer ==
    /\ phase = "setup"
    /\ phase' = IF SecretLoads /\ config["staticDir"] # "bad" THEN "bound" ELSE "exit 2"
    /\ UNCHANGED <<env, config, errors>>

\* ListenAndServe, which may find the address in use.
ListenAndServe ==
    /\ phase = "bound"
    /\ phase' \in {"listening", "exit 1"}
    /\ UNCHANGED <<env, config, errors>>

Next ==
    \/ \E v \in Variable : \E class \in Class(v) : SetVariable(v, class)
    \/ FromEnv \/ NewServer \/ ListenAndServe

Spec == Init /\ [][Next]_vars

---------------------------------------------------------------------------
(* Properties                                                              *)

\* A variable nobody should start a gateway with.
Malformed(v) == env[v] \in {"bad", "junk"} \/ (v \in Typed /\ env[v] = "blank")

\* No combination of settings makes the gateway listen with a malformed typed
\* value, address, origin, RP ID, header name or proxy list, or without a
\* usable secret of the operator's choice: defaults stand in for what is
\* absent, never for what is wrong (config.go:66-192, server.go:599-612).
FailsClosed ==
    phase = "listening" =>
        /\ \A v \in Checked \cup {"secret", "staticDir"} : ~Malformed(v)
        /\ env["secret"] = "good" \/ env["secretFile"] = "good"

\* A start that FromEnv refuses names every malformed variable that FromEnv
\* and Validate check, however many there are: only a bad Java host can hide,
\* behind a bad Java port.  The secret, its file and the static directory are
\* not looked at before all of those are right; a start that NewServer refuses
\* is refused for them alone (config.go:66-192, server.go:70-101, 599-612).
AllReported ==
    phase = "exit 2" =>
        \/ /\ errors # {}
           /\ \A v \in Checked :
                 Malformed(v) => v \in errors \/ (v = "javaHost" /\ Malformed("javaPort"))
        \/ /\ errors = {} /\ \A v \in Checked : ~Malformed(v)
           /\ \/ env["staticDir"] = "bad" \/ env["secret"] = "bad"
              \/ Blank("secret") /\ env["secretFile"] # "good"
===========================================================================
