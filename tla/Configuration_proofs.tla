------------------------ MODULE Configuration_proofs ------------------------
(* Theorems about Configuration: whatever the environment, and however many *)
(* variables are set.                                                       *)
EXTENDS Configuration, TLAPS

\* NewServer has let configuration c through by phase p.
Started(p, c) ==
    p \in {"bound", "listening", "exit 1"} =>
        /\ c["secret"] = "good" \/ (c["secret"] = "none" /\ c["secretFile"] = "good")
        /\ c["staticDir"] # "bad"

\* NewServer has refused configuration c, which FromEnv found no error in.
RefusedLate(p, c, e) ==
    p = "exit 2" /\ e = {} =>
        \/ c["staticDir"] = "bad"
        \/ c["secret"] # "good" /\ (c["secret"] = "none" => c["secretFile"] # "good")

\* What each phase of the start knows of the environment: the configuration
\* is what FromEnv read, the errors are what it found, and a phase is reached
\* only past the checks before it.
ConfigInv ==
    /\ env \in [Variable -> {"unset", "blank", "good", "bad", "junk"}]
    /\ \A v \in Variable : env[v] \in Class(v) \cup {"unset"}
    /\ phase # "environment" =>
           /\ \A v \in Variable : config[v] = Read(v)
           /\ errors = Unparsable \cup Invalid(config)
    /\ phase \in {"setup", "bound", "listening", "exit 1"} => errors = {}
    /\ Started(phase, config)
    /\ RefusedLate(phase, config, errors)

LEMMA ConfigInit == Init => ConfigInv
  BY DEF Init, ConfigInv, Started, RefusedLate

LEMMA ConfigNext == ConfigInv /\ [Next]_vars => ConfigInv'
<1> SUFFICES ASSUME ConfigInv, [Next]_vars PROVE ConfigInv'
    OBVIOUS
<1> USE DEF ConfigInv
<1>1. ASSUME NEW v \in Variable, NEW class \in Class(v), SetVariable(v, class)
      PROVE  ConfigInv'
  <2>1. class \in {"blank", "good", "bad", "junk"}
        BY DEF Class
  <2>2. /\ phase = "environment" /\ phase' = "environment"
        /\ env' = [env EXCEPT ![v] = class]
        BY <1>1 DEF SetVariable
  <2>3. \A u \in Variable : env'[u] \in Class(u) \cup {"unset"}
        BY <2>2
  <2> QED  BY <2>1, <2>2, <2>3 DEF Started, RefusedLate
<1>2. CASE FromEnv
  <2>1. /\ env' = env /\ config' = [v \in Variable |-> Read(v)]
        /\ errors' = Unparsable \cup Invalid(config')
        /\ phase' = IF errors' = {} THEN "setup" ELSE "exit 2"
        BY <1>2 DEF FromEnv
  <2>2. \A v : Read(v)' = Read(v)
        BY <2>1 DEF Read, Unparsable, Blank
  <2>3. \A v \in Variable : config'[v] = Read(v)'
        BY <2>1, <2>2
  <2>4. errors' = (Unparsable \cup Invalid(config))'
        BY <2>1 DEF Unparsable, Invalid
  <2> QED  BY <2>1, <2>3, <2>4 DEF Started, RefusedLate
<1>3. CASE NewServer \/ ListenAndServe
  <2>1. /\ UNCHANGED <<env, config, errors>>
        /\ phase # "environment" /\ phase' # "environment"
        BY <1>3 DEF NewServer, ListenAndServe
  <2>2. phase' \in {"setup", "bound", "listening", "exit 1"} => errors' = {}
        BY <1>3, <2>1 DEF NewServer, ListenAndServe
  <2>3. Started(phase', config')
        BY <1>3, <2>1 DEF NewServer, ListenAndServe, Started, SecretLoads
  <2>4. \A v : Read(v)' = Read(v)
        BY <2>1 DEF Read, Unparsable, Blank
  <2>5. (Unparsable \cup Invalid(config))' = Unparsable \cup Invalid(config)
        BY <2>1 DEF Unparsable, Invalid
  <2>6. RefusedLate(phase', config', errors')
        BY <1>3, <2>1 DEF NewServer, ListenAndServe, RefusedLate, SecretLoads
  <2> QED  BY <2>1, <2>2, <2>3, <2>4, <2>5, <2>6 DEF Class
<1>4. CASE UNCHANGED vars
  <2>1. UNCHANGED <<env, config, errors, phase>>
        BY <1>4 DEF vars
  <2>2. \A v : Read(v)' = Read(v)
        BY <2>1 DEF Read, Unparsable, Blank
  <2>3. (Unparsable \cup Invalid(config))' = Unparsable \cup Invalid(config)
        BY <2>1 DEF Unparsable, Invalid
  <2> QED  BY <2>1, <2>2, <2>3 DEF Started, RefusedLate, Class
<1> QED  BY <1>1, <1>2, <1>3, <1>4 DEF Next

LEMMA ConfigInvariant == Spec => []ConfigInv
  BY ConfigInit, ConfigNext, PTL DEF Spec

\* A malformed variable is in one of the two sets of errors, unless it is the
\* Java host behind a bad Java port.
LEMMA MalformedFound ==
  ASSUME ConfigInv, phase # "environment",
         NEW v \in Checked, Malformed(v)
  PROVE  v \in errors \/ (v = "javaHost" /\ Malformed("javaPort"))
<1>1. /\ errors = Unparsable \cup Invalid(config)
      /\ \A u \in Variable : config[u] = Read(u)
      /\ \A u \in Variable : env[u] \in Class(u) \cup {"unset"}
      BY DEF ConfigInv
<1>2. v \in Variable /\ "javaPort" \in Variable /\ "javaPort" \in Typed
      BY DEF Variable, Checked, Typed, Number
<1>3. CASE v \in Unparsable
      BY <1>1, <1>3
<1>4. CASE v \notin Unparsable
  <2>1. env[v] = "bad"
    <3>1. CASE v \in Typed
          BY <1>4, <3>1 DEF Unparsable, Malformed
    <3>2. CASE v \notin Typed
      <4>1. v \notin Number /\ v \notin Bool /\ v \notin {"rpName", "gatewayId"}
            BY <3>2 DEF Checked, Typed, Text, Lists
      <4> QED  BY <1>1, <1>2, <3>2, <4>1 DEF Class, Malformed
    <3> QED  BY <3>1, <3>2
  <2>2. v \in Text \cup Lists \cup Number
    <3>1. v \notin Bool
          BY <1>1, <1>2, <2>1 DEF Class, Bool, Number
    <3> QED  BY <3>1 DEF Checked, Typed
  <2>3. config[v] = "bad"
    <3>1. Read(v) = env[v]
          BY <1>4, <2>1 DEF Read, Blank
    <3> QED  BY <1>1, <1>2, <2>1, <3>1
  <2>4. CASE v = "javaHost" => config["javaPort"] \notin {"bad", "zero"}
        BY <1>1, <2>2, <2>3, <2>4 DEF Invalid
  <2>5. CASE v = "javaHost" /\ config["javaPort"] \in {"bad", "zero"}
    <3>1. Read("javaPort") \in {"bad", "zero"}
          BY <1>1, <1>2, <2>5
    <3>2. "javaPort" \notin Lists \cup Looked /\ "javaPort" # "proxies"
          BY DEF Lists, Looked
    <3>3. CASE "javaPort" \in Unparsable
          BY <1>2, <2>5, <3>3 DEF Malformed, Unparsable
    <3>4. CASE "javaPort" \notin Unparsable
      <4>1. env["javaPort"] = "bad" \/ env["javaPort"] = "zero"
            BY <3>1, <3>2, <3>4 DEF Read
      <4>2. env["javaPort"] # "zero"
            BY <1>2 DEF ConfigInv
      <4> QED  BY <2>5, <4>1, <4>2 DEF Malformed
    <3> QED  BY <3>3, <3>4
  <2> QED  BY <2>4, <2>5
<1> QED  BY <1>3, <1>4

\* What NewServer looks up is read as it is set, and a blank as nothing.
LEMMA LookedUp ==
  ASSUME ConfigInv, phase # "environment", NEW v \in Looked
  PROVE  config[v] = IF Blank(v) THEN "none" ELSE env[v]
<1>1. v \in Variable /\ v \notin Lists /\ v # "proxies" /\ v \notin Unparsable
      BY DEF Variable, Typed, Number, Bool, Looked, Lists, Unparsable
<1>2. Read(v) = IF Blank(v) THEN "none" ELSE env[v]
      BY <1>1 DEF Read
<1> QED  BY <1>1, <1>2 DEF ConfigInv

\* A start that FromEnv refuses names every malformed variable it checks, but
\* for a Java host behind a bad Java port; one that NewServer refuses is
\* refused for the secret or the static directory (config.go:66-192,
\* server.go:70-101, 599-612).
THEOREM EveryErrorNamed == Spec => []AllReported
<1>1. ConfigInv => AllReported
  <2> SUFFICES ASSUME ConfigInv, phase = "exit 2" PROVE AllReported
      BY DEF AllReported
  <2>1. ASSUME NEW v \in Checked, Malformed(v)
        PROVE  v \in errors \/ (v = "javaHost" /\ Malformed("javaPort"))
        BY <2>1, MalformedFound
  <2>2. CASE errors # {}
        BY <2>1, <2>2 DEF AllReported
  <2>3. CASE errors = {}
    <3>1. "javaPort" \in Checked
          BY DEF Checked, Typed, Number
    <3>2. \A v \in Checked : ~Malformed(v)
          BY <2>1, <2>3, <3>1
    <3>3. \/ config["staticDir"] = "bad"
          \/ config["secret"] # "good" /\ (config["secret"] = "none" => config["secretFile"] # "good")
          BY <2>3 DEF ConfigInv, RefusedLate
    <3>4. "secret" \in Looked /\ "secretFile" \in Looked /\ "staticDir" \in Looked
          BY DEF Looked
    <3>5. /\ config["staticDir"] = "bad" => env["staticDir"] = "bad"
          /\ config["secret"] = IF Blank("secret") THEN "none" ELSE env["secret"]
          /\ env["secretFile"] = "good" => config["secretFile"] = "good"
          BY <3>4, LookedUp DEF Blank
    <3>6. env["secret"] \in {"unset", "blank", "good", "bad"}
      <4>1. "secret" \in Variable /\ Class("secret") = {"blank", "good", "bad"}
            BY DEF Variable, Looked, Class, Number, Bool
      <4> QED  BY <4>1 DEF ConfigInv
    <3>7. \/ env["staticDir"] = "bad" \/ env["secret"] = "bad"
          \/ Blank("secret") /\ env["secretFile"] # "good"
          BY <3>3, <3>5, <3>6 DEF Blank
    <3> QED  BY <2>3, <3>2, <3>7 DEF AllReported
  <2> QED  BY <2>2, <2>3
<1> QED  BY <1>1, ConfigInvariant, PTL

\* The gateway listens only with settings none of which is malformed and with
\* a secret of the operator's choice, whatever the defaults supply
\* (config.go:66-192, server.go:599-612).
THEOREM StartsSafely == Spec => []FailsClosed
<1>1. ConfigInv => FailsClosed
  <2> SUFFICES ASSUME ConfigInv, phase = "listening"
               PROVE  /\ \A v \in Checked \cup {"secret", "staticDir"} :
                             ~Malformed(v)
                      /\ env["secret"] = "good" \/ env["secretFile"] = "good"
      BY DEF FailsClosed
  <2>1. /\ errors = {} /\ \A u \in Variable : config[u] = Read(u)
        /\ config["secret"] = "good" \/ (config["secret"] = "none" /\ config["secretFile"] = "good")
        /\ config["staticDir"] # "bad"
        /\ \A u \in Variable : env[u] \in Class(u) \cup {"unset"}
        BY DEF ConfigInv, Started
  <2>2. /\ "javaPort" \in Checked
        /\ \A v \in Looked : v \in Variable /\ v \notin Typed
        BY DEF Variable, Checked, Typed, Number, Bool, Looked
  <2>3. ASSUME NEW v \in Checked PROVE ~Malformed(v)
    <3>1. ~Malformed("javaPort")
          BY <2>1, <2>2, MalformedFound
    <3> QED  BY <2>1, <3>1, MalformedFound
  <2>4. \A v \in Looked : config[v] = IF Blank(v) THEN "none" ELSE env[v]
        BY LookedUp
  <2>5. "secret" \in Looked /\ "secretFile" \in Looked /\ "staticDir" \in Looked
        BY DEF Looked
  <2>6. ASSUME NEW v \in {"secret", "staticDir"} PROVE ~Malformed(v)
    <3>1. v \notin Typed /\ env[v] \in {"blank", "good", "bad", "unset"}
      <4>1. v \in Variable /\ v \notin Typed
            BY <2>2, <2>5
      <4>2. Class(v) = {"blank", "good", "bad"}
            BY DEF Class, Number, Bool
      <4> QED  BY <2>1, <4>1, <4>2
    <3>2. config[v] # "bad"
          BY <2>1
    <3>3. env[v] # "bad"
          BY <2>4, <2>5, <3>2 DEF Blank
    <3> QED  BY <3>1, <3>3 DEF Malformed
  <2>7. env["secret"] = "good" \/ env["secretFile"] = "good"
        BY <2>1, <2>4, <2>5
  <2> QED  BY <2>3, <2>6, <2>7
<1> QED  BY <1>1, ConfigInvariant, PTL
=============================================================================
