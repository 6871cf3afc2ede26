-------------------------- MODULE Signing_proofs --------------------------
(* Theorems about Signing, for any commands, secrets and alterations.      *)
EXTENDS Signing, TLAPS

USE SigningAssumption

\* What is signed of a command, from what the command says.
Form(content) == [f \in DOMAIN content |-> [form |-> "json", v |-> content[f]]]

\* The history is a sequence.
History == \E T : signed \in Seq(T)

\* A signature on a line is one the gateway made.
LinesOK ==
    \A m \in lines : "signature" \in DOMAIN m =>
        \E i \in 1..Len(signed) : m["signature"].v = <<ours, Form(signed[i])>>

\* Every signed command is still under way as it was signed, with a nonce
\* that was drawn for it alone.
SignedOK ==
    /\ \A i \in 1..Len(signed) :
          /\ signed[i] = [f \in DOMAIN signed[i] |-> signed[i][f]]
          /\ signed[i]["nonce"] \in drawn
          /\ \E m \in lines : /\ Content(m) = signed[i] /\ "signature" \in DOMAIN m
                              /\ m["signature"].v = <<ours, Form(signed[i])>>
    /\ \A i, j \in 1..Len(signed) : i # j => signed[i]["nonce"] # signed[j]["nonce"]

AcceptedOK == Authentic

IInv == History /\ (signed # <<>> => ours \notin Weak) /\ LinesOK /\ SignedOK /\ AcceptedOK

\* The canonical payload is a function of what the command says, whatever the
\* form of its values.
LEMMA CanonicalIsForm == ASSUME NEW m PROVE CanonicalPayload(m) = Form(Content(m))
  BY DEF CanonicalPayload, Form, Content, Decoded

\* Commands that say different things have different canonical payloads.
LEMMA FormInjective ==
  ASSUME NEW m, NEW c, c = [f \in DOMAIN c |-> c[f]], Form(Content(m)) = Form(c)
  PROVE  Content(m) = c
<1>1. DOMAIN Content(m) = DOMAIN c
      BY DEF Form
<1>2. ASSUME NEW f \in DOMAIN c PROVE Content(m)[f] = c[f]
  <2>1. Form(Content(m))[f] = [form |-> "json", v |-> Content(m)[f]]
        BY <1>1 DEF Form
  <2>2. Form(c)[f] = [form |-> "json", v |-> c[f]]
        BY DEF Form
  <2>3. [form |-> "json", v |-> Content(m)[f]].v = [form |-> "json", v |-> c[f]].v
        BY <2>1, <2>2
  <2> QED  BY <2>3
<1>3. Content(m) = [f \in DOMAIN Content(m) |-> Content(m)[f]]
      BY DEF Content
<1> QED  BY <1>1, <1>2, <1>3

\* Transmission changes forms and nothing else.
LEMMA TransmitKeeps ==
  ASSUME NEW m
  PROVE  /\ Content(Transmit(m)) = Content(m) /\ DOMAIN Transmit(m) = DOMAIN m
         /\ \A f \in DOMAIN m : Transmit(m)[f].v = m[f].v
  BY DEF Transmit, Content, Decoded

\* What the signer returns.
LEMMA Signs ==
  ASSUME NEW secret, NEW payload, NEW now, NEW nonce, DOMAIN payload = Field
  PROVE  LET m == SignWithNonce(secret, payload, now, nonce)
         IN  /\ "signature" \in DOMAIN m
             /\ m["signature"].v = <<secret, Form(Content(m))>>
             /\ "nonce" \in DOMAIN Content(m) /\ Content(m)["nonce"] = nonce
<1> DEFINE s == Stamp(payload, now, nonce)
           m == SignWithNonce(secret, payload, now, nonce)
<1>1. m = Put(s, "signature", Mac(secret, CanonicalPayload(s)))
      BY DEF SignWithNonce
<1>2. "nonce" \in DOMAIN s /\ s["nonce"] = Native(nonce)
      BY DEF Stamp, Put
<1>3. Content(m) = Content(s)
  <2>1. DOMAIN m \ {"signature"} = DOMAIN s \ {"signature"}
        /\ \A f \in DOMAIN s \ {"signature"} : m[f] = s[f]
        BY <1>1 DEF Put
  <2> QED  BY <2>1 DEF Content
<1>4. "signature" \in DOMAIN m /\ m["signature"] = Mac(secret, CanonicalPayload(s))
      BY <1>1 DEF Put
<1>5. m["signature"].v = <<secret, Form(Content(m))>>
      BY <1>3, <1>4, CanonicalIsForm DEF Mac, Native
<1>6. "nonce" \in DOMAIN Content(m) /\ Content(m)["nonce"] = nonce
  <2> HIDE DEF s, m
  <2>1. Content(s)["nonce"] = Native(nonce).v /\ "nonce" \in DOMAIN Content(s)
        BY <1>2 DEF Content
  <2> QED  BY <2>1, <1>3 DEF Native
<1> QED  BY <1>4, <1>5, <1>6

LEMMA IInvInit == Init => IInv
<1> SUFFICES ASSUME Init PROVE IInv
    OBVIOUS
<1>1. signed \in Seq({}) /\ Len(signed) = 0
      BY DEF Init
<1> QED  BY <1>1 DEF Init, IInv, History, LinesOK, SignedOK, AcceptedOK, Authentic

LEMMA SendKeeps ==
  ASSUME IInv, NEW payload \in Command, NEW nonce \in Nonce, Send(payload, nonce)
  PROVE  IInv'
<1> DEFINE command == SignWithNonce(ours, payload, clock, nonce)
           m == Transmit(command)
           c == Content(command)
<1>1. /\ lines' = lines \cup {m} /\ signed' = Append(signed, c) /\ drawn' = drawn \cup {nonce}
      /\ UNCHANGED <<clock, ours, theirs, accepted>> /\ ours \notin Weak /\ nonce \notin drawn
      BY DEF Send, Draw
<1>2. DOMAIN payload = Field
      BY DEF Command
<1>3. /\ "signature" \in DOMAIN command /\ command["signature"].v = <<ours, Form(c)>>
      /\ c["nonce"] = nonce
      BY <1>2, Signs
<1>4. /\ "signature" \in DOMAIN m /\ m["signature"].v = <<ours, Form(c)>> /\ Content(m) = c
      BY <1>3, TransmitKeeps
<1>5. c = [f \in DOMAIN c |-> c[f]]
      BY DEF Content
<1> HIDE DEF command, m, c
<1>6. PICK T : signed \in Seq(T)
      BY DEF IInv, History
<1>7. signed \in Seq(T \cup {c})
      BY <1>6
<1>8. /\ signed' \in Seq(T \cup {c}) /\ Len(signed') = Len(signed) + 1 /\ Len(signed) \in Nat
      /\ \A i \in 1..Len(signed) : signed'[i] = signed[i]
      /\ signed'[Len(signed) + 1] = c
      BY <1>1, <1>7
<1>9. LinesOK'
  <2>1. ASSUME NEW x \in lines', "signature" \in DOMAIN x
        PROVE  \E i \in 1..Len(signed') : x["signature"].v = <<ours', Form(signed'[i])>>
    <3>1. CASE x \in lines
      <4>1. PICK i \in 1..Len(signed) : x["signature"].v = <<ours, Form(signed[i])>>
            BY <2>1, <3>1 DEF IInv, LinesOK
      <4>2. i \in 1..Len(signed') /\ signed'[i] = signed[i]
            BY <1>8
      <4> QED  BY <1>1, <4>1, <4>2
    <3>2. CASE x = m
          BY <1>1, <1>4, <1>8, <3>2
    <3> QED  BY <1>1, <3>1, <3>2
  <2> QED  BY <2>1 DEF LinesOK
<1>10. SignedOK'
  <2>1. ASSUME NEW i \in 1..Len(signed')
        PROVE  /\ signed'[i] = [f \in DOMAIN signed'[i] |-> signed'[i][f]]
               /\ signed'[i]["nonce"] \in drawn'
               /\ \E x \in lines' : /\ Content(x) = signed'[i] /\ "signature" \in DOMAIN x
                                    /\ x["signature"].v = <<ours', Form(signed'[i])>>
    <3>1. CASE i = Len(signed) + 1
          BY <1>1, <1>3, <1>4, <1>5, <1>8, <3>1
    <3>2. CASE i # Len(signed) + 1
      <4>1. i \in 1..Len(signed) /\ signed'[i] = signed[i]
            BY <1>8, <3>2
      <4>2. /\ signed[i] = [f \in DOMAIN signed[i] |-> signed[i][f]]
            /\ signed[i]["nonce"] \in drawn
            /\ \E x \in lines : /\ Content(x) = signed[i] /\ "signature" \in DOMAIN x
                                /\ x["signature"].v = <<ours, Form(signed[i])>>
            BY <4>1 DEF IInv, SignedOK
      <4> QED  BY <1>1, <4>1, <4>2
    <3> QED  BY <3>1, <3>2
  <2>2. ASSUME NEW i \in 1..Len(signed'), NEW j \in 1..Len(signed'), i # j
        PROVE  signed'[i]["nonce"] # signed'[j]["nonce"]
    <3>1. \A k \in 1..Len(signed) : signed'[k] = signed[k] /\ signed[k]["nonce"] \in drawn
          BY <1>8 DEF IInv, SignedOK
    <3>2. CASE i \in 1..Len(signed) /\ j \in 1..Len(signed)
          BY <2>2, <3>1, <3>2 DEF IInv, SignedOK
    <3>3. CASE i = Len(signed) + 1
          BY <1>1, <1>3, <1>8, <2>2, <3>1, <3>3
    <3>4. CASE j = Len(signed) + 1
          BY <1>1, <1>3, <1>8, <2>2, <3>1, <3>4
    <3> QED  BY <1>8, <3>2, <3>3, <3>4
  <2> QED  BY <2>1, <2>2 DEF SignedOK
<1>11. AcceptedOK'
  <2>1. ASSUME NEW content \in accepted
        PROVE  ours = theirs /\ \E i \in 1..Len(signed') : signed'[i] = content
    <3>1. PICK i \in 1..Len(signed) : signed[i] = content
          BY DEF IInv, AcceptedOK, Authentic
    <3>2. ours = theirs
          BY DEF IInv, AcceptedOK, Authentic
    <3>3. i \in 1..Len(signed') /\ signed'[i] = content
          BY <1>8, <3>1
    <3> QED  BY <3>2, <3>3
  <2> QED  BY <1>1, <2>1 DEF AcceptedOK, Authentic
<1> QED  BY <1>1, <1>8, <1>9, <1>10, <1>11 DEF IInv, History

LEMMA AlterKeeps ==
  ASSUME IInv, NEW m \in lines, NEW f \in DOMAIN m, Alter(m, f)
  PROVE  IInv'
<1>1. /\ lines \subseteq lines' /\ UNCHANGED <<clock, ours, theirs, drawn, signed, accepted>>
      BY DEF Alter
<1>2. ASSUME NEW x \in lines', "signature" \in DOMAIN x
      PROVE  \E y \in lines : "signature" \in DOMAIN y /\ x["signature"] = y["signature"]
  <2>1. CASE x \in lines
        BY <1>2, <2>1
  <2>2. CASE x = Drop(m, {f})
        BY <1>2, <2>2 DEF Drop
  <2>3. ASSUME NEW other \in lines, f \in DOMAIN other, x = Put(m, f, other[f])
        PROVE  \E y \in lines : "signature" \in DOMAIN y /\ x["signature"] = y["signature"]
    <3>1. CASE f = "signature"
          BY <2>3, <3>1 DEF Put
    <3>2. CASE f # "signature"
          BY <1>2, <2>3, <3>2 DEF Put
    <3> QED  BY <3>1, <3>2
  <2> QED  BY <2>1, <2>2, <2>3 DEF Alter
<1>3. LinesOK'
      BY <1>1, <1>2 DEF IInv, LinesOK
<1>4. SignedOK'
  <2>1. ASSUME NEW i \in 1..Len(signed)
        PROVE  \E x \in lines' : /\ Content(x) = signed[i] /\ "signature" \in DOMAIN x
                                 /\ x["signature"].v = <<ours, Form(signed[i])>>
    <3>1. PICK x \in lines : /\ Content(x) = signed[i] /\ "signature" \in DOMAIN x
                             /\ x["signature"].v = <<ours, Form(signed[i])>>
          BY DEF IInv, SignedOK
    <3> QED  BY <1>1, <3>1
  <2>2. \A i \in 1..Len(signed) :
            signed[i] = [e \in DOMAIN signed[i] |-> signed[i][e]] /\ signed[i]["nonce"] \in drawn
        BY DEF IInv, SignedOK
  <2>3. \A i, j \in 1..Len(signed) : i # j => signed[i]["nonce"] # signed[j]["nonce"]
        BY DEF IInv, SignedOK
  <2> QED  BY <1>1, <2>1, <2>2, <2>3 DEF SignedOK
<1>5. AcceptedOK'
      BY <1>1 DEF IInv, AcceptedOK, Authentic
<1> QED  BY <1>1, <1>3, <1>4, <1>5 DEF IInv, History

LEMMA AcceptKeeps ==
  ASSUME IInv, NEW m \in lines, Accept(m)
  PROVE  IInv'
<1>1. accepted' = accepted \cup {Content(m)} /\ UNCHANGED <<clock, ours, theirs, drawn, lines, signed>>
      BY DEF Accept
<1>2. "signature" \in DOMAIN m /\ m["signature"].v = <<theirs, Form(Content(m))>>
      BY CanonicalIsForm DEF Accept, Verify, Mac, Native
<1>3. PICK i \in 1..Len(signed) : m["signature"].v = <<ours, Form(signed[i])>>
      BY <1>2 DEF IInv, LinesOK
<1>4. ours = theirs /\ Form(Content(m)) = Form(signed[i])
      BY <1>2, <1>3
<1>5. Content(m) = signed[i]
      BY <1>4, FormInjective DEF IInv, SignedOK
<1>6. AcceptedOK'
      BY <1>1, <1>4, <1>5 DEF IInv, AcceptedOK, Authentic
<1> QED  BY <1>1, <1>6 DEF IInv, History, LinesOK, SignedOK

LEMMA IInvNext == IInv /\ [Next]_vars => IInv'
<1> SUFFICES ASSUME IInv, [Next]_vars PROVE IInv'
    OBVIOUS
<1>1. CASE Tick \/ UNCHANGED vars
  <2>1. UNCHANGED <<ours, theirs, drawn, lines, signed, accepted>>
        BY <1>1 DEF Tick, vars
  <2>2. History' /\ (signed # <<>> => ours \notin Weak)' /\ LinesOK'
        BY <2>1 DEF IInv, History, LinesOK
  <2>3. SignedOK'
        BY <2>1 DEF IInv, SignedOK
  <2>4. AcceptedOK'
        BY <2>1 DEF IInv, AcceptedOK, Authentic
  <2> QED  BY <2>2, <2>3, <2>4 DEF IInv
<1> QED  BY <1>1, SendKeeps, AlterKeeps, AcceptKeeps DEF Next

LEMMA IInvCorrect == Spec => []IInv
<1>1. IInv /\ [Next]_vars => IInv'
      BY IInvNext
<1> QED  BY <1>1, IInvInit, PTL DEF Spec

\* Nothing is accepted that was not signed, field by field.
THEOREM OnlySigned == Spec => []Authentic
<1>1. IInv => Authentic
      BY DEF IInv, AcceptedOK
<1> QED  BY <1>1, IInvCorrect, PTL

\* A signed command verifies after transmission.
THEOREM SignedVerifies == Spec => []Verifiable
<1>1. IInv => Verifiable
  <2> SUFFICES ASSUME IInv, NEW i \in 1..Len(signed), ours = theirs
               PROVE  \E m \in lines : Content(m) = signed[i] /\ Verify(theirs, m)
      BY DEF Verifiable
  <2>1. PICK m \in lines : /\ Content(m) = signed[i] /\ "signature" \in DOMAIN m
                           /\ m["signature"].v = <<ours, Form(signed[i])>>
        BY DEF IInv, SignedOK
  <2>2. ours \notin Weak
    <3>1. signed # <<>>
          BY DEF IInv, History
    <3> QED  BY <3>1 DEF IInv
  <2>3. m["signature"].v = Mac(theirs, CanonicalPayload(m)).v
        BY <2>1, CanonicalIsForm DEF Mac, Native
  <2> QED  BY <2>1, <2>2, <2>3 DEF Verify
<1> QED  BY <1>1, IInvCorrect, PTL

\* No command is signed twice in the same words.
THEOREM NoRepetition == Spec => []RepetitionsDiffer
<1>1. IInv => RepetitionsDiffer
      BY DEF IInv, SignedOK, RepetitionsDiffer
<1> QED  BY <1>1, IInvCorrect, PTL
============================================================================
