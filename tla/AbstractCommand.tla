-------------------------- MODULE AbstractCommand --------------------------
(***************************************************************************)
(* What the Java wire client promises of one command: Java decides it at   *)
(* most once, the caller learns that verdict or an error, and an error     *)
(* says nothing: Java may have decided already, or may still decide.       *)
(* PasskeyAuth and PlayProxy take every command to behave like this.       *)
(***************************************************************************)
VARIABLES
    verdict,  \* Java's: none, executed, refused
    outcome   \* the caller's: none, ok, refused, error

Init == verdict = "none" /\ outcome = "none"

Decide ==
    /\ verdict = "none"
    /\ verdict' \in {"executed", "refused"}
    /\ UNCHANGED outcome

Report ==
    /\ outcome = "none"
    /\ \/ verdict = "executed" /\ outcome' = "ok"
       \/ verdict = "refused" /\ outcome' = "refused"
    /\ UNCHANGED verdict

Fail ==
    /\ outcome = "none"
    /\ outcome' = "error"
    /\ UNCHANGED verdict

Next == Decide \/ Report \/ Fail

Spec == Init /\ [][Next]_<<verdict, outcome>>
============================================================================
