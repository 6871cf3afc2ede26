-------------------------- MODULE MCSessionStore --------------------------
(* SessionStore on small sets: three session identifiers, two goroutines.  *)
EXTENDS SessionStore

CONSTANTS s1, s2, s3, t1, t2, alice

MCSessionId == {s1, s2, s3}
MCThread == {t1, t2}
MCAccount == {alice}
===========================================================================
