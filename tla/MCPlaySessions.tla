-------------------------- MODULE MCPlaySessions --------------------------
(* PlaySessions with two sessions, two sockets and one late Create.        *)
EXTENDS PlaySessions, TLC

CONSTANTS s1, s2, t1, k1, k2, alice

MCSessionId == {s1, s2}
MCThread == {t1}
MCAccount == {alice}
MCSocket == {k1, k2}
MCSymmetry == Permutations(MCSessionId) \cup Permutations(MCSocket)
===========================================================================
