-------------------------- MODULE MCLatencyProbe --------------------------
(* LatencyProbe with two workers, whose requests are answered quickly,      *)
(* answered slowly, fail slowly, or cannot be made at all.                  *)
EXTENDS LatencyProbe

CONSTANTS w1, w2, quick, slow, broken, refused

MCWorker == {w1, w2}
MCSample == {quick, slow, broken, refused}
MCFailed == {broken, refused}
MCTook == [s \in MCSample |-> CASE s = quick -> 1 [] s = refused -> 0 [] OTHER -> 2]
===========================================================================
