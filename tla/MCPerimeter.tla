---------------------------- MODULE MCPerimeter ----------------------------
(* Perimeter with one auth route, two browsers behind the proxy and one    *)
(* program that connects by itself.  The proxy drops its clients' own      *)
(* lines, as the properties ask, and sends its own once, twice or never.   *)
EXTENDS Perimeter, TLC

CONSTANTS login, b1, b2, d1

MCAction == {login}
MCSymmetry == Permutations({b1, b2})
MCProxied == {b1, b2}
MCDirect == {d1}
MCSetUps == (0..2) \X {FALSE}
MCKey == MCAction \X {b1, b2, d1, Proxy}
===========================================================================
