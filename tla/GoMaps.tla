------------------------------ MODULE GoMaps ------------------------------
(***************************************************************************)
(* Go maps as TLA+ functions with a changing domain.  The gateway keeps    *)
(* every piece of mutable state in such maps (sessions, pending            *)
(* ceremonies, rate-limit buckets); the operators below are the three      *)
(* things its code does to them.                                           *)
(***************************************************************************)

\* m[k] = v
Put(m, k, v) == [x \in DOMAIN m \cup {k} |-> IF x = k THEN v ELSE m[x]]

\* for each k in ks: delete(m, k); deleting an absent key changes nothing
Drop(m, ks) == [x \in DOMAIN m \ ks |-> m[x]]

\* make(map[...]...)
EmptyMap == [x \in {} |-> x]

\* m is a map from some of the keys K to values V
IsMap(m, K, V) ==
    /\ m = [x \in DOMAIN m |-> m[x]]
    /\ DOMAIN m \subseteq K
    /\ \A x \in DOMAIN m : m[x] \in V
===========================================================================
