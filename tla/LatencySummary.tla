-------------------------- MODULE LatencySummary --------------------------
(***************************************************************************)
(* cmd/latency-probe/main.go: the summary of one target's durations.  The  *)
(* mean is left out, and with it the deltas: no property is about them.    *)
(* The float product (p/100)*n of the code is exact enough that its        *)
(* ceiling is that of p*n/100 for the four percentiles and any realistic   *)
(* number of requests.                                                     *)
(***************************************************************************)
EXTENDS Naturals, Sequences, FiniteSets

Percentiles == {50, 90, 95, 99}

\* Values is a function from a finite set of numbers, the places of the
\* samples in their channel, to durations.  The place of the i-th value in
\* order; of equal values the order of arrival decides, which nobody can tell.
Rank(values, i) ==
    Cardinality({j \in DOMAIN values :
        values[j] < values[i] \/ (values[j] = values[i] /\ j <= i)})

Sorted(values) ==
    [k \in 1..Cardinality(DOMAIN values) |->
        values[CHOOSE i \in DOMAIN values : Rank(values, i) = k]]

\* Mutant: the truncated product is the index.
Index_Floor(p, n) == (p * n) \div 100

\* The zero-based index of the p-th percentile among n values, before it is
\* clamped: the ceiling of p*n/100, less one.
Index(p, n) == (p * n + 99) \div 100 - 1

percentile(sorted, p) ==
    LET n == Len(sorted)
        i == Index(p, n)
    IN  sorted[1 + (IF i < 0 THEN 0 ELSE IF i >= n THEN n - 1 ELSE i)]

summarize(values) ==
    LET sorted == Sorted(values)
    IN  [count |-> Len(sorted), min |-> sorted[1], max |-> sorted[Len(sorted)],
         p |-> [p \in Percentiles |-> percentile(sorted, p)]]
===========================================================================
