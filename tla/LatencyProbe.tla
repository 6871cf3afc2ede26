--------------------------- MODULE LatencyProbe ---------------------------
(***************************************************************************)
(* cmd/latency-probe/main.go: one run of the measuring tool.  For each     *)
(* target, the baseline first if there is one: warm-up requests, then      *)
(* -requests measured ones spread over -concurrency goroutines, then a     *)
(* summary.  Jobs go through an unbuffered channel, samples come back      *)
(* through a buffered one that nobody reads before every goroutine is done;*)
(* what the summary computes from them is in LatencySummary.               *)
(***************************************************************************)
EXTENDS LatencySummary

CONSTANTS
    Worker,    \* the goroutines: -concurrency of them
    Requests,  \* -requests
    Warmup,    \* -warmup
    Sample,    \* what probeOnce may return
    Took,      \* sample -> its duration: none if the request could not be made
    Failed     \* the samples with an error

\* validateConfig refuses anything else.
ASSUME ProbeAssumption ==
    /\ IsFiniteSet(Worker) /\ Worker # {}
    /\ Requests \in Nat \ {0}
    /\ Warmup \in Nat

\* A worker that holds a sample is not taken for one that holds none.
ASSUME SampleAssumption ==
    /\ Sample \cap {"off", "receive", "probe", "done"} = {}
    /\ Failed \subseteq Sample
    /\ Took \in [Sample -> Nat]

VARIABLES
    targets,   \* the targets still to measure, the current one first
    pc,        \* measureTarget: where the main goroutine is
    count,     \* the requests of this phase made or handed out
    worker,    \* worker -> "receive", "probe", "done", or the sample it sends
    samples,   \* the buffered channel
    report,    \* target -> its result
    exit,      \* the exit code, or "running"
    outcomes   \* history: target -> how its measured requests ended, in turn

vars == <<targets, pc, count, worker, samples, report, exit, outcomes>>

IsError(s) == s \in Failed
IsMeasured(s) == Took[s] > 0

\* Mutant: a buffer of one place per worker.
Capacity_PerWorker == Cardinality(Worker)

Capacity == Requests

Init ==
    /\ targets \in {<<"gateway">>, <<"baseline", "gateway">>}
    /\ pc = "warmup" /\ count = 0
    /\ worker = [w \in Worker |-> "off"]
    /\ samples = <<>>
    /\ report = [t \in {} |-> t]
    /\ exit = "running"
    /\ outcomes = [t \in {"baseline", "gateway"} |-> <<>>]

\* run: one line on stderr, exit code 1.
Abort == pc' = "exited" /\ exit' = "1"

\* Warm-up requests run one at a time; a failing one ends the program.
WarmUp ==
    /\ pc = "warmup" /\ count < Warmup
    /\ count' = count + 1
    /\ Abort \/ UNCHANGED <<pc, exit>>
    /\ UNCHANGED <<targets, worker, samples, report, outcomes>>

Spawn ==
    /\ pc = "warmup" /\ count = Warmup
    /\ pc' = "feed" /\ count' = 0
    /\ worker' = [w \in Worker |-> "receive"]
    /\ UNCHANGED <<targets, samples, report, exit, outcomes>>

\* jobs <- struct{}{}: a waiting worker takes the job.
Feed(w) ==
    /\ pc = "feed" /\ count < Requests /\ worker[w] = "receive"
    /\ count' = count + 1
    /\ worker' = [worker EXCEPT ![w] = "probe"]
    /\ UNCHANGED <<targets, pc, samples, report, exit, outcomes>>

\* close(jobs)
CloseJobs ==
    /\ pc = "feed" /\ count = Requests
    /\ pc' = "wait"
    /\ UNCHANGED <<targets, count, worker, samples, report, exit, outcomes>>

\* probeOnce: the client's timeout bounds it.
Probe(w) ==
    /\ worker[w] = "probe"
    /\ \E s \in Sample :
          /\ worker' = [worker EXCEPT ![w] = s]
          /\ outcomes' = [outcomes EXCEPT ![Head(targets)] = Append(@, s)]
    /\ UNCHANGED <<targets, pc, count, samples, report, exit>>

\* Mutant: a worker keeps failures to itself.
SendSample_SuccessOnly(w) ==
    /\ worker[w] \in Sample /\ Len(samples) < Capacity
    /\ samples' = IF IsError(worker[w]) THEN samples ELSE Append(samples, worker[w])
    /\ worker' = [worker EXCEPT ![w] = "receive"]
    /\ UNCHANGED <<targets, pc, count, report, exit, outcomes>>

\* samples <- ...: blocks while the channel is full.
SendSample(w) ==
    /\ worker[w] \in Sample /\ Len(samples) < Capacity
    /\ samples' = Append(samples, worker[w])
    /\ worker' = [worker EXCEPT ![w] = "receive"]
    /\ UNCHANGED <<targets, pc, count, report, exit, outcomes>>

\* The range over jobs ends once the channel is closed: wg.Done().
Finish(w) ==
    /\ pc = "wait" /\ worker[w] = "receive"
    /\ worker' = [worker EXCEPT ![w] = "done"]
    /\ UNCHANGED <<targets, pc, count, samples, report, exit, outcomes>>

\* wg.Wait() returns.
AllDone == \A w \in Worker : worker[w] = "done"

\* Mutant: an error on a request that took no measurable time is forgotten.
Errors_Measured == {i \in DOMAIN samples : IsError(samples[i]) /\ IsMeasured(samples[i])}

Errors == {i \in DOMAIN samples : IsError(samples[i])}

Measured == {i \in DOMAIN samples : IsMeasured(samples[i])}

\* The durations of the samples that took any time, with an error or without.
Durations == [i \in Measured |-> Took[samples[i]]]

\* Collect the samples of a target; without one duration there is no summary.
Collect ==
    /\ pc = "wait" /\ AllDone
    /\ samples' = <<>> /\ count' = 0
    /\ worker' = [w \in Worker |-> "off"]
    /\ IF Measured = {}
       THEN Abort /\ UNCHANGED <<targets, report>>
       ELSE /\ targets' = Tail(targets)
            /\ report' = [t \in DOMAIN report \cup {Head(targets)} |->
                  IF t = Head(targets)
                  THEN [errors |-> Cardinality(Errors), stats |-> summarize(Durations)]
                  ELSE report[t]]
            /\ pc' = IF Len(targets) = 1 THEN "report" ELSE "warmup"
            /\ UNCHANGED exit
    /\ UNCHANGED outcomes

\* Mutant: only the gateway's errors count.
Exit_GatewayOnly ==
    /\ pc = "report"
    /\ pc' = "exited"
    /\ \/ exit' = "1"
       \/ exit' = "0" /\ report["gateway"].errors = 0
    /\ UNCHANGED <<targets, count, worker, samples, report, outcomes>>

\* run: the report is written; any error of any target makes the code 1, and
\* so does a report that cannot be written.
Exit ==
    /\ pc = "report"
    /\ pc' = "exited"
    /\ \/ exit' = "1"
       \/ exit' = "0" /\ \A t \in DOMAIN report : report[t].errors = 0
    /\ UNCHANGED <<targets, count, worker, samples, report, outcomes>>

Main == WarmUp \/ Spawn \/ (\E w \in Worker : Feed(w)) \/ CloseJobs \/ Collect \/ Exit

Next == Main \/ \E w \in Worker : Probe(w) \/ SendSample(w) \/ Finish(w)

\* Every goroutine that can run does, and every request ends by its timeout.
Spec ==
    /\ Init /\ [][Next]_vars
    /\ WF_vars(Main)
    /\ \A w \in Worker : WF_vars(Probe(w) \/ SendSample(w) \/ Finish(w))

---------------------------------------------------------------------------
(* Properties                                                              *)

\* The measured requests of a target that failed.
FailuresOf(t) == {i \in DOMAIN outcomes[t] : IsError(outcomes[t][i])}

\* A target's report covers all of its requests: every failure is in it,
\* whichever goroutine met it and whether or not it took measurable time
\* (main.go:254-298).
ReportComplete == \A t \in DOMAIN report : report[t].errors = Cardinality(FailuresOf(t))

\* Exit code 0 promises that no measured request failed, on either target
\* (main.go:153-156).
ZeroMeansClean == exit = "0" => \A t \in DOMAIN outcomes : FailuresOf(t) = {}

\* The requests of a target that took time, and those of them that took no
\* longer, or less long, than d.
Timed(t) == {i \in DOMAIN outcomes[t] : IsMeasured(outcomes[t][i])}
Within(t, d) == {i \in Timed(t) : Took[outcomes[t][i]] <= d}
Below(t, d) == {i \in Timed(t) : Took[outcomes[t][i]] < d}

\* The p-th percentile is the duration that at least p percent of a target's
\* timed requests, and less than p percent of them strictly, did not exceed.
Describes(stats, t) ==
    /\ stats.count = Cardinality(Timed(t))
    /\ Below(t, stats.min) = {} /\ Within(t, stats.min) # {}
    /\ Within(t, stats.max) = Timed(t) /\ Below(t, stats.max) # Timed(t)
    /\ \A p \in Percentiles :
          /\ 100 * Cardinality(Within(t, stats.p[p])) >= p * Cardinality(Timed(t))
          /\ 100 * Cardinality(Below(t, stats.p[p])) < p * Cardinality(Timed(t))
          /\ stats.min <= stats.p[p] /\ stats.p[p] <= stats.max

\* A target's summary is about what its own requests took, whichever
\* goroutines made them and in whatever order they delivered their samples:
\* its percentiles are the nearest ranks, its bounds the least and the
\* greatest duration (main.go:254-298, 337-367).
NearestRank == \A t \in DOMAIN report : Describes(report[t].stats, t)

\* The program ends, with more workers than requests or fewer: no worker
\* waits for a reader of the samples, which comes only after all workers
\* (main.go:254-271).
Terminates == <>(pc = "exited")
===========================================================================
