------------------------ MODULE LatencyProbe_proofs ------------------------
(* Theorems about LatencyProbe, for any number of workers, requests and     *)
(* warm-up requests, any samples and durations, and about the percentiles   *)
(* of its summary.                                                          *)
EXTENDS LatencyProbe, FiniteSetTheorems, TLAPS

USE ProbeAssumption

Target == {"baseline", "gateway"}

WorkerState == Sample \cup {"off", "receive", "probe", "done"}

\* The workers whose state is in S, and the places of s that hold one of S.
In(f, S) == {w \in Worker : f[w] \in S}
Hits(s, S) == {i \in DOMAIN s : s[i] \in S}

LEMMA NoSample ==
  "off" \notin Sample /\ "receive" \notin Sample /\ "probe" \notin Sample /\ "done" \notin Sample
  BY SampleAssumption

Alone == <<"gateway">>
Both == <<"baseline", "gateway">>

LEMMA TargetFacts ==
  /\ Head(Alone) = "gateway" /\ Tail(Alone) = <<>> /\ Len(Alone) = 1
  /\ Head(Both) = "baseline" /\ Tail(Both) = Alone /\ Len(Both) = 2
  /\ Alone # <<>> /\ Both # <<>> /\ Alone # Both
  BY DEF Alone, Both

\* The targets still to measure have no report, those not begun and those
\* never measured no outcomes.
Ahead ==
    /\ DOMAIN report \subseteq Target
    /\ \/ targets = Both /\ DOMAIN report = {} /\ outcomes["gateway"] = <<>>
       \/ /\ targets = Alone /\ "gateway" \notin DOMAIN report
          /\ "baseline" \notin DOMAIN report => outcomes["baseline"] = <<>>
       \/ /\ targets = <<>> /\ "gateway" \in DOMAIN report
          /\ "baseline" \notin DOMAIN report => outcomes["baseline"] = <<>>

\* Of any kind of sample, those the current target has met are in the channel
\* or in the hands of the workers that met them.
Delivered ==
    \A S \in SUBSET Sample :
        Cardinality(Hits(outcomes[Head(targets)], S))
            = Cardinality(Hits(samples, S)) + Cardinality(In(worker, S))

Counted ==
    IF pc \in {"feed", "wait"}
    THEN Delivered
    ELSE /\ samples = <<>>
         /\ \A w \in Worker : worker[w] = "off"
         /\ pc = "warmup" => outcomes[Head(targets)] = <<>>

ProbeInv ==
    /\ worker \in [Worker -> WorkerState]
    /\ samples \in Seq(Sample)
    /\ outcomes \in [Target -> Seq(Sample)]
    /\ pc \in {"warmup", "feed", "wait"} => targets # <<>>
    /\ pc = "report" => targets = <<>>
    /\ pc # "exited" => exit = "running"
    /\ Ahead /\ Counted /\ ReportComplete /\ ZeroMeansClean

LEMMA InCount ==
  ASSUME NEW f, NEW S
  PROVE  IsFiniteSet(In(f, S)) /\ Cardinality(In(f, S)) \in Nat
<1>1. In(f, S) \in SUBSET Worker
      BY DEF In
<1> QED  BY <1>1, FS_Subset, FS_CardinalityType DEF ProbeAssumption

\* One worker goes from one state to another.
LEMMA InMoves ==
  ASSUME NEW f, NEW g, NEW w \in Worker, \A x \in Worker : x # w => g[x] = f[x], NEW S
  PROVE  /\ f[w] \in S /\ g[w] \notin S => Cardinality(In(f, S)) = Cardinality(In(g, S)) + 1
         /\ f[w] \notin S /\ g[w] \in S => Cardinality(In(g, S)) = Cardinality(In(f, S)) + 1
         /\ (f[w] \in S <=> g[w] \in S) => Cardinality(In(g, S)) = Cardinality(In(f, S))
<1>1. /\ IsFiniteSet(In(f, S)) /\ Cardinality(In(f, S)) \in Nat
      /\ IsFiniteSet(In(g, S)) /\ Cardinality(In(g, S)) \in Nat
      BY InCount
<1>2. ASSUME f[w] \in S, g[w] \notin S PROVE Cardinality(In(f, S)) = Cardinality(In(g, S)) + 1
  <2>1. In(f, S) = In(g, S) \cup {w} /\ w \notin In(g, S)
        BY <1>2 DEF In
  <2>2. Cardinality(In(g, S) \cup {w}) = Cardinality(In(g, S)) + 1
        BY <1>1, <2>1, FS_AddElement, Zenon
  <2> QED  BY <2>1, <2>2, Zenon
<1>3. ASSUME f[w] \notin S, g[w] \in S PROVE Cardinality(In(g, S)) = Cardinality(In(f, S)) + 1
  <2>1. In(g, S) = In(f, S) \cup {w} /\ w \notin In(f, S)
        BY <1>3 DEF In
  <2>2. Cardinality(In(f, S) \cup {w}) = Cardinality(In(f, S)) + 1
        BY <1>1, <2>1, FS_AddElement, Zenon
  <2> QED  BY <2>1, <2>2, Zenon
<1>4. ASSUME f[w] \in S <=> g[w] \in S PROVE Cardinality(In(g, S)) = Cardinality(In(f, S))
  <2>1. In(g, S) = In(f, S)
        BY <1>4 DEF In
  <2> QED  BY <2>1
<1> QED  BY <1>2, <1>3, <1>4, Zenon


\* The samples of a kind can be counted, and nothing is in an empty channel.
LEMMA HitsCount ==
  ASSUME NEW s \in Seq(Sample), NEW S
  PROVE  IsFiniteSet(Hits(s, S)) /\ Cardinality(Hits(s, S)) \in Nat
<1>1. IsFiniteSet(1..Len(s)) /\ DOMAIN s = 1..Len(s)
  <2>1. Len(s) \in Nat /\ DOMAIN s = 1..Len(s)
        OBVIOUS
  <2> QED  BY <2>1, FS_Interval
<1>2. Hits(s, S) \in SUBSET (1..Len(s))
      BY <1>1 DEF Hits
<1> QED  BY <1>1, <1>2, FS_Subset, FS_CardinalityType

LEMMA NoHits == \A S : Hits(<<>>, S) = {} /\ Cardinality(Hits(<<>>, S)) = 0
<1>1. \A S : Hits(<<>>, S) = {}
      BY DEF Hits
<1> QED  BY <1>1, FS_EmptySet, Zenon

\* One more sample at the end.
LEMMA HitsAppend ==
  ASSUME NEW s \in Seq(Sample), NEW e \in Sample, NEW S
  PROVE  /\ e \in S => Cardinality(Hits(Append(s, e), S)) = Cardinality(Hits(s, S)) + 1
         /\ e \notin S => Cardinality(Hits(Append(s, e), S)) = Cardinality(Hits(s, S))
<1> DEFINE more == Append(s, e)
<1>1. /\ Len(s) \in Nat /\ DOMAIN s = 1..Len(s) /\ DOMAIN more = 1..(Len(s) + 1)
      /\ more[Len(s) + 1] = e /\ \A i \in 1..Len(s) : more[i] = s[i]
      OBVIOUS
<1>2. \A i : i \in 1..(Len(s) + 1) <=> i \in 1..Len(s) \/ i = Len(s) + 1
      BY <1>1
<1>3. Len(s) + 1 \notin Hits(s, S)
      BY <1>1 DEF Hits
<1>4. IsFiniteSet(Hits(s, S)) /\ Cardinality(Hits(s, S)) \in Nat
      BY HitsCount
<1> HIDE DEF more
<1>5. CASE e \in S
  <2>1. Hits(more, S) = Hits(s, S) \cup {Len(s) + 1}
        BY <1>1, <1>2, <1>5 DEF Hits
  <2>2. Cardinality(Hits(s, S) \cup {Len(s) + 1}) = Cardinality(Hits(s, S)) + 1
        BY <1>3, <1>4, FS_AddElement, Zenon
  <2>3. Cardinality(Hits(more, S)) = Cardinality(Hits(s, S)) + 1
        BY <2>1, <2>2, Zenon
  <2> QED  BY <1>5, <2>3 DEF more
<1>6. CASE e \notin S
  <2>1. Hits(more, S) = Hits(s, S)
        BY <1>1, <1>2, <1>6 DEF Hits
  <2> QED  BY <1>6, <2>1 DEF more
<1> QED  BY <1>5, <1>6

\* What the report and the exit code are about, in these terms.
LEMMA FailedHits ==
  /\ \A t : FailuresOf(t) = Hits(outcomes[t], Failed)
  /\ Errors = Hits(samples, Failed)
  BY DEF FailuresOf, Errors, Hits, IsError

\* The failures of a target are only those of its own requests.
LEMMA FailuresStay ==
  ASSUME NEW t, outcomes'[t] = outcomes[t]
  PROVE  FailuresOf(t)' = FailuresOf(t)
  BY DEF FailuresOf

LEMMA ProbeInvInit == Init => ProbeInv
<1> SUFFICES ASSUME Init PROVE ProbeInv
    OBVIOUS
<1>1. /\ targets \in {Alone, Both} /\ pc = "warmup" /\ exit = "running" /\ samples = <<>>
      /\ worker = [w \in Worker |-> "off"] /\ outcomes = [t \in Target |-> <<>>] /\ DOMAIN report = {}
      BY DEF Init, Alone, Both, Target
<1>2. Head(targets) \in Target /\ targets # <<>>
      BY <1>1, TargetFacts DEF Target
<1>3. Ahead /\ Counted
      BY <1>1, <1>2 DEF Ahead, Counted, Target
<1>4. ReportComplete /\ ZeroMeansClean
      BY <1>1 DEF ReportComplete, ZeroMeansClean
<1>5. worker \in [Worker -> WorkerState] /\ outcomes \in [Target -> Seq(Sample)]
      BY <1>1 DEF WorkerState
<1> QED  BY <1>1, <1>2, <1>3, <1>4, <1>5 DEF ProbeInv

\* The main goroutine, before it collects: only Spawn lets workers start.
LEMMA WarmUpKeeps == ASSUME ProbeInv, WarmUp PROVE ProbeInv'
<1>1. /\ pc = "warmup" /\ UNCHANGED <<targets, worker, samples, report, outcomes>>
      /\ (pc' = "exited" /\ exit' = "1") \/ UNCHANGED <<pc, exit>>
      BY DEF WarmUp, Abort
<1>2. Ahead' /\ ReportComplete' /\ ZeroMeansClean'
      BY <1>1 DEF ProbeInv, Ahead, ReportComplete, ZeroMeansClean, FailuresOf
<1>3. Counted'
      BY <1>1 DEF ProbeInv, Counted
<1> QED  BY <1>1, <1>2, <1>3 DEF ProbeInv

LEMMA SpawnKeeps == ASSUME ProbeInv, Spawn PROVE ProbeInv'
<1>1. /\ pc = "warmup" /\ pc' = "feed" /\ worker' = [w \in Worker |-> "receive"]
      /\ UNCHANGED <<targets, samples, report, exit, outcomes>>
      BY DEF Spawn
<1>2. samples = <<>> /\ outcomes[Head(targets)] = <<>>
      BY <1>1 DEF ProbeInv, Counted
<1>3. Delivered'
  <2> SUFFICES ASSUME NEW S \in SUBSET Sample
               PROVE  Cardinality(Hits(<<>>, S)) = Cardinality(Hits(<<>>, S)) + Cardinality(In(worker', S))
      BY <1>1, <1>2 DEF Delivered
  <2>1. In(worker', S) = {}
        BY <1>1, NoSample DEF In
  <2>2. Cardinality(In(worker', S)) = 0
        BY <2>1, FS_EmptySet
  <2> QED  BY <2>2, NoHits
<1>4. Counted'
      BY <1>1, <1>3 DEF Counted
<1>5. Ahead' /\ ReportComplete' /\ ZeroMeansClean'
      BY <1>1 DEF ProbeInv, Ahead, ReportComplete, ZeroMeansClean, FailuresOf
<1>6. worker' \in [Worker -> WorkerState]
      BY <1>1 DEF WorkerState
<1> QED  BY <1>1, <1>4, <1>5, <1>6 DEF ProbeInv

\* A worker moves without a sample: a job, the end of the jobs.
LEMMA HandsKeep ==
  ASSUME ProbeInv, pc \in {"feed", "wait"}, pc' \in {"feed", "wait"},
         worker' \in [Worker -> WorkerState],
         \A w \in Worker : worker'[w] # worker[w] => worker[w] \notin Sample /\ worker'[w] \notin Sample,
         UNCHANGED <<targets, samples, report, exit, outcomes>>
  PROVE  ProbeInv'
<1>1. \A S \in SUBSET Sample : In(worker', S) = In(worker, S)
      BY DEF In
<1>2. Delivered'
      BY <1>1 DEF ProbeInv, Counted, Delivered
<1>3. Ahead' /\ ReportComplete' /\ ZeroMeansClean'
      BY DEF ProbeInv, Ahead, ReportComplete, ZeroMeansClean, FailuresOf
<1> QED  BY <1>2, <1>3 DEF ProbeInv, Counted

LEMMA FeedKeeps == ASSUME ProbeInv, NEW w \in Worker, Feed(w) \/ Finish(w) PROVE ProbeInv'
<1>1. /\ pc \in {"feed", "wait"} /\ pc' = pc /\ worker[w] = "receive"
      /\ worker' = [worker EXCEPT ![w] = "probe"] \/ worker' = [worker EXCEPT ![w] = "done"]
      /\ UNCHANGED <<targets, samples, report, exit, outcomes>>
      BY DEF Feed, Finish
<1>2. /\ worker' \in [Worker -> WorkerState]
      /\ \A v \in Worker : worker'[v] # worker[v] => worker[v] \notin Sample /\ worker'[v] \notin Sample
      BY <1>1, NoSample DEF ProbeInv, WorkerState
<1> QED  BY <1>1, <1>2, HandsKeep

LEMMA CloseJobsKeeps == ASSUME ProbeInv, CloseJobs PROVE ProbeInv'
<1>1. /\ pc = "feed" /\ pc' = "wait" /\ UNCHANGED <<targets, worker, samples, report, exit, outcomes>>
      BY DEF CloseJobs
<1>2. worker \in [Worker -> WorkerState]
      BY DEF ProbeInv
<1> QED  BY <1>1, <1>2, HandsKeep

\* While requests are made, the current target is one without a report.
LEMMA Current ==
  ASSUME ProbeInv, pc \in {"feed", "wait"}
  PROVE  /\ Head(targets) \in Target \ DOMAIN report
         /\ exit = "running"
         /\ Delivered
         /\ targets = Both => Head(targets) = "baseline"
         /\ targets = Alone => Head(targets) = "gateway"
<1>1. targets = Both \/ targets = Alone
      BY DEF ProbeInv, Ahead
<1>2. Head(targets) \in Target \ DOMAIN report
      BY <1>1, TargetFacts DEF ProbeInv, Ahead, Target
<1> QED  BY <1>2, TargetFacts DEF ProbeInv, Counted

LEMMA ProbeKeeps == ASSUME ProbeInv, NEW w \in Worker, Probe(w) PROVE ProbeInv'
<1>1. PICK s \in Sample :
         /\ worker[w] = "probe" /\ worker' = [worker EXCEPT ![w] = s]
         /\ outcomes' = [outcomes EXCEPT ![Head(targets)] = Append(@, s)]
         /\ UNCHANGED <<targets, pc, samples, report, exit>>
      BY DEF Probe
<1>2. pc \in {"feed", "wait"}
      BY <1>1 DEF ProbeInv, Counted
<1>3. PICK t \in Target \ DOMAIN report : t = Head(targets)
      BY <1>2, Current
<1>4. PICK before \in Seq(Sample) : before = outcomes[t]
      BY DEF ProbeInv
<1>5. /\ outcomes' \in [Target -> Seq(Sample)]
      /\ outcomes'[t] = Append(before, s)
      /\ \A u \in Target \ {t} : outcomes'[u] = outcomes[u]
      BY <1>1, <1>3, <1>4 DEF ProbeInv
<1>6. worker' \in [Worker -> WorkerState]
      BY <1>1 DEF ProbeInv, WorkerState
<1>7. ASSUME NEW S \in SUBSET Sample
      PROVE  Cardinality(Hits(outcomes'[t], S)) = Cardinality(Hits(samples, S)) + Cardinality(In(worker', S))
  <2>1. Cardinality(Hits(before, S)) = Cardinality(Hits(samples, S)) + Cardinality(In(worker, S))
        BY <1>2, <1>3, <1>4, Current, Zenon DEF Delivered
  <2>2. PICK a \in Nat, b \in Nat, c \in Nat :
           a = Cardinality(Hits(before, S)) /\ b = Cardinality(Hits(samples, S)) /\ c = Cardinality(In(worker, S))
        BY HitsCount, InCount DEF ProbeInv
  <2>3. worker[w] \notin S /\ (worker'[w] \in S <=> s \in S) /\ \A x \in Worker : x # w => worker'[x] = worker[x]
        BY <1>1, NoSample DEF ProbeInv
  <2>4. /\ s \in S => Cardinality(In(worker', S)) = c + 1
        /\ s \notin S => Cardinality(In(worker', S)) = c
    <3>1. PICK f, g : f = worker /\ g = worker'
          OBVIOUS
    <3>2. f[w] \notin S /\ (g[w] \in S <=> s \in S) /\ \A x \in Worker : x # w => g[x] = f[x]
          BY <2>3, <3>1, Zenon
    <3>3. /\ s \in S => Cardinality(In(g, S)) = Cardinality(In(f, S)) + 1
          /\ s \notin S => Cardinality(In(g, S)) = Cardinality(In(f, S))
      <4>1. /\ f[w] \notin S /\ g[w] \in S => Cardinality(In(g, S)) = Cardinality(In(f, S)) + 1
            /\ (f[w] \in S <=> g[w] \in S) => Cardinality(In(g, S)) = Cardinality(In(f, S))
        <5>1. \A x \in Worker : x # w => g[x] = f[x]
              BY <3>2, Zenon
        <5>2. \A U : /\ f[w] \in U /\ g[w] \notin U => Cardinality(In(f, U)) = Cardinality(In(g, U)) + 1
                     /\ f[w] \notin U /\ g[w] \in U => Cardinality(In(g, U)) = Cardinality(In(f, U)) + 1
                     /\ (f[w] \in U <=> g[w] \in U) => Cardinality(In(g, U)) = Cardinality(In(f, U))
              BY <5>1, InMoves
        <5> QED  BY <5>2, Zenon
      <4> QED  BY <3>2, <4>1, Zenon
    <3> QED  BY <2>2, <3>1, <3>3
  <2>5. /\ s \in S => Cardinality(Hits(outcomes'[t], S)) = a + 1
        /\ s \notin S => Cardinality(Hits(outcomes'[t], S)) = a
        BY <1>5, <2>2, HitsAppend
  <2> QED  BY <2>1, <2>2, <2>4, <2>5
<1>8. Counted'
  <2>1. Delivered'
        BY <1>1, <1>3, <1>7 DEF Delivered
  <2> QED  BY <1>1, <1>2, <2>1 DEF Counted
<1>9. Ahead'
  <2>1. targets = Both => t = "baseline"
        BY <1>2, <1>3, Current
  <2>2. targets = Alone => t = "gateway"
        BY <1>2, <1>3, Current
  <2>3. targets # <<>>
        BY <1>2 DEF ProbeInv
  <2> QED  BY <1>1, <1>5, <2>1, <2>2, <2>3 DEF ProbeInv, Ahead, Target
<1>10. ReportComplete' /\ ZeroMeansClean'
  <2>1. exit = "running" /\ DOMAIN report \subseteq Target
        BY <1>2, Current DEF ProbeInv, Ahead
  <2>2. \A u \in DOMAIN report : outcomes'[u] = outcomes[u]
        BY <1>3, <1>5, <2>1
  <2>3. \A u \in DOMAIN report : FailuresOf(u)' = FailuresOf(u)
        BY <2>2, FailuresStay
  <2> QED  BY <1>1, <2>1, <2>3 DEF ProbeInv, ReportComplete, ZeroMeansClean
<1> QED  BY <1>1, <1>2, <1>5, <1>6, <1>8, <1>9, <1>10 DEF ProbeInv

LEMMA SendSampleKeeps == ASSUME ProbeInv, NEW w \in Worker, SendSample(w) PROVE ProbeInv'
<1>1. PICK s \in Sample :
         /\ worker[w] = s /\ samples' = Append(samples, s)
         /\ worker' = [worker EXCEPT ![w] = "receive"]
         /\ UNCHANGED <<targets, pc, report, exit, outcomes>>
      BY DEF SendSample
<1>2. pc \in {"feed", "wait"}
      BY <1>1, NoSample DEF ProbeInv, Counted
<1>3. samples' \in Seq(Sample)
      BY <1>1 DEF ProbeInv
<1>4. worker' \in [Worker -> WorkerState]
      BY <1>1 DEF ProbeInv, WorkerState
<1>5. PICK before \in Seq(Sample) : before = samples
      BY DEF ProbeInv
<1>6. ASSUME NEW S \in SUBSET Sample
      PROVE  Cardinality(Hits(samples', S)) + Cardinality(In(worker', S))
                = Cardinality(Hits(samples, S)) + Cardinality(In(worker, S))
  <2>1. PICK b \in Nat, c \in Nat, d \in Nat :
           b = Cardinality(Hits(before, S)) /\ c = Cardinality(In(worker, S)) /\ d = Cardinality(In(worker', S))
        BY HitsCount, InCount
  <2>2. (worker[w] \in S <=> s \in S) /\ worker'[w] \notin S /\ \A x \in Worker : x # w => worker'[x] = worker[x]
        BY <1>1, NoSample DEF ProbeInv
  <2>3. (s \in S => c = d + 1) /\ (s \notin S => d = c)
        BY <2>1, <2>2, InMoves
  <2>4. /\ s \in S => Cardinality(Hits(samples', S)) = b + 1
        /\ s \notin S => Cardinality(Hits(samples', S)) = b
        BY <1>1, <1>5, <2>1, HitsAppend
  <2> QED  BY <1>5, <2>1, <2>3, <2>4
<1>7. Delivered'
  <2> SUFFICES ASSUME NEW S \in SUBSET Sample
               PROVE  Cardinality(Hits(outcomes[Head(targets)], S))
                         = Cardinality(Hits(samples', S)) + Cardinality(In(worker', S))
      BY <1>1 DEF Delivered
  <2>1. Cardinality(Hits(outcomes[Head(targets)], S)) = Cardinality(Hits(samples, S)) + Cardinality(In(worker, S))
        BY <1>2, Current, Zenon DEF Delivered
  <2> QED  BY <1>6, <2>1
<1>8. Counted'
      BY <1>1, <1>2, <1>7 DEF Counted
<1>9. Ahead' /\ ReportComplete' /\ ZeroMeansClean'
      BY <1>1 DEF ProbeInv, Ahead, ReportComplete, ZeroMeansClean, FailuresOf
<1> QED  BY <1>1, <1>2, <1>3, <1>4, <1>8, <1>9 DEF ProbeInv

\* Once every worker is done, all a target's requests met is in the channel.
LEMMA AllDelivered ==
  ASSUME ProbeInv, pc = "wait", AllDone, NEW S \in SUBSET Sample
  PROVE  Cardinality(Hits(outcomes[Head(targets)], S)) = Cardinality(Hits(samples, S))
<1>1. In(worker, S) = {}
      BY NoSample DEF In, AllDone
<1>2. Cardinality(In(worker, S)) = 0
      BY <1>1, FS_EmptySet
<1>3. Cardinality(Hits(outcomes[Head(targets)], S)) = Cardinality(Hits(samples, S)) + Cardinality(In(worker, S))
      BY Current, Zenon DEF Delivered
<1>4. Cardinality(Hits(samples, S)) \in Nat
      BY HitsCount DEF ProbeInv
<1> QED  BY <1>2, <1>3, <1>4

LEMMA CollectKeeps == ASSUME ProbeInv, Collect PROVE ProbeInv'
<1>1. /\ pc = "wait" /\ \A w \in Worker : worker[w] = "done"
      /\ samples' = <<>> /\ worker' = [w \in Worker |-> "off"] /\ UNCHANGED outcomes
      BY DEF Collect, AllDone
<1>2. CASE pc' = "exited" /\ exit' = "1" /\ UNCHANGED <<targets, report>>
  <2>1. \A u : FailuresOf(u)' = FailuresOf(u)
        BY <1>1, FailuresStay
  <2>2. samples' \in Seq(Sample) /\ worker' \in [Worker -> WorkerState] /\ Ahead' /\ Counted'
        BY <1>1, <1>2 DEF ProbeInv, Ahead, Counted, WorkerState
  <2>3. ReportComplete' /\ ZeroMeansClean'
        BY <1>1, <1>2, <2>1 DEF ProbeInv, ReportComplete, ZeroMeansClean
  <2> QED  BY <1>1, <1>2, <2>2, <2>3 DEF ProbeInv
<1>3. CASE /\ targets' = Tail(targets)
           /\ report' = [t \in DOMAIN report \cup {Head(targets)} |->
                 IF t = Head(targets)
                 THEN [errors |-> Cardinality(Errors), stats |-> summarize(Durations)]
                 ELSE report[t]]
           /\ pc' = IF Len(targets) = 1 THEN "report" ELSE "warmup"
           /\ UNCHANGED exit
  <2>1. PICK t \in Target \ DOMAIN report : t = Head(targets)
        BY <1>1, Current
  <2>2. Cardinality(FailuresOf(t)) = Cardinality(Errors)
    <3>1. Cardinality(Hits(outcomes[t], Failed)) = Cardinality(Hits(samples, Failed))
          BY <1>1, <2>1, AllDelivered, SampleAssumption DEF AllDone
    <3> QED  BY <3>1, FailedHits, Zenon
  <2>3. /\ DOMAIN report' = DOMAIN report \cup {t}
        /\ report'[t].errors = Cardinality(Errors)
        /\ \A u \in DOMAIN report : report'[u] = report[u]
        BY <1>3, <2>1
  <2>4. ReportComplete'
    <3>1. \A u : FailuresOf(u)' = FailuresOf(u)
          BY <1>1, FailuresStay
    <3> QED  BY <2>2, <2>3, <3>1 DEF ProbeInv, ReportComplete
  <2>5. \/ targets = Both /\ t = "baseline" /\ targets' = Alone /\ pc' = "warmup"
        \/ targets = Alone /\ t = "gateway" /\ targets' = <<>> /\ pc' = "report"
        BY <1>1, <1>3, <2>1, TargetFacts DEF ProbeInv, Ahead
  <2>6. Ahead'
    <3>1. DOMAIN report' \subseteq Target
          BY <2>3 DEF ProbeInv, Ahead
    <3>2. CASE targets = Both
      <4>1. DOMAIN report' = {"baseline"} /\ targets' = Alone
            BY <2>3, <2>5, <3>2, TargetFacts DEF ProbeInv, Ahead
      <4> QED  BY <3>1, <4>1 DEF Ahead
    <3>3. CASE targets = Alone
      <4>1. targets' = <<>> /\ t = "gateway"
            BY <2>5, <3>3, TargetFacts
      <4>2. "baseline" \notin DOMAIN report => outcomes["baseline"] = <<>>
            BY <3>3, TargetFacts DEF ProbeInv, Ahead
      <4> QED  BY <1>1, <2>3, <3>1, <4>1, <4>2 DEF Ahead
    <3> QED  BY <2>5, <3>2, <3>3
  <2>7. Counted'
    <3>1. targets' = Alone => outcomes["gateway"] = <<>>
          BY <2>5, TargetFacts DEF ProbeInv, Ahead
    <3> QED  BY <1>1, <2>5, <3>1, TargetFacts DEF Counted
  <2>8. ZeroMeansClean' /\ exit' = "running"
        BY <1>1, <1>3 DEF ProbeInv, ZeroMeansClean
  <2>9. worker' \in [Worker -> WorkerState] /\ samples' \in Seq(Sample)
        BY <1>1 DEF WorkerState
  <2> QED  BY <1>1, <2>4, <2>5, <2>6, <2>7, <2>8, <2>9, TargetFacts DEF ProbeInv
<1> QED  BY <1>2, <1>3 DEF Collect, Abort

LEMMA ExitKeeps == ASSUME ProbeInv, Exit PROVE ProbeInv'
<1>1. /\ pc = "report" /\ pc' = "exited" /\ UNCHANGED <<targets, worker, samples, report, outcomes>>
      /\ exit' = "1" \/ (exit' = "0" /\ \A t \in DOMAIN report : report[t].errors = 0)
      BY DEF Exit
<1>2. Ahead' /\ Counted' /\ ReportComplete'
      BY <1>1 DEF ProbeInv, Ahead, Counted, ReportComplete, FailuresOf
<1>3. ZeroMeansClean'
  <2>f. \A u : FailuresOf(u)' = FailuresOf(u)
        BY <1>1, FailuresStay
  <2> SUFFICES ASSUME exit' = "0", NEW t \in DOMAIN outcomes PROVE FailuresOf(t) = {}
      BY <1>1, <2>f DEF ZeroMeansClean
  <2>1. PICK o \in Seq(Sample) : o = outcomes[t]
        BY DEF ProbeInv
  <2>2. t \in Target /\ targets = <<>> /\ "gateway" \in DOMAIN report
        BY <1>1, TargetFacts DEF ProbeInv, Ahead
  <2>3. CASE t \in DOMAIN report
    <3>1. Cardinality(FailuresOf(t)) = 0
          BY <1>1, <2>3 DEF ProbeInv, ReportComplete
    <3>2. FailuresOf(t) = Hits(o, Failed) /\ IsFiniteSet(Hits(o, Failed))
          BY <2>1, FailedHits, HitsCount
    <3> QED  BY <3>1, <3>2, FS_EmptySet
  <2>4. CASE t \notin DOMAIN report
    <3>1. o = <<>>
          BY <2>1, <2>2, <2>4, TargetFacts DEF ProbeInv, Ahead, Target
    <3> QED  BY <2>1, <3>1, FailedHits, NoHits
  <2> QED  BY <2>3, <2>4
<1> QED  BY <1>1, <1>2, <1>3 DEF ProbeInv

LEMMA ProbeInvCorrect == Spec => []ProbeInv
<1>1. ProbeInv /\ [Next]_vars => ProbeInv'
  <2> SUFFICES ASSUME ProbeInv, [Next]_vars PROVE ProbeInv'
      OBVIOUS
  <2>1. CASE UNCHANGED vars
    <3>1. UNCHANGED <<targets, pc, worker, samples, report, exit, outcomes>>
          BY <2>1 DEF vars
    <3> QED  BY <3>1 DEF ProbeInv, Ahead, Counted, Delivered, Hits, In, ReportComplete, ZeroMeansClean, FailuresOf
  <2> QED  BY <2>1, WarmUpKeeps, SpawnKeeps, FeedKeeps, CloseJobsKeeps, ProbeKeeps, SendSampleKeeps,
           CollectKeeps, ExitKeeps DEF Next, Main
<1> QED  BY <1>1, ProbeInvInit, PTL DEF Spec

\* Every failure of a target is in its report, whichever of any number of
\* goroutines met it (main.go:254-298).
THEOREM ReportsAreComplete == Spec => []ReportComplete
<1>1. ProbeInv => ReportComplete
      BY DEF ProbeInv
<1> QED  BY <1>1, ProbeInvCorrect, PTL

\* Exit code 0 means that no measured request failed, with or without a
\* baseline (main.go:153-156).
THEOREM ZeroIsClean == Spec => []ZeroMeansClean
<1>1. ProbeInv => ZeroMeansClean
      BY DEF ProbeInv
<1> QED  BY <1>1, ProbeInvCorrect, PTL

---------------------------------------------------------------------------
(* The channel of samples.                                                 *)

\* The workers with a job or a sample in hand.
InHand == {w \in Worker : worker[w] \in Sample \cup {"probe"}}

\* Every request handed out is in the hands of one worker or is a sample in
\* the channel.
Conserved ==
    /\ count \in Nat
    /\ pc \in {"feed", "wait"} => count <= Requests /\ Len(samples) + Cardinality(InHand) = count
    /\ pc = "wait" => count = Requests

LEMMA InHandFinite ==
  ASSUME ProbeInv
  PROVE  IsFiniteSet(InHand) /\ Cardinality(InHand) \in Nat /\ Len(samples) \in Nat
<1>1. InHand \in SUBSET Worker
      BY DEF InHand
<1>2. IsFiniteSet(InHand) /\ Cardinality(InHand) \in Nat
      BY <1>1, FS_Subset, FS_CardinalityType DEF ProbeAssumption
<1> QED  BY <1>2 DEF ProbeInv

\* A worker takes a job, or gives its sample away: one hand more, one less.
LEMMA FeedConserves == ASSUME ProbeInv, Conserved, NEW w \in Worker, Feed(w) PROVE Conserved'
<1>1. /\ pc = "feed" /\ count < Requests /\ worker[w] = "receive" /\ count' = count + 1
      /\ worker' = [worker EXCEPT ![w] = "probe"] /\ UNCHANGED <<pc, samples>>
      BY DEF Feed
<1>2. w \notin InHand /\ InHand' = InHand \cup {w}
      BY <1>1, NoSample DEF ProbeInv, InHand, WorkerState
<1>3. Cardinality(InHand \cup {w}) = Cardinality(InHand) + 1
      BY <1>2, InHandFinite, FS_AddElement, Zenon
<1>4. Cardinality(InHand') = Cardinality(InHand) + 1
      BY <1>2, <1>3
<1>5. Len(samples) + Cardinality(InHand) = count /\ count \in Nat
      BY <1>1 DEF Conserved
<1>6. Len(samples) + Cardinality(InHand') = count' /\ count' \in Nat /\ count' <= Requests
      BY <1>1, <1>4, <1>5, InHandFinite DEF ProbeAssumption
<1> QED  BY <1>1, <1>6 DEF Conserved

LEMMA SendSampleConserves ==
  ASSUME ProbeInv, Conserved, NEW w \in Worker, SendSample(w) PROVE Conserved'
<1>1. PICK s \in Sample :
         /\ worker[w] = s /\ samples' = Append(samples, s)
         /\ worker' = [worker EXCEPT ![w] = "receive"] /\ UNCHANGED <<pc, count>>
      BY DEF SendSample
<1>2. pc \in {"feed", "wait"}
      BY <1>1, NoSample DEF ProbeInv, Counted
<1>3. w \in InHand /\ InHand' = InHand \ {w}
      BY <1>1, NoSample DEF ProbeInv, InHand, WorkerState
<1>4. Cardinality(InHand \ {w}) = Cardinality(InHand) - 1
      BY <1>3, InHandFinite, FS_RemoveElement, Zenon
<1>5. Len(samples') = Len(samples) + 1
      BY <1>1 DEF ProbeInv
<1>6. Cardinality(InHand') = Cardinality(InHand) - 1
      BY <1>3, <1>4
<1>7. Len(samples') + Cardinality(InHand') = Len(samples) + Cardinality(InHand)
      BY <1>5, <1>6, InHandFinite
<1> QED  BY <1>1, <1>2, <1>7 DEF Conserved

LEMMA ConservedNext == ProbeInv /\ Conserved /\ [Next]_vars => Conserved'
<1> SUFFICES ASSUME ProbeInv, Conserved, [Next]_vars PROVE Conserved'
    OBVIOUS
<1>1. CASE WarmUp
  <2>1. count' = count + 1 /\ pc' \in {"warmup", "exited"}
        BY <1>1 DEF WarmUp, Abort
  <2> QED  BY <2>1 DEF Conserved
<1>2. CASE Spawn
  <2>1. /\ pc = "warmup" /\ pc' = "feed" /\ count' = 0 /\ samples' = samples
        /\ worker' = [w \in Worker |-> "receive"]
        BY <1>2 DEF Spawn
  <2>2. samples = <<>>
        BY <2>1 DEF ProbeInv, Counted
  <2>3. InHand' = {}
        BY <2>1, NoSample DEF InHand
  <2>4. Cardinality(InHand') = 0
        BY <2>3, FS_EmptySet
  <2> QED  BY <2>1, <2>2, <2>4 DEF Conserved, ProbeAssumption
<1>3. ASSUME NEW w \in Worker, Probe(w) PROVE Conserved'
  <2>1. PICK s \in Sample :
           worker[w] = "probe" /\ worker' = [worker EXCEPT ![w] = s] /\ UNCHANGED <<pc, count, samples>>
        BY <1>3 DEF Probe
  <2>2. InHand' = InHand
        BY <2>1, NoSample DEF ProbeInv, InHand, WorkerState
  <2> QED  BY <2>1, <2>2 DEF Conserved
<1>4. ASSUME NEW w \in Worker, Finish(w) PROVE Conserved'
  <2>1. worker[w] = "receive" /\ worker' = [worker EXCEPT ![w] = "done"] /\ UNCHANGED <<pc, count, samples>>
        BY <1>4 DEF Finish
  <2>2. InHand' = InHand
        BY <2>1, NoSample DEF ProbeInv, InHand, WorkerState
  <2> QED  BY <2>1, <2>2 DEF Conserved
<1>5. CASE CloseJobs
  <2>1. pc = "feed" /\ count = Requests /\ UNCHANGED <<count, worker, samples>> /\ pc' = "wait"
        BY <1>5 DEF CloseJobs
  <2>2. InHand' = InHand
        BY <2>1 DEF InHand
  <2> QED  BY <2>1, <2>2 DEF Conserved
<1>6. CASE Collect
  <2>1. count' = 0 /\ pc' \in {"exited", "report", "warmup"}
        BY <1>6 DEF Collect, Abort
  <2> QED  BY <2>1 DEF Conserved
<1>7. CASE Exit
      BY <1>7 DEF Exit, Conserved
<1>8. CASE UNCHANGED vars
      BY <1>8 DEF vars, Conserved, InHand
<1> QED  BY <1>1, <1>2, <1>3, <1>4, <1>5, <1>6, <1>7, <1>8, FeedConserves, SendSampleConserves DEF Next, Main

LEMMA ConservedCorrect == Spec => [](ProbeInv /\ Conserved)
<1>1. Init => Conserved
      BY DEF Init, Conserved
<1> QED  BY <1>1, ConservedNext, ProbeInvCorrect, PTL DEF Spec

\* No worker ever waits for room in the channel, although nobody reads it
\* until all of them are done: with any number of workers and requests, the
\* wait of measureTarget for them cannot deadlock (main.go:254-271).
THEOREM WorkersNeverBlock ==
  Spec => [](\A w \in Worker : worker[w] \in Sample => Len(samples) < Capacity)
<1>1. ProbeInv /\ Conserved => \A w \in Worker : worker[w] \in Sample => Len(samples) < Capacity
  <2> SUFFICES ASSUME ProbeInv, Conserved, NEW w \in Worker, worker[w] \in Sample
               PROVE  Len(samples) < Requests
      BY DEF Capacity
  <2>1. pc \in {"feed", "wait"}
        BY NoSample DEF ProbeInv, Counted
  <2>2. Len(samples) + Cardinality(InHand) = count /\ count <= Requests /\ count \in Nat
        BY <2>1 DEF Conserved
  <2>3. InHand # {}
        BY DEF InHand
  <2>4. Cardinality(InHand) # 0
        BY <2>3, InHandFinite, FS_EmptySet
  <2> QED  BY <2>2, <2>4, InHandFinite DEF ProbeAssumption
<1> QED  BY <1>1, ConservedCorrect, PTL

\* What is collected is the whole of the requests, one sample each: none is
\* lost with a worker, none is counted twice (main.go:254-276).
THEOREM EveryRequestCollected ==
  Spec => [](pc = "wait" /\ AllDone => Len(samples) = Requests)
<1>1. ProbeInv /\ Conserved => (pc = "wait" /\ AllDone => Len(samples) = Requests)
  <2> SUFFICES ASSUME ProbeInv, Conserved, pc = "wait", AllDone PROVE Len(samples) = Requests
      OBVIOUS
  <2>1. InHand = {}
        BY NoSample DEF AllDone, InHand
  <2>2. Cardinality(InHand) = 0
        BY <2>1, FS_EmptySet
  <2>3. Len(samples) + Cardinality(InHand) = Requests
        BY DEF Conserved
  <2> QED  BY <2>2, <2>3, InHandFinite
<1> QED  BY <1>1, ConservedCorrect, PTL

---------------------------------------------------------------------------
(* What Terminates rests on: a step is possible until the end, and every   *)
(* step brings the end nearer.                                             *)

\* How far the main goroutine is from its end.
Stage ==
    CASE pc = "warmup" -> 3 * Len(targets) + 1
      [] pc = "feed"   -> 3 * Len(targets)
      [] pc = "wait"   -> 3 * Len(targets) - 1
      [] pc = "report" -> 1
      [] OTHER         -> 0

\* What is left to do until it gets there: requests to hand out, to make, and
\* to give account of, and workers to let go.
Left ==
    CASE pc = "warmup" -> Warmup - count
      [] pc \in {"feed", "wait"} ->
             3 * (Requests - count) + 2 * Cardinality(In(worker, {"probe"}))
                + Cardinality(In(worker, Sample)) + Cardinality(In(worker, WorkerState \ {"done"}))
      [] OTHER -> 0

\* Where the goroutines are in each stage.
Staffed ==
    /\ pc \in {"warmup", "feed", "wait", "report", "exited"}
    /\ pc = "warmup" => count \in 0..Warmup
    /\ pc \in {"feed", "wait"} => count \in 0..Requests
    /\ pc = "feed" => \A w \in Worker : worker[w] \in Sample \cup {"receive", "probe"}
    /\ pc = "wait" => count = Requests /\ \A w \in Worker : worker[w] # "off"

\* Some goroutine can take its step, by the guards of the actions.
CanMove ==
    \/ pc = "warmup" /\ count <= Warmup
    \/ pc = "feed" /\ count < Requests /\ \E w \in Worker : worker[w] = "receive"
    \/ pc = "feed" /\ count = Requests
    \/ \E w \in Worker : worker[w] = "probe"
    \/ \E w \in Worker : worker[w] \in Sample /\ Len(samples) < Capacity
    \/ pc = "wait" /\ \E w \in Worker : worker[w] = "receive"
    \/ pc = "wait" /\ AllDone
    \/ pc = "report"

\* Either the stage is a later one, or less is left of this one.
Nearer == Stage' < Stage \/ (Stage' = Stage /\ Left' < Left)
\* What a worker's step does to the three counts, by numbers.
Counts(a, b, c, d, e, f) ==
    /\ a = Cardinality(In(worker, {"probe"})) /\ d = Cardinality(In(worker', {"probe"}))
    /\ b = Cardinality(In(worker, Sample)) /\ e = Cardinality(In(worker', Sample))
    /\ c = Cardinality(In(worker, WorkerState \ {"done"}))
    /\ f = Cardinality(In(worker', WorkerState \ {"done"}))

Moves(w, v, a, b, c, d, e, f) ==
    /\ worker[w] = "receive" /\ v = "probe" => d = a + 1 /\ e = b /\ f = c
    /\ worker[w] = "probe" /\ v \in Sample => a = d + 1 /\ e = b + 1 /\ f = c
    /\ worker[w] \in Sample /\ v = "receive" => d = a /\ b = e + 1 /\ f = c
    /\ worker[w] = "receive" /\ v = "done" => d = a /\ e = b /\ c = f + 1

LEMMA HandsCount ==
  ASSUME ProbeInv, NEW w \in Worker, NEW v \in WorkerState, worker' = [worker EXCEPT ![w] = v]
  PROVE  \E a, b, c, d, e, f \in Nat : Counts(a, b, c, d, e, f) /\ Moves(w, v, a, b, c, d, e, f)
<1>n. PICK a \in Nat, b \in Nat, c \in Nat, d \in Nat, e \in Nat, f \in Nat : Counts(a, b, c, d, e, f)
  <2>1. \A g, S : Cardinality(In(g, S)) \in Nat
        BY InCount, Zenon
  <2> QED  BY <2>1 DEF Counts
<1>1. worker \in [Worker -> WorkerState]
      BY DEF ProbeInv, WorkerState
<1>2. PICK g, h : g = worker' /\ h = worker
      OBVIOUS
<1>3. g[w] = v /\ \A x \in Worker : x # w => g[x] = h[x]
      BY <1>1, <1>2
<1>u. \A S : /\ h[w] \in S /\ g[w] \notin S => Cardinality(In(h, S)) = Cardinality(In(g, S)) + 1
             /\ h[w] \notin S /\ g[w] \in S => Cardinality(In(g, S)) = Cardinality(In(h, S)) + 1
             /\ (h[w] \in S <=> g[w] \in S) => Cardinality(In(g, S)) = Cardinality(In(h, S))
      BY <1>3, InMoves
<1>e. /\ a = Cardinality(In(h, {"probe"})) /\ d = Cardinality(In(g, {"probe"}))
      /\ b = Cardinality(In(h, Sample)) /\ e = Cardinality(In(g, Sample))
      /\ c = Cardinality(In(h, WorkerState \ {"done"}))
      /\ f = Cardinality(In(g, WorkerState \ {"done"}))
      BY <1>n, <1>2, Zenon DEF Counts
<1>4. /\ h[w] \in {"probe"} /\ g[w] \notin {"probe"} => a = d + 1
      /\ h[w] \notin {"probe"} /\ g[w] \in {"probe"} => d = a + 1
      /\ (h[w] \in {"probe"} <=> g[w] \in {"probe"}) => d = a
      BY <1>e, <1>u, Zenon
<1>5. /\ h[w] \in Sample /\ g[w] \notin Sample => b = e + 1
      /\ h[w] \notin Sample /\ g[w] \in Sample => e = b + 1
      /\ (h[w] \in Sample <=> g[w] \in Sample) => e = b
      BY <1>e, <1>u, Zenon
<1>6. /\ h[w] \in WorkerState \ {"done"} /\ g[w] \notin WorkerState \ {"done"} => c = f + 1
      /\ (h[w] \in WorkerState \ {"done"} <=> g[w] \in WorkerState \ {"done"}) => f = c
      BY <1>e, <1>u, Zenon
<1>7. "receive" \notin Sample /\ "probe" \notin Sample /\ "done" \notin Sample
      BY NoSample
<1>8. /\ worker[w] \in WorkerState /\ "done" \notin WorkerState \ {"done"}
      /\ {"receive", "probe"} \cup Sample \subseteq WorkerState \ {"done"}
      BY <1>1, <1>7 DEF WorkerState
<1>a. ASSUME worker[w] = "receive", v = "probe" PROVE d = a + 1 /\ e = b /\ f = c
      BY <1>a, <1>2, <1>3, <1>4, <1>5, <1>6, <1>7, <1>8
<1>b. ASSUME worker[w] = "probe", v \in Sample PROVE a = d + 1 /\ e = b + 1 /\ f = c
      BY <1>b, <1>2, <1>3, <1>4, <1>5, <1>6, <1>7, <1>8
<1>c. ASSUME worker[w] \in Sample, v = "receive" PROVE d = a /\ b = e + 1 /\ f = c
      BY <1>c, <1>2, <1>3, <1>4, <1>5, <1>6, <1>7, <1>8
<1>d. ASSUME worker[w] = "receive", v = "done" PROVE d = a /\ e = b /\ c = f + 1
      BY <1>d, <1>2, <1>3, <1>4, <1>5, <1>6, <1>7, <1>8
<1>9. Moves(w, v, a, b, c, d, e, f)
      BY <1>a, <1>b, <1>c, <1>d, Zenon DEF Moves
<1> QED  BY <1>n, <1>9

LEMMA TargetsLeft ==
  ASSUME ProbeInv
  PROVE  /\ Len(targets) \in {0, 1, 2}
         /\ pc \in {"warmup", "feed", "wait"} => Len(targets) \in {1, 2}
         /\ targets # <<>> => Len(Tail(targets)) + 1 = Len(targets)
  BY TargetFacts DEF ProbeInv, Ahead

\* While requests are made, a worker's step leaves less to do.
LEMMA WorkerNearer ==
  ASSUME ProbeInv, Staffed, NEW w \in Worker, NEW v \in WorkerState, pc \in {"feed", "wait"},
         UNCHANGED <<pc, targets>>, worker' = [worker EXCEPT ![w] = v],
         \/ worker[w] = "receive" /\ v = "probe" /\ count < Requests /\ count' = count + 1
         \/ worker[w] = "probe" /\ v \in Sample /\ count' = count
         \/ worker[w] \in Sample /\ v = "receive" /\ count' = count
         \/ worker[w] = "receive" /\ v = "done" /\ count' = count
  PROVE  Nearer
<1>1. Stage' = Stage
      BY DEF Stage
<1>2. PICK a, b, c, d, e, f \in Nat : Counts(a, b, c, d, e, f) /\ Moves(w, v, a, b, c, d, e, f)
      BY HandsCount
<1>3. /\ Left = 3 * (Requests - count) + 2 * a + b + c
      /\ Left' = 3 * (Requests - count') + 2 * d + e + f
      BY <1>2 DEF Left, Counts
<1>4. count \in Nat /\ Requests \in Nat
      BY DEF Staffed, ProbeAssumption
<1>5. 3 * (Requests - count') + 2 * d + e + f < 3 * (Requests - count) + 2 * a + b + c
      BY <1>2, <1>4 DEF Moves
<1> QED  BY <1>1, <1>3, <1>5 DEF Nearer

LEMMA StepsNearer == ASSUME ProbeInv, Staffed, Next PROVE Nearer
<1>l. Len(targets) \in {0, 1, 2} /\ (pc \in {"warmup", "feed", "wait"} => Len(targets) \in {1, 2})
      BY TargetsLeft
<1>1. CASE WarmUp
  <2>1. pc = "warmup" /\ count < Warmup /\ count' = count + 1 /\ targets' = targets
        BY <1>1 DEF WarmUp
  <2>2. CASE pc' = "exited"
    <3>1. Stage = 3 * Len(targets) + 1 /\ Stage' = 0
          BY <2>1, <2>2 DEF Stage
    <3> QED  BY <1>l, <3>1 DEF Nearer
  <2>3. CASE pc' = pc
    <3>1. Stage' = Stage /\ Left = Warmup - count /\ Left' = Warmup - count'
          BY <2>1, <2>3 DEF Stage, Left
    <3>2. Left' < Left
          BY <2>1, <3>1 DEF Staffed, ProbeAssumption
    <3> QED  BY <3>1, <3>2 DEF Nearer
  <2> QED  BY <1>1, <2>2, <2>3 DEF WarmUp, Abort
<1>2. CASE Spawn
  <2>1. Stage = 3 * Len(targets) + 1 /\ Stage' = 3 * Len(targets)
        BY <1>2 DEF Spawn, Stage
  <2> QED  BY <1>l, <2>1 DEF Nearer
<1>3. CASE CloseJobs
  <2>1. Stage = 3 * Len(targets) /\ Stage' = 3 * Len(targets) - 1
        BY <1>3 DEF CloseJobs, Stage
  <2> QED  BY <1>l, <2>1 DEF Nearer
<1>4. CASE Collect
  <2>1. pc = "wait" /\ Stage = 3 * Len(targets) - 1 /\ Len(targets) \in {1, 2}
        BY <1>4, <1>l DEF Collect, Stage
  <2>2. CASE pc' = "exited"
    <3>1. Stage' = 0
          BY <2>2 DEF Stage
    <3> QED  BY <2>1, <3>1 DEF Nearer
  <2>3. CASE targets' = Tail(targets) /\ pc' = IF Len(targets) = 1 THEN "report" ELSE "warmup"
    <3>1. targets # <<>> /\ Len(targets') + 1 = Len(targets)
          BY <2>1, <2>3, TargetsLeft DEF ProbeInv
    <3>2. Len(targets) = 1 => Stage' = 1
          BY <2>3 DEF Stage
    <3>3. Len(targets) = 2 => Stage' = 4
      <4> HAVE Len(targets) = 2
      <4>1. Len(targets') = 1
        <5>1. targets = Both
              BY TargetFacts DEF ProbeInv, Ahead
        <5>2. Tail(targets) = Alone
              BY <5>1, TargetFacts, Zenon
        <5>3. targets' = Alone
              BY <2>3, <5>2, Zenon
        <5> QED  BY <5>3, TargetFacts, Zenon
      <4>2. pc' = "warmup"
            BY <2>3
      <4>3. Stage' = 3 * Len(targets') + 1
            BY <4>2 DEF Stage
      <4>4. Stage' = 3 * 1 + 1
            BY <4>1, <4>3, Zenon
      <4> QED  BY <4>4
    <3> QED  BY <2>1, <3>2, <3>3 DEF Nearer
  <2> QED  BY <1>4, <2>2, <2>3 DEF Collect, Abort
<1>5. CASE Exit
  <2>1. Stage = 1 /\ Stage' = 0
        BY <1>5 DEF Exit, Stage
  <2> QED  BY <2>1 DEF Nearer
<1>6. ASSUME NEW w \in Worker, Feed(w) PROVE Nearer
      BY <1>6, WorkerNearer DEF Feed, WorkerState
<1>7. ASSUME NEW w \in Worker, Probe(w) PROVE Nearer
  <2>1. PICK s \in Sample : worker[w] = "probe" /\ worker' = [worker EXCEPT ![w] = s]
                            /\ UNCHANGED <<targets, pc, count>>
        BY <1>7 DEF Probe
  <2>2. pc \in {"feed", "wait"}
        BY <2>1 DEF ProbeInv, Counted
  <2> QED  BY <2>1, <2>2, WorkerNearer DEF WorkerState
<1>8. ASSUME NEW w \in Worker, SendSample(w) PROVE Nearer
  <2>1. worker[w] \in Sample /\ worker' = [worker EXCEPT ![w] = "receive"] /\ UNCHANGED <<targets, pc, count>>
        BY <1>8 DEF SendSample
  <2>2. pc \in {"feed", "wait"}
        BY <2>1, NoSample DEF ProbeInv, Counted
  <2> QED  BY <2>1, <2>2, WorkerNearer DEF WorkerState
<1>9. ASSUME NEW w \in Worker, Finish(w) PROVE Nearer
      BY <1>9, WorkerNearer DEF Finish, WorkerState
<1> QED  BY <1>1, <1>2, <1>3, <1>4, <1>5, <1>6, <1>7, <1>8, <1>9 DEF Next, Main

LEMMA StaffedNext == ProbeInv /\ Staffed /\ [Next]_vars => Staffed'
<1> SUFFICES ASSUME ProbeInv, Staffed, [Next]_vars PROVE Staffed'
    OBVIOUS
<1>w. worker \in [Worker -> WorkerState]
      BY DEF ProbeInv
<1>1. CASE WarmUp
      BY <1>1 DEF WarmUp, Abort, Staffed, ProbeAssumption
<1>2. CASE Spawn
      BY <1>2 DEF Spawn, Staffed, ProbeAssumption
<1>3. CASE CloseJobs
      BY <1>3, NoSample DEF CloseJobs, Staffed
<1>4. CASE Collect
  <2>1. pc' \in {"exited", "report", "warmup"} /\ count' = 0
        BY <1>4 DEF Collect, Abort
  <2> QED  BY <2>1 DEF Staffed, ProbeAssumption
<1>5. CASE Exit
      BY <1>5 DEF Exit, Staffed
<1>6. ASSUME NEW w \in Worker, Feed(w) \/ Finish(w) PROVE Staffed'
      BY <1>6, <1>w DEF Feed, Finish, Staffed, ProbeAssumption
<1>7. ASSUME NEW w \in Worker, Probe(w) \/ SendSample(w) PROVE Staffed'
  <2>1. /\ UNCHANGED <<pc, count>> /\ worker[w] # "off"
        /\ \E s \in Sample \cup {"receive"} : worker' = [worker EXCEPT ![w] = s]
        BY <1>7, NoSample DEF Probe, SendSample
  <2>2. \A x \in Worker : worker'[x] = worker[x] \/ worker'[x] \in Sample \cup {"receive"}
        BY <1>w, <2>1
  <2> QED  BY <2>1, <2>2, NoSample DEF Staffed
<1>8. CASE UNCHANGED vars
      BY <1>8 DEF vars, Staffed
<1> QED  BY <1>1, <1>2, <1>3, <1>4, <1>5, <1>6, <1>7, <1>8 DEF Next, Main

\* The safety half of Terminates: for any number of workers and requests some
\* goroutine can move until the program is over, and each step of any of them
\* brings the end nearer, by a measure in the natural numbers: no schedule is
\* endless and none gets stuck (main.go:254-276).
THEOREM EveryStepIsProgress ==
  Spec => /\ [](pc # "exited" => CanMove)
          /\ [](Stage \in Nat /\ Left \in Nat)
          /\ [][Nearer]_vars
<1>1. Init => Staffed
      BY DEF Init, Staffed, ProbeAssumption
<1>2. ASSUME ProbeInv, Staffed, pc # "exited",
             \A w \in Worker : worker[w] \in Sample => Len(samples) < Capacity
      PROVE  CanMove
  <2>1. CASE pc = "warmup"
        BY <1>2, <2>1 DEF Staffed, CanMove, ProbeAssumption
  <2>2. CASE pc = "feed"
    <3>1. PICK w \in Worker : worker[w] \in Sample \cup {"receive", "probe"}
          BY <1>2, <2>2 DEF Staffed, ProbeAssumption
    <3>2. count < Requests \/ count = Requests
          BY <1>2, <2>2 DEF Staffed, ProbeAssumption
    <3> QED  BY <1>2, <2>2, <3>1, <3>2 DEF CanMove
  <2>3. CASE pc = "wait"
    <3>1. CASE AllDone
          BY <2>3, <3>1 DEF CanMove
    <3>2. CASE ~AllDone
      <4>1. PICK w \in Worker : worker[w] \in Sample \cup {"receive", "probe"}
            BY <1>2, <2>3, <3>2 DEF AllDone, Staffed, ProbeInv, WorkerState
      <4> QED  BY <1>2, <2>3, <4>1 DEF CanMove
    <3> QED  BY <3>1, <3>2
  <2> QED  BY <1>2, <2>1, <2>2, <2>3 DEF Staffed, CanMove
<1>3. ASSUME ProbeInv, Staffed PROVE Stage \in Nat /\ Left \in Nat
  <2>1. Stage \in Nat
    <3>1. Len(targets) \in {0, 1, 2} /\ (pc \in {"warmup", "feed", "wait"} => Len(targets) \in {1, 2})
          BY <1>3, TargetsLeft
    <3>2. PICK n : n = Len(targets)
          OBVIOUS
    <3>n. n \in Nat /\ (pc \in {"warmup", "feed", "wait"} => n > 0)
      <4>1. n \in {0, 1, 2} /\ (pc \in {"warmup", "feed", "wait"} => n \in {1, 2})
            BY <3>1, <3>2, Zenon
      <4> QED  BY <4>1
    <3>3. CASE pc = "warmup"
      <4>1. Stage = 3 * n + 1
            BY <3>2, <3>n, <3>3 DEF Stage
      <4> QED  BY <3>n, <4>1
    <3>4. CASE pc = "feed"
      <4>1. Stage = 3 * n
            BY <3>2, <3>n, <3>4 DEF Stage
      <4> QED  BY <3>n, <4>1
    <3>5. CASE pc = "wait"
      <4>1. Stage = 3 * n - 1 /\ n > 0
            BY <3>2, <3>n, <3>5 DEF Stage
      <4> QED  BY <3>n, <4>1
    <3>6. CASE pc \notin {"warmup", "feed", "wait"}
          BY <3>6 DEF Stage
    <3> QED  BY <3>3, <3>4, <3>5, <3>6
  <2>2. Left \in Nat
    <3>1. PICK a \in Nat, b \in Nat, c \in Nat :
             /\ a = Cardinality(In(worker, {"probe"})) /\ b = Cardinality(In(worker, Sample))
             /\ c = Cardinality(In(worker, WorkerState \ {"done"}))
          BY InCount
    <3>2. pc \in {"feed", "wait"} => Left = 3 * (Requests - count) + 2 * a + b + c
          BY <3>1 DEF Left
    <3>3. pc \in {"feed", "wait"} => 3 * (Requests - count) + 2 * a + b + c \in Nat
          BY <1>3 DEF Staffed, ProbeAssumption
    <3>4. pc = "warmup" => Left = Warmup - count /\ Warmup - count \in Nat
          BY <1>3 DEF Left, Staffed, ProbeAssumption
    <3>5. pc \notin {"warmup", "feed", "wait"} => Left = 0
          BY DEF Left
    <3> QED  BY <3>2, <3>3, <3>4, <3>5
  <2> QED  BY <2>1, <2>2
<1>4. ProbeInv /\ Staffed /\ [Next]_vars => [Nearer]_vars
      BY StepsNearer
<1> QED  BY <1>1, <1>2, <1>3, <1>4, StaffedNext, ProbeInvCorrect, WorkersNeverBlock, PTL DEF Spec
---------------------------------------------------------------------------
(* The order of the durations.                                             *)

\* The values no later in order than the i-th.
UpTo(values, i) ==
    {j \in DOMAIN values :
        values[j] < values[i] \/ (values[j] = values[i] /\ j <= i)}

\* Durations, by their places in the channel.
IsDurations(values, D) == IsFiniteSet(D) /\ D \subseteq Nat /\ values \in [D -> Nat]

\* 1..n has n members.
LEMMA Initial ==
  ASSUME NEW n \in Nat
  PROVE  IsFiniteSet(1..n) /\ Cardinality(1..n) = n
<1>1. 1 \in Int /\ n \in Int /\ (IF 1 > n THEN 0 ELSE n - 1 + 1) = n
      OBVIOUS
<1>2. IsFiniteSet(1..n) /\ Cardinality(1..n) = IF 1 > n THEN 0 ELSE n - 1 + 1
      BY <1>1, FS_Interval, Zenon
<1> QED  BY <1>1, <1>2

LEMMA RankInRange ==
  ASSUME NEW D, NEW values, IsDurations(values, D), NEW i \in D
  PROVE  /\ IsFiniteSet(UpTo(values, i)) /\ i \in UpTo(values, i)
         /\ Rank(values, i) = Cardinality(UpTo(values, i))
         /\ Rank(values, i) \in 1..Cardinality(D)
<1>1. PICK n \in Nat : n = Cardinality(D)
      BY FS_CardinalityType DEF IsDurations
<1>2. UpTo(values, i) \in SUBSET D
      BY DEF UpTo, IsDurations
<1>3. i \in UpTo(values, i)
      BY DEF UpTo, IsDurations
<1>4. /\ IsFiniteSet(UpTo(values, i)) /\ Cardinality(UpTo(values, i)) <= n
      /\ Cardinality(UpTo(values, i)) \in Nat
  <2>1. IsFiniteSet(UpTo(values, i)) /\ Cardinality(UpTo(values, i)) <= Cardinality(D)
        BY <1>2, FS_Subset, Zenon DEF IsDurations
  <2> QED  BY <1>1, <2>1, FS_CardinalityType
<1>5. Cardinality(UpTo(values, i)) # 0
      BY <1>3, <1>4, FS_EmptySet
<1>6. Rank(values, i) = Cardinality(UpTo(values, i))
      BY DEF Rank, UpTo
<1> QED  BY <1>1, <1>3, <1>4, <1>5, <1>6

\* What comes later has a higher rank.
LEMMA RankGrows ==
  ASSUME NEW D, NEW values, IsDurations(values, D), NEW i \in D, NEW k \in D,
         values[i] < values[k] \/ (values[i] = values[k] /\ i < k)
  PROVE  Rank(values, i) < Rank(values, k)
<1>1. UpTo(values, i) \in SUBSET UpTo(values, k)
  <2> SUFFICES ASSUME NEW j \in UpTo(values, i) PROVE j \in UpTo(values, k)
      OBVIOUS
  <2>1. j \in D /\ (values[j] < values[i] \/ (values[j] = values[i] /\ j <= i))
        BY DEF UpTo, IsDurations
  <2>2. i \in Nat /\ j \in Nat /\ k \in Nat /\ values[i] \in Nat /\ values[j] \in Nat /\ values[k] \in Nat
        BY <2>1 DEF IsDurations
  <2>3. values[j] < values[k] \/ (values[j] = values[k] /\ j <= k)
        BY <2>1, <2>2
  <2> QED  BY <2>1, <2>3 DEF UpTo, IsDurations
<1>2. k \in UpTo(values, k) \ UpTo(values, i)
  <2>1. k \in UpTo(values, k)
        BY RankInRange
  <2>2. k \notin UpTo(values, i)
        BY DEF UpTo, IsDurations
  <2> QED  BY <2>1, <2>2
<1>3. /\ Cardinality(UpTo(values, i)) <= Cardinality(UpTo(values, k))
      /\ Cardinality(UpTo(values, i)) # Cardinality(UpTo(values, k))
      BY <1>1, <1>2, RankInRange, FS_Subset
<1>4. PICK a \in Nat, b \in Nat :
         /\ a = Cardinality(UpTo(values, i)) /\ a = Rank(values, i)
         /\ b = Cardinality(UpTo(values, k)) /\ b = Rank(values, k)
  <2>1. /\ IsFiniteSet(UpTo(values, i)) /\ Rank(values, i) = Cardinality(UpTo(values, i))
        /\ IsFiniteSet(UpTo(values, k)) /\ Rank(values, k) = Cardinality(UpTo(values, k))
        BY RankInRange
  <2> QED  BY <2>1, FS_CardinalityType
<1> QED  BY <1>3, <1>4

\* Ranks are places: each of 1..n is the rank of exactly one value.
LEMMA RanksArePlaces ==
  ASSUME NEW D, NEW values, IsDurations(values, D), NEW n \in Nat, n = Cardinality(D)
  PROVE  /\ \A i, k \in D : Rank(values, i) = Rank(values, k) => i = k
         /\ \A k \in 1..n : \E i \in D : Rank(values, i) = k
<1> DEFINE rank == [i \in D |-> Rank(values, i)]
<1>1. ASSUME NEW i \in D, NEW k \in D, Rank(values, i) = Rank(values, k) PROVE i = k
  <2>1. Rank(values, i) \in Nat
    <3>1. Rank(values, i) \in 1..n
          BY RankInRange
    <3> QED  BY <3>1
  <2>2. ~(Rank(values, i) < Rank(values, k)) /\ ~(Rank(values, k) < Rank(values, i))
        BY <1>1, <2>1
  <2>3. /\ ~(values[i] < values[k] \/ (values[i] = values[k] /\ i < k))
        /\ ~(values[k] < values[i] \/ (values[k] = values[i] /\ k < i))
        BY <2>2, RankGrows
  <2> QED  BY <2>3 DEF IsDurations
<1>2. rank \in Injection(D, 1..n)
  <2>1. \A i \in D : Rank(values, i) \in 1..n
        BY RankInRange
  <2> QED  BY <1>1, <2>1 DEF Injection, IsInjective
<1>3. Cardinality(D) = Cardinality(1..n) /\ IsFiniteSet(D) /\ IsFiniteSet(1..n)
      BY Initial DEF IsDurations
<1> HIDE DEF rank
<1>4. rank \in Surjection(D, 1..n)
      BY <1>2, <1>3, FS_Injection, Zenon
<1> QED  BY <1>1, <1>4 DEF Surjection, rank

\* The values in order are the values, each in its place.
LEMMA SortedIsPermutation ==
  ASSUME NEW D, NEW values, IsDurations(values, D), NEW n \in Nat, n = Cardinality(D)
  PROVE  \E place \in Bijection(1..n, D) :
            /\ Sorted(values) = [k \in 1..n |-> values[place[k]]]
            /\ \A k \in 1..n : Rank(values, place[k]) = k
<1> DEFINE place == [k \in 1..Cardinality(DOMAIN values) |-> CHOOSE i \in DOMAIN values : Rank(values, i) = k]
<1>d. DOMAIN values = D
      BY DEF IsDurations
<1>1. ASSUME NEW k \in 1..n PROVE place[k] \in D /\ Rank(values, place[k]) = k
  <2>1. \E i \in D : Rank(values, i) = k
        BY RanksArePlaces
  <2> QED  BY <1>d, <2>1
<1>2. Sorted(values) = [k \in 1..n |-> values[place[k]]]
      BY <1>d DEF Sorted
<1>3. place \in [1..n -> D]
  <2>1. DOMAIN place = 1..n /\ place = [k \in 1..n |-> place[k]]
        BY <1>d
  <2> HIDE DEF place
  <2> QED  BY <1>1, <2>1
<1> HIDE DEF place
<1>4. \A k, l \in 1..n : place[k] = place[l] => k = l
      BY <1>1
<1>5. \A i \in D : \E k \in 1..n : place[k] = i
  <2> TAKE i \in D
  <2>1. PICK k \in 1..n : k = Rank(values, i)
        BY RankInRange
  <2>2. place[k] = i
        BY <1>1, <2>1, RanksArePlaces
  <2> QED  BY <2>2
<1>6. place \in Bijection(1..n, D)
      BY <1>3, <1>4, <1>5 DEF Bijection, Injection, Surjection, IsInjective
<1> QED  BY <1>1, <1>2, <1>6

\* The values in order, as many of each kind as there were.
SortsTo(values, D, sorted, n) ==
    /\ sorted \in Seq(Nat) /\ Len(sorted) = n
    /\ \A i \in D : \E k \in 1..n : values[i] = sorted[k]
    /\ \A k \in 1..n : \E i \in D : sorted[k] = values[i]
    /\ \A k, l \in 1..n : k <= l => sorted[k] <= sorted[l]
    /\ \A S : Cardinality({k \in 1..n : sorted[k] \in S}) = Cardinality({i \in D : values[i] \in S})

\* Sorted puts the values in order and keeps them.
LEMMA SortedSorts ==
  ASSUME NEW D, NEW values, IsDurations(values, D), NEW n \in Nat, n = Cardinality(D)
  PROVE  SortsTo(values, D, Sorted(values), n)
<1>2. PICK place \in Bijection(1..n, D) :
         /\ Sorted(values) = [k \in 1..n |-> values[place[k]]]
         /\ \A k \in 1..n : Rank(values, place[k]) = k
      BY SortedIsPermutation
<1>3. /\ place \in [1..n -> D]
      /\ \A k, l \in 1..n : place[k] = place[l] => k = l
      /\ \A i \in D : \E k \in 1..n : place[k] = i
      BY DEF Bijection, Injection, Surjection, IsInjective
<1>4. Sorted(values) \in Seq(Nat) /\ Len(Sorted(values)) = n
  <2>1. \A k \in 1..n : values[place[k]] \in Nat
        BY <1>3 DEF IsDurations
  <2>2. [k \in 1..n |-> values[place[k]]] \in Seq(Nat) /\ Len([k \in 1..n |-> values[place[k]]]) = n
        BY <2>1
  <2> QED  BY <1>2, <2>2, Zenon
<1>5. ASSUME NEW k \in 1..n, NEW l \in 1..n, k <= l
      PROVE  Sorted(values)[k] <= Sorted(values)[l]
  <2>1. PICK i \in D, j \in D : /\ i = place[k] /\ j = place[l]
                                      /\ Rank(values, i) = k /\ Rank(values, j) = l
        BY <1>2, <1>3
  <2>2. ~(values[j] < values[i])
    <3>1. ~(Rank(values, j) < Rank(values, i))
          BY <1>5, <2>1
    <3> QED  BY <3>1, RankGrows
  <2>3. values[i] <= values[j]
        BY <2>2 DEF IsDurations
  <2> QED  BY <1>2, <2>1, <2>3
<1>6. ASSUME NEW S
      PROVE  Cardinality({k \in 1..n : Sorted(values)[k] \in S})
                = Cardinality({i \in D : values[i] \in S})
  <2> DEFINE new == {k \in 1..n : Sorted(values)[k] \in S}
             old == {i \in D : values[i] \in S}
             kept == [k \in new |-> place[k]]
  <2>1. \A k \in 1..n : k \in new <=> place[k] \in old
        BY <1>2, <1>3
  <2>2. kept \in [new -> old]
        BY <2>1
  <2>3. \A k, l \in new : kept[k] = kept[l] => k = l
        BY <1>3
  <2>4. \A i \in old : \E k \in new : kept[k] = i
    <3> TAKE i \in old
    <3>1. PICK k \in 1..n : place[k] = i
          BY <1>3
    <3>2. k \in new
          BY <2>1, <3>1
    <3> QED  BY <3>1, <3>2
  <2> HIDE DEF kept
  <2>5. kept \in Bijection(new, old)
        BY <2>2, <2>3, <2>4 DEF Bijection, Injection, Surjection, IsInjective
  <2>6. IsFiniteSet(new)
        BY Initial, FS_Subset
  <2>7. ExistsBijection(new, old)
        BY <2>5 DEF ExistsBijection
  <2> HIDE DEF new, old
  <2>8. Cardinality(old) = Cardinality(new)
        BY <2>6, <2>7, FS_Bijection
  <2> QED  BY <2>8 DEF new, old
<1>7. \A i \in D : \E k \in 1..n : values[i] = Sorted(values)[k]
  <2> TAKE i \in D
  <2>1. PICK k \in 1..n : place[k] = i
        BY <1>3
  <2>2. Sorted(values)[k] = values[i]
        BY <1>2, <2>1
  <2> QED  BY <2>2
<1>8. ASSUME NEW k \in 1..n PROVE \E i \in D : Sorted(values)[k] = values[i]
  <2>1. place[k] \in D /\ Sorted(values)[k] = values[place[k]]
        BY <1>2, <1>3
  <2> QED  BY <2>1
<1> QED  BY <1>4, <1>5, <1>6, <1>7, <1>8 DEF SortsTo

---------------------------------------------------------------------------
(* The percentiles.                                                        *)

\* The index is that of the nearest rank, and needs no clamping.
LEMMA IndexIsNearestRank ==
  ASSUME NEW p \in Percentiles, NEW n \in Nat \ {0}
  PROVE  /\ Index(p, n) \in 0..(n - 1)
         /\ 100 * (Index(p, n) + 1) >= p * n
         /\ 100 * Index(p, n) < p * n
<1>1. p = 50 \/ p = 90 \/ p = 95 \/ p = 99
      BY DEF Percentiles
<1> QED  BY <1>1 DEF Index

\* Of durations in order, at least p percent are within the p-th percentile,
\* and fewer than p percent below it.
LEMMA OrderedPercentile ==
  ASSUME NEW sorted \in Seq(Nat), sorted # <<>>,
         \A i, j \in 1..Len(sorted) : i <= j => sorted[i] <= sorted[j],
         NEW p \in Percentiles
  PROVE  /\ 100 * Cardinality({i \in 1..Len(sorted) : sorted[i] <= percentile(sorted, p)})
               >= p * Len(sorted)
         /\ 100 * Cardinality({i \in 1..Len(sorted) : sorted[i] < percentile(sorted, p)})
               < p * Len(sorted)
         /\ percentile(sorted, p) \in Nat
         /\ sorted[1] <= percentile(sorted, p) /\ percentile(sorted, p) <= sorted[Len(sorted)]
<1>1. PICK n \in Nat \ {0} : n = Len(sorted)
      OBVIOUS
<1>2. PICK k \in 0..(n - 1) : k = Index(p, n) /\ 100 * (k + 1) >= p * n /\ 100 * k < p * n
      BY IndexIsNearestRank
<1>3. PICK v \in Nat : v = percentile(sorted, p) /\ v = sorted[k + 1]
  <2>1. percentile(sorted, p) = sorted[1 + k]
        BY <1>1, <1>2 DEF percentile
  <2>2. 1 + k = k + 1 /\ k + 1 \in 1..Len(sorted)
        BY <1>1, <1>2
  <2> QED  BY <2>1, <2>2
<1>4. IsFiniteSet(1..n)
      BY FS_Interval
<1>5. Cardinality({i \in 1..n : sorted[i] <= v}) >= k + 1
  <2> DEFINE within == {i \in 1..n : sorted[i] <= v}
  <2>1. 1..(k + 1) \in SUBSET within
    <3> SUFFICES ASSUME NEW i \in 1..(k + 1) PROVE i \in 1..n /\ sorted[i] <= v
        OBVIOUS
    <3>1. i \in 1..Len(sorted) /\ k + 1 \in 1..Len(sorted) /\ i <= k + 1
          BY <1>1
    <3> QED  BY <1>1, <1>3, <3>1
  <2>2. IsFiniteSet(within)
        BY <1>4, FS_Subset
  <2>3. Cardinality(1..(k + 1)) <= Cardinality(within) /\ Cardinality(within) \in Nat
        BY <2>1, <2>2, FS_Subset, FS_CardinalityType
  <2>4. Cardinality(1..(k + 1)) = k + 1
    <3>1. PICK m \in Nat \ {0} : m = k + 1
          OBVIOUS
    <3>2. Cardinality(1..m) = IF 1 > m THEN 0 ELSE m - 1 + 1
          BY FS_Interval
    <3>3. ~(1 > m) /\ m - 1 + 1 = m
          OBVIOUS
    <3> QED  BY <3>1, <3>2, <3>3
  <2> QED  BY <2>3, <2>4
<1>6. Cardinality({i \in 1..n : sorted[i] < v}) <= k
  <2> DEFINE below == {i \in 1..n : sorted[i] < v}
  <2>1. below \in SUBSET (1..k)
    <3> SUFFICES ASSUME NEW i \in 1..n, sorted[i] < v PROVE i <= k
        OBVIOUS
    <3>1. CASE k + 1 <= i
      <4>1. sorted[k + 1] <= sorted[i] /\ sorted[i] \in Nat
            BY <1>1, <1>2, <3>1
      <4> QED  BY <1>3, <4>1
    <3> QED  BY <3>1
  <2>2. IsFiniteSet(1..k)
        BY FS_Interval
  <2>3. Cardinality(below) <= Cardinality(1..k)
        BY <2>1, <2>2, FS_Subset
  <2>4. Cardinality(1..k) = k
    <3>1. 1 \in Int /\ k \in Int /\ (IF 1 > k THEN 0 ELSE k - 1 + 1) = k
          OBVIOUS
    <3>2. Cardinality(1..k) = IF 1 > k THEN 0 ELSE k - 1 + 1
          BY <3>1, FS_Interval, Zenon
    <3> QED  BY <3>1, <3>2
  <2> QED  BY <2>3, <2>4
<1>7. /\ Cardinality({i \in 1..n : sorted[i] <= v}) \in Nat
      /\ Cardinality({i \in 1..n : sorted[i] < v}) \in Nat
      BY <1>4, FS_Subset, FS_CardinalityType
<1>8. /\ 100 * Cardinality({i \in 1..n : sorted[i] <= v}) >= p * n
      /\ 100 * Cardinality({i \in 1..n : sorted[i] < v}) < p * n
  <2> DEFINE c == Cardinality({i \in 1..n : sorted[i] <= v})
             d == Cardinality({i \in 1..n : sorted[i] < v})
  <2>1. c \in Nat /\ d \in Nat /\ c >= k + 1 /\ d <= k
        BY <1>5, <1>6, <1>7
  <2>2. PICK q \in Nat : q = p * n
    <3>1. p \in Nat
          BY DEF Percentiles
    <3> QED  BY <3>1
  <2>3. 100 * (k + 1) >= q /\ 100 * k < q
        BY <1>2, <2>2
  <2> HIDE DEF c, d
  <2>4. 100 * c >= q /\ 100 * d < q
        BY <2>1, <2>3
  <2> QED  BY <2>2, <2>4 DEF c, d
<1>9. sorted[1] <= v /\ v <= sorted[n]
  <2>1. 1 \in 1..n /\ k + 1 \in 1..n /\ n \in 1..n /\ 1 <= k + 1 /\ k + 1 <= n
        BY <1>2
  <2> QED  BY <1>1, <1>3, <2>1
<1> QED  BY <1>1, <1>3, <1>8, <1>9

\* What a summary of durations promises.
Summarizes(stats, values, D) ==
    /\ stats.count = Cardinality(D)
    /\ stats.min \in Nat /\ stats.max \in Nat
    /\ \A i \in D : stats.min <= values[i] /\ values[i] <= stats.max
    /\ \E i \in D : values[i] = stats.min
    /\ \E i \in D : values[i] = stats.max
    /\ \A p \in Percentiles :
          /\ 100 * Cardinality({i \in D : values[i] <= stats.p[p]}) >= p * Cardinality(D)
          /\ 100 * Cardinality({i \in D : values[i] < stats.p[p]}) < p * Cardinality(D)
          /\ stats.p[p] \in Nat /\ stats.min <= stats.p[p] /\ stats.p[p] <= stats.max

\* Of any durations, in any order of arrival, at least p percent are within
\* the p-th percentile of their summary and fewer than p percent below it; its
\* minimum and maximum are the least and the greatest of them
\* (main.go:337-367).
THEOREM PercentileIsNearestRank ==
  ASSUME NEW D, NEW values, IsFiniteSet(D), D # {}, D \subseteq Nat, values \in [D -> Nat]
  PROVE  Summarizes(summarize(values), values, D)
<1>d. IsDurations(values, D)
      BY DEF IsDurations
<1>1. PICK n \in Nat \ {0} : n = Cardinality(D)
      BY FS_CardinalityType, FS_EmptySet
<1>2. PICK sorted \in Seq(Nat) : sorted = Sorted(values) /\ SortsTo(values, D, sorted, n)
  <2>1. SortsTo(values, D, Sorted(values), n)
        BY <1>d, <1>1, SortedSorts
  <2> QED  BY <2>1 DEF SortsTo
<1>3. /\ summarize(values).count = n
      /\ summarize(values).min = sorted[1] /\ summarize(values).max = sorted[n]
      BY <1>2 DEF summarize, SortsTo
<1>4. ASSUME NEW p \in Percentiles
      PROVE  \E v \in Nat :
                /\ v = summarize(values).p[p] /\ sorted[1] <= v /\ v <= sorted[n]
                /\ 100 * Cardinality({i \in D : values[i] <= v}) >= p * n
                /\ 100 * Cardinality({i \in D : values[i] < v}) < p * n
  <2>1. PICK v \in Nat :
           /\ v = percentile(sorted, p)
           /\ 100 * Cardinality({k \in 1..Len(sorted) : sorted[k] <= v}) >= p * Len(sorted)
           /\ 100 * Cardinality({k \in 1..Len(sorted) : sorted[k] < v}) < p * Len(sorted)
           /\ sorted[1] <= v /\ v <= sorted[Len(sorted)]
    <3>1. sorted # <<>>
          BY <1>2 DEF SortsTo
    <3>2. \A i, j \in 1..Len(sorted) : i <= j => sorted[i] <= sorted[j]
          BY <1>2 DEF SortsTo
    <3>3. /\ 100 * Cardinality({k \in 1..Len(sorted) : sorted[k] <= percentile(sorted, p)}) >= p * Len(sorted)
          /\ 100 * Cardinality({k \in 1..Len(sorted) : sorted[k] < percentile(sorted, p)}) < p * Len(sorted)
          /\ percentile(sorted, p) \in Nat
          /\ sorted[1] <= percentile(sorted, p) /\ percentile(sorted, p) <= sorted[Len(sorted)]
          BY <3>1, <3>2, OrderedPercentile
    <3> QED  BY <3>3, Zenon
  <2>2. /\ 100 * Cardinality({k \in 1..n : sorted[k] <= v}) >= p * n
        /\ 100 * Cardinality({k \in 1..n : sorted[k] < v}) < p * n
        /\ sorted[1] <= v /\ v <= sorted[n]
    <3>1. Len(sorted) = n
          BY <1>2 DEF SortsTo
    <3> QED  BY <2>1, <3>1
  <2>3. summarize(values).p[p] = v
        BY <1>2, <2>1 DEF summarize
  <2>4. /\ Cardinality({k \in 1..n : sorted[k] <= v}) = Cardinality({i \in D : values[i] <= v})
        /\ Cardinality({k \in 1..n : sorted[k] < v}) = Cardinality({i \in D : values[i] < v})
    <3>1. (\A k \in 1..n : sorted[k] \in Nat) /\ (\A i \in D : values[i] \in Nat)
          BY <1>2 DEF SortsTo
    <3>2. /\ {k \in 1..n : sorted[k] <= v} = {k \in 1..n : sorted[k] \in {d \in Nat : d <= v}}
          /\ {i \in D : values[i] <= v} = {i \in D : values[i] \in {d \in Nat : d <= v}}
          /\ {k \in 1..n : sorted[k] < v} = {k \in 1..n : sorted[k] \in {d \in Nat : d < v}}
          /\ {i \in D : values[i] < v} = {i \in D : values[i] \in {d \in Nat : d < v}}
          BY <3>1
    <3>3. \A S : Cardinality({k \in 1..n : sorted[k] \in S}) = Cardinality({i \in D : values[i] \in S})
          BY <1>2, Zenon DEF SortsTo
    <3> QED  BY <3>2, <3>3, Zenon
  <2>5. /\ 100 * Cardinality({i \in D : values[i] <= v}) >= p * n
        /\ 100 * Cardinality({i \in D : values[i] < v}) < p * n
        BY <2>2, <2>4
  <2> QED  BY <2>2, <2>3, <2>5
<1>5. ASSUME NEW i \in D PROVE sorted[1] <= values[i] /\ values[i] <= sorted[n]
  <2>1. PICK k \in 1..n : values[i] = sorted[k]
        BY <1>2 DEF SortsTo
  <2>2. 1 \in 1..n /\ n \in 1..n /\ 1 <= k /\ k <= n
        OBVIOUS
  <2> QED  BY <1>2, <2>1, <2>2 DEF SortsTo
<1>6. /\ sorted[1] \in Nat /\ sorted[n] \in Nat
      /\ \E i \in D : values[i] = sorted[1]
      /\ \E i \in D : values[i] = sorted[n]
  <2>1. 1 \in 1..n /\ n \in 1..n
        OBVIOUS
  <2> QED  BY <1>2, <2>1 DEF SortsTo
<1>7. ASSUME NEW p \in Percentiles
      PROVE  LET d == summarize(values).p[p] IN
             /\ 100 * Cardinality({i \in D : values[i] <= d}) >= p * Cardinality(D)
             /\ 100 * Cardinality({i \in D : values[i] < d}) < p * Cardinality(D)
             /\ d \in Nat /\ sorted[1] <= d /\ d <= sorted[n]
      BY <1>1, <1>4, Zenon
<1> QED  BY <1>1, <1>3, <1>5, <1>6, <1>7, Zenon DEF Summarizes
---------------------------------------------------------------------------
(* The summary of a run.                                                   *)

\* The samples that took some time, no more than d, less than d.
Timely == {x \in Sample : Took[x] > 0}
UpToLimit(d) == {x \in Timely : Took[x] <= d}
UnderLimit(d) == {x \in Timely : Took[x] < d}

\* Describes, by how many samples of each kind there are in s.
DescribesKinds(stats, s) ==
    /\ stats.min \in Nat /\ stats.max \in Nat
    /\ stats.count = Cardinality(Hits(s, Timely))
    /\ Cardinality(Hits(s, UnderLimit(stats.min))) = 0
    /\ Cardinality(Hits(s, UpToLimit(stats.min))) # 0
    /\ Cardinality(Hits(s, Timely \ UpToLimit(stats.max))) = 0
    /\ Cardinality(Hits(s, Timely \ UnderLimit(stats.max))) # 0
    /\ \A p \in Percentiles :
          /\ 100 * Cardinality(Hits(s, UpToLimit(stats.p[p]))) >= p * Cardinality(Hits(s, Timely))
          /\ 100 * Cardinality(Hits(s, UnderLimit(stats.p[p]))) < p * Cardinality(Hits(s, Timely))
          /\ stats.min <= stats.p[p] /\ stats.p[p] <= stats.max

\* The summary of what is in the channel describes it.
LEMMA ChannelDescribed ==
  ASSUME NEW s \in Seq(Sample), NEW D, D = Hits(s, Timely), D # {},
         NEW values, values = [i \in D |-> Took[s[i]]]
  PROVE  DescribesKinds(summarize(values), s)
<1>1. IsFiniteSet(D) /\ D \subseteq Nat /\ values \in [D -> Nat]
  <2>1. IsFiniteSet(D)
        BY HitsCount
  <2>2. D \subseteq Nat
        BY DEF Hits
  <2>3. \A i \in D : s[i] \in Sample /\ Took[s[i]] \in Nat
        BY SampleAssumption DEF Hits, Timely
  <2> QED  BY <2>1, <2>2, <2>3
<1>2. PICK stats : stats = summarize(values) /\ Summarizes(stats, values, D)
      BY <1>1, PercentileIsNearestRank
<1>3. \A i \in D : s[i] \in Timely /\ values[i] = Took[s[i]]
      BY DEF Hits
<1>4. \A S \in SUBSET Timely : Hits(s, S) = {i \in D : s[i] \in S}
      BY DEF Hits
<1>5. \A d : /\ Hits(s, UpToLimit(d)) = {i \in D : values[i] <= d}
             /\ Hits(s, UnderLimit(d)) = {i \in D : values[i] < d}
  <2> TAKE d
  <2>1. UpToLimit(d) \in SUBSET Timely /\ UnderLimit(d) \in SUBSET Timely
        BY DEF UpToLimit, UnderLimit
  <2>2. \A i \in D : /\ s[i] \in UpToLimit(d) <=> values[i] <= d
                     /\ s[i] \in UnderLimit(d) <=> values[i] < d
        BY <1>3 DEF UpToLimit, UnderLimit
  <2> QED  BY <1>4, <2>1, <2>2
<1>6. \A i \in D : values[i] \in Nat /\ stats.min <= values[i] /\ values[i] <= stats.max
      BY <1>1, <1>2 DEF Summarizes
<1>7. /\ Hits(s, UnderLimit(stats.min)) = {}
      /\ Hits(s, Timely \ UpToLimit(stats.max)) = {}
  <2>1. Hits(s, UnderLimit(stats.min)) = {}
    <3>1. stats.min \in Nat
          BY <1>2 DEF Summarizes
    <3>2. \A i \in D : ~(values[i] < stats.min)
          BY <1>6, <3>1
    <3> QED  BY <1>5, <3>2
  <2>2. \A i \in D : s[i] \in UpToLimit(stats.max)
        BY <1>3, <1>6 DEF UpToLimit
  <2>3. Hits(s, Timely \ UpToLimit(stats.max)) = {}
        BY <1>4, <2>2
  <2> QED  BY <2>1, <2>3
<1>8. /\ Hits(s, UpToLimit(stats.min)) # {}
      /\ Hits(s, Timely \ UnderLimit(stats.max)) # {}
  <2>1. PICK i \in D, k \in D : values[i] = stats.min /\ values[k] = stats.max
        BY <1>2 DEF Summarizes
  <2>2. s[i] \in UpToLimit(stats.min) /\ s[k] \in Timely \ UnderLimit(stats.max)
        BY <1>3, <1>6, <2>1 DEF UpToLimit, UnderLimit
  <2> QED  BY <1>4, <2>2 DEF UpToLimit
<1>9. \A S : Hits(s, S) = {} <=> Cardinality(Hits(s, S)) = 0
      BY HitsCount, FS_EmptySet
<1>10. \A p \in Percentiles :
          /\ 100 * Cardinality(Hits(s, UpToLimit(stats.p[p]))) >= p * Cardinality(Hits(s, Timely))
          /\ 100 * Cardinality(Hits(s, UnderLimit(stats.p[p]))) < p * Cardinality(Hits(s, Timely))
          /\ stats.min <= stats.p[p] /\ stats.p[p] <= stats.max
      BY <1>2, <1>5, Zenon DEF Summarizes
<1>11. stats.min \in Nat /\ stats.max \in Nat /\ stats.count = Cardinality(Hits(s, Timely))
      BY <1>2, Zenon DEF Summarizes
<1>12. /\ Cardinality(Hits(s, UnderLimit(stats.min))) = 0
       /\ Cardinality(Hits(s, UpToLimit(stats.min))) # 0
       /\ Cardinality(Hits(s, Timely \ UpToLimit(stats.max))) = 0
       /\ Cardinality(Hits(s, Timely \ UnderLimit(stats.max))) # 0
      BY <1>7, <1>8, <1>9, Zenon
<1>13. DescribesKinds(stats, s)
      BY <1>10, <1>11, <1>12, Zenon DEF DescribesKinds
<1> QED  BY <1>2, <1>13, Zenon

\* Two sequences with as many samples of each kind have the same description.
LEMMA SameKinds ==
  ASSUME NEW s, NEW o, NEW stats, DescribesKinds(stats, s),
         \A S \in SUBSET Sample : Cardinality(Hits(o, S)) = Cardinality(Hits(s, S))
  PROVE  DescribesKinds(stats, o)
<1>1. /\ Timely \in SUBSET Sample
      /\ \A d : UpToLimit(d) \in SUBSET Sample /\ UnderLimit(d) \in SUBSET Sample
      /\ \A d : Timely \ UpToLimit(d) \in SUBSET Sample /\ Timely \ UnderLimit(d) \in SUBSET Sample
      BY DEF Timely, UpToLimit, UnderLimit
<1>2. /\ Cardinality(Hits(o, Timely)) = Cardinality(Hits(s, Timely))
      /\ \A d : /\ Cardinality(Hits(o, UpToLimit(d))) = Cardinality(Hits(s, UpToLimit(d)))
                /\ Cardinality(Hits(o, UnderLimit(d))) = Cardinality(Hits(s, UnderLimit(d)))
                /\ Cardinality(Hits(o, Timely \ UpToLimit(d))) = Cardinality(Hits(s, Timely \ UpToLimit(d)))
                /\ Cardinality(Hits(o, Timely \ UnderLimit(d))) = Cardinality(Hits(s, Timely \ UnderLimit(d)))
      BY <1>1, Zenon
<1> QED  BY <1>2, Zenon DEF DescribesKinds

\* A target's outcomes of each kind are what Describes speaks of.
LEMMA KindsDescribe ==
  ASSUME NEW t, NEW o \in Seq(Sample), o = outcomes[t], NEW stats, DescribesKinds(stats, o)
  PROVE  Describes(stats, t)
<1>1. \A i \in DOMAIN o : o[i] \in Sample /\ Took[o[i]] \in Nat
      BY SampleAssumption
<1>2. Timed(t) = Hits(o, Timely)
      BY <1>1 DEF Timed, Hits, Timely, IsMeasured
<1>3. \A d : Within(t, d) = Hits(o, UpToLimit(d)) /\ Below(t, d) = Hits(o, UnderLimit(d))
      BY <1>1, <1>2 DEF Within, Below, Hits, UpToLimit, UnderLimit
<1>4. \A S : Hits(o, S) = {} <=> Cardinality(Hits(o, S)) = 0
      BY HitsCount, FS_EmptySet
<1>5. Below(t, stats.min) = {} /\ Within(t, stats.min) # {}
      BY <1>3, <1>4, Zenon DEF DescribesKinds
<1>6. /\ Hits(o, Timely \ UpToLimit(stats.max)) = {}
      /\ Hits(o, Timely \ UnderLimit(stats.max)) # {}
      BY <1>4, Zenon DEF DescribesKinds
<1>7. Within(t, stats.max) = Timed(t) /\ Below(t, stats.max) # Timed(t)
      BY <1>2, <1>3, <1>6 DEF Hits, UpToLimit, UnderLimit
<1>8. \A p \in Percentiles :
         /\ 100 * Cardinality(Within(t, stats.p[p])) >= p * Cardinality(Timed(t))
         /\ 100 * Cardinality(Below(t, stats.p[p])) < p * Cardinality(Timed(t))
         /\ stats.min <= stats.p[p] /\ stats.p[p] <= stats.max
      BY <1>2, <1>3, Zenon DEF DescribesKinds
<1>9. stats.count = Cardinality(Timed(t))
      BY <1>2, Zenon DEF DescribesKinds
<1> QED  BY <1>5, <1>7, <1>8, <1>9, Zenon DEF Describes

\* A summary stays right while its target makes no more requests.
LEMMA DescribesStays ==
  ASSUME NEW t, NEW stats, outcomes'[t] = outcomes[t], Describes(stats, t)
  PROVE  Describes(stats, t)'
  BY Zenon DEF Describes, Timed, Within, Below

LEMMA NearestRankNext == ProbeInv /\ NearestRank /\ [Next]_vars => NearestRank'
<1> SUFFICES ASSUME ProbeInv, NearestRank, [Next]_vars, NEW t \in DOMAIN report'
             PROVE  Describes(report[t].stats, t)'
    BY DEF NearestRank
<1>1. ASSUME t \in DOMAIN report, report'[t] = report[t], outcomes'[t] = outcomes[t]
      PROVE  Describes(report[t].stats, t)'
  <2>1. PICK stats : stats = report[t].stats /\ Describes(stats, t)
        BY <1>1 DEF NearestRank
  <2>2. Describes(stats, t)'
        BY <1>1, <2>1, DescribesStays
  <2> QED  BY <1>1, <2>1, <2>2
<1>2. CASE UNCHANGED <<report, outcomes>>
      BY <1>1, <1>2
<1>3. ASSUME NEW w \in Worker, Probe(w) PROVE Describes(report[t].stats, t)'
  <2>1. /\ worker[w] = "probe" /\ report' = report
        /\ \E s \in Sample : outcomes' = [outcomes EXCEPT ![Head(targets)] = Append(@, s)]
        BY <1>3 DEF Probe
  <2>2. pc \in {"feed", "wait"}
        BY <2>1 DEF ProbeInv, Counted
  <2>3. t # Head(targets) /\ t \in Target
        BY <2>1, <2>2, Current DEF ProbeInv, Ahead
  <2>4. outcomes'[t] = outcomes[t]
        BY <2>1, <2>3 DEF ProbeInv
  <2> QED  BY <1>1, <2>1, <2>4
<1>4. CASE Collect
  <2>1. pc = "wait" /\ AllDone /\ outcomes' = outcomes
        BY <1>4 DEF Collect
  <2>2. CASE t \in DOMAIN report /\ report'[t] = report[t]
        BY <1>1, <2>1, <2>2
  <2>3. CASE ~(t \in DOMAIN report /\ report'[t] = report[t])
    <3>1. /\ Measured # {} /\ t = Head(targets)
          /\ report'[t].stats = summarize(Durations)
          BY <1>4, <2>3 DEF Collect
    <3>2. t \in Target
          BY <2>1, <3>1, Current
    <3>3. PICK s \in Seq(Sample), o \in Seq(Sample) : s = samples /\ o = outcomes[t]
          BY <3>2 DEF ProbeInv
    <3>4. PICK D, values : D = Measured /\ values = Durations
          OBVIOUS
    <3>5. \A i \in DOMAIN s : s[i] \in Sample /\ Took[s[i]] \in Nat
          BY SampleAssumption
    <3>6. D = Hits(s, Timely) /\ values = [i \in D |-> Took[s[i]]]
      <4>1. D = {i \in DOMAIN s : IsMeasured(s[i])}
            BY <3>3, <3>4, Zenon DEF Measured
      <4>2. D = Hits(s, Timely)
            BY <3>5, <4>1 DEF Hits, Timely, IsMeasured
      <4>3. values = [i \in D |-> Took[s[i]]]
            BY <3>3, <3>4, Zenon DEF Durations
      <4> QED  BY <4>2, <4>3
    <3>7. PICK stats : stats = summarize(values) /\ DescribesKinds(stats, s)
          BY <3>1, <3>4, <3>6, ChannelDescribed
    <3>8. \A S \in SUBSET Sample : Cardinality(Hits(o, S)) = Cardinality(Hits(s, S))
          BY <2>1, <3>1, <3>3, AllDelivered
    <3>9. Describes(stats, t)
          BY <3>3, <3>7, <3>8, SameKinds, KindsDescribe
    <3>10. Describes(stats, t)'
          BY <2>1, <3>9, DescribesStays
    <3> QED  BY <3>1, <3>4, <3>7, <3>10, Zenon
  <2> QED  BY <2>2, <2>3
<1>5. CASE WarmUp \/ Spawn \/ CloseJobs \/ Exit
      BY <1>2, <1>5 DEF WarmUp, Spawn, CloseJobs, Exit
<1>6. ASSUME NEW w \in Worker, Feed(w) \/ SendSample(w) \/ Finish(w) PROVE Describes(report[t].stats, t)'
      BY <1>2, <1>6 DEF Feed, SendSample, Finish
<1>7. CASE UNCHANGED vars
      BY <1>2, <1>7 DEF vars
<1> QED  BY <1>3, <1>4, <1>5, <1>6, <1>7 DEF Next, Main

\* The summary of every report is about what that target's own requests took:
\* with any number of goroutines and requests, any durations and any order of
\* delivery, its percentiles are the nearest ranks and its bounds the least
\* and the greatest duration (main.go:254-298, 337-367).
THEOREM SummaryIsNearestRank == Spec => []NearestRank
<1>1. Init => NearestRank
      BY DEF Init, NearestRank
<1> QED  BY <1>1, NearestRankNext, ProbeInvCorrect, PTL DEF Spec
=============================================================================
