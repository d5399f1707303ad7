------------------------ MODULE BenchmarkPool_proofs ------------------------
(***************************************************************************)
(* Proofs about module BenchmarkPool: for any sequence of trials and any   *)
(* number of tasks.                                                        *)
(***************************************************************************)
EXTENDS BenchmarkPool, FiniteSetTheorems, SequenceTheorems, TLAPS

-----------------------------------------------------------------------------
(***************************************************************************)
(* The inductive invariant.                                                *)
(***************************************************************************)

Distinct(seq) == \A j, k \in 1 .. Len(seq) : seq[j] = seq[k] => j = k

In(t, seq) == \E k \in 1 .. Len(seq) : seq[k] = t

\* The tasks sent by this trial are 1 .. Sent.
Sent == IF point \in {"spawn", "finished"} THEN 0 ELSE i

\* A task that was sent is in one channel or with one worker, once.
TasksInOnePlace ==
  /\ Distinct(jobs) /\ Distinct(latencies)
  /\ \A t \in Tasks :
       /\ t <= Sent <=> In(t, jobs) \/ t \in working \/ In(t, latencies)
       /\ ~(In(t, jobs) /\ t \in working)
       /\ ~(In(t, jobs) /\ In(t, latencies))
       /\ ~(t \in working /\ In(t, latencies))

\* How far runBenchmark is.
Ready == {"closeLatencies", "summarise"}

Progress ==
  /\ point = "finished" <=> trial = Len(Trials) + 1
  /\ point = "spawn" => i <= Trials[trial]
  /\ point = "submit" => i <= TotalTasks
  /\ point \in {"wait"} \cup Ready => i = TotalTasks
  /\ point = "finished" => i = 0
  /\ jobsClosed <=> point \in {"wait"} \cup Ready
  /\ latenciesClosed <=> point = "summarise"
  /\ Len(summary) + 1 = trial

\* The workers of the trial are alive until jobs is closed and empty.
WorkersAlive ==
  /\ point \in {"spawn", "finished"} => wg = i
  /\ point = "submit" => wg = Trials[trial]
  /\ point = "wait" => wg = Trials[trial] \/ jobs = <<>>
  /\ point \in Ready => wg = 0 /\ jobs = <<>>

Pool == TypeOK /\ TasksInOnePlace /\ Progress /\ WorkersAlive /\ EveryTaskMeasuredOnce
-----------------------------------------------------------------------------
(***************************************************************************)
(* Channels.                                                               *)
(***************************************************************************)

LEMMA AppendedTask ==
  ASSUME NEW seq \in Seq(Tasks), NEW t \in Tasks
  PROVE  /\ Append(seq, t) \in Seq(Tasks) /\ Len(Append(seq, t)) = Len(seq) + 1
         /\ \A u \in Tasks : In(u, Append(seq, t)) <=> In(u, seq) \/ u = t
         /\ Distinct(seq) /\ ~In(t, seq) => Distinct(Append(seq, t))
<1> DEFINE more == Append(seq, t)
           n == Len(seq)
<1>1. /\ n \in Nat /\ more \in Seq(Tasks) /\ Len(more) = n + 1 /\ more[n + 1] = t
      /\ \A k \in 1 .. n : more[k] = seq[k]
  OBVIOUS
<1> HIDE DEF more
<1>2. \A k \in 1 .. n + 1 : k \in 1 .. n \/ k = n + 1
  BY <1>1
<1>3. n + 1 \in 1 .. n + 1 /\ \A k \in 1 .. n : k \in 1 .. n + 1
  BY <1>1
<1>4. \A u \in Tasks : In(u, more) <=> In(u, seq) \/ u = t
  BY <1>1, <1>2, <1>3 DEF In
<1>5. Distinct(seq) /\ ~In(t, seq) => Distinct(more)
  BY <1>1, <1>2 DEF In, Distinct
<1> QED
  BY <1>1, <1>4, <1>5 DEF more

LEMMA ReceivedTask ==
  ASSUME NEW seq \in Seq(Tasks), seq # <<>>, Distinct(seq)
  PROVE  /\ Head(seq) \in Tasks /\ In(Head(seq), seq)
         /\ Tail(seq) \in Seq(Tasks) /\ Len(Tail(seq)) = Len(seq) - 1
         /\ Distinct(Tail(seq))
         /\ \A u \in Tasks : In(u, Tail(seq)) <=> In(u, seq) /\ u # Head(seq)
<1> DEFINE rest == Tail(seq)
           n == Len(seq)
<1>1. /\ n \in Nat /\ n > 0 /\ Head(seq) = seq[1] /\ seq[1] \in Tasks
      /\ rest \in Seq(Tasks) /\ Len(rest) = n - 1
      /\ \A k \in 1 .. n - 1 : rest[k] = seq[k + 1]
  <2>1. n \in Nat /\ n > 0 /\ Head(seq) = seq[1] /\ seq[1] \in Tasks
    OBVIOUS
  <2> QED
    BY <2>1, HeadTailProperties
<1> HIDE DEF rest
<1>2. \A j, k \in 1 .. n : seq[j] = seq[k] => j = k
  BY DEF Distinct
<1> HIDE DEF n
<1>3. Distinct(rest)
  <2> SUFFICES ASSUME NEW j \in 1 .. n - 1, NEW k \in 1 .. n - 1, rest[j] = rest[k] PROVE j = k
    BY <1>1 DEF Distinct
  <2>1. j + 1 \in 1 .. n /\ k + 1 \in 1 .. n /\ seq[j + 1] = seq[k + 1]
    BY <1>1
  <2>2. j + 1 = k + 1
    BY <1>2, <2>1
  <2> QED
    BY <1>1, <2>2
<1>4. ASSUME NEW u \in Tasks PROVE In(u, rest) <=> In(u, seq) /\ u # Head(seq)
  <2>1. ASSUME In(u, rest) PROVE In(u, seq) /\ u # Head(seq)
    <3>1. PICK k \in 1 .. n - 1 : rest[k] = u
      BY <1>1, <2>1 DEF In
    <3>2. k + 1 \in 1 .. n /\ k + 1 # 1 /\ 1 \in 1 .. n /\ seq[k + 1] = u
      BY <1>1, <3>1
    <3> QED
      BY <1>1, <1>2, <3>2 DEF In, n
  <2>2. ASSUME In(u, seq), u # Head(seq) PROVE In(u, rest)
    <3>1. PICK k \in 1 .. n : seq[k] = u
      BY <2>2 DEF In, n
    <3>2. k - 1 \in 1 .. n - 1 /\ (k - 1) + 1 = k
      BY <1>1, <2>2, <3>1
    <3>3. rest[k - 1] = u
      BY <1>1, <3>1, <3>2
    <3> QED
      BY <1>1, <3>2, <3>3 DEF In
  <2> QED
    BY <2>1, <2>2
<1>5. In(Head(seq), seq)
  <2>1. 1 \in 1 .. n
    BY <1>1
  <2> QED
    BY <1>1, <2>1 DEF In, n
<1> QED
  BY <1>1, <1>3, <1>4, <1>5 DEF rest, n

LEMMA EmptyChannel ==
  /\ Distinct(<<>>) /\ Len(<<>>) = 0 /\ <<>> \in Seq(Tasks)
  /\ \A t \in Tasks : ~In(t, <<>>)
BY DEF Distinct, In

\* A channel that holds every task once has one latency of each.
LEMMA OneOfEach ==
  ASSUME NEW seq \in Seq(Tasks), Distinct(seq), \A t \in Tasks : In(t, seq)
  PROVE  Occurrences(seq) = [t \in Tasks |-> 1]
<1> SUFFICES ASSUME NEW t \in Tasks PROVE Cardinality({k \in DOMAIN seq : seq[k] = t}) = 1
  BY DEF Occurrences
<1>1. DOMAIN seq = 1 .. Len(seq)
  OBVIOUS
<1>2. PICK k \in 1 .. Len(seq) : seq[k] = t
  BY DEF In
<1>3. {j \in DOMAIN seq : seq[j] = t} = {k}
  BY <1>1, <1>2 DEF Distinct
<1> QED
  BY <1>3, FS_Singleton

-----------------------------------------------------------------------------
(***************************************************************************)
(* The invariant is inductive.                                             *)
(***************************************************************************)

LEMMA PoolInit == Init => Pool
<1> SUFFICES ASSUME Init PROVE Pool
  OBVIOUS
<1>1. Len(Trials) \in Nat /\ TotalTasks \in Nat /\ \A n \in 1 .. Len(Trials) : Trials[n] \in Nat \ {0}
  BY TrialsAssumption, TotalTasksAssumption
<1>2. Trials = <<>> <=> Len(Trials) = 0
  BY TrialsAssumption
<1>3. Cardinality({}) = 0
  BY FS_EmptySet
<1>4. summary = <<>> /\ summary \in Seq([Tasks -> Nat]) /\ Len(summary) = 0
  BY DEF Init
<1>5. TypeOK
  <2>1. /\ trial \in 1 .. Len(Trials) + 1 /\ i \in Nat /\ receiving \in Nat /\ working \subseteq Tasks
    BY <1>1 DEF Init
  <2>6. jobsClosed \in BOOLEAN /\ latenciesClosed \in BOOLEAN
    BY Zenon DEF Init
  <2>2. wg = receiving + Cardinality(working)
    BY <1>3 DEF Init
  <2>3. point \in Points
    BY DEF Init, Points
  <2>4. /\ jobs \in Seq(Tasks) /\ Len(jobs) <= TotalTasks
        /\ latencies \in Seq(Tasks) /\ Len(latencies) <= TotalTasks
    BY <1>1, EmptyChannel DEF Init
  <2>5. Len(summary) < trial
    BY <1>4 DEF Init
  <2> QED
    BY <1>4, <2>1, <2>2, <2>3, <2>4, <2>5, <2>6 DEF TypeOK
<1>6. TasksInOnePlace
  <2>1. Sent = 0 /\ \A t \in Tasks : t \in Nat /\ t > 0
    BY <1>1 DEF Init, Sent, Tasks
  <2> QED
    BY <1>1, <2>1, EmptyChannel DEF Init, TasksInOnePlace
<1>7. Progress /\ WorkersAlive
  BY <1>1, <1>2, <1>4 DEF Init, Progress, WorkersAlive, Ready
<1>8. EveryTaskMeasuredOnce
  BY DEF Init, EveryTaskMeasuredOnce
<1> QED
  BY <1>5, <1>6, <1>7, <1>8 DEF Pool

\* The facts about numbers and sets that the steps below need.
LEMMA PoolFacts ==
  ASSUME Pool
  PROVE  /\ trial \in Nat /\ i \in Nat /\ wg \in Nat /\ receiving \in Nat
         /\ TotalTasks \in Nat /\ TotalTasks > 0 /\ Len(Trials) \in Nat
         /\ point # "finished" => trial \in 1 .. Len(Trials) /\ Trials[trial] \in Nat /\ Trials[trial] > 0
         /\ working \subseteq Tasks /\ IsFiniteSet(working) /\ Cardinality(working) \in Nat
         /\ wg = 0 => receiving = 0 /\ working = {}
         /\ jobs \in Seq(Tasks) /\ Len(jobs) \in Nat
         /\ latencies \in Seq(Tasks) /\ Len(latencies) \in Nat
         /\ \A t \in Tasks : t \in 1 .. TotalTasks
<1>1. Len(Trials) \in Nat /\ \A n \in 1 .. Len(Trials) : Trials[n] \in Nat /\ Trials[n] > 0
  BY TrialsAssumption
<1>2. trial \in 1 .. Len(Trials) + 1 /\ (point # "finished" => trial # Len(Trials) + 1)
  BY DEF Pool, TypeOK, Progress
<1>3. IsFiniteSet(Tasks) /\ TotalTasks \in Nat /\ TotalTasks > 0
  BY TotalTasksAssumption, FS_Interval DEF Tasks
<1>4. working \subseteq Tasks
  BY DEF Pool, TypeOK
<1>5. IsFiniteSet(working) /\ Cardinality(working) \in Nat
  BY <1>3, <1>4, FS_Subset, FS_CardinalityType
<1>6. receiving \in Nat /\ wg = receiving + Cardinality(working)
  BY DEF Pool, TypeOK
<1>7. wg = 0 => receiving = 0 /\ working = {}
  BY <1>5, <1>6, FS_EmptySet
<1>8. jobs \in Seq(Tasks) /\ latencies \in Seq(Tasks) /\ i \in Nat
  BY DEF Pool, TypeOK
<1>9. Len(jobs) \in Nat /\ Len(latencies) \in Nat
  BY <1>8
<1>10. point # "finished" => trial \in 1 .. Len(Trials)
  BY <1>1, <1>2
<1>11. trial \in Nat /\ wg \in Nat
  BY <1>1, <1>2, <1>5, <1>6
<1> QED
  BY <1>1, <1>3, <1>4, <1>5, <1>6, <1>7, <1>8, <1>9, <1>10, <1>11 DEF Tasks

\* The steps of runBenchmark that send and receive nothing.
LEMMA SpawnKeepsPool == Pool /\ (Spawn \/ Spawned) => Pool'
<1> SUFFICES ASSUME Pool, Spawn \/ Spawned PROVE Pool'
  OBVIOUS
<1>1. /\ point = "spawn" /\ trial \in Nat /\ i \in Nat /\ wg \in Nat /\ receiving \in Nat
      /\ Trials[trial] \in Nat /\ Trials[trial] > 0 /\ TotalTasks \in Nat
      /\ Cardinality(working) \in Nat
      /\ TypeOK /\ TasksInOnePlace /\ Progress /\ WorkersAlive /\ EveryTaskMeasuredOnce
  BY PoolFacts DEF Pool, Spawn, Spawned
<1>2. UNCHANGED <<trial, channels, working, summary>>
  BY DEF Spawn, Spawned, workers
<1>3. CASE Spawn
  <2>1. /\ point' = "spawn" /\ i' = i + 1 /\ wg' = wg + 1 /\ receiving' = receiving + 1
        /\ i < Trials[trial]
    BY <1>1, <1>3 DEF Spawn
  <2>2. TypeOK'
    BY <1>1, <1>2, <2>1 DEF TypeOK, channels, Points
  <2>3. Sent' = Sent
    BY <1>1, <2>1 DEF Sent
  <2>4. Progress' /\ WorkersAlive'
    BY <1>1, <1>2, <2>1 DEF Progress, WorkersAlive, Ready, channels
  <2> QED
    BY <1>1, <1>2, <2>2, <2>3, <2>4 DEF Pool, TasksInOnePlace, EveryTaskMeasuredOnce, channels
<1>4. CASE Spawned
  <2>1. /\ point' = "submit" /\ i' = 0 /\ wg' = wg /\ receiving' = receiving /\ i = Trials[trial]
    BY <1>4 DEF Spawned, workers
  <2>2. TypeOK'
    BY <1>1, <1>2, <2>1 DEF TypeOK, channels, Points
  <2>3. Sent' = Sent
    BY <1>1, <2>1 DEF Sent
  <2>4. Progress' /\ WorkersAlive'
    BY <1>1, <1>2, <2>1 DEF Progress, WorkersAlive, Ready, channels
  <2> QED
    BY <1>1, <1>2, <2>2, <2>3, <2>4 DEF Pool, TasksInOnePlace, EveryTaskMeasuredOnce, channels
<1> QED
  BY <1>3, <1>4

LEMMA CloseKeepsPool == Pool /\ (CloseJobs \/ Wait \/ CloseLatencies) => Pool'
<1> SUFFICES ASSUME Pool, CloseJobs \/ Wait \/ CloseLatencies PROVE Pool'
  OBVIOUS
<1>1. /\ point \in {"submit", "wait", "closeLatencies"} /\ trial \in Nat /\ i \in Nat
      /\ Trials[trial] \in Nat /\ Trials[trial] > 0 /\ TotalTasks \in Nat
      /\ TypeOK /\ TasksInOnePlace /\ Progress /\ WorkersAlive /\ EveryTaskMeasuredOnce
  BY PoolFacts DEF Pool, CloseJobs, Wait, CloseLatencies
<1>2. UNCHANGED <<trial, i, wg, jobs, latencies, receiving, working, summary>>
  BY DEF CloseJobs, Wait, CloseLatencies, workers, channels
<1>3. TypeOK' /\ point' \in {"wait", "closeLatencies", "summarise"}
  BY <1>1, <1>2 DEF TypeOK, CloseJobs, Wait, CloseLatencies, channels, Points
<1>4. Sent' = Sent
  BY <1>1, <1>2, <1>3 DEF Sent
<1>5. Progress' /\ WorkersAlive'
  BY <1>1, <1>2 DEF Progress, WorkersAlive, Ready, CloseJobs, Wait, CloseLatencies, channels
<1> QED
  BY <1>1, <1>2, <1>3, <1>4, <1>5 DEF Pool, TasksInOnePlace, EveryTaskMeasuredOnce

LEMMA SubmitKeepsPool == Pool /\ Submit => Pool'
<1> SUFFICES ASSUME Pool, Submit PROVE Pool'
  OBVIOUS
<1>1. /\ trial \in Nat /\ i \in Nat /\ TotalTasks \in Nat
      /\ jobs \in Seq(Tasks) /\ Len(jobs) \in Nat
      /\ \A t \in Tasks : t \in 1 .. TotalTasks
      /\ TypeOK /\ TasksInOnePlace /\ Progress /\ WorkersAlive /\ EveryTaskMeasuredOnce
  BY PoolFacts DEF Pool
<1>2. /\ point = "submit" /\ i < TotalTasks /\ Len(jobs) < TotalTasks
      /\ i' = i + 1 /\ jobs' = Append(jobs, i + 1)
      /\ UNCHANGED <<trial, point, wg, jobsClosed, latencies, latenciesClosed, receiving, working, summary>>
  BY DEF Submit, workers
<1>3. i + 1 \in Tasks
  BY <1>1, <1>2 DEF Tasks
<1>4. ~In(i + 1, jobs) /\ i + 1 \notin working /\ ~In(i + 1, latencies)
  <2>1. ~(i + 1 <= Sent)
    BY <1>1, <1>2 DEF Sent
  <2> QED
    BY <1>1, <1>3, <2>1 DEF TasksInOnePlace
<1>5. /\ jobs' \in Seq(Tasks) /\ Len(jobs') = Len(jobs) + 1 /\ Distinct(jobs')
      /\ \A t \in Tasks : In(t, jobs') <=> In(t, jobs) \/ t = i + 1
  BY <1>1, <1>2, <1>3, <1>4, AppendedTask DEF TasksInOnePlace
<1>6. TypeOK'
  BY <1>1, <1>2, <1>5 DEF TypeOK
<1>7. TasksInOnePlace'
  <2>1. \A t \in Tasks : t <= Sent' <=> t <= Sent \/ t = i + 1
    BY <1>1, <1>2 DEF Sent
  <2> QED
    BY <1>1, <1>2, <1>4, <1>5, <2>1 DEF TasksInOnePlace
<1>8. Progress' /\ WorkersAlive'
  BY <1>1, <1>2 DEF Progress, WorkersAlive, Ready
<1> QED
  BY <1>1, <1>2, <1>6, <1>7, <1>8 DEF Pool, EveryTaskMeasuredOnce

LEMMA SummariseKeepsPool == Pool /\ Summarise => Pool'
<1> SUFFICES ASSUME Pool, Summarise PROVE Pool'
  OBVIOUS
<1>1. /\ point = "summarise" /\ trial \in 1 .. Len(Trials) /\ Len(Trials) \in Nat
      /\ receiving = 0 /\ working = {} /\ wg = 0 /\ jobs = <<>>
      /\ latencies \in Seq(Tasks)
      /\ \A t \in Tasks : t \in 1 .. TotalTasks
      /\ TotalTasks \in Nat
      /\ TypeOK /\ TasksInOnePlace /\ Progress /\ EveryTaskMeasuredOnce
  BY PoolFacts DEF Pool, Summarise, WorkersAlive, Ready
<1>2. /\ summary' = Append(summary, Occurrences(latencies))
      /\ trial' = trial + 1
      /\ point' = IF trial = Len(Trials) THEN "finished" ELSE "spawn"
      /\ i' = 0 /\ wg' = 0 /\ jobs' = <<>> /\ jobsClosed' = FALSE
      /\ latencies' = <<>> /\ latenciesClosed' = FALSE
      /\ receiving' = 0 /\ working' = {}
  BY <1>1 DEF Summarise, workers
<1>3. Occurrences(latencies) = [t \in Tasks |-> 1]
  <2>1. \A t \in Tasks : t <= Sent
    BY <1>1 DEF Sent, Progress, Ready
  <2>2. \A t \in Tasks : In(t, latencies)
    BY <1>1, <2>1, EmptyChannel DEF TasksInOnePlace
  <2> QED
    BY <1>1, <2>2, OneOfEach DEF TasksInOnePlace
<1> DEFINE one == [t \in Tasks |-> 1]
           n == Len(summary)
<1>4. /\ summary \in Seq([Tasks -> Nat]) /\ n \in Nat /\ n + 1 = trial
      /\ one \in [Tasks -> Nat]
  BY <1>1 DEF TypeOK, Progress
<1> HIDE DEF one
<1>5. /\ summary' \in Seq([Tasks -> Nat]) /\ Len(summary') = n + 1
      /\ summary'[n + 1] = one /\ \A k \in 1 .. n : summary'[k] = summary[k]
  BY <1>2, <1>3, <1>4, AppendProperties DEF one
<1>6. EveryTaskMeasuredOnce'
  <2> SUFFICES ASSUME NEW k \in DOMAIN summary' PROVE summary'[k] = one
    BY DEF EveryTaskMeasuredOnce, one, Tasks
  <2>1. k \in 1 .. n \/ k = n + 1
    BY <1>4, <1>5
  <2>2. \A h \in 1 .. n : summary[h] = one
    BY <1>1, <1>4 DEF EveryTaskMeasuredOnce, one
  <2> QED
    BY <1>5, <2>1, <2>2
<1>7. TypeOK'
  <2>1. Cardinality({}) = 0
    BY FS_EmptySet
  <2>2. /\ trial' \in 1 .. Len(Trials) + 1 /\ point' \in Points /\ i' \in Nat /\ receiving' \in Nat
        /\ working' \subseteq Tasks
    BY <1>1, <1>2 DEF Points
  <2>5. wg' = receiving' + Cardinality(working')
    BY <1>2, <2>1
  <2>6. jobsClosed' \in BOOLEAN /\ latenciesClosed' \in BOOLEAN
    BY <1>2, Zenon
  <2>3. Len(summary') < trial'
    BY <1>2, <1>4, <1>5
  <2>4. /\ jobs' \in Seq(Tasks) /\ Len(jobs') <= TotalTasks
        /\ latencies' \in Seq(Tasks) /\ Len(latencies') <= TotalTasks
    BY <1>1, <1>2, EmptyChannel
  <2> QED
    BY <1>5, <2>2, <2>3, <2>4, <2>5, <2>6 DEF TypeOK, Tasks
<1>8. TasksInOnePlace'
  <2>1. Sent' = 0 /\ \A t \in Tasks : ~(t <= 0)
    BY <1>1, <1>2 DEF Sent
  <2> QED
    BY <1>2, <2>1, EmptyChannel DEF TasksInOnePlace, Tasks
<1>9. Progress' /\ WorkersAlive'
  <2>1. trial' = Len(Trials) + 1 <=> trial = Len(Trials)
    BY <1>1, <1>2
  <2>2. trial' \in 1 .. Len(Trials) => Trials[trial'] \in Nat
    BY TrialsAssumption
  <2> QED
    BY <1>1, <1>2, <1>4, <1>5, <2>1, <2>2 DEF Progress, WorkersAlive, Ready
<1> QED
  BY <1>6, <1>7, <1>8, <1>9 DEF Pool

LEMMA ReceiveKeepsPool == Pool /\ Receive => Pool'
<1> SUFFICES ASSUME Pool, Receive PROVE Pool'
  OBVIOUS
<1> DEFINE t == Head(jobs)
<1>1. /\ receiving \in Nat /\ wg \in Nat /\ Cardinality(working) \in Nat /\ IsFiniteSet(working)
      /\ jobs \in Seq(Tasks) /\ Len(jobs) \in Nat /\ TotalTasks \in Nat
      /\ TypeOK /\ TasksInOnePlace /\ Progress /\ WorkersAlive /\ EveryTaskMeasuredOnce
  BY PoolFacts DEF Pool
<1>2. /\ receiving > 0 /\ jobs # <<>> /\ jobs' = Tail(jobs)
      /\ receiving' = receiving - 1 /\ working' = working \cup {t}
      /\ UNCHANGED <<trial, point, i, wg, jobsClosed, latencies, latenciesClosed, summary>>
  BY DEF Receive
<1>3. /\ t \in Tasks /\ In(t, jobs)
      /\ jobs' \in Seq(Tasks) /\ Len(jobs') = Len(jobs) - 1 /\ Distinct(jobs')
      /\ \A u \in Tasks : In(u, jobs') <=> In(u, jobs) /\ u # t
  BY <1>1, <1>2, ReceivedTask DEF TasksInOnePlace
<1>4. t \notin working /\ ~In(t, latencies)
  BY <1>1, <1>3 DEF TasksInOnePlace
<1> HIDE DEF t
<1>5. TypeOK'
  <2>1. Cardinality(working') = Cardinality(working) + 1
    BY <1>1, <1>2, <1>4, FS_AddElement
  <2>2. wg' = receiving' + Cardinality(working')
    BY <1>1, <1>2, <2>1 DEF TypeOK
  <2> QED
    BY <1>1, <1>2, <1>3, <2>2 DEF TypeOK
<1>6. TasksInOnePlace'
  <2>1. Sent' = Sent
    BY <1>2 DEF Sent
  <2> QED
    BY <1>1, <1>2, <1>3, <1>4, <2>1 DEF TasksInOnePlace
<1>7. Progress' /\ WorkersAlive'
  BY <1>1, <1>2 DEF Progress, WorkersAlive, Ready
<1> QED
  BY <1>1, <1>2, <1>5, <1>6, <1>7 DEF Pool, EveryTaskMeasuredOnce

LEMMA MeasureKeepsPool ==
  ASSUME Pool, NEW t \in Tasks, Measure(t)
  PROVE  Pool'
<1>1. /\ receiving \in Nat /\ wg \in Nat /\ Cardinality(working) \in Nat /\ IsFiniteSet(working)
      /\ latencies \in Seq(Tasks) /\ Len(latencies) \in Nat /\ TotalTasks \in Nat
      /\ TypeOK /\ TasksInOnePlace /\ Progress /\ WorkersAlive /\ EveryTaskMeasuredOnce
      /\ wg # 0
  BY PoolFacts DEF Pool, Measure
<1>2. /\ t \in working /\ Len(latencies) < TotalTasks
      /\ latencies' = Append(latencies, t) /\ working' = working \ {t} /\ receiving' = receiving + 1
      /\ UNCHANGED <<trial, point, i, wg, jobs, jobsClosed, latenciesClosed, summary>>
  BY DEF Measure, Room
<1>3. ~In(t, jobs) /\ ~In(t, latencies)
  BY <1>1, <1>2 DEF TasksInOnePlace
<1>4. /\ latencies' \in Seq(Tasks) /\ Len(latencies') = Len(latencies) + 1 /\ Distinct(latencies')
      /\ \A u \in Tasks : In(u, latencies') <=> In(u, latencies) \/ u = t
  BY <1>1, <1>2, <1>3, AppendedTask DEF TasksInOnePlace
<1>5. TypeOK'
  <2>1. Cardinality(working') = Cardinality(working) - 1
    BY <1>1, <1>2, FS_RemoveElement
  <2>2. wg' = receiving' + Cardinality(working')
    BY <1>1, <1>2, <2>1 DEF TypeOK
  <2> QED
    BY <1>1, <1>2, <1>4, <2>2 DEF TypeOK
<1>6. TasksInOnePlace'
  <2>1. Sent' = Sent
    BY <1>2 DEF Sent
  <2> QED
    BY <1>1, <1>2, <1>3, <1>4, <2>1 DEF TasksInOnePlace
<1>7. Progress' /\ WorkersAlive'
  BY <1>1, <1>2 DEF Progress, WorkersAlive, Ready
<1> QED
  BY <1>1, <1>2, <1>5, <1>6, <1>7 DEF Pool, EveryTaskMeasuredOnce

LEMMA WorkerDoneKeepsPool == Pool /\ WorkerDone => Pool'
<1> SUFFICES ASSUME Pool, WorkerDone PROVE Pool'
  OBVIOUS
<1>1. /\ receiving \in Nat /\ wg \in Nat /\ Cardinality(working) \in Nat
      /\ wg = receiving + Cardinality(working)
      /\ TypeOK /\ TasksInOnePlace /\ Progress /\ WorkersAlive /\ EveryTaskMeasuredOnce
  BY PoolFacts DEF Pool, TypeOK
<1>2. /\ receiving > 0 /\ jobsClosed /\ jobs = <<>> /\ receiving' = receiving - 1 /\ wg' = wg - 1
      /\ UNCHANGED <<trial, point, i, channels, working, summary>>
  BY DEF WorkerDone
<1>3. point = "wait"
  BY <1>1, <1>2 DEF Progress, WorkersAlive, Ready
<1>4. TypeOK'
  BY <1>1, <1>2 DEF TypeOK, channels
<1>5. Sent' = Sent
  BY <1>2 DEF Sent
<1>6. Progress' /\ WorkersAlive'
  BY <1>1, <1>2, <1>3 DEF Progress, WorkersAlive, Ready, channels
<1> QED
  BY <1>1, <1>2, <1>4, <1>5, <1>6 DEF Pool, TasksInOnePlace, EveryTaskMeasuredOnce, channels

LEMMA PoolNext == Pool /\ [Next]_vars => Pool'
<1>1. Pool /\ UNCHANGED vars => Pool'
  BY DEF Pool, TypeOK, TasksInOnePlace, Progress, WorkersAlive, EveryTaskMeasuredOnce, Sent,
     vars, channels, workers
<1> QED
  BY <1>1, SpawnKeepsPool, CloseKeepsPool, SubmitKeepsPool, SummariseKeepsPool, ReceiveKeepsPool,
     MeasureKeepsPool, WorkerDoneKeepsPool
  DEF Next, RunBenchmark, Worker, Finished

\* Between two trials no worker is alive.
LEMMA PoolKeepsTrialsApart == Pool => TrialsApart
<1> SUFFICES ASSUME Pool, latenciesClosed \/ point = "finished" \/ (point = "spawn" /\ i = 0)
             PROVE  receiving = 0 /\ working = {}
  BY DEF TrialsApart
<1>1. wg = 0
  BY DEF Pool, Progress, WorkersAlive, Ready
<1> QED
  BY <1>1, PoolFacts

\* The variables keep their types: the channels never hold more than their capacity and
\* the WaitGroup counts the workers that are alive.
THEOREM PoolTypeCorrect == Spec => []TypeOK
<1>1. Pool => TypeOK
  BY DEF Pool
<1> QED
  BY <1>1, PoolInit, PoolNext, PTL DEF Spec

\* The statistics of every trial are about one latency of each task, for any number of
\* goroutines and tasks (runBenchmark, worker).
THEOREM PoolMeasuresEveryTaskOnce == Spec => []EveryTaskMeasuredOnce
<1>1. Pool => EveryTaskMeasuredOnce
  BY DEF Pool
<1> QED
  BY <1>1, PoolInit, PoolNext, PTL DEF Spec

\* Nothing is sent to a closed channel, and a trial leaves no goroutine to the next.
THEOREM PoolKeepsTheTrialsApart == Spec => []TrialsApart
<1> QED
  BY PoolKeepsTrialsApart, PoolInit, PoolNext, PTL DEF Spec


=============================================================================
