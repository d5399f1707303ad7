---------------------------- MODULE BenchmarkPool ----------------------------
(***************************************************************************)
(* The benchmark of Homework1/Codes/part2: main calls runBenchmark once    *)
(* for each configuration, and runBenchmark measures TotalTasks tasks on a *)
(* pool of goroutines joined by two channels and a WaitGroup.              *)
(*                                                                         *)
(* The goroutines of a pool all run the same code, so only how many of     *)
(* them wait for a job and which tasks are being worked on is kept.  The   *)
(* latency of a task is the task: the statistics need its number only.     *)
(***************************************************************************)
EXTENDS Naturals, Sequences, FiniteSets

CONSTANTS
  Trials,    \* the numGoroutines of the calls of runBenchmark, in their order
  TotalTasks \* totalTasks, the capacity of both channels

ASSUME TrialsAssumption == Trials \in Seq(Nat \ {0})
ASSUME TotalTasksAssumption == TotalTasks \in Nat \ {0}

VARIABLES
  trial,           \* the call of runBenchmark that runs, in the loops of main
  point,           \* where it is
  i,               \* its loop variable: goroutines started, then tasks sent
  wg,              \* the counter of the WaitGroup
  jobs,            \* the tasks in the channel jobs
  jobsClosed,
  receiving,       \* the number of workers that wait for a job
  working,         \* the tasks workers have received and not yet measured
  latencies,       \* the tasks whose latencies are in the channel latencies
  latenciesClosed,
  summary          \* summary[n][t]: how many latencies of task t trial n has summarised

channels == <<jobs, jobsClosed, latencies, latenciesClosed>>
workers == <<receiving, working>>
vars == <<trial, point, i, wg, channels, workers, summary>>

Tasks == 1 .. TotalTasks

Points == {"spawn", "submit", "wait", "closeLatencies", "summarise", "finished"}

Init ==
  /\ trial = 1
  /\ point = IF Trials = <<>> THEN "finished" ELSE "spawn"
  /\ i = 0 /\ wg = 0
  /\ jobs = <<>> /\ jobsClosed = FALSE
  /\ receiving = 0 /\ working = {}
  /\ latencies = <<>> /\ latenciesClosed = FALSE
  /\ summary = <<>>

-----------------------------------------------------------------------------
(***************************************************************************)
(* runBenchmark.                                                           *)
(***************************************************************************)

\* (mutant of Spawn) the goroutine is started without wg.Add.
SpawnWithoutAdd ==
  /\ point = "spawn"
  /\ i < Trials[trial]
  /\ i' = i + 1
  /\ receiving' = receiving + 1
  /\ UNCHANGED <<trial, point, wg, channels, working, summary>>

\* wg.Add(1) and go worker(...).
Spawn ==
  /\ point = "spawn"
  /\ i < Trials[trial]
  /\ i' = i + 1
  /\ wg' = wg + 1
  /\ receiving' = receiving + 1
  /\ UNCHANGED <<trial, point, channels, working, summary>>

Spawned ==
  /\ point = "spawn"
  /\ i = Trials[trial]
  /\ point' = "submit"
  /\ i' = 0
  /\ UNCHANGED <<trial, wg, channels, workers, summary>>

\* jobs <- i: blocks when the channel is full.
Submit ==
  /\ point = "submit"
  /\ i < TotalTasks
  /\ Len(jobs) < TotalTasks
  /\ i' = i + 1
  /\ jobs' = Append(jobs, i + 1)
  /\ UNCHANGED <<trial, point, wg, jobsClosed, latencies, latenciesClosed, workers, summary>>

\* (mutant of CloseJobs) the channel is left open.
CloseJobsNever ==
  /\ point = "submit"
  /\ i = TotalTasks
  /\ point' = "wait"
  /\ UNCHANGED <<trial, i, wg, channels, workers, summary>>

CloseJobs ==
  /\ point = "submit"
  /\ i = TotalTasks
  /\ point' = "wait"
  /\ jobsClosed' = TRUE
  /\ UNCHANGED <<trial, i, wg, jobs, latencies, latenciesClosed, workers, summary>>

\* (mutant of Wait) goes on when the queue is empty.
WaitEmpty ==
  /\ point = "wait"
  /\ jobs = <<>>
  /\ point' = "closeLatencies"
  /\ UNCHANGED <<trial, i, wg, channels, workers, summary>>

Wait ==
  /\ point = "wait"
  /\ wg = 0
  /\ point' = "closeLatencies"
  /\ UNCHANGED <<trial, i, wg, channels, workers, summary>>

CloseLatencies ==
  /\ point = "closeLatencies"
  /\ point' = "summarise"
  /\ latenciesClosed' = TRUE
  /\ UNCHANGED <<trial, i, wg, jobs, jobsClosed, latencies, workers, summary>>

\* The statistics add the latencies up, so their order does not matter.
Occurrences(seq) == [t \in Tasks |-> Cardinality({k \in DOMAIN seq : seq[k] = t})]

\* The range over the closed channel, the statistics, and the next iteration of
\* main, whose call of runBenchmark makes new channels and a new WaitGroup.
Summarise ==
  /\ point = "summarise"
  /\ summary' = Append(summary, Occurrences(latencies))
  /\ trial' = trial + 1
  /\ point' = IF trial = Len(Trials) THEN "finished" ELSE "spawn"
  /\ i' = 0 /\ wg' = 0
  /\ jobs' = <<>> /\ jobsClosed' = FALSE
  /\ latencies' = <<>> /\ latenciesClosed' = FALSE
  /\ UNCHANGED workers

-----------------------------------------------------------------------------
(***************************************************************************)
(* worker.                                                                 *)
(***************************************************************************)
Receive ==
  /\ receiving > 0
  /\ jobs # <<>>
  /\ jobs' = Tail(jobs)
  /\ receiving' = receiving - 1
  /\ working' = working \cup {Head(jobs)}
  /\ UNCHANGED <<trial, point, i, wg, jobsClosed, latencies, latenciesClosed, summary>>

Room == Len(latencies) < TotalTasks

\* The workload is over: latencies <- latency blocks when the channel is full.
Measure(t) ==
  /\ t \in working
  /\ Room
  /\ latencies' = Append(latencies, t)
  /\ working' = working \ {t}
  /\ receiving' = receiving + 1
  /\ UNCHANGED <<trial, point, i, wg, jobs, jobsClosed, latenciesClosed, summary>>

\* (mutant of WorkerDone) leaves as soon as there is nothing to do.
WorkerDoneIdle ==
  /\ receiving > 0
  /\ jobs = <<>>
  /\ receiving' = receiving - 1
  /\ wg' = wg - 1
  /\ UNCHANGED <<trial, point, i, channels, working, summary>>

\* jobs is closed and empty: the deferred wg.Done.
WorkerDone ==
  /\ receiving > 0
  /\ jobsClosed /\ jobs = <<>>
  /\ receiving' = receiving - 1
  /\ wg' = wg - 1
  /\ UNCHANGED <<trial, point, i, channels, working, summary>>

\* main returns.
Finished == point = "finished" /\ UNCHANGED vars

-----------------------------------------------------------------------------
RunBenchmark ==
  \/ Spawn \/ Spawned \/ Submit \/ CloseJobs
  \/ Wait \/ CloseLatencies \/ Summarise

Worker == Receive \/ WorkerDone \/ \E t \in Tasks : Measure(t)

Next == RunBenchmark \/ Worker \/ Finished

Spec == Init /\ [][Next]_vars

\* The scheduler runs every goroutine, and every workload ends.
FairSpec ==
  /\ Spec
  /\ WF_vars(RunBenchmark)
  /\ WF_vars(Receive \/ WorkerDone)
  /\ \A t \in Tasks : WF_vars(Measure(t))

-----------------------------------------------------------------------------
(***************************************************************************)
(* Properties.                                                             *)
(***************************************************************************)

\* Every variable has its type, the channels hold what they have room for, and
\* the WaitGroup counts the workers that are alive.
TypeOK ==
  /\ trial \in 1 .. (Len(Trials) + 1)
  /\ point \in Points
  /\ i \in Nat
  /\ receiving \in Nat
  /\ working \subseteq Tasks
  /\ wg = receiving + Cardinality(working)
  /\ jobs \in Seq(Tasks) /\ Len(jobs) <= TotalTasks
  /\ jobsClosed \in BOOLEAN
  /\ latencies \in Seq(Tasks) /\ Len(latencies) <= TotalTasks
  /\ latenciesClosed \in BOOLEAN
  /\ summary \in Seq([Tasks -> Nat]) /\ Len(summary) < trial

\* The average, the deviation and the throughput of a trial are about the same
\* tasks: it has summarised one latency of each task, and only those.
EveryTaskMeasuredOnce ==
  \A n \in DOMAIN summary : summary[n] = [t \in Tasks |-> 1]

\* Nothing is sent to a channel that is closed, and no goroutine of a trial is
\* left to take processor time from the next: once latencies is closed, and until
\* the next trial starts its own, no worker is alive.
TrialsApart ==
  latenciesClosed \/ point = "finished" \/ (point = "spawn" /\ i = 0) =>
    receiving = 0 /\ working = {}

\* No one waits for ever on a channel or on the WaitGroup: every trial ends.
AllTrialsEnd == <>(point = "finished")

=============================================================================
