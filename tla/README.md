# A TLA+ verification of the distributed-systems course projects

The repository holds three course projects in Go:

* **Homework 3** (`src/Homework3/Codes`), the main system: a key-value store
  replicated over HTTP, in an *eventual* and a *strong* (quorum) mode, with a
  client and a Python script that runs scenarios in Docker;
* **Homework 1** (`src/Homework1/Codes`): a calculator over two named pipes
  (part 1), a benchmark of a worker pool (part 2), an HTTP calculator (part 3);
* **Homework 2** (`src/Homework2/Codes`): a web server with RPC services for
  login and files, and a Pub/Sub broker for memory alerts.

This directory models what is concurrent in them, checks it with TLC on small
instances, and proves with TLAPS, for every value of the constants, each safety
property, action property and refinement that the passing runs check.

    tlc -config Eventual.cfg MCReplication.tla      # any run: the table below
    tlapm Healing_proofs.tla                        # and the other *_proofs.tla

## 1. Inventory

| Component | State | Operations | Talks to | Hard part | Correct when |
|---|---|---|---|---|---|
| `replica/store` | map key -> entry (value, version, writer), one mutex, memory only | `Put`, `ApplyReplication`, `Get` (`Snapshot` has no caller) | called by the handler | same version at several replicas; order of arrival | the stored entry depends only on the set of writes received, and never goes back |
| `replica/replicator` | peers, delay, HTTP client of 5 s | `SendAsync`, `SendQuorum`, `send` | POST `/internal/replicate` at the peers | one unordered goroutine per peer, timeouts, replies after the return | an acknowledgement stands for a majority; it always returns |
| `replica/handler` | none of its own | `HandlePut`, `HandleGet`, `HandleReplicate` | store, replicator | the local write precedes the quorum; reads are local | status tells what happened to the write |
| `replica/main`, `config` | mode, peers, delay | start | Docker | a restart starts empty | - |
| `client` | address of one replica | PUT, GET, HEALTH, SWITCH | HTTP | a command given up after 10 s goes on in the replica; SWITCH away and back | what one process answers only gets newer, also after commands given up |
| `orchestrate.py` | metrics, logs | scenarios: start, stop, PUT, GET | Docker, HTTP | stops replicas between requests | - |
| part 1 `worker` | two pipes, one scanner per session | make pipes, read, compute, respond, close | FIFOs | opens block; end of file; broken pipe | survives every end of an interface; computes what Go's `int` does |
| part 1 `interface` | one open request | connect with retries, send, read | FIFOs | pipes replaced under it; either side killed at any point | prints the answer to its own request, decoded as it was meant (**not kept** when an interface before it on the same pipes was killed waiting: see below) |
| part 2 benchmark | channels `jobs`, `latencies`, WaitGroup | spawn, submit, close, wait, summarise | - | order of closes, capacities | one latency per task, trials do not overlap |
| part 3 service | none | one GET | HTTP | - | - |
| HW2 `web-vm` | memory silo with mutex, ticker | pages, RPC calls, consume memory, monitor | RPC, broker | goroutine per alert; a mutex a panic does not release; calls without a limit | no memory is lost, alerts repeat, pages are answered |
| HW2 `broker` | map of connections, mutex | accept, alert | TCP | blocking writes under the mutex | every subscriber gets every alert |
| HW2 `subdcriber` | connection | dial, read lines | TCP | stops at any point | prints what was broadcast |
| HW2 `auth-vm`, `file-vm` | their disk | one RPC each | JSON-RPC, RPC | ends or has its disk edited in the middle of a call | answers by what the disk held during the call |

What is hard to test, line by line, is the list `hazards` of `PROJECT.json`, each
with the properties that cover it or the reason why none does.

## 2. Modules

| Module | Models | Notes |
|---|---|---|
| `Store` | `store/store.go` | constant operators: the next entry of a key after `Put` and `ApplyReplication` |
| `Replication` | handler, replicator, processes | EXTENDS `Store`; one action per step below |
| `LastWriterWins` | - (abstract) | what eventual mode promises, with neither messages nor versions in flight |
| `MCReplication` | - | instances of `Replication` for TLC |
| `ClientSession`, `MCClientSession` | `client/main.go` over `Replication` | EXTENDS `Replication`; one interactive session beside other clients |
| `Replication_proofs`, `Convergence_proofs`, `Healing_proofs` | - | TLAPS proofs about `Replication` |
| `ClientSession_proofs` | - | about `ClientSession`; EXTENDS `Replication_proofs` |
| `Calculator` | part 1 arithmetic and JSON lines | constant operators |
| `FifoCalculator`, `MCFifoCalculator` | part 1 worker and interfaces | EXTENDS `Calculator`; the kernel's FIFOs as the programs use them |
| `FifoCalculator_proofs` | - | TLAPS proofs about both |
| `BenchmarkPool`, `MCBenchmarkPool`, `BenchmarkPool_proofs` | part 2 `main`, `runBenchmark`, `worker` | |
| `AlertBroker`, `MCAlertBroker`, `AlertBroker_proofs` | HW2 broker, subscribers, the post of an alert | |
| `AlertFeed` | - (abstract) | one feed, every subscriber a cursor in it |
| `WebGateway` | HW2 memory consumer and monitor | EXTENDS `AlertBroker`: the monitor decides when it posts |
| `PageServices` | HW2 login and file pages, `auth-vm`, `file-vm` | |
| `VirtualMachines`, `MCVirtualMachines` | HW2, all four machines | composes `WebGateway` and `PageServices` |
| `VirtualMachines_proofs` | - | about the four machines; EXTENDS `AlertBroker_proofs` |

### Replication: state and actions

`store[r][k]` is the map `data` of replica `r`; `up[r]` its process; `phase[p]` what
the client of request `p` has been told; `entry[p]` the entry `Put` built;
`send[p][q]` the goroutine (and the HTTP exchange) that carries it to peer `q`.
`knows[r]` is a history variable: the writes made by or offered to the running
process of `r`, also those its store skipped.

| Code | Action |
|---|---|
| `HandlePut`, 400 | `HandlePutInvalid` |
| `HandlePut`: `Put`, start of the goroutines | `HandlePutEventual` (answers 200 at once), `HandlePutStrong` (waits) |
| `SendQuorum` returns nil / an error | `QuorumReached` (200), `QuorumFailed` (503) |
| `send`: the POST reaches the peer / is refused | `Post`, `SendRefused` |
| `HandleReplicate`, `ApplyReplication` | `HandleReplicate` |
| `send`: 200 read / connection lost / 5 s over | `Ack`, `ReplyLost`, `Timeout` |
| `docker stop`, `docker start` | `Crash`, `Restart` |

`Put` and the start of the goroutines are one step because no other goroutine can
observe the state between them. The network is unordered: each exchange is a
state of its own. `net/http` does not repeat a POST once a byte was written, so
an entry is delivered to a peer at most once. A request whose sender has given up
("orphan") may still be handled. `HandleGet` is a state function: a GET changes
nothing, so properties look at its result in every state.

### ClientSession

One session of the interactive client. `command` is what it waits for, `addr` the replica
in its base URL, `socket[r]` its POSTs that `r` has not taken yet. A command that was
given up (`GiveUp`, the 10 s) leaves its POST where it is: `HandlePut` does not look
at the context of its request, so the write may be made, replicated and confirmed
while the session is already elsewhere. `told` is a history variable: the newest entry
of a key the running process of a replica has answered, a 503 standing for the entry it
leaves behind. The requests in `Requests \ Mine` come from other clients.

### FifoCalculator and Calculator

The worker's program counter runs through `create_pipes`, the session and the two
closes. Each pair of pipes is a *generation*; the path names lead to a
generation or to nothing, and a removed pipe lives on for the processes that have
it open. Opening blocks until the other side has come, reading returns what the
pipe holds or end of file when nobody has it open for writing, writing without a
reader is EPIPE. A line is the request it carries or answers.
`bufio.Scanner` takes everything the pipe holds, so lines can wait in the scanner.
The worker may be killed anywhere (`KillWorker`): its ends close, the pipes stay, and
the next worker (`StartWorker`) begins by removing them.

What is computed is in `Calculator`: sums, products and quotients that wrap in an `int`
whose greatest value is `MaxInt` (2^63 - 1 in the program), division towards zero, and
the JSON line of an answer, which leaves out a result of 0 and an empty error
(`Marshal`); `Unmarshal` leaves such fields of the variable alone. `printed[i]` is the answer as the interface has decoded it.

**A stray answer.** Requests and answers carry no number, and pipes outlive an interface. When an
interface is killed while it waits for an answer that the worker has not written yet, the next interface may open
the same pipes before the worker does write: there is a reader again, the worker meets neither EPIPE
nor end of file, and the new interface prints that answer as the one to its own first request.
It then stays one answer behind for the rest of its session. The code does this
(`worker.go:39-56`, `interface.go:156-177`), and so does the model. `AnswersInTurn` is what remains true:
an answer is always to a request on the same pipes, and behind by at most one for each interface
killed waiting on them; where nobody was killed so, it is the reader's own.

### AlertBroker

An alert is the number of the tick that posted it. A handler takes the mutex
(`Lock`, the snapshot of the map), writes to each connection (`Write`, blocked
while the connection's buffers are full; `WriteUnnoticed` and `Purge` when the
subscriber is gone) and unlocks. The Accept loop takes a connection from the
backlog and needs the mutex to register it. No subscriber is added during a
broadcast, so the set to write to is the map at its start.

### WebGateway, PageServices, VirtualMachines

`WebGateway` adds `handleConsumeMemory` and replaces the free ticks of `AlertBroker` by the
monitor's. A request takes the mutex and allocates (`Allocate`), then appends and
unlocks (`Pin`); `base` is the slice its append started from. The number of bytes is
a product that wraps at `MaxLength` (2^43 - 1 megabytes in the program), and a negative one makes `make` panic: `net/http` recovers, the
mutex stays taken ("panicked"). The monitor reads the size of the heap, not the slice:
it must post while the silo alone is above the threshold, and may post on account of
spare capacity and garbage.

In `PageServices` a page is a handler with a call on a connection of its own. The service
reads its disk when it runs the call (`Serve`); it may end (`StopService`: the connection
breaks and `Call` returns an error, unless the reply is already on its way), start,
and have `users.json` or a file edited (`Edit`; `Unreadable` is a file half written).
`held` is a history variable: what the disk held while the call ran.

### BenchmarkPool

`point` is the program counter of `runBenchmark`, `i` its loop variable, `trial` the
iteration of `main`. The goroutines of a pool are anonymous: how many wait for a
job and which tasks are being worked on is all that matters. `latencies` holds, in the
order of arrival, the task each latency is of; `summary` says, for each trial that has
ended, how often each task occurs in what was summarised.

## 3. Runs

Every run is a small instance of a specification whose constants are listed in its
`.cfg`; symmetry is used only in safety runs over requests that differ in name only.

| Run | Instance | Properties | Shows |
|---|---|---|---|
| `eventual` | 3 replicas, 3 writes of one key and a PUT without a key | `SameUpdatesSameValue`, `NeverStepsBack`, `WriteDominates`, `ImplementsRegister` | all orders of three concurrent or causally related writes |
| `converge` | 3 replicas, 3 writes, 2 keys, fair | `EventuallyConsistent`, `ImplementsFairRegister` | convergence without faults |
| `strong` | 3 replicas, 2 strong writes, replica 3 may stop and start, timeouts, fair senders | `TypeOK`, `QuorumCoverage`, `LatestShown`, `NeverStepsBack`, `WriteDominates`, `PutAnswered` | acknowledged writes survive, stale replicas are those a write has not reached, clients are answered |
| `strong_answers` | 2 strong replicas of which one may stop and start, a session with 2 PUTs, an invalid PUT of another client, timeouts, fair senders | `PutAnswered`, `SessionMovesForward` | a session over 200, 503, commands given up and SWITCH; a handler answers also when the client has given up |
| `fifo` | 2 interfaces, 3 requests each, 2 attempts, interfaces and worker killed, ints of 3 bits | `TypeOK`, `AnswersInTurn`, `PrintsResult`, `RequestEnds` | how far sessions mix, requests end, results are those of Go's `int` |
| `broker` | 2 subscribers, 2 alerts, 1 alert per buffer, 2 requests for memory; or 4 requests for memory; or a login or a file query over services that stop, start and are edited | `TypeOK`, `StreamComplete`, `SiloKeepsAll`, `LoginJudged`, `FileServed`, `Delivered`, `ImplementsFeed`, `FollowsFeed`, `BreachReported`, `ConsumeAnswered`, `PageAnswered` | the four machines together |
| `pool` | trials of 1, 3 and 5 goroutines, 4 tasks | `TypeOK`, `EveryTaskMeasuredOnce`, `TrialsApart`, `AllTrialsEnd` | also free of deadlock |

Five runs are expected to find a violation: they state what a document of the
repository says, and the counterexample shows where the code does not do it.

| Run | Claim | What happens |
|---|---|---|
| `repeated_values` | `orchestrate.py:598` every replica that receives both versions reaches the same conclusion | the conflict rule of `store.go:87` looks at values: when two writes of the same version carry the same value, their writer ids are not compared, and a third write wins at one replica and loses at another |
| `restarted_writer` | the same | a restarted replica reuses version 1 with its own id for a second value; the tie cannot be broken |
| `strong_reads` | `orchestrate.py:624` always consistent once a write succeeds | a GET outside the quorum is stale (the same report names it as a limitation) |
| `fifo_reconnect` | `part1/README.md:341` an interface can connect again | an interface that opens the request pipe just before the worker removes it blocks in `open` for ever |
| `broker_stalled` | `pubsub-vm/README.md:15` delivers to consumers immediately | a suspended subscriber whose buffers are full blocks the broadcast, hence the mutex, hence all others |

**Why the bounds suffice.** Three replicas are the deployment of the repository; a
majority of three tolerates one. `strong_answers` takes two, where a single refused send
fails the quorum, so that 503 and what it leaves behind come up in every order, and
the session can leave one replica and come back. Three writes are the least that separate a
conflict rule that looks at values from one that does not, and that make a write
that follows one write concurrent with another. Two interfaces let a
session follow a killed one, two kills of the worker let its successor be killed too,
and three requests of each let a stale line be taken for the answer to the next, and that one
for the answer after it; the
six operations are the edges of `int` (overflow, a result of 0 after another result,
the least int divided by -1, division by 0, a quotient to round), and the
arithmetic is compared with its definition over all operands of 3 bits. Of the four
requests for memory one breaches the threshold, one has a length that wraps to 0,
one has a length that wraps to a negative number, and one more is positive, so that two pieces
could overlap. The subscribers only need the one that breaches and the one that panics.
The memory and the pages of the web server share no state, so `MCVirtualMachines` starts
from states in which either only memory or only one page is asked for. Two alerts are needed for an
order, and with a buffer of one alert the second may block; `broker_stalled` takes a third
for the subscriber that is kept waiting. Five
goroutines exceed the four tasks. Keys are independent in the code (no operation
touches two), so most runs use one.

**Fairness.** `SenderSpec`: the Go scheduler runs every goroutine that can run, and
the client's time limit ends every exchange, so each send and each `SendQuorum` gets
on; nothing is assumed of peers, crashes or restarts. `FairSpec` adds that a
running replica handles what it has received. `FairSessionSpec` assumes of a session
what `SenderSpec` assumes, and nothing of the client. Crashes, restarts, ticks, users and
subscribers' starts and stops are never fair. In `FifoCalculator` both programs
get on and users do as they like. In `AlertBroker` the handlers, the Accept loop and
readers that are not suspended get on; a Go mutex serves those who wait; and a tick
comes every 2 s and finds the heap above the threshold while the silo is. In
`PageServices` a service that runs answers, and the kernel closes the connections of one
that ends. In
`BenchmarkPool` the scheduler runs all goroutines and workloads end.
Liveness of eventual mode is claimed without crashes and timeouts only: a lost send
is never repeated (`replicator.go:40`).

`CHECK_DEADLOCK FALSE` stands in the runs whose system really may come to rest (all
requests answered, all interfaces gone, all alerts delivered).

## 4. Proofs

`Replication_proofs` holds for all finite sets of replicas, all requests, keys, values and
modes, and all crashes, restarts and timeouts the constants allow:

* `TypeCorrect`: `Spec => []TypeOK`, which besides the types (`Types`) says that an entry lies
  under its own key (`EntriesUnderTheirKey`) and a stopped replica holds nothing (`DownIsEmpty`);
* `StoreNeverStepsBack`: `Spec => NeverStepsBack`;
* `VersionsRecordCausality`: `Spec => WriteDominates`;
* `AckedWritesCovered`: `Spec => []QuorumCoverage`.

The type invariant is inductive once it says that an entry has the key and value
of its request and that only written entries are sent (`Typed`). The others need
`History`, the inductive invariant: besides the types,

* `StoreNewest`: a store is at least as new as every write its process has met,
  also those it skipped (why a new version beats them all);
* `StoreFromKnown`: what it holds is one of them;
* `KnownWhereMet`: a write is known by its coordinator and by every peer whose
  answer was sent, unless that process may have crashed;
* `AckedByPeers`: acknowledgements come from other replicas than the coordinator,
  and a strong write answered 200 has `Needed` of them.

`QuorumCoverage` follows by counting: coordinator and acknowledging peers are a
majority, two majorities meet, and the replica where they meet is at least as new as
the write or may have crashed.

`Convergence_proofs` assumes `NoCrashes` (no process stops) and `DistinctValues` (no two
requests write one value to one key); timeouts, losses and both modes are allowed:

* `ReplicasConverge`: `Spec => []SameUpdatesSameValue`;
* `RegisterImplemented`: `Spec => ImplementsRegister`, the refinement of
  `LastWriterWins` (written, known, view are entry, knows, store).

The invariant `Converging` adds to `History` that version and writer identify a write
of a key (`StampsUnique`) and that a store beats every other write it has met
(`StoreLast`). Both assumptions are needed: each of the runs `repeated_values` and
`restarted_writer` drops one and finds a counterexample.

`Healing_proofs` needs `DistinctValues` only, with crashes, restarts and timeouts:

* `LatestWriteShown`: `Spec => []LatestShown`. A replica that met a write nothing has
  overtaken shows it, so staleness has one reason: the send did not arrive.

The invariant `Healing` adds to `History` that no write a process has met beats what it
shows (`StoreUnbeaten`), which a restart with its reused versions cannot break
because ties between equal stamps beat nobody.

`ClientSession_proofs` holds for any session over any replicas in any mode, with equal values,
crashes, timeouts and other clients:

* `SessionSeesNewer`: `SessionSpec => SessionMovesForward`;
* `SessionKeepsTheStore`: the four theorems of `Replication_proofs` hold under a session, for
  its steps are steps of `Replication` (`SessionStep`).

The invariant `Session` adds to `History` what a session knows: no one but the session writes
its requests, and not before the command (`NotYetIssued`); the POST of the command in progress
is or was only at the address (`PutAtAddr`); as long as the process that made a write runs, its
store has not gone back behind it (`HomeWrites`) nor behind what it told (`ToldBehind`); the write of
the command in progress is newer than what was told before (`PutAhead`). Nothing
about values is assumed: `Beats` is transitive and a process never steps back, which is
all a session sees, even where replicas disagree for good.

`FifoCalculator_proofs` holds for any width of `int`, any operations and any number of runs,
requests, attempts and kills:

* `FifoTypeCorrect`: `Spec => []TypeOK`. That the generations suffice is a count: each one
  either was opened by an interface of its own or was wasted by a kill (`KillsWaste`, `RoomForGeneration`);
* `FifoPrintsResult`: `Spec => []PrintsResult`, from the lemmas that `Wrap` is congruent and
  stays in range, that `Quotient` rounds towards zero, and that a line keeps its response
  although it leaves out a 0 (`LineKeepsResponse`);
* `FifoAnswersInTurn`: `Spec => []AnswersInTurn`, the limit of the stray answers;
* `FifoOwnAnswer`: `Spec => []OwnAnswer`: on pipes where nobody was killed waiting there are none,
  and the answer read is to the request sent last.

The invariant `Sessions` says who is where: one interface runs, the names lead to the last
generation or to the one before (`NamesLead`), and no interface is ahead of the worker (`EndsOrdered`).
`Lines` adds where lines can be. The pipes of a generation that nobody has used are empty. What is
*owed* on a generation is an answer to each interface that waits there or was killed waiting
(`Unanswered`). Each line on its way there, as a request, in the worker's scanner or as an
answer, is of a request sent there, so late that the requests behind it and the lines before it
are no more than what is owed (`Due`, `LinesDue`). A line that is read at the front therefore has
fewer requests behind it than are owed answers, and the reader is one of those: what is left
over are the interfaces killed waiting.

`BenchmarkPool_proofs` holds for any number of tasks, trials and goroutines:
`PoolTypeCorrect`, `PoolMeasuresEveryTaskOnce` and `PoolKeepsTheTrialsApart` prove the three
invariants of the run. The invariant `Pool` says that a task that was sent is in `jobs`, with one
worker or in `latencies`, once (`TasksInOnePlace`), how far `runBenchmark` is (`Progress`), and
that workers stay alive until `jobs` is closed and empty (`WorkersAlive`).

`AlertBroker_proofs` holds for any subscribers, alerts and buffers:

* `BrokerTypeCorrect`, `BrokerStreamsComplete`: `Spec => []TypeOK`, `Spec => []StreamComplete`;
* `BrokerImplementsFeed`: `Spec => ImplementsFeed`, the refinement of `AlertFeed` (feed, joined,
  shown are log, joinedAt, printed), step by step.

The invariant `Broker` has the mutual exclusion of the loops (`OneBroadcasts`), that the log
holds each alert whose loop has started once (`LogHoldsTaken`), that a connection is in the
backlog, in hand or in the map, and has carried nothing before it is in the map (`Connections`),
and what each connection still lacks: at most the alert being broadcast (`Streams`).

`VirtualMachines_proofs` holds for any requests of any size, any pages, accounts and files:

* `PinnedMemoryIsKept`: `SystemSpec => []SiloKeepsAll`, by `Memory`: one handler is between Lock
  and Unlock, the end of the silo has not moved since, and what is appended has no negative length;
* `LoginsAreJudged`, `FilesAreServed`: `SystemSpec => []LoginJudged`, `SystemSpec => []FileServed`, by
  `Served`: a reply is an error or what a disk that was held during the call says. That
  the loop of `Login` judges by the first entry of a user is the lemma `LoginJudges`;
* `SystemKeepsTheFeed`: the theorems of `AlertBroker_proofs` hold of the four machines together, whose
  steps are steps of the broker (`SystemStep`).

Every one of these inductive invariants was checked with TLC on the instance of its run before it
was proved.

Only model-checked: liveness (`PutAnswered`, `EventuallyConsistent`,
`ImplementsFairRegister`, `RequestEnds`, `Delivered`, `FollowsFeed`, `BreachReported`, `ConsumeAnswered`,
`PageAnswered`, `AllTrialsEnd`), which needs ENABLED and is out of the prover's reach.
`SameUpdatesSameValue` and `ImplementsRegister` are proved under the two assumptions above and
`LatestShown` under one of them, because without these they are false.

The named assumptions on the constants: replica ids are numbers in the order of
the Go strings (only their order is used), the set of replicas is finite, the
empty key is no key, `nil` is no entry, a mode is one of the two
`Config.validate` accepts; the operations of an interface are those its prompt accepts, on
operands of type `int`, and `MaxInt` is positive; a trial has at least one
goroutine and a benchmark at least one task; a buffer holds at least one alert, and no
subscriber is nobody; the contents of `users.json` are sequences or unreadable, a login is
not a file query, and the digest is injective.

## 5. What is not modelled

* The scenarios and the report of `orchestrate.py`, the plots, templates and static files:
  pure input and output. The commands HEALTH and HELP change nothing.
* Part 3, a stateless function of float64: its one subtle point, an infinite or NaN result
  that cannot be encoded, is about IEEE 754 numbers, which TLC does not have.
* HTTP bodies and latencies, logs, `UpdatedAt` (nothing compares it), the statistics and
  the CSV file of the benchmark.
* int64 versions do not overflow in the model: 2^63 writes of a key are out of reach.
* Replicas with different peer lists, or whose mode is changed by a restart: every
  configuration in the repository lists all the others, and the scripts change
  modes only together with a restart of all replicas.
* The 405 of a request to a replica with another method (the requests here are POST and GET
  as the client sends them), and the error of `http.Post` in the monitor, which is ignored.
* Who may see a page: `web-vm/README.md` lists `/dashboard`, `/view-file` and `/consume-memory` as
  "Authenticated Only", but `web-vm/main.go` keeps no session and checks none; a page is
  answered to whoever asks. There is no state a property could speak of, so none does.
* Two workers or two interfaces at once (the README of part 1 describes a pair of
  processes), malformed lines, failures of mkfifo.
* A broker or a web server that restarts, failures of Accept or of reading a body, a
  length of memory that is positive but more than the machine has (the process ends).
* A machine of a service that is switched off or suspended with a call in progress:
  `Call` and `http.Post` have no limit, so the handler or the goroutine waits on.

## 6. Plan

Done: everything in section 2, in the order `Store`, `Replication`, `LastWriterWins` and their
proofs, `FifoCalculator`, `AlertBroker`, `BenchmarkPool`, then `ClientSession`, `LatestShown` with
its proof, `Calculator` and the killed worker, `WebGateway`, `PageServices`, `VirtualMachines`
and `AlertFeed`; then the proofs about the session, the calculator, the pool, the broker and the
four machines. What could follow:

1. Theorems of the abstract specifications themselves: that registers of `LastWriterWins` with
   the same known writes show the same entry, and that an `AlertFeed` shows a part of its feed.
2. The conflict rule and the reused versions of the two violation runs, compared with a store that
   orders entries by `Beats` alone: what such a store would promise without `DistinctValues`.
