--------------------------- MODULE FifoCalculator ---------------------------
(***************************************************************************)
(* The calculator of Homework1/Codes/part1: a worker process and interface *)
(* processes that talk over two named pipes.  The worker removes and makes *)
(* both pipes again for every session; an interface opens them by name.    *)
(*                                                                         *)
(* A pair of pipes is a generation, numbered in the order of mkfifo.  A    *)
(* removed pipe lives on for the processes that have opened it.  A line is *)
(* the request it carries or answers; module Calculator says what the line *)
(* of an answer holds.  The worker may be killed and started again, and the*)
(* user starts an interface only when no other is running, as in the       *)
(* README.                                                                 *)
(***************************************************************************)
EXTENDS Calculator, Sequences, FiniteSets

CONSTANTS
  Runs,        \* bound: how many times the user runs interface.go
  MaxRequests, \* bound: the operations a user types in one run
  MaxAttempts, \* maxRetries of connect_to_pipes
  MayBeKilled, \* whether the user may kill an interface
  WorkerKills, \* bound: how many times the worker may be killed
  OperationOf  \* request -> the operation and operands the user types

ASSUME BoundsAssumption ==
  /\ Runs \in Nat
  /\ MaxRequests \in Nat
  /\ MaxAttempts \in Nat \ {0}
  /\ MayBeKilled \in BOOLEAN
  /\ WorkerKills \in Nat

VARIABLES
  kills,   \* how many times the worker was killed
  worker,  \* where the worker is in main and create_pipes
  gen,     \* the generation of pipes the worker has made last
  reqPath, \* the generation the name of the request pipe leads to, 0 if none
  resPath, \* the same for the response pipe
  reqBuf,  \* reqBuf[g]: the lines in the request pipe of generation g
  resBuf,  \* resBuf[g]: the lines in the response pipe of generation g
  lines,   \* the lines the worker's scanner holds, the one it works on first
  iface,   \* iface[i]: where interface i is in main and connect_to_pipes
  tried,   \* tried[i]: its failed attempts to open the request pipe
  reqEnd,  \* reqEnd[i]: the generation of the request pipe it opened, 0 if none
  resEnd,  \* resEnd[i]: the same for the response pipe
  replies, \* replies[i]: the lines its scanner holds
  asked,   \* asked[i]: the number of requests it has sent
  answer,  \* answer[i]: the request whose answer it printed last
  printed  \* printed[i]: that answer, as it was decoded

pipes == <<gen, reqPath, resPath>>
local == <<tried, reqEnd, resEnd, replies, asked, answer, printed>>
vars == <<kills, worker, pipes, reqBuf, resBuf, lines, iface, local>>

\* The runs of interface.go, in the order in which the user starts them.
Interfaces == 1 .. Runs

\* A session ends when an interface that opened its pipes has ended, or the worker.
Generations == 1 .. (Runs + 1 + WorkerKills)

NoRequest == <<>>
RequestIds == Interfaces \X (1 .. MaxRequests)

ASSUME OperationAssumption == OperationOf \in [RequestIds -> Request]

\* Blocked in open: "awaitWriter" and "awaitReader" (the worker), "awaitRequests"
\* and "awaitResponses" (an interface).
WorkerPoints ==
  {"removeReq", "removeRes", "makeReq", "makeRes", "openReq", "awaitWriter",
   "openRes", "awaitReader", "read", "respond", "closeReq", "closeRes", "down"}
InterfacePoints ==
  {"new", "openReq", "awaitRequests", "openRes", "awaitResponses", "idle", "waiting",
   "exited", "killed", "killedWaiting"}

Running(i) == iface[i] \notin {"new", "exited", "killed", "killedWaiting"}

\* open on a FIFO counts its caller from the moment it is called and returns as
\* soon as the other side has been there.
Writers(g) == {i \in Interfaces : Running(i) /\ reqEnd[i] = g}
Readers(g) == {i \in Interfaces : Running(i) /\ resEnd[i] = g}

WorkerReads(g) ==
  gen = g /\ worker \in {"awaitWriter", "openRes", "awaitReader", "read", "respond", "closeReq"}

\* (mutant of WorkerWrites) the worker never closes the response pipe.
WorkerWritesLeak(g) ==
  \/ gen = g /\ worker \in {"awaitReader", "read", "respond", "closeReq", "closeRes",
                             "removeReq", "removeRes", "makeReq"}
  \/ gen > g

WorkerWrites(g) ==
  gen = g /\ worker \in {"awaitReader", "read", "respond", "closeReq", "closeRes"}

Init ==
  /\ kills = 0
  /\ worker = "removeReq"
  /\ gen = 0 /\ reqPath = 0 /\ resPath = 0
  /\ reqBuf = [g \in Generations |-> <<>>]
  /\ resBuf = [g \in Generations |-> <<>>]
  /\ lines = <<>>
  /\ iface   = [i \in Interfaces |-> "new"]
  /\ tried   = [i \in Interfaces |-> 0]
  /\ reqEnd  = [i \in Interfaces |-> 0]
  /\ resEnd  = [i \in Interfaces |-> 0]
  /\ replies = [i \in Interfaces |-> <<>>]
  /\ asked   = [i \in Interfaces |-> 0]
  /\ answer  = [i \in Interfaces |-> NoRequest]
  /\ printed = [i \in Interfaces |-> ZeroResponse]

-----------------------------------------------------------------------------
(***************************************************************************)
(* The worker: create_pipes.                                               *)
(***************************************************************************)
WorkerAt(here, there) == worker = here /\ worker' = there

RemoveReq ==
  /\ WorkerAt("removeReq", "removeRes")
  /\ reqPath' = 0
  /\ UNCHANGED <<gen, resPath, reqBuf, resBuf, lines, iface, local>>

RemoveRes ==
  /\ WorkerAt("removeRes", "makeReq")
  /\ resPath' = 0
  /\ UNCHANGED <<gen, reqPath, reqBuf, resBuf, lines, iface, local>>

MakeReq ==
  /\ WorkerAt("makeReq", "makeRes")
  /\ gen' = gen + 1
  /\ reqPath' = gen + 1
  /\ UNCHANGED <<resPath, reqBuf, resBuf, lines, iface, local>>

MakeRes ==
  /\ WorkerAt("makeRes", "openReq")
  /\ resPath' = gen
  /\ UNCHANGED <<gen, reqPath, reqBuf, resBuf, lines, iface, local>>

\* The interfaces blocked in here with the worker's new pipe open go on to there.
Release(ends, here, there) ==
  iface' = [i \in Interfaces |-> IF iface[i] = here /\ ends[i] = gen THEN there ELSE iface[i]]

WorkerOpenReq ==
  /\ worker = "openReq"
  /\ worker' = IF Writers(gen) = {} THEN "awaitWriter" ELSE "openRes"
  /\ Release(reqEnd, "awaitRequests", "openRes")
  /\ UNCHANGED <<pipes, reqBuf, resBuf, lines, local>>

\* The new session has a new scanner.
WorkerOpenRes ==
  /\ worker = "openRes"
  /\ worker' = IF Readers(gen) = {} THEN "awaitReader" ELSE "read"
  /\ lines' = <<>>
  /\ Release(resEnd, "awaitResponses", "idle")
  /\ UNCHANGED <<pipes, reqBuf, resBuf, local>>

(***************************************************************************)
(* The worker: a session.                                                  *)
(***************************************************************************)

\* The scanner has a line left, or reads all the pipe holds.
ReadRequest ==
  /\ WorkerAt("read", "respond")
  /\ IF lines # <<>>
     THEN UNCHANGED <<lines, reqBuf>>
     ELSE /\ reqBuf[gen] # <<>>
          /\ lines' = reqBuf[gen]
          /\ reqBuf' = [reqBuf EXCEPT ![gen] = <<>>]
  /\ UNCHANGED <<pipes, resBuf, iface, local>>

\* End of file: the pipe is empty and nobody has it open for writing.
ReadEndOfFile ==
  /\ WorkerAt("read", "closeReq")
  /\ lines = <<>> /\ reqBuf[gen] = <<>>
  /\ Writers(gen) = {}
  /\ UNCHANGED <<pipes, reqBuf, resBuf, lines, iface, local>>

Respond ==
  /\ WorkerAt("respond", "read")
  /\ Readers(gen) # {}
  /\ resBuf' = [resBuf EXCEPT ![gen] = Append(@, Head(lines))]
  /\ lines' = Tail(lines)
  /\ UNCHANGED <<pipes, reqBuf, iface, local>>

\* EPIPE: nobody has the response pipe open for reading.
RespondBrokenPipe ==
  /\ WorkerAt("respond", "closeReq")
  /\ Readers(gen) = {}
  /\ lines' = Tail(lines)
  /\ UNCHANGED <<pipes, reqBuf, resBuf, iface, local>>

CloseReq ==
  /\ WorkerAt("closeReq", "closeRes")
  /\ UNCHANGED <<pipes, reqBuf, resBuf, lines, iface, local>>

CloseRes ==
  /\ WorkerAt("closeRes", "removeReq")
  /\ UNCHANGED <<pipes, reqBuf, resBuf, lines, iface, local>>

\* The process ends: its ends of the pipes are closed, what its scanner held is
\* gone, and the pipes stay where they are.
KillWorker ==
  /\ kills < WorkerKills
  /\ worker # "down"
  /\ kills' = kills + 1
  /\ worker' = "down"
  /\ lines' = <<>>
  /\ UNCHANGED <<pipes, reqBuf, resBuf, iface, local>>

\* main again: the first session removes what the last worker left.
StartWorker ==
  /\ WorkerAt("down", "removeReq")
  /\ UNCHANGED <<kills, pipes, reqBuf, resBuf, lines, iface, local>>

-----------------------------------------------------------------------------
(***************************************************************************)
(* An interface: connect_to_pipes.                                         *)
(***************************************************************************)
At(i, here, there) == iface[i] = here /\ iface' = [iface EXCEPT ![i] = there]

Start(i) ==
  /\ \A j \in Interfaces : ~Running(j) /\ (j < i => iface[j] # "new")
  /\ At(i, "new", "openReq")
  /\ UNCHANGED <<worker, pipes, reqBuf, resBuf, lines, local>>

\* (mutant of OpenReqFails) tries again for ever.
OpenReqFailsForever(i) ==
  /\ reqPath = 0
  /\ At(i, "openReq", "openReq")
  /\ tried' = [tried EXCEPT ![i] = @ + 1]
  /\ UNCHANGED <<worker, pipes, reqBuf, resBuf, lines, reqEnd, resEnd, replies, asked, answer, printed>>

\* No such file: try again later, at most MaxAttempts times.
OpenReqFails(i) ==
  /\ reqPath = 0
  /\ At(i, "openReq", IF tried[i] + 1 = MaxAttempts THEN "exited" ELSE "openReq")
  /\ tried' = [tried EXCEPT ![i] = @ + 1]
  /\ UNCHANGED <<worker, pipes, reqBuf, resBuf, lines, reqEnd, resEnd, replies, asked, answer, printed>>

OpenReq(i) ==
  /\ reqPath # 0
  /\ At(i, "openReq", IF WorkerReads(reqPath) THEN "openRes" ELSE "awaitRequests")
  /\ reqEnd' = [reqEnd EXCEPT ![i] = reqPath]
  /\ worker' = IF worker = "awaitWriter" /\ gen = reqPath THEN "openRes" ELSE worker
  /\ UNCHANGED <<pipes, reqBuf, resBuf, lines, tried, resEnd, replies, asked, answer, printed>>

\* No such file: log.Fatalf.
OpenResFails(i) ==
  /\ resPath = 0
  /\ At(i, "openRes", "exited")
  /\ UNCHANGED <<worker, pipes, reqBuf, resBuf, lines, local>>

OpenRes(i) ==
  /\ resPath # 0
  /\ At(i, "openRes", IF WorkerWrites(resPath) THEN "idle" ELSE "awaitResponses")
  /\ resEnd' = [resEnd EXCEPT ![i] = resPath]
  /\ IF worker = "awaitReader" /\ gen = resPath
     THEN worker' = "read" /\ lines' = <<>>
     ELSE UNCHANGED <<worker, lines>>
  /\ UNCHANGED <<pipes, reqBuf, resBuf, tried, reqEnd, replies, asked, answer, printed>>

(***************************************************************************)
(* An interface: the loop of main.                                         *)
(***************************************************************************)

\* The user types a valid operation; the others are asked for again.
SendRequest(i) ==
  /\ At(i, "idle", "waiting")
  /\ asked[i] < MaxRequests
  /\ WorkerReads(reqEnd[i])
  /\ asked' = [asked EXCEPT ![i] = @ + 1]
  /\ reqBuf' = [reqBuf EXCEPT ![reqEnd[i]] = Append(@, <<i, asked[i] + 1>>)]
  /\ UNCHANGED <<worker, pipes, resBuf, lines, tried, reqEnd, resEnd, replies, answer, printed>>

\* EPIPE: the worker has closed the request pipe.
SendBrokenPipe(i) ==
  /\ At(i, "idle", "exited")
  /\ asked[i] < MaxRequests
  /\ ~WorkerReads(reqEnd[i])
  /\ UNCHANGED <<worker, pipes, reqBuf, resBuf, lines, local>>

\* (mutant of ReadResponse) gives up when no answer has come yet, and asks again.
ReadResponseDeadline(i) ==
  /\ At(i, "waiting", "idle")
  /\ LET held == resBuf[resEnd[i]]
     IN  answer' = IF held = <<>> THEN answer ELSE [answer EXCEPT ![i] = Head(held)]
  /\ resBuf' = [resBuf EXCEPT ![resEnd[i]] = IF @ = <<>> THEN @ ELSE Tail(@)]
  /\ UNCHANGED <<worker, pipes, reqBuf, lines, tried, reqEnd, resEnd, replies, asked, printed>>

\* One line of the scanner is taken for the answer.
ReadResponse(i) ==
  /\ At(i, "waiting", "idle")
  /\ LET held == IF replies[i] # <<>> THEN replies[i] ELSE resBuf[resEnd[i]]
     IN  /\ held # <<>>
         /\ answer' = [answer EXCEPT ![i] = Head(held)]
         /\ LET line == Marshal(process_operation_req(OperationOf[Head(held)]))
            IN  printed' = [printed EXCEPT ![i] = Received(line, @)]
         /\ replies' = [replies EXCEPT ![i] = Tail(held)]
  /\ resBuf' = IF replies[i] # <<>> THEN resBuf ELSE [resBuf EXCEPT ![resEnd[i]] = <<>>]
  /\ UNCHANGED <<worker, pipes, reqBuf, lines, tried, reqEnd, resEnd, asked>>

\* End of file: the pipe is empty and the worker has closed it.
ResponseEndOfFile(i) ==
  /\ At(i, "waiting", "exited")
  /\ replies[i] = <<>> /\ resBuf[resEnd[i]] = <<>>
  /\ ~WorkerWrites(resEnd[i])
  /\ UNCHANGED <<worker, pipes, reqBuf, resBuf, lines, local>>

\* The user types exit.
Exit(i) ==
  /\ At(i, "idle", "exited")
  /\ UNCHANGED <<worker, pipes, reqBuf, resBuf, lines, local>>

\* The user stops the process, whatever it is doing.
Kill(i) ==
  /\ MayBeKilled
  /\ Running(i)
  /\ iface' = [iface EXCEPT ![i] = IF @ = "waiting" THEN "killedWaiting" ELSE "killed"]
  /\ UNCHANGED <<worker, pipes, reqBuf, resBuf, lines, local>>

-----------------------------------------------------------------------------
Worker ==
  /\ \/ RemoveReq \/ RemoveRes \/ MakeReq \/ MakeRes
     \/ WorkerOpenReq \/ WorkerOpenRes
     \/ ReadRequest \/ ReadEndOfFile \/ Respond \/ RespondBrokenPipe
     \/ CloseReq \/ CloseRes
  /\ UNCHANGED kills

\* What an interface does by itself, and what its user does.
Interface(i) ==
  /\ \/ OpenReqFails(i) \/ OpenReq(i) \/ OpenResFails(i) \/ OpenRes(i)
     \/ ReadResponse(i) \/ ResponseEndOfFile(i)
  /\ UNCHANGED kills

User(i) ==
  /\ Start(i) \/ SendRequest(i) \/ SendBrokenPipe(i) \/ Exit(i) \/ Kill(i)
  /\ UNCHANGED kills

Next ==
  \/ Worker \/ KillWorker \/ StartWorker
  \/ \E i \in Interfaces : Interface(i) \/ User(i)

Spec == Init /\ [][Next]_vars

\* Both programs run; users do what they like, and nobody has to start the worker.
FairSpec == Spec /\ WF_vars(Worker) /\ \A i \in Interfaces : WF_vars(Interface(i))

-----------------------------------------------------------------------------
(***************************************************************************)
(* Properties.                                                             *)
(***************************************************************************)

\* Every variable has its type; the worker never makes more pairs of pipes than
\* there were sessions, so no restart of the pipes is idle.
TypeOK ==
  /\ kills \in 0 .. WorkerKills
  /\ worker \in WorkerPoints
  /\ {gen, reqPath, resPath} \subseteq Generations \cup {0}
  /\ reqBuf \in [Generations -> Seq(RequestIds)]
  /\ resBuf \in [Generations -> Seq(RequestIds)]
  /\ lines \in Seq(RequestIds)
  /\ iface \in [Interfaces -> InterfacePoints]
  /\ tried \in [Interfaces -> 0 .. MaxAttempts]
  /\ reqEnd \in [Interfaces -> Generations \cup {0}]
  /\ resEnd \in [Interfaces -> Generations \cup {0}]
  /\ replies \in [Interfaces -> Seq(RequestIds)]
  /\ asked \in [Interfaces -> 0 .. MaxRequests]
  /\ answer \in [Interfaces -> RequestIds \cup {NoRequest}]
  /\ printed \in [Interfaces -> Response]

\* Interfaces run one after the other, so this is the order of writing.
Precedes(a, b) == a[1] < b[1] \/ (a[1] = b[1] /\ a[2] < b[2])

\* The requests written to the pipes of generation g, and those after request a.
SentOn(g) == {b \in RequestIds : reqEnd[b[1]] = g /\ b[2] <= asked[b[1]]}
SentAfter(g, a) == {b \in SentOn(g) : Precedes(a, b)}

\* The interfaces that had a request without an answer on g when they were killed.
KilledWaiting(g) == {j \in Interfaces : iface[j] = "killedWaiting" /\ reqEnd[j] = g}

\* Nothing on a line says whose answer it is.  An interface that has read an answer
\* has read one to a request on its own pipes, never one left by an older session,
\* and is behind by at most the answers the interfaces killed on these pipes did not
\* wait for.  Where there were none, the answer is its own, whatever else is killed;
\* where there was one, the code prints the answer of the dead to the living.
AnswersInTurn ==
  \A i \in Interfaces : LET g == reqEnd[i] IN
    iface[i] = "idle" /\ answer[i] # NoRequest =>
      /\ answer[i] \in SentOn(g)
      /\ Cardinality(SentAfter(g, answer[i])) <= Cardinality(KilledWaiting(g))

\* The result printed is that of the operation in the request, at the edges of int
\* and when the line of the answer leaves the result out.
PrintsResult ==
  \A i \in Interfaces :
    answer[i] # NoRequest => IsAnswer(OperationOf[answer[i]], printed[i])

\* A request sent is answered or the interface learns that the connection is lost,
\* even when it got hold of pipes the worker was about to close.
RequestEnds ==
  \A i \in Interfaces : iface[i] = "waiting" ~> iface[i] # "waiting"

\* "Interfaces can connect again" (README.md): an interface that starts while the
\* worker runs gets a session or gives up.
ConnectionEnds ==
  \A i \in Interfaces :
    iface[i] = "openReq" ~> iface[i] \in {"idle", "exited", "killed"}

=============================================================================
