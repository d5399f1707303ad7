----------------------------- MODULE WebGateway -----------------------------
(***************************************************************************)
(* The memory that Homework2/Codes/web-vm/main.go pins on request, and the *)
(* monitor that watches it, over the monitoring pipeline of AlertBroker.   *)
(*                                                                         *)
(* Memory is counted in megabytes.  A length of mb*1024*1024 bytes in an   *)
(* int of 64 bits is a signed number of 44 bits of megabytes; MaxLength    *)
(* stands for the largest, 2^43 - 1.  The lengths a request may ask for fit*)
(* in the machine, or are negative.                                        *)
(***************************************************************************)
EXTENDS AlertBroker

CONSTANTS
  Consumers, \* the requests to /consume-memory, each sent at most once
  MB,        \* MB[c]: the number in the request of c, 0 if it is not a positive one
  MaxLength, \* the largest length, counted in megabytes
  Threshold  \* the megabytes above which the monitor posts alerts

ASSUME GatewayAssumption ==
  /\ MB \in [Consumers -> Nat]
  /\ MaxLength \in Nat
  /\ Threshold \in Nat

VARIABLES
  silo,    \* the length of memoryLeakSilo
  consume, \* consume[c]: the handler of the request of c
  base     \* base[c]: the length its append started from

gateway == <<silo, consume, base>>
gatewayVars == <<vars, gateway>>

\* mb*1024*1024, in megabytes.
Length(c) == ((MB[c] + MaxLength + 1) % (2 * (MaxLength + 1))) - (MaxLength + 1)

\* What the append of c puts into the silo: the places of its megabytes.
Piece(c) == base[c] .. base[c] + Length(c) - 1

\* stateMutex of the web server: a handler that panics does not release it.
SiloFree == \A c \in Consumers : consume[c] \notin {"filling", "panicked"}

Panicked == \E c \in Consumers : consume[c] = "panicked"

Breached == silo > Threshold

\* "never": nobody sends the request.
InitGateway ==
  /\ Init
  /\ silo = 0
  /\ consume \in [Consumers -> {"none", "never"}]
  /\ base = [c \in Consumers |-> 0]

-----------------------------------------------------------------------------
(***************************************************************************)
(* handleConsumeMemory.                                                    *)
(***************************************************************************)

\* The request comes in; one without a positive number is answered at once.
Consume(c) ==
  /\ consume[c] = "none"
  /\ consume' = [consume EXCEPT ![c] = IF MB[c] = 0 THEN "refused" ELSE "locking"]
  /\ UNCHANGED <<vars, silo, base>>

\* (mutant of Allocate) the handlers share the slice without the mutex.
AllocateUnlocked(c) ==
  /\ consume[c] = "locking"
  /\ consume' = [consume EXCEPT ![c] = IF Length(c) < 0 THEN "panicked" ELSE "filling"]
  /\ base' = [base EXCEPT ![c] = silo]
  /\ UNCHANGED <<vars, silo>>

\* The mutex is taken and make is called: it panics on a negative length, and
\* net/http recovers.
Allocate(c) ==
  /\ consume[c] = "locking"
  /\ SiloFree
  /\ consume' = [consume EXCEPT ![c] = IF Length(c) < 0 THEN "panicked" ELSE "filling"]
  /\ base' = [base EXCEPT ![c] = silo]
  /\ UNCHANGED <<vars, silo>>

\* (mutant of Pin) an empty allocation is not appended and keeps the mutex.
PinNonEmpty(c) ==
  /\ consume[c] = "filling"
  /\ Length(c) > 0
  /\ silo' = base[c] + Length(c)
  /\ consume' = [consume EXCEPT ![c] = "answered"]
  /\ UNCHANGED <<vars, base>>

\* The silo is what it was with the new bytes behind it; Unlock, and the answer.
Pin(c) ==
  /\ consume[c] = "filling"
  /\ silo' = base[c] + Length(c)
  /\ consume' = [consume EXCEPT ![c] = "answered"]
  /\ UNCHANGED <<vars, base>>

(***************************************************************************)
(* startMemoryMonitor.                                                     *)
(***************************************************************************)

\* (mutant of MonitorTick) waits for the mutex to read the length of the silo.
MonitorTickLocked == Tick /\ Breached /\ SiloFree /\ UNCHANGED gateway

\* The heap holds the silo and besides it what is being filled, spare capacity and
\* what the collector has not freed: once something was allocated, a tick may find
\* it above the threshold, and it does when the silo alone is.
MonitorTick ==
  /\ Breached \/ \E c \in Consumers : consume[c] \in {"filling", "answered"} /\ Length(c) > 0
  /\ Tick
  /\ UNCHANGED gateway

-----------------------------------------------------------------------------
HandleConsume(c) == Allocate(c) \/ Pin(c)

\* The rest of the pipeline.
Pipeline ==
  /\ \/ \E n \in Alerts : Handle(n)
     \/ \E s \in Subscribers : Listen(s) \/ Dial(s) \/ ReadString(s) \/ Stop(s)
  /\ UNCHANGED gateway

NextGateway ==
  \/ MonitorTick \/ Pipeline
  \/ \E c \in Consumers : Consume(c) \/ HandleConsume(c)

\* The broker and its subscribers run as in AlertBroker.  Every tick finds the heap
\* above the threshold while the silo is, and a handler that can go on does.
GatewayFairness ==
  /\ WF_gatewayVars(MonitorTick /\ Breached)
  /\ \A n \in Alerts : WF_gatewayVars(Handle(n) /\ UNCHANGED gateway)
  /\ \A s \in Subscribers :
       /\ WF_gatewayVars(Listen(s) /\ UNCHANGED gateway)
       /\ WF_gatewayVars(ReadString(s) /\ UNCHANGED gateway)
  /\ \A c \in Consumers : WF_gatewayVars(HandleConsume(c))

-----------------------------------------------------------------------------
(***************************************************************************)
(* Properties.                                                             *)
(***************************************************************************)

\* "Appended directly to a globally pinned matrix variable" (web-vm/README.md): no
\* request that was answered has lost its memory to another at the same time.  Each
\* has a piece of the silo to itself, and the silo is those pieces.
SiloKeepsAll ==
  LET answered == {c \in Consumers : consume[c] = "answered"}
  IN  /\ UNION {Piece(c) : c \in answered} = 0 .. silo - 1
      /\ \A c, d \in answered : c # d => Piece(c) \cap Piece(d) = {}

\* "A structured level-triggered warning" (web-vm/README.md): while the pinned
\* memory is above the threshold, a subscriber that is registered and goes on
\* reading prints every further alert, even when a handler died with the mutex.
BreachReported ==
  \A s \in Subscribers, n \in Alerts :
    Breached /\ s \in subscribers /\ ticks < n
      ~> n \in ToSet(printed[s]) \/ process[s] \in {"stopped", "gone"}

\* A request is answered unless the allocation of some request has panicked.
ConsumeAnswered ==
  \A c \in Consumers : consume[c] = "locking" ~> consume[c] = "answered" \/ Panicked

=============================================================================
