----------------------------- MODULE AlertBroker -----------------------------
(***************************************************************************)
(* The monitoring pipeline of Homework2/Codes: the memory monitor of the   *)
(* web server posts alerts (web-vm/main.go), the broker writes each to all *)
(* its subscribers under one mutex (pubsub-vm/broker.go), and subscribers  *)
(* print what they read from their connection (pubsub-vm/subdcriber.go).   *)
(*                                                                         *)
(* An alert is its number in the order of the monitor's ticks; its text    *)
(* does not matter.  The socket buffers between the broker and a           *)
(* subscriber are one queue of at most Room alerts.                        *)
(***************************************************************************)
EXTENDS Integers, Sequences, SequencesExt

CONSTANTS
  Subscribers, \* the subscriber processes, each started at most once
  MaxAlerts,   \* bound: the ticks that find the memory above the threshold
  Room,        \* bound: the alerts the socket buffers of a connection hold
  MayStop      \* the subscribers whose terminal may be suspended for ever

ASSUME BoundsAssumption ==
  /\ MaxAlerts \in Nat
  /\ Room \in Nat \ {0}
  /\ MayStop \subseteq Subscribers

VARIABLES
  ticks,       \* the alerts the monitor has posted are 1..ticks
  handler,     \* handler[n]: the broker's HTTP handler of alert n
  remaining,   \* remaining[n]: the connections its loop has not written to yet
  subscribers, \* the map of the broker
  backlog,     \* the connections it has not accepted yet
  listener,    \* the connection its Accept loop has in hand, if any
  process,     \* process[s]: the subscriber process
  socket,      \* socket[s]: the alerts written to its connection, not yet read
  printed,     \* printed[s]: the alerts it has printed
  log,         \* history: the alerts in the order in which their loops started
  joinedAt     \* history: the length of log when s was put in the map

vars == <<ticks, handler, remaining, subscribers, backlog, listener, process, socket,
          printed, log, joinedAt>>

Alerts == 1 .. MaxAlerts
Nobody == "nobody"

ASSUME NobodyAssumption == Nobody \notin Subscribers

\* "stopped": it keeps its connection but never reads again.  "gone": it has ended,
\* or nobody starts it.
ProcessStates == {"new", "reading", "stopped", "gone"}

\* stateMutex is held by the handler that broadcasts.
MutexFree == \A n \in Alerts : handler[n] # "broadcasting"

Init ==
  /\ ticks = 0
  /\ handler = [n \in Alerts |-> "none"]
  /\ remaining = [n \in Alerts |-> {}]
  /\ subscribers = {}
  /\ backlog = {}
  /\ listener = Nobody
  /\ process \in [Subscribers -> {"new", "gone"}]
  /\ socket = [s \in Subscribers |-> <<>>]
  /\ printed = [s \in Subscribers |-> <<>>]
  /\ log = <<>>
  /\ joinedAt = [s \in Subscribers |-> 0]

-----------------------------------------------------------------------------
\* A tick above the threshold posts an alert in a goroutine of its own, again at
\* every tick.  The goroutines are not ordered, and no tick waits for one.
Tick ==
  /\ ticks < MaxAlerts
  /\ ticks' = ticks + 1
  /\ handler' = [handler EXCEPT ![ticks + 1] = "posted"]
  /\ UNCHANGED <<remaining, subscribers, backlog, listener, process, socket,
                 printed, log, joinedAt>>

-----------------------------------------------------------------------------
(***************************************************************************)
(* handleIncomingAlerts.                                                   *)
(***************************************************************************)

\* (mutant of Lock) the loop runs without the mutex.
LockNothing(n) ==
  /\ handler[n] = "posted"
  /\ handler' = [handler EXCEPT ![n] = "broadcasting"]
  /\ remaining' = [remaining EXCEPT ![n] = subscribers]
  /\ log' = Append(log, n)
  /\ UNCHANGED <<ticks, subscribers, backlog, listener, process,
                 socket, printed, joinedAt>>

\* The body is read and the mutex taken: the loop over the map begins.
Lock(n) ==
  /\ handler[n] = "posted"
  /\ MutexFree
  /\ handler' = [handler EXCEPT ![n] = "broadcasting"]
  /\ remaining' = [remaining EXCEPT ![n] = subscribers]
  /\ log' = Append(log, n)
  /\ UNCHANGED <<ticks, subscribers, backlog, listener, process,
                 socket, printed, joinedAt>>

\* (mutant of Write) an alert that does not fit is dropped.
WriteOrDrop(n, s) ==
  /\ s \in remaining[n]
  /\ process[s] # "gone"
  /\ remaining' = [remaining EXCEPT ![n] = @ \ {s}]
  /\ socket' = [socket EXCEPT ![s] = IF Len(@) < Room THEN Append(@, n) ELSE @]
  /\ UNCHANGED <<ticks, handler, subscribers, backlog, listener, process,
                 printed, log, joinedAt>>

\* conn.Write returns when the alert fits in the buffers, whoever reads them.
Write(n, s) ==
  /\ s \in remaining[n]
  /\ process[s] # "gone"
  /\ Len(socket[s]) < Room
  /\ remaining' = [remaining EXCEPT ![n] = @ \ {s}]
  /\ socket' = [socket EXCEPT ![s] = Append(@, n)]
  /\ UNCHANGED <<ticks, handler, subscribers, backlog, listener, process,
                 printed, log, joinedAt>>

\* The first writes to a connection whose peer is gone may still succeed.
WriteUnnoticed(n, s) ==
  /\ s \in remaining[n]
  /\ process[s] = "gone"
  /\ remaining' = [remaining EXCEPT ![n] = @ \ {s}]
  /\ UNCHANGED <<ticks, handler, subscribers, backlog, listener, process, socket,
                 printed, log, joinedAt>>

\* (mutant of Purge) an error ends the loop.
PurgeAndReturn(n, s) ==
  /\ s \in remaining[n]
  /\ process[s] = "gone"
  /\ remaining' = [remaining EXCEPT ![n] = {}]
  /\ subscribers' = subscribers \ {s}
  /\ UNCHANGED <<ticks, handler, backlog, listener, process, socket,
                 printed, log, joinedAt>>

\* Write fails: the connection is closed and deleted, and the loop goes on.
Purge(n, s) ==
  /\ s \in remaining[n]
  /\ process[s] = "gone"
  /\ remaining' = [remaining EXCEPT ![n] = @ \ {s}]
  /\ subscribers' = subscribers \ {s}
  /\ UNCHANGED <<ticks, handler, backlog, listener, process, socket,
                 printed, log, joinedAt>>

\* The loop is over: 200, and the deferred Unlock.
Unlock(n) ==
  /\ handler[n] = "broadcasting"
  /\ remaining[n] = {}
  /\ handler' = [handler EXCEPT ![n] = "answered"]
  /\ UNCHANGED <<ticks, remaining, subscribers, backlog, listener, process, socket,
                 printed, log, joinedAt>>

-----------------------------------------------------------------------------
(***************************************************************************)
(* startSubscriberListener.                                                *)
(***************************************************************************)
Accept(s) ==
  /\ listener = Nobody
  /\ s \in backlog
  /\ listener' = s
  /\ backlog' = backlog \ {s}
  /\ UNCHANGED <<ticks, handler, remaining, subscribers, process, socket,
                 printed, log, joinedAt>>

\* Lock, write the map, Unlock.
Register(s) ==
  /\ listener = s
  /\ MutexFree
  /\ listener' = Nobody
  /\ subscribers' = subscribers \cup {s}
  /\ joinedAt' = [joinedAt EXCEPT ![s] = Len(log)]
  /\ UNCHANGED <<ticks, handler, remaining, backlog, process, socket, printed, log>>

-----------------------------------------------------------------------------
(***************************************************************************)
(* The subscriber.                                                         *)
(***************************************************************************)
\* The kernel completes the connection; the broker accepts it later.
Dial(s) ==
  /\ process[s] = "new"
  /\ process' = [process EXCEPT ![s] = "reading"]
  /\ backlog' = backlog \cup {s}
  /\ UNCHANGED <<ticks, handler, remaining, subscribers, listener, socket,
                 printed, log, joinedAt>>

ReadString(s) ==
  /\ process[s] = "reading"
  /\ socket[s] # <<>>
  /\ printed' = [printed EXCEPT ![s] = Append(@, Head(socket[s]))]
  /\ socket' = [socket EXCEPT ![s] = Tail(@)]
  /\ UNCHANGED <<ticks, handler, remaining, subscribers, backlog, listener,
                 process, log, joinedAt>>

\* The process is stopped but keeps its connection, or ends and loses it.
Stop(s) ==
  /\ process[s] = "reading"
  /\ process' = [process EXCEPT ![s] = IF s \in MayStop THEN "stopped" ELSE "gone"]
  /\ UNCHANGED <<ticks, handler, remaining, subscribers, backlog, listener, socket,
                 printed, log, joinedAt>>

-----------------------------------------------------------------------------
Handle(n) ==
  \/ Lock(n)
  \/ \E s \in Subscribers : Write(n, s) \/ WriteUnnoticed(n, s) \/ Purge(n, s)
  \/ Unlock(n)

Listen(s) == Accept(s) \/ Register(s)

Next ==
  \/ Tick
  \/ \E n \in Alerts : Handle(n)
  \/ \E s \in Subscribers : Listen(s) \/ Dial(s) \/ ReadString(s) \/ Stop(s)

Spec == Init /\ [][Next]_vars

\* The broker's goroutines run, its mutex serves those who wait, and a subscriber
\* that is not stopped reads.  Ticks, starts and ends of subscribers just happen.
FairSpec ==
  /\ Spec
  /\ \A n \in Alerts : WF_vars(Handle(n))
  /\ \A s \in Subscribers : WF_vars(Listen(s)) /\ WF_vars(ReadString(s))

-----------------------------------------------------------------------------
(***************************************************************************)
(* Properties.                                                             *)
(***************************************************************************)

\* Every variable has its type, and a broadcast loop only has registered
\* connections left to write to.
TypeOK ==
  /\ ticks \in 0 .. MaxAlerts
  /\ handler \in [Alerts -> {"none", "posted", "broadcasting", "answered"}]
  /\ remaining \in [Alerts -> SUBSET subscribers]
  /\ subscribers \subseteq Subscribers
  /\ backlog \subseteq Subscribers
  /\ listener \in Subscribers \cup {Nobody}
  /\ process \in [Subscribers -> ProcessStates]
  /\ socket \in [Subscribers -> Seq(Alerts)]
  /\ \A s \in Subscribers : Len(socket[s]) <= Room
  /\ printed \in [Subscribers -> Seq(Alerts)]
  /\ log \in Seq(Alerts)
  /\ joinedAt \in [Subscribers -> 0 .. MaxAlerts]

\* What was written to a live connection: no alert since it joined is missing,
\* repeated or out of the broker's order, but for the one being broadcast.
StreamComplete ==
  \A s \in subscribers : process[s] # "gone" =>
    LET written == printed[s] \o socket[s]
        since   == SubSeq(log, joinedAt[s] + 1, Len(log))
        late    == \E n \in Alerts : s \in remaining[n]
    IN  written = IF late THEN Front(since) ELSE since

\* "Duplicating and delivering incoming ingestion streams down to consumers
\* immediately" (pubsub-vm/README.md): a registered subscriber that keeps reading
\* prints every alert posted from then on, whatever other subscribers do.
Delivered ==
  \A s \in Subscribers, n \in Alerts :
    s \in subscribers /\ handler[n] = "posted"
      ~> n \in ToSet(printed[s]) \/ process[s] \in {"stopped", "gone"}

Feed == INSTANCE AlertFeed WITH
  feed <- log, joined <- joinedAt, shown <- printed,
  present <- {s \in subscribers : process[s] = "reading"}

\* Every step of the pipeline is an alert taken, a subscriber that comes, leaves or
\* shows the next alert of the common feed, or invisible.
ImplementsFeed == Feed!Spec

\* A subscriber that stays and reads shows every alert of the feed.
FollowsFeed == Feed!Fairness

=============================================================================
